# SimpleHostMan in TLA+

SimpleHostMan manages a small fleet of Linux hosts. Operators edit a *desired state* (tenants,
nodes, zones, apps, databases, mail) in PostgreSQL; a worker compares it with what was sent to the
nodes and inserts *jobs*; an agent on each node claims its jobs over HTTP, applies them and reports.
These modules model that control loop, the stores behind it, the drivers that apply the jobs and the
services around them: TLC checks them on small instances, TLAPS proves the main safety properties
for every instance.

Paths below are relative to the repository root. `OPS`, `AUTH`, `SPEC`, `HELP` stand for
`packages/control-database/src/control-plane-store-{operations,auth,spec,helpers}.ts`, `AGENT` for
`apps/agent/src/index.ts`, and `DRIVERS` for `packages/agent-drivers/src/index.ts`.

## 1. Inventory

### Parts, their state, and what makes them correct

| part | state | operations | correct when |
|---|---|---|---|
| Job table (`OPS`, `AUTH`) | `control_plane_jobs`, `control_plane_job_results` | `insertDispatchedJobs`, `claimJobs`, `reportJob`, `purgeOperationalHistoryRows`; the reads `shouldDispatchQueuedJob`, `createResourceDriftSummary` | a job is claimed at most once at a time, only reclaimable kinds twice; a result is real; the purge changes no decision |
| Node agent (`AGENT`, `packages/agent-runtime-config`) | `job-spool/`, `report-buffer/`, the cycle in memory | flush, claim, spool, execute, buffer, deliver | nothing that ran is forgotten; nothing recorded runs again; every report arrives |
| Reconciliation and dispatch (`OPS`, `apps/worker`) | the transactions in flight | `runReconciliationCycle`, `dispatchZoneSync`, `dispatchAppReconcile`, `dispatchDatabaseReconcile`, `updateDdnsHost` | what is inserted is still needed; drift clears; hosts converge |
| Desired state store (`SPEC`) | 20-odd tables, written as one specification | ten mail edits, export, apply | the stored state is valid; an edit does what it says and nothing else; credentials stay whole; an apply stores what it was given |
| Plan builders (`SPEC` 1355-1640, `OPS` 1450-2417) | none: functions of the rows | `buildZoneRecords`, `buildMailPayloadForNode`, `buildProxyPayloads...`, `buildContainer...`, `buildDatabasePayload` | plans made from different queries agree |
| Drift cache (`OPS` 2418-2567) | one cache entry in the API process | load, refresh, settle, reject, invalidate | the view becomes current; refreshes do not pile up |
| Dynamic DNS (`OPS` 2570-2970) | `ddns` hosts, zone records | `updateDdnsHost`, host administration | the zone's job follows the address |
| Node enrollment (`AUTH` 625-704) | node credentials, `node-identity.json` | `registerNode` | an enrolled agent is never locked out |
| Users and sessions (`AUTH`, `apps/control/api/src/api-auth-routes.ts`) | users, sessions, memberships | login, logout, expiry, role checks | an ended session is of no use |
| Mailbox reveals (`SPEC` 489, 2543-2610) | single-use reveal rows | create, consume, expire | a password is shown once |
| Package inventory (`reportJob`, `AUTH` 803-942) | inventory rows of a node | replaced by a package job's report | the newest report wins |
| Migrations (`packages/control-database/src/migrations.ts`) | `control_plane_migrations` | apply in order | each applied once |
| Drivers and renderers (`DRIVERS`, `packages/agent-renderers`) | files, databases and services on the host | one driver per job kind | what was reported applied is what the host serves; a failed run leaves the last good files; no data is dropped |
| Backups (`apps/worker/src/backup-runner.ts`) | run directories, backup run rows | due check, run, replicate, retention | retention keeps a complete generation |
| Storage maintenance and releases (`apps/worker/src/storage-maintenance.ts`, `apps/control/src/release-*`, `scripts/control`) | release trees, the `current` link | select, remove, deploy, roll back | the active release is never removed |
| Web workspaces (`apps/control/web`) | none; a browser's copy of the export | `mutateDesiredState` and forms | as the desired state store |
| IAM and OAuth (`OPS` 3693-3931, `api-iam-apache-apply.ts`, `scripts/control/apply-iam-apache-vhost-root.sh`) | provider and binding rows, the gateway vhosts on the control host | edit a binding, install its vhost and record it, check OAuth and proxy logins | the recorded apply is what Apache serves |
| Control server, CLI, UI, configuration, packaging | none of their own beyond a session | routing, rendering | - |

### How they interact

* **Operators and workspaces -> desired state.** Each API edit is one READ COMMITTED transaction
  that reads the whole specification, changes it in memory and writes the whole back. A workspace
  reads an export in one request and applies it in another.
* **Desired state -> job table.** The worker, or an operator, runs `runReconciliationCycle`: one
  transaction that builds a candidate per resource, draws one `desired_state_version` (a time
  stamp), asks of each candidate whether the latest job of its resource calls for a new one, and
  inserts. Other calls insert a job outright; `updateDdnsHost` edits the zone and inserts its job
  in one transaction.
* **Job table -> agents -> job table.** `claimJobs` stamps `claimed_at` and returns the oldest jobs
  of the node; `reportJob` writes result and `completed_at` together. Requests and replies may be
  lost; the agent buffers a report on disk before it sends it.
* **Job table -> desired state.** A zone's payload contains the DKIM keys found in the *results* of
  the mail node's applied `mail.sync` jobs: history feeds back into what is desired.
* **Purge.** The worker deletes completed jobs older than the retention, but the latest of each
  resource.
* **Agents -> hosts.** An agent executes its claimed jobs one after the other; each driver is a
  program of commands between which the agent may die, and what it finds on the host next time is
  what it left. A secondary name server depends on the primary's job of another node.
* **Plans.** One apply feeds many plans: a zone's records, its mail hosts' roles, an app's vhosts,
  containers and database job come from separate queries over the same rows.
* **Services.** A starting process migrates the database before it serves; an agent enrols before it
  claims; the backup runner and the storage maintenance run on timers of their own beside
  installations and each other.
* **Drift view.** Dashboards read drift through a one-minute cache, which `updateDdnsHost` drops.

### What is hard about it

Agents crash between any two file writes; exchanges fail after they were served; claims time out
while the job still runs; versions are drawn before commit, so jobs become visible out of order;
reconciliation decides from rows that change before it commits; history that decisions rest on is
deleted; overlapping whole-state edits; promises that settle after the cache has been dropped;
drivers that die between a file and the reload that reads it; retention and maintenance passes that
act on a listing that is no longer true; processes that race to migrate; replies that carry the only
copy of a token or a password.
`PROJECT.json` lists each such hazard at its line, with the properties that would catch it.

## 2. Modules

| module | models | state -> code |
|---|---|---|
| `JobTable` | the two job tables and every transaction on them, as operators | `jobs`: the rows by id; a row keeps payload hash, claim (`never`/`fresh`/`stale`, i.e. `claimed_at` against `reclaimableJobClaimTimeoutMs`), result, and whether its completion is past the retention |
| `JobContract` | what the queue promises, without agents or messages | abstract |
| `JobLifecycle` | table, agents with memory and disk, failing exchanges | `spool`, `buffer`: the two directories; `phase`, `todo`, `batch`, `current`, `outcome`: locals of `runManagerAgentCycle` and `executeClaimedJob`; `attempts`, `outcomes`: history variables |
| `ControlLoop` | edits, dispatching transactions, agents in one step per job, purge | `desired`: rows behind a resource; `tx`: each dispatcher's transaction; `host`: what the node last applied; `held`, `unsent`: an agent's claimed jobs and unsent reports |
| `DesiredState` | every mail edit and the workspace edit | `db`: the stored specification; `tx`: edits in progress; `typed`, `replaced`: history of passwords |
| `DriftCache` | the drift cache and its promises | `cache`: `resourceDriftCache`; `reads`: running refreshes; `changes`: what is current |
| `HostJob` | the job a host's agent is executing | `job`: target, payload and step of `executeAllowlistedJob`; `applied`, `unsettled`: history of results |
| `VhostDriver` | `executeProxyRenderJob` | `sites`, `bak`: files of the sites directory; `served`: what httpd last loaded |
| `ContainerDriver` | `executeContainerReconcileJob` | `unitFile`, `envFile` and their `.bak`; `running`: what systemd started |
| `DatabaseDriver` | `executePostgresReconcileJob`, `executeMariadbReconcileJob` | `roles`: role passwords; `dbs`: databases and whether an app uses them |
| `MailDriver` | `executeMailSyncJob` | `dkimKey`: the key file; `rendered`, `live`: file trees; `serving`: per service; `reportedActive`: services the newest result calls active |
| `HostDrivers` | the four on one host | composes them with `HostJob` |
| `ZoneDelivery` | `executeDnsSyncJob` on the nodes of a zone, and the worker that sends the jobs | `zone`: each PowerDNS's copy; `asked`: transfers asked for; `pending`, `lost`, `latest`, `last`: jobs without a result, the ones a dead agent still has claimed, the row created last, the newest result |
| `ZonePlans` | `buildZoneRecords`, `buildZoneDnsPlans`, the mail and mail-vhost plans, `validateDesiredStateSpec` on mail domains | the rows they read: `zoneRecords`, `claims` (site names), `mailDomain`, `reported` (DKIM results) |
| `AppPlans` | the vhost, container and database plans of an app, `dispatchDatabaseReconcile` | `app`, `rows`, `logins`: its rows; `dispatched`: database jobs sent |
| `ResourceTables` | `applyDesiredStateSpec` on apps, sites, databases and their passwords | `sites`, `databases`, `secrets`: the tables; `given`, `saved`: what the last apply was given |
| `DdnsRecords` | `updateDdnsHost` and the apply, statement by statement, on one zone | `zoneRows`: committed record rows; `writer`: transactions at work |
| `MailboxReveals` | issue, expiry and consumption of single-use reveals | `reveals`: rows; `request`: transactions at work |
| `NodeEnrollment` | `registerNode` and the agent's choice of token | `credential`: the row; `identity`: `node-identity.json`; `call`: registrations at the server |
| `StoreStart` | `createPostgresControlPlaneStore`: migrations and bootstrap administrator | `applied`, `admins`: tables; `proc`: starting processes; `release`: the `current` link |
| `BackupRuns` | `executePolicy` and both retentions | `store`, `age`: generations' directories; `pass`: actors at work; `recorded`: run rows |
| `Releases` | the maintenance pass, install, rollback and remote deployment | `present`, `current`: the release tree; `sweep`, `job`: pass and script at work |
| `ControlServices` | the ten modules from `DriftCache` and `ZonePlans` on, each a behaviour of its own | `workload`: which |
| `JobTable_proofs`, `JobLifecycle_proofs`, `ControlLoop_proofs`, `DesiredState_proofs`, `HostDrivers_proofs`, `ZoneDelivery_proofs` | theorems and lemmas about the module they are named after | |
| `StartAndAccess_proofs` | the same for `StoreStart`, `NodeEnrollment`, `MailboxReveals`, `DdnsRecords` | |
| `ControlServices_proofs` | the same for the other six services, and for `ControlServices` itself | |
| `MC*` | constants of the TLC instances | |

`JobLifecycle` and `ControlLoop` both EXTEND `JobTable`, so both use the same claim, report, insert
and purge. `JobLifecycle` opens up the agent (one action per file write or exchange) and leaves open
what is dispatched; `ControlLoop` opens up the dispatchers (read, stamp, decide, commit) and folds
the agent's files into one step per job. Actions carry the names of the functions they model where
there is one. `HostDrivers` and `ControlServices` compose modules whose parts share no row or
file the modules keep: a behaviour picks one kind of work at the start and stays with it, which
checks all of them in one run without the product of their states.

The definitions whose comment begins with *Fault* (`ClaimableAnyKind`, `DeliverAndForget`, ...) are
not part of the specifications. Each is a plausible mistake in the definition below it; for each
property of a passing run, `PROJECT.json` names the fault with which TLC finds it violated.

### Abstractions

* A payload of `JobTable`, `JobLifecycle` and `ControlLoop` is a member of a small set, and only a
  zone's dependence on DKIM results (`PublishesDkim`) is kept; `ZonePlans` and `AppPlans` have the
  builders, as functions of rows, without ports, volumes, TTLs and wording.
* Time is three unordered facts: a claim may become stale at any moment, a completion may age at any
  moment, `created_at` of one resource's jobs never ties (`NextVersion`).
* A process crash loses memory and keeps every completed file write; power loss in the middle of a
  write is left out.
* A request that fails was served first, or never is: a request that the agent has given up on and
  that is served later is left out.
* One agent per node. The registration at the start of a cycle is `NodeEnrollment`'s;
  `last-applied-state.json` and the runtime snapshots are left out: they decide nothing.
* In `JobLifecycle` and `ControlLoop` a driver run is an arbitrary outcome, and an arbitrary choice of
  having changed the host or not; `HostDrivers` and `ZoneDelivery` have the runs step by step.
  The status `skipped` is left out: `executeAllowlistedJob` returns it for unknown kinds only.
* Candidates for resources whose secrets are missing are skipped by the code before the decision;
  the entries of the model are the others.
* In `DesiredState`, the reads of one transaction are one step and its writes another. The writes of
  two transactions do not interleave, because each begins by updating the rows of every tenant and
  node (`SPEC` 899-937). Everything but mail is one opaque `value`, of which
  `ResourceTables` has apps, sites and databases. Mail policy is left out; reveals are
  `MailboxReveals`'s.
* Counters and names are bounded: `Version` and `Secret` by finite sets, `MaxChanges` and
  `MaxInvalidations` in `DriftCache`, `MaxVersion`, `MaxFailures` and `MaxDeaths` in `ZoneDelivery`.
  `attempts` stops at 2, which stands for "more than once". The MC
  modules name every other bound.
* Each module's header says what else it leaves out.

## 3. What TLC checks

| run | instance | distinct states | shows |
|---|---|---|---|
| `jobs_mixed` | one node, a zone and a database job, one version, batches of 2 | 69 k | a held job is open; a database job never runs twice; the system implements `JobContract` |
| `jobs_fair` | one zone, two versions that may commit in either order, batches of 1, fairness | 262 k | results are real; the spool is a journal; jobs complete; reports arrive |
| `loop_database` | a database, the worker, three versions, edits between two values | 322 k | `in_sync` means applied; what is inserted is still needed |
| `loop_clears` | a zone, the worker, and a second client that dispatches outright or as DDNS client, four versions, fairness | 306 k | without DKIM the purge keeps decisions; drift clears |
| `state_operators` | one domain, mailbox, alias, two passwords, one quota size, two operators | 1.2 M | the stored state is valid; configured mailboxes have a password |
| `state_single` | one client that uses API and workspace, three passwords, no quotas | 11 k | an edit does what it says and nothing else |
| `host_drivers` | two vhosts, a container, a database of each engine, a mail domain; one kind of job per behaviour | 1.1 M | what was reported applied is what the host serves (a mail service may be down, but then the report says so), a failed run restores it, no data is dropped, the published DKIM key signs |
| `zones` | two nodes, three versions of a zone, one of which moves the primary, one failing or late request, one dying agent, fairness | 697 k | the primary holds what it reported; roles fit; both nodes converge unless a dead agent's older job ran last |
| `services` | ten small instances, one per behaviour (`MCControlServices` lists them), fairness | 648 k | see below |

In `services`: every migration runs once and in order (`MigratesOnceInOrder`), a process serves its
own schema (`ServesItsSchema`) and in the end one of the current release serves
(`CurrentReleaseServes`); only a lost reply or file locks a node out (`LockedOutOnlyByLoss`), and an
agent that lost nothing enrols (`NodeEnrols`); a password is shown once and to its owner
(`RevealedOnce`); a zone keeps its other records whatever DDNS updates race with edits
(`OtherRecordsStay`), and a client that keeps calling gets its address in (`AddressConverges`); an
apply that commits stored what it was given (`AppliedIsStored`); refreshes of the drift cache do not
pile up and the view catches up (`RefreshesBounded`, `DriftViewCatchesUp`); retention keeps the last
complete generation unless a partial one was the newest (`LastGenerationIsKept`) and keeps recorded
runs for their window (`RecordedRunsAreKept`); the maintenance pass never removes the active release
unless it became active during the pass (`ActiveReleaseIsKept`); the records, roles and vhosts of a
mail domain lead to one primary (`MailReachesPrimary`); an app's containers, vhosts and database job
name the same node, database and password (`AppPlansAgree`).

**Why the bounds are enough.** A job of one resource interferes with at most the next older and the
next newer one, and claims of two resources meet in a batch: two versions and two resources show
both, in separate runs to stay small. Three versions let a third be decided while a first is stored
and a second purged. In `loop_clears` two versions are used before `calm` and two are kept for after
it (`Reserve`): the transaction in flight when faults stop, and the one that repairs what it did.
Two operators are all an edit can overlap pairwise; three passwords let one be set, rotated and
rotated again. Four promises are more than two invalidations can leave running.
Two vhosts are the one a job writes and the one its validation also reads. Two name servers show a
primary, a secondary and their exchange; of three versions the second changes and adds a record, the
third returns to the first and moves the primary. One dying agent is enough for an older job to run
after a newer one, and one failing request for a job to be sent again; both may happen in any step of
any of the jobs, also on different nodes. Two processes and three releases, one of them an
edited migration, show each race of two starts; two operators and two requests each race on a reveal;
two generations, with a replica kept longer than the original, show a retention beside a run and
after one that died; three releases with one pinned and one kept leave one to remove.

**Fairness.** `JobLifecycle`: the agent's loop never stops (its `catch` resumes it, `AGENT`
4056-4077, and systemd restarts it), and a claim eventually times out. `ControlLoop`: the same, and
the worker loops forever or is restarted, and transactions end. `DriftCache`: minutes end,
dashboards poll, and queries end. `ZoneDelivery`: the worker reconciles, agents poll, PowerDNS
ends a transfer it was asked for, and a dead agent's claim times out.
`StoreStart`: systemd restarts a process that exits.
`NodeEnrollment`: the agent's cycle retries, and the server answers a call. `DdnsRecords`: the client
keeps calling, as its unit's timer does, and transactions end. The plans are functions of rows that
edits change: they need no fairness, and neither does a safety property of any module. Liveness is
stated after `calm` (`steady`, `quiet`, `settled` in the services), a flag that stops faults and edits
once and for all; before it anything may happen, any number of times. `ZoneDelivery` has no such flag:
its edits, failures and deaths are bounded in number. Neither `Execute` nor a report
is assumed to succeed: `jobs_fair` lets every execution fail. In `loop_clears` runs succeed after
`calm`: a payload that its driver always refuses stays `failed`, rightly.

`CHECK_DEADLOCK FALSE` is in the configurations of `ControlLoop`, `ZoneDelivery` and
`ControlServices`: an instance that has spent its versions, tokens, reveals or generations has nothing
left to do.

### Known failures

Three runs expect a violation. They, and the failures below them, are disagreements between the code
and its documentation, its tests or its own messages that the modelling met, told in full under
`findings`.

* `loop_converge`: **a host keeps an older zone.** A zone job that was lost after its claim, or that a
  slower transaction committed late, is claimed after a newer one has run. The drift view looks at
  the newest job, so it shows `in_sync`. This is why `InSyncMeansApplied` is checked for kinds that
  are not reclaimable only, and why `ZonesConverge` excepts a node that was `Overtaken` (without the
  exception `zones` fails). Such a node stays on the old records until the next edit of the zone.
* `state_rotation`: **a rotated password comes back** when an overlapping edit of anything writes its
  copy of the specification.
* `resource_edits`: **a saved database is deleted.** The upsert finds the row by engine and name and
  keeps its id; the final `DELETE` goes by the id of the specification. Moving a database to another
  app, or saving from the form one that is stored under an id of its own, stores it and deletes it in
  one transaction. Saving one of two databases of an app removes the other.

The others can be reproduced with a configuration of their own:

* **The purge changes decisions** (`ControlLoop`, `Resource <- ZoneAndMail`, `Entry <- ZoneAndMail`,
  `MailOf <- ZoneMail`: `PurgeKeepsDecisions` fails). The applied `mail.sync` job that carries the DKIM
  key is not the latest of its resource once a later one failed; the purge takes it and the zone
  loses its DKIM record.
* **Two managed databases of one app** give two jobs with one id and the reconciliation rolls back for
  all resources (`ControlLoop`, `Entry <- TwoDatabases`, `KeyOf <- SharedKey`: `ReconciliationCommits`
  fails).
* **Deleting a quota** of a mailbox that stays deletes nothing (`DesiredState`, `Size <- OneSize`, one
  operator, no editor: `EditTakesEffect` fails).
* A database job lost after its claim **stays `pending` for ever** (`DriftClears` fails with
  `Reclaimable <- Nobody`).
* A workspace that applies an export taken before a reset **stores `configured` without a password**
  (`ConfiguredHasSecret` fails with `Editor <- Web`).
* **Retention runs before the backup**, and the directory it spares is the newest, complete or not:
  with a partial directory the last complete generation may go. `LastGenerationIsKept` therefore
  excepts stores a pass misjudged, and `misjudged` is what the exception costs.
* **The maintenance pass removes a release that became active** after its listing; hence the exception
  in `ActiveReleaseIsKept`.
* **A site alias outside its app's zone** is accepted and makes every plan throw: no resource is
  reconciled until it is gone. `OutsideName` in `ZonePlans` is such a name, and `Planned` says when
  plans exist at all.
* **A CNAME at `_dmarc` and the like** leaves the derived TXT record beside it, and PowerDNS refuses
  the zone; a **null MX** passes the check on mail domains. `MailReachesPrimary` excepts the latter.

`DispatchIsNeeded` is checked with one dispatcher: two reconcilers that overlap send a job twice,
which costs a run and nothing else.

### Behaviour worth knowing

None of these contradicts a document; each came up while modelling and a maintainer should know it.

* *Plans.* A zone with fewer than two nodes makes every plan throw, as an outside alias does. A
  site's A records carry the address of the *zone's* primary, whichever node the app runs on, and an
  app without a container publishes names that no vhost serves. A site that claims `webmail` or the
  mail host's name gives the name two addresses. The vhosts of `foo-bar.com` and `foo.bar.com` share
  a name, as an app slug of that form would. `active-active`, which the forms offer, is planned on
  the primary only. The workspace's own comparison
  (`apps/control/web/src/desired-state-model-actions.ts` 570-635) expects other name servers and no
  DKIM, so it always differs from the plan. What leaves the desired state of a node (a domain that
  moved, a standby, an emptied zone) is never cleaned up there. Every whole-state apply touches every
  row, so zone serials move with any edit.
* *Resource tables.* Two rows that swap canonical domains, database users, host names or mail hosts
  are refused; so may be an apply that lists apps in an unlucky order after domains moved among
  three. Renaming a database, or changing its engine, keeps its id and is refused. An app with a
  database cannot change its primary node by single edits.
* *Drivers.* A vhost that does not validate and that a dying agent left behind fails the job of
  every other vhost, since `apachectl -t` reads them all; httpd goes on serving what it last loaded.
  A failed database job leaves the role's new password. MariaDB looks before it creates, so a
  database made by hand in between is dropped by the rollback (`Restorable` in `MCHostDrivers` is
  PostgreSQL's for that reason). An agent that dies inside `openssl genrsa` leaves a cut key, and
  every later `mail.sync` reports DKIM unavailable. `mail.sync` rolls nothing back, and it is
  `applied` although a mail service has no unit (nothing tests rspamd's `installed`) or is not active
  after its restart (`DRIVERS` 623-649): the result's details say so, the status and the drift view do not.
* *Zones.* Records that leave the payload stay on the primary, and the check after a job asks for a
  subset only. A secondary may pass on its old copy before the transfer. Promoting a secondary that
  never had a transfer leaves a zone without SOA (`CanMoveTo` excludes it).
* *Dynamic DNS.* An update that overlaps an apply may leave the old address, both, or none; `nochg`
  needs exactly one matching record, so the client's next call repairs it.
* *Enrollment.* A node whose token was lost on its way stays locked out until its credential row is
  deleted. Two first registrations that overlap overwrite each other.
* *Reveals.* A reveal stays consumable after another rotation and then shows a password that no
  longer works; a lost reply loses the password; the encrypted payload is never deleted.
* *Backups and releases.* A policy is due in its minute only, so a cycle that overruns skips it. A
  cron day-of-week range that ends in 7 matches nothing on the days it names. A nested replica root
  may be taken for a generation. A rollback may link a release that was removed after its check; an
  installation that dies between `rm` and `mv` leaves `current` dangling.
* *Migrations.* An old release goes on serving while a newer process renames its tables. A release
  whose migration was edited after it ran exits at every start.

## 4. What TLAPS proves

Every theorem holds for all values of the constants that satisfy the named assumptions
(`JobTableAssumption`, `DesiredStateAssumption`, `HostAssumption`, ...: that functions are typed, sets
of names disjoint and lists of rows finite; TLC evaluates each on its instance). Of the
properties that the passing runs check, every one that is not a liveness property is a theorem, with
the hypotheses below where it needs any. Hypotheses never speak of states, only of who takes part:

| theorem | hypothesis | without it |
|---|---|---|
| `InSyncIsOnTheHost` | one dispatcher, no reclaimable kind | false: `loop_converge` |
| `OnceClaimedInSync`, `DispatchesAreNeeded` | one dispatcher | two overlapping transactions commit their stamps out of order; both send the same job |
| `PurgeChangesNoDecision` | no zone depends on DKIM results | false: the purge takes the key's job (section 3); `PurgeSparesDecisions` says what holds of the other resources |
| `ApiKeepsCredentialsWhole` | no web workspace | false: an export has no passwords (section 3) |
| `LoneEditKeepsTheRest` | one client | false: the later of two overlapping edits undoes the other |
| `AnsweredEditIsStored` | no quotas | false: a deleted quota stays; `EditIsWritten` says what holds with quotas |
| `DataNeverDropped` | no MariaDB database is restored by hand | false (section 3); `GuardedDataStays` says it of every other database |

**JobTable_proofs** states what each transaction on the table does to which rows; both modules that
extend `JobTable` use it.

**JobLifecycle_proofs.** `HeldJobIsOpen` is not inductive: that a job in an agent's hands is open
depends on nobody else completing it, which depends on the flush being over before the claim, and on
the buffered report of a job repeating the recorded one. `IInv` adds
`CycleInv` (what an agent holds is its node's; a flush ends before jobs are held),
`HeldInv` (a waiting job is claimed, open, and, unless reclaimable, has never run; what is held has
its spool entry, and the buffered status is the outcome) and
`RecordInv` (unclaimed jobs have never run; a buffered status is one the job had).
One lemma per action shows that it keeps `IInv`; `Invariance` gathers them, and `TypeCorrect`,
`HeldJobsAreOpen`, `ResultsAreReal`, `AtMostOnce` and `SpoolRemembers` follow.
`Refinement` proves that every step under `IInv` is a step of `JobContract` or a stutter: a dispatch
is `Submit`, an execution `Run`, the first report `Record`, the purge `Forget`, and a second report
is invisible because it repeats the first.

**ControlLoop_proofs.** Two invariants. `LoopInv` holds however many dispatchers overlap: what an
agent holds or has yet to report is open and claimed (so the purge leaves it), every resource with
rows has a latest one, and a stamp is a version. From it follow the purge's theorem (the
purge removes only completed rows that are not the latest of their resource, and drift and dispatch
read the latest row alone) and typing.
`SoloInv` is for one dispatcher and is what `in_sync` rests on. The drift view compares the *latest*
row with the desired payload; for the host to hold that payload, the latest row's run must have been
the last one. That needs that versions grow with commits (`NewestInv`: a stamp in hand is newer than
every row), that claims follow versions (`ClaimOrderInv`: claims take the oldest unclaimed row),
that runs do (`RunOrderInv`: a held job is newer than every one that ran), and only then that an
applied latest row is what the host has (`HostInv`). `RunOrderInv` and `HostInv` are stated for kinds
that are claimed once: a job claimed again may be older than one that ran. `OnceClaimedInSync` says
so per resource, so that reclaimable resources may live beside the others. `DecidedInv` gives
`DispatchesAreNeeded`: between decision and commit, reports and the purge can only change rows in a
way that leaves a needed job needed.

**DesiredState_proofs.** The invariant says, beside the types, that the stored state is valid and that
an edit already validated is valid. The lemmas `...Edits` show that each mail edit keeps the state's
shape, touches only what it is about (`Touches`), and keeps credential states and passwords in
agreement; `WrittenEffect` and `WrittenIs` what the full write of a specification leaves, quotas
included. `ApiKeepsCredentialsWhole` needs that what an edit *read* agreed, which lost updates do not
disturb, and that there are no workspaces. `LoneEditKeepsTheRest` is about passwords above all: every
edit rewrites every mailbox, one from a workspace without a single password. It follows from
`TxCurrent` (with one client, the credentials the transaction read are those still stored) and `Tidy`
(a mailbox that is not configured has no password stored): `WrittenKeeps` shows that filling in what
was left out restores exactly what was there.

**HostDrivers_proofs.** A job is many steps, and between them nothing the run checks is at stake:
what is promised is about *settled* targets, whose last job was applied or undone. `HostInv`
therefore says for each driver what every step has established (`VhostAtWork`, `ContainerAtWork`,
`DatabaseAtWork`, `MailAtWork`): which file is in place by which step, what the `.bak` copy holds as
long as a rollback may need it, what runs or serves. A death leaves the target unsettled,
and the next job of it starts from whatever is there; the invariants of a job hold from such a start
too, without the clauses on copies. Of the mail services, `ServiceAtWork` says that once a job has
restarted one, it runs on the job's files or is down, and that those the job found active run: restarts
come after the install, and a service already restarted is not touched again. Per driver there is one lemma per step, one for a death
and one that the others' steps leave it alone; `HostStepInv` composes them. `DataNeverDropped` adds
`CreatedIsEmpty`: what a job counts as its own creation holds no data, unless it is a MariaDB database
that a person may restore.

**ZoneDelivery_proofs.** `ZoneInv` follows a job through its driver on each node: the step that
writes records runs on the primary, the steps after the role was set find it set (`PartInv`), and a
node that reported a version applied, and has nothing pending, still has the role and, as primary,
the records of that version (`ReportInv`). It does not depend on the order in which a node's jobs run, so
a job reclaimed after a newer one breaks nothing. It is per node: transfers change a secondary's records
only, which is why the theorem speaks of primaries.

**StartAndAccess_proofs.** *Migrations.* That a migration runs once rests on the table alone, but that
migrations run in *order* rests on what a process has read: it applies version `n` only after it has
seen, or itself committed, every version of its release before `n`, and rows are never deleted.
`StoreInv` joins to `MigratesOnceInOrder` what holds of each process (`ProcInv`: the rows it read are
still there, everything before its next version is applied as its release has it, and one that found
an administrator or serves has one) and that at most one administrator exists (`AdminInv`).
*Enrollment.* `LockedOutOnlyByLoss` needs to follow a token from the credential row to the file.
`EnrolInv` adds where it can be: an agent has a call exactly while it registers, and then presents the
token of its file (`AgentInv`); only an accepted call's answer carries a token (`ReplyInv`); and
unless a loss happened, the token in the answer to the agent's own call, or the one it is about to
save, is the stored one (`OnItsWay`).
*Reveals.* `RevealInv`: a consuming transaction holds a row of its own operator, whose password was
not shown, and the row is consumed exactly when the request is about to answer (`WorkingInv`); no two
requests hold one row (`OneWorks`); what was shown is consumed and was shown once, to its owner
(`ShownInv`). The row lock is what makes this inductive.
*Dynamic DNS.* A call inserts and deletes addresses only (`UpdateInv`), and an operator's `DELETE`, which
waits for the rows that calls have locked, was given every other record and still covers them all when
the `INSERT` follows (`CoverInv`).

**ControlServices_proofs.** *Tables.* `AppliedIsStored` quantifies over every list of apps, and an apply
puts them one by one: `PutSites` is a recursive function, and what it returns is proved by taking the
least prefix at which the claim would fail. The invariant is that no two rows share an app or domain
(`OneSiteEach`), an id or a name (`OneRowEach`); putting one app keeps it, gives
that app its domain, and leaves the others theirs unless it was the same.
*Drift cache.* The bound on refreshes is strengthened to a debt: a refresh may run beside the cached
one only if an invalidation made it an orphan. `NoSettledPromise`, that the cached promise still runs,
is a theorem only.
*Backups.* `BackupInv` follows the directories a retention is about to remove from its listing to the
last removal: they are older than the run at work and past their store's window, and ages only grow
(`DoomedInv`); in a store that was not misjudged a complete generation outlives everything doomed
(`SurvivorInv`, `HeldInv`); the run at work is the newest, and its record follows a complete dump and
copy (`RunInv`).
*Releases.* `SweepInv`: if the active release is on a pass's list of candidates, the link was moved to
it after the pass read it.
*Plans.* `MailReachesPrimary` and `AppPlansAgree` are facts about operators, given that what
is stored was validated together (`PlanInv`: every edit validates the mail domain against the records
around it, whichever of the two it changes) and that rows and passwords are keyed as the plans look
them up (`SentInv`).
*Composition.* `ServicesAreTheirSpecs`: a step of `ControlServices` is a step of one service and a
stutter of the others, so the composition implements each service's specification but for its
fairness; `ServicesStaySafe` and `ServicesKeepTheRelease` carry every safety property over.

**Only model-checked.** Liveness under fairness is out of this prover's reach: `ReclaimableJobCompletes`,
`ReportIsDelivered`, `DriftClears`, `DriftViewCatchesUp`, `ZonesConverge`, `NodeEnrols`,
`AddressConverges`, `CurrentReleaseServes`. So are, by their nature, the three properties that runs
show violated.

## 5. Plan

Done: every module of section 2, and a theorem for every safety property the passing runs check.

To model, in this order: the plan builders composed with the tables they read (`ZonePlans` and
`AppPlans` over `DesiredState` and `ResourceTables`, so that an apply is one step of both); the
remaining tables of the apply (nodes, zones, backup policies); the package, firewall, fail2ban and
code-server drivers; the cron schedules of `shouldRunBackupPolicyAt` against a reference definition;
the package inventory, fed by the reports of `JobLifecycle` in the order of their file names.

To prove: that a driver of `HostDrivers`, step by step, implements the one-step execution that
`ControlLoop` gives it (apply, or fail having changed the host or not); the same of `ZoneDelivery`; of
the liveness properties, the safety facts they rest on (a claimed job is reported or claimable again, a
converged node that has no job pending stays converged).

## 6. Not modelled

Rendering, forms, localisation and the UI package; HTTP routing and the combined control server;
environment parsing, contracts and the CLI; payload encryption; OAuth and proxy logins, which are
request checks; IAM bindings and their Apache apply, which installs a vhost as `VhostDriver` does but
excludes neither a second apply of the binding (the backup of one may be the other's file) nor an
edit of its row in between (the record promotes the row back), so what one would state of it is
false; the release layout and promotion CLIs (one-shot tree writers an operator runs in turn); packaging files, which appear only as fairness; the package
inventory, which nothing decides from: an applied package report replaces it wholesale, in the order
reports arrive (`AUTH` 816-831).

Modelled in part: of sessions only the bootstrap administrator (login, expiry, logout and role checks
are single statements); of the drivers not the package, firewall, fail2ban and code-server ones,
Roundcube and the rendered text; of backups not what is dumped and not the schedule; of storage
maintenance not the pruning of container images and the capacity guard; of the workspaces' forms only
mail, apps and databases. `components` in `PROJECT.json` says the same per component.
