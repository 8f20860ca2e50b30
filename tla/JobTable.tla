------------------------------ MODULE JobTable ------------------------------
(***************************************************************************)
(* The control_plane_jobs table of the control database, joined with       *)
(* control_plane_job_results: what the dispatchers insert, what the        *)
(* reconciler and the drift view read, what a node agent claims and        *)
(* reports, and what the history purge removes.                            *)
(*                                                                         *)
(* Every operator named after a function of packages/control-database is   *)
(* the effect of that function's transaction on the table.  The module has *)
(* no behaviour of its own: JobLifecycle and ControlLoop compose it with   *)
(* the agents and the dispatchers.                                         *)
(***************************************************************************)
EXTENDS Naturals, FiniteSets

CONSTANTS
  Node,          \* managed nodes that run an agent
  Resource,      \* (node_id, kind, resource_key) triples a job can be about
  NodeOf,        \* the node_id of each resource
  Reclaimable,   \* resources whose kind is in reclaimableClaimedJobKinds
  Payload,       \* payload hashes
  Version,       \* desired_state_versions, in the order of their created_at
  MaxJobs        \* maxJobs of a claim request

ASSUME JobTableAssumption ==
  /\ NodeOf \in [Resource -> Node]
  /\ Reclaimable \subseteq Resource
  /\ Version \subseteq Nat
  /\ MaxJobs \in Nat \ {0}

VARIABLE jobs      \* the rows, by job id

(* A job id is its desired_state_version, its node and kind, and a hash of *)
(* its resource key; created_at grows with the version.                    *)
JobId == Version \X Resource
VersionOf(j) == j[1]
ResourceOf(j) == j[2]

Status == {"applied", "failed"}

(* claim:  claimed_at is null, within the last five minutes, or older.     *)
(* result: the job_results status; "none" while completed_at is null (one  *)
(*         transaction writes both).                                       *)
(* aged:   completed_at is before the retention cutoff.                    *)
Row == [payload : Payload,
        claim   : {"never", "fresh", "stale"},
        result  : Status \cup {"none"},
        aged    : BOOLEAN]

TableTypeOK == /\ DOMAIN jobs \subseteq JobId
               /\ jobs \in [DOMAIN jobs -> Row]

NewRow(p) == [payload |-> p, claim |-> "never", result |-> "none", aged |-> FALSE]

-----------------------------------------------------------------------------
(* Reading the table.                                                      *)

Open(j) == j \in DOMAIN jobs /\ jobs[j].result = "none"

RowsOf(r) == {j \in DOMAIN jobs : ResourceOf(j) = r}

IsLatest(j) == /\ j \in DOMAIN jobs
               /\ \A k \in RowsOf(ResourceOf(j)) : VersionOf(k) <= VersionOf(j)

(* ORDER BY created_at DESC LIMIT 1.                                       *)
getLatestResourceJob(r) == CHOOSE j \in RowsOf(r) : IsLatest(j)

(* Nothing was sent for resource r, something else was, or it failed.      *)
shouldDispatchQueuedJob(r, p) ==
  \/ RowsOf(r) = {}
  \/ LET latest == jobs[getLatestResourceJob(r)]
     IN  latest.payload # p \/ latest.result \notin {"none", "applied"}

createResourceDriftSummary(r, p) ==
  LET drift(status, dispatch) == [driftStatus |-> status, dispatchRecommended |-> dispatch]
  IN  IF RowsOf(r) = {} THEN drift("out_of_sync", TRUE)
      ELSE LET latest == jobs[getLatestResourceJob(r)]
           IN  CASE latest.result = "none"                   -> drift("pending", latest.payload # p)
                 [] latest.result # "none" /\ latest.payload # p -> drift("out_of_sync", TRUE)
                 [] latest.result = "failed" /\ latest.payload = p -> drift("failed", TRUE)
                 [] latest.result = "applied" /\ latest.payload = p -> drift("in_sync", FALSE)

-----------------------------------------------------------------------------
(* Writing the table: one operator per transaction.                        *)

(* The primary key refuses an id that is already stored.                   *)
insertDispatchedJobs(J, payloadOf) ==
  /\ J \cap DOMAIN jobs = {}
  /\ jobs' = [j \in DOMAIN jobs \cup J |->
                IF j \in J THEN NewRow(payloadOf[j]) ELSE jobs[j]]

(* Faults the runs must detect: claiming completed jobs, reclaiming every  *)
(* kind, reclaiming none.                                                  *)
ClaimableCompleted(n) ==
  {j \in DOMAIN jobs :
     /\ NodeOf[ResourceOf(j)] = n
     /\ \/ jobs[j].claim = "never"
        \/ jobs[j].claim = "stale" /\ ResourceOf(j) \in Reclaimable}

ClaimableAnyKind(n) ==
  {j \in DOMAIN jobs : /\ NodeOf[ResourceOf(j)] = n
                       /\ jobs[j].result = "none"
                       /\ jobs[j].claim \in {"never", "stale"}}

ClaimableOnce(n) ==
  {j \in DOMAIN jobs : /\ NodeOf[ResourceOf(j)] = n
                       /\ jobs[j].result = "none"
                       /\ jobs[j].claim = "never"}

Claimable(n) ==
  {j \in DOMAIN jobs :
     /\ NodeOf[ResourceOf(j)] = n
     /\ jobs[j].result = "none"
     /\ \/ jobs[j].claim = "never"
        \/ jobs[j].claim = "stale" /\ ResourceOf(j) \in Reclaimable}

(* ORDER BY created_at ASC LIMIT maxJobs; equal stamps in any order.       *)
ClaimBatches(n) ==
  {B \in SUBSET Claimable(n) :
     /\ \A j \in B, k \in Claimable(n) \ B : VersionOf(j) <= VersionOf(k)
     /\ \/ Cardinality(B) = MaxJobs
        \/ Cardinality(B) < MaxJobs /\ B = Claimable(n)}

claimJobs(B) ==
  jobs' = [j \in DOMAIN jobs |->
             IF j \in B THEN [jobs[j] EXCEPT !.claim = "fresh"] ELSE jobs[j]]

(* Fault: only the status is stored, the rest of the row is lost.          *)
reportStatusOnly(j, status) ==
  /\ j \in DOMAIN jobs
  /\ jobs' = [jobs EXCEPT ![j] = [result |-> status]]

(* The job row must exist; a second report of a job overwrites the first.  *)
reportJob(j, status) ==
  /\ j \in DOMAIN jobs
  /\ jobs' = [jobs EXCEPT ![j].result = status]

(* Fault: the purge forgets that the latest job of a resource is kept.     *)
PurgeableLatest == {j \in DOMAIN jobs : jobs[j].result # "none" /\ jobs[j].aged}

Purgeable == {j \in DOMAIN jobs : /\ jobs[j].result # "none"
                                  /\ jobs[j].aged
                                  /\ ~ IsLatest(j)}

purgeOperationalHistoryRows ==
  /\ Purgeable # {}
  /\ jobs' = [j \in DOMAIN jobs \ Purgeable |-> jobs[j]]

(* Time: reclaimableJobClaimTimeoutMs passes since the claim, the job's    *)
(* completion falls behind the retention cutoff.                           *)
ClaimTimesOut(j) ==
  /\ Open(j)
  /\ jobs[j].claim = "fresh"
  /\ jobs' = [jobs EXCEPT ![j].claim = "stale"]

CompletionAges(j) ==
  /\ j \in DOMAIN jobs
  /\ jobs[j].result # "none"
  /\ ~ jobs[j].aged
  /\ jobs' = [jobs EXCEPT ![j].aged = TRUE]
=============================================================================
