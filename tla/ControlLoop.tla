---------------------------- MODULE ControlLoop ----------------------------
(***************************************************************************)
(* The loop that keeps the hosts in line with the desired state: operators *)
(* and DDNS clients change what is desired, the worker and operators run   *)
(* runReconciliationCycle, other calls dispatch without asking, agents     *)
(* apply what they claim, and the purge trims the history that the next    *)
(* reconciliation decides from.                                            *)
(*                                                                         *)
(* A dispatcher is one transaction at READ COMMITTED: it reads the desired *)
(* state, stamps its version and created_at, decides, and commits, with    *)
(* anything in between.  Agents are those of JobLifecycle with their files *)
(* folded into one step per job; what they do to the host is kept.         *)
(***************************************************************************)
EXTENDS JobTable

CONSTANTS
  Value,       \* contents of the desired-state rows behind a resource
  Entry,       \* rows that buildReconciliationCandidates makes a job of
  KeyOf,       \* the (node, kind, resource key) of each entry's job
  MailOf,      \* the mail.sync resource a zone takes its DKIM record from
  Reconciler,  \* callers of runReconciliationCycle: the worker, operators
  Operator,    \* operators who dispatch one resource outright
  DdnsClient,  \* clients of updateDdnsHost
  Reserve      \* bound: versions kept for the time after Calm

ASSUME ControlLoopAssumption ==
  /\ Payload = Value \X BOOLEAN
  /\ KeyOf \in [Entry -> Resource]
  /\ DOMAIN MailOf \subseteq Resource
  /\ Reserve \in Nat

VARIABLES
  desired,  \* the committed desired state of each resource
  tx,       \* each dispatcher's transaction
  host,     \* what each resource's node last applied, or Nothing
  held,     \* claimed jobs in an agent's memory
  unsent,   \* executed jobs whose report is still in the agent's buffer
  calm      \* TRUE once edits and faults have stopped

agents == <<host, held, unsent>>
vars == <<jobs, desired, tx, agents, calm>>

Nothing == <<>>
Sent == "none"
Dispatcher == Reconciler \cup Operator \cup DdnsClient

NoTx == [step |-> "idle", payload |-> <<>>, version |-> 0, chosen |-> {}, edit |-> Nothing]

Tx == [step    : {"built", "stamped", "decided"},
       payload : [Resource -> Payload],
       version : Version \cup {0},
       chosen  : SUBSET Entry,
       edit    : UNION {[R -> Value] : R \in SUBSET Resource}]

TypeOK ==
  /\ TableTypeOK
  /\ desired \in [Resource -> Value]
  /\ tx \in [Dispatcher -> Tx \cup {NoTx}]
  /\ host \in [Resource -> Payload \cup {Nothing}]
  /\ held \in [Node -> SUBSET JobId]
  /\ unsent \in [JobId -> Status \cup {Sent}]
  /\ calm \in BOOLEAN

Init ==
  /\ jobs = [j \in {} |-> NewRow(CHOOSE p \in Payload : TRUE)]
  /\ desired \in [Resource -> Value]
  /\ tx = [d \in Dispatcher |-> NoTx]
  /\ host = [r \in Resource |-> Nothing]
  /\ held = [n \in Node |-> {}]
  /\ unsent = [j \in JobId |-> Sent]
  /\ calm = FALSE

-----------------------------------------------------------------------------
(* A zone publishes the DKIM key of its mail domains when the results of   *)
(* the primary mail node's applied mail.sync jobs carry one.               *)
PublishesDkim(r) ==
  /\ r \in DOMAIN MailOf
  /\ \E j \in RowsOf(MailOf[r]) : jobs[j].result = "applied"

PayloadFor(r, x) == <<x, PublishesDkim(r)>>

buildReconciliationCandidates == [r \in Resource |-> PayloadFor(r, desired[r])]

(* created_at stamps grow: a fresh one is above all that are stored or     *)
(* drawn.  A version whose transaction inserted nothing is drawn again.    *)
NextVersion(v) ==
  LET Used == {VersionOf(j) : j \in DOMAIN jobs} \cup {tx[d].version : d \in Dispatcher}
  IN  /\ \A u \in Used : u < v
      /\ \A w \in Version : (\A u \in Used : u < w) => v <= w
      /\ calm \/ v + Reserve \in Version

-----------------------------------------------------------------------------
(* The desired state and the dispatching transactions.                     *)

Locked(r) == \E d \in Dispatcher : r \in DOMAIN tx[d].edit

SaveDesiredState(r, x) ==
  /\ ~ calm
  /\ ~ Locked(r)
  /\ x # desired[r]
  /\ desired' = [desired EXCEPT ![r] = x]
  /\ UNCHANGED <<jobs, tx, agents, calm>>

BeginReconciliation(d) ==
  /\ tx[d] = NoTx
  /\ tx' = [tx EXCEPT ![d] = [NoTx EXCEPT !.step = "built",
                                          !.payload = buildReconciliationCandidates]]
  /\ UNCHANGED <<jobs, desired, agents, calm>>

(* dispatchZoneSync, dispatchAppReconcile, dispatchDatabaseReconcile: the  *)
(* job is sent whatever the table says.                                    *)
BeginDispatch(d, e) ==
  /\ ~ calm
  /\ tx[d] = NoTx
  /\ tx' = [tx EXCEPT ![d] = [NoTx EXCEPT !.step = "built",
                                          !.payload = buildReconciliationCandidates,
                                          !.chosen = {e}]]
  /\ UNCHANGED <<jobs, desired, agents, calm>>

(* updateDdnsHost reads its own write; the row it rewrites is locked until *)
(* it ends.                                                                *)
BeginDdnsUpdate(d, e, x) ==
  LET r == KeyOf[e]
  IN  /\ ~ calm
      /\ tx[d] = NoTx
      /\ x # desired[r]
      /\ ~ Locked(r)
      /\ tx' = [tx EXCEPT ![d] =
                  [NoTx EXCEPT !.step = "built",
                               !.payload = [buildReconciliationCandidates EXCEPT
                                              ![r] = PayloadFor(r, x)],
                               !.chosen = {e},
                               !.edit = [s \in {r} |-> x]]]
      /\ UNCHANGED <<jobs, desired, agents, calm>>

Stamp(d) ==
  /\ tx[d].step = "built"
  /\ \E v \in Version : /\ NextVersion(v)
                        /\ tx' = [tx EXCEPT ![d].version = v, ![d].step = "stamped"]
  /\ UNCHANGED <<jobs, desired, agents, calm>>

(* Fault: a reconciliation sends every candidate.                          *)
DecideAlways(d) ==
  /\ tx[d].step = "stamped"
  /\ tx' = [tx EXCEPT ![d].step = "decided",
                      ![d].chosen = IF d \in Reconciler THEN Entry ELSE @]
  /\ UNCHANGED <<jobs, desired, agents, calm>>

(* The reconciler asks shouldDispatchQueuedJob for each candidate; the     *)
(* other dispatchers have chosen already.                                  *)
Decide(d) ==
  /\ tx[d].step = "stamped"
  /\ tx' = [tx EXCEPT
       ![d].step = "decided",
       ![d].chosen =
         IF d \in Reconciler
         THEN {e \in Entry : shouldDispatchQueuedJob(KeyOf[e], tx[d].payload[KeyOf[e]])}
         ELSE @]
  /\ UNCHANGED <<jobs, desired, agents, calm>>

(* Fault: job ids without the hash of the resource key.                    *)
CollidesOnNode(d) ==
  \E e, f \in tx[d].chosen : e # f /\ NodeOf[KeyOf[e]] = NodeOf[KeyOf[f]]

(* Two chosen entries with the same node, kind and resource key have the   *)
(* same job id.                                                            *)
Collides(d) ==
  \E e, f \in tx[d].chosen : e # f /\ KeyOf[e] = KeyOf[f]

JobsToInsert(d) == {<<tx[d].version, KeyOf[e]>> : e \in tx[d].chosen}

Commit(d) ==
  /\ tx[d].step = "decided"
  /\ ~ Collides(d)
  /\ insertDispatchedJobs(JobsToInsert(d),
       [j \in JobsToInsert(d) |-> tx[d].payload[ResourceOf(j)]])
  /\ desired' = [r \in Resource |-> IF r \in DOMAIN tx[d].edit THEN tx[d].edit[r]
                                   ELSE desired[r]]
  /\ tx' = [tx EXCEPT ![d] = NoTx]
  /\ UNCHANGED <<agents, calm>>

(* The process dies, the connection fails, or the primary key refuses the  *)
(* second of two rows with one id: nothing of it is committed.             *)
Rollback(d) ==
  /\ tx[d] # NoTx
  /\ ~ calm \/ (tx[d].step = "decided" /\ Collides(d))
  /\ tx' = [tx EXCEPT ![d] = NoTx]
  /\ UNCHANGED <<jobs, desired, agents, calm>>

Purge ==
  /\ purgeOperationalHistoryRows
  /\ UNCHANGED <<desired, tx, agents, calm>>

-----------------------------------------------------------------------------
(* The agents.                                                             *)

Claim(n) ==
  /\ held[n] = {}
  /\ calm => \A j \in DOMAIN jobs : NodeOf[ResourceOf(j)] = n => unsent[j] = Sent
  /\ \E B \in ClaimBatches(n) :
       /\ B # {}
       /\ claimJobs(B)
       /\ held' \in {[held EXCEPT ![n] = B]} \cup (IF calm THEN {} ELSE {held})
  /\ UNCHANGED <<desired, tx, host, unsent, calm>>

NextHeld(n) == {j \in held[n] : \A k \in held[n] : VersionOf(j) <= VersionOf(k)}

(* The oldest held job runs; a failed run may have changed the host.  Its  *)
(* report is delivered, or stays in the buffer.                            *)
Run(n, j, status) ==
  /\ j \in NextHeld(n)
  /\ calm => status = "applied"
  /\ host' \in {[host EXCEPT ![ResourceOf(j)] = jobs[j].payload]}
               \cup (IF status = "failed" THEN {host} ELSE {})
  /\ held' = [held EXCEPT ![n] = @ \ {j}]
  /\ \/ reportJob(j, status) /\ unsent' = [unsent EXCEPT ![j] = Sent]
     \/ ~ calm /\ unsent' = [unsent EXCEPT ![j] = status] /\ UNCHANGED jobs
  /\ UNCHANGED <<desired, tx, calm>>

(* A cycle begins by sending what is buffered.                             *)
Flush(n, j) ==
  /\ held[n] = {}
  /\ NodeOf[ResourceOf(j)] = n
  /\ unsent[j] # Sent
  /\ reportJob(j, unsent[j])
  /\ unsent' = [unsent EXCEPT ![j] = Sent]
  /\ UNCHANGED <<desired, tx, host, held, calm>>

(* Dying in the middle of a run leaves the host as it was, or changed.     *)
Crash(n) ==
  /\ ~ calm
  /\ held[n] # {}
  /\ held' = [held EXCEPT ![n] = {}]
  /\ host' \in {host} \cup {[host EXCEPT ![ResourceOf(j)] = jobs[j].payload] : j \in NextHeld(n)}
  /\ UNCHANGED <<jobs, desired, tx, unsent, calm>>

ClaimTimeout(j) ==
  /\ ClaimTimesOut(j)
  /\ UNCHANGED <<desired, tx, agents, calm>>

Age(j) ==
  /\ CompletionAges(j)
  /\ UNCHANGED <<desired, tx, agents, calm>>

(* From here on nobody but the worker changes or dispatches anything.      *)
Calm ==
  /\ ~ calm
  /\ \A d \in Operator \cup DdnsClient : tx[d] = NoTx
  /\ calm' = TRUE
  /\ UNCHANGED <<jobs, desired, tx, agents>>

-----------------------------------------------------------------------------
TxStep(d) ==
  \/ Stamp(d)
  \/ Decide(d)
  \/ Commit(d)

AgentStep(n) ==
  \/ Claim(n)
  \/ \E j \in JobId, status \in Status : Run(n, j, status)
  \/ \E j \in JobId : Flush(n, j)

Next ==
  \/ \E r \in Resource, x \in Value : SaveDesiredState(r, x)
  \/ \E d \in Reconciler : BeginReconciliation(d)
  \/ \E d \in Operator, e \in Entry : BeginDispatch(d, e)
  \/ \E d \in DdnsClient, e \in Entry, x \in Value : BeginDdnsUpdate(d, e, x)
  \/ \E d \in Dispatcher : TxStep(d) \/ Rollback(d)
  \/ Purge
  \/ \E n \in Node : AgentStep(n) \/ Crash(n)
  \/ \E j \in JobId : ClaimTimeout(j) \/ Age(j)
  \/ Calm

Spec == Init /\ [][Next]_vars

(* The worker loops or is restarted, and so does the agent; transactions   *)
(* that the database does not refuse end; time passes.                     *)
FairSpec ==
  /\ Spec
  /\ \A d \in Reconciler : WF_vars(BeginReconciliation(d))
  /\ \A d \in Dispatcher : WF_vars(TxStep(d) \/ Rollback(d))
  /\ \A n \in Node : WF_vars(AgentStep(n))
  /\ \A j \in JobId : WF_vars(ClaimTimeout(j))

-----------------------------------------------------------------------------
drift(r) == createResourceDriftSummary(r, buildReconciliationCandidates[r])
InSync(r) == drift(r).driftStatus = "in_sync"

(* A reconciliation inserts only jobs that the table, as it is when they   *)
(* become visible, still asks for: between its reads and its commit the    *)
(* agents report and the purge deletes.                                    *)
DispatchIsNeeded ==
  [][\A d \in Reconciler : Commit(d) =>
       \A j \in JobsToInsert(d) :
          shouldDispatchQueuedJob(ResourceOf(j), tx[d].payload[ResourceOf(j)])]_vars

(* The purge leaves every drift status and dispatch decision as it was.    *)
PurgeKeepsDecisions ==
  [][Purge => \A r \in Resource : drift(r)' = drift(r)]_vars

(* A resource shown in sync really has the desired payload on its host.    *)
InSyncMeansApplied ==
  \A r \in Resource : InSync(r) => host[r] = buildReconciliationCandidates[r]

(* The reconciliation transaction is never refused by its own inserts.     *)
ReconciliationCommits ==
  \A d \in Reconciler : tx[d].step = "decided" => ~ Collides(d)

(* Once edits and faults stop, the drift view empties and stays empty:     *)
(* lost jobs are reclaimed, failed and missing ones dispatched again.      *)
DriftClears == calm ~> [](\A r \in Resource : InSync(r))

(* Once edits and faults stop, every host ends up with what is desired.    *)
HostsConverge ==
  calm ~> [](\A r \in Resource : host[r] = buildReconciliationCandidates[r])
=============================================================================
