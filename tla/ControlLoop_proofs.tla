------------------------- MODULE ControlLoop_proofs -------------------------
(***************************************************************************)
(* The control loop when one dispatcher is at work: what it decided is     *)
(* still so when it commits, and what the drift view shows in sync is on   *)
(* the host.  The first half of the invariant holds with any number of     *)
(* dispatchers; the second needs the stamps of new jobs to be above those  *)
(* of the stored ones, which two overlapping transactions do not ensure.   *)
(***************************************************************************)
EXTENDS ControlLoop, JobTable_proofs

ClaimedOnce(j) == ResourceOf(j) \notin Reclaimable
Claimed(j) == jobs[j].claim # "never"
Executed(j) == jobs[j].result # "none" \/ unsent[j] # Sent

(* What an agent holds, or has yet to report, is open and claimed.         *)
HeldInv == \A n \in Node : \A j \in held[n] :
             Open(j) /\ Claimed(j) /\ NodeOf[ResourceOf(j)] = n
UnsentInv == \A j \in JobId : unsent[j] # Sent => Open(j) /\ Claimed(j)
ResultInv == \A j \in DOMAIN jobs : jobs[j].result # "none" => Claimed(j)

(* A resource with rows has a latest one.                                  *)
RowsInv == \A r \in Resource : RowsOf(r) # {} => \E j \in RowsOf(r) : IsLatest(j)

StampInv == \A d \in Dispatcher :
              tx[d].step \in {"stamped", "decided"} => tx[d].version \in Version

LoopInv == TypeOK /\ HeldInv /\ UnsentInv /\ ResultInv /\ RowsInv /\ StampInv

(* With one dispatcher: its stamp is the newest, jobs are claimed and run  *)
(* in the order of their stamps unless they are claimed again, and the     *)
(* latest job, once applied, was the last to change the host.              *)
NewestInv == \A d \in Dispatcher : tx[d].step \in {"stamped", "decided"} =>
               \A j \in DOMAIN jobs : VersionOf(j) < tx[d].version
ClaimOrderInv == \A j, k \in DOMAIN jobs :
                   ResourceOf(j) = ResourceOf(k) /\ Claimed(j) /\ ~ Claimed(k) =>
                     VersionOf(j) < VersionOf(k)
RunOrderInv == \A n \in Node : \A j \in held[n], k \in DOMAIN jobs :
                 ResourceOf(j) = ResourceOf(k) /\ ClaimedOnce(j) /\ Executed(k) =>
                   VersionOf(k) < VersionOf(j)
HostInv == \A j \in DOMAIN jobs :
             ClaimedOnce(j) /\ IsLatest(j) /\ "applied" \in {jobs[j].result, unsent[j]} =>
               host[ResourceOf(j)] = jobs[j].payload

(* The payloads the table asks for, and that a reconciler's are of them.   *)
Needed == {q \in Resource \X Payload : shouldDispatchQueuedJob(q[1], q[2])}
DecidedInv == \A d \in Reconciler : tx[d].step = "decided" =>
                \A e \in tx[d].chosen : <<KeyOf[e], tx[d].payload[KeyOf[e]]>> \in Needed

SoloInv == LoopInv /\ NewestInv /\ ClaimOrderInv /\ RunOrderInv /\ HostInv /\ DecidedInv

OneDispatcher == \A d, e \in Dispatcher : d = e

-----------------------------------------------------------------------------
(* Rows of one resource differ in their versions.                          *)
LEMMA RowsDiffer ==
  ASSUME TableTypeOK, NEW j \in DOMAIN jobs, NEW k \in DOMAIN jobs
  PROVE  /\ VersionOf(j) \in Nat /\ ResourceOf(j) \in Resource /\ j \in JobId
         /\ ResourceOf(j) = ResourceOf(k) /\ VersionOf(j) = VersionOf(k) => j = k
BY JobTableAssumption DEF TableTypeOK, JobId, VersionOf, ResourceOf

(* The latest row is the one ORDER BY ... LIMIT 1 returns.                 *)
LEMMA LatestRow ==
  ASSUME TableTypeOK, NEW r \in Resource, NEW j \in RowsOf(r), IsLatest(j)
  PROVE  getLatestResourceJob(r) = j
<1>1. ASSUME NEW k \in RowsOf(r), IsLatest(k) PROVE k = j
  <2>1. /\ j \in DOMAIN jobs /\ k \in DOMAIN jobs
        /\ ResourceOf(j) = r /\ ResourceOf(k) = r
    BY DEF RowsOf
  <2>2. VersionOf(j) <= VersionOf(k) /\ VersionOf(k) <= VersionOf(j)
    BY <1>1, <2>1 DEF IsLatest
  <2>3. VersionOf(j) \in Nat /\ VersionOf(k) \in Nat
    BY <2>1, RowsDiffer
  <2>4. VersionOf(j) = VersionOf(k)
    BY <2>2, <2>3
  <2> QED
    BY <2>1, <2>4, RowsDiffer
<1> QED
  BY <1>1 DEF getLatestResourceJob

(* A step that leaves the latest row in place, its payload and its result, *)
(* leaves what the reconciler reads of a resource in place.                *)
LEMMA SameLatest ==
  ASSUME TableTypeOK, TableTypeOK', RowsInv, NEW r \in Resource,
         DOMAIN jobs' \subseteq DOMAIN jobs,
         \A j \in DOMAIN jobs : IsLatest(j) => j \in DOMAIN jobs'
  PROVE  /\ RowsOf(r)' = {} <=> RowsOf(r) = {}
         /\ RowsOf(r) # {} => /\ getLatestResourceJob(r) \in RowsOf(r)
                              /\ IsLatest(getLatestResourceJob(r))
                              /\ getLatestResourceJob(r) \in DOMAIN jobs'
                              /\ getLatestResourceJob(r)' = getLatestResourceJob(r)
         /\ \A j \in DOMAIN jobs' : ResourceOf(j) = r => (IsLatest(j)' <=> IsLatest(j))
<1>1. RowsOf(r)' \subseteq RowsOf(r)
  BY DEF RowsOf
<1>2. CASE RowsOf(r) = {}
  <2>1. \A j \in DOMAIN jobs' : ResourceOf(j) # r
    BY <1>1, <1>2 DEF RowsOf
  <2> QED
    BY <1>1, <1>2, <2>1
<1>3. CASE RowsOf(r) # {}
  <2>1. PICK j \in RowsOf(r) : IsLatest(j)
    BY <1>3 DEF RowsInv
  <2>2. j \in DOMAIN jobs /\ j \in DOMAIN jobs' /\ ResourceOf(j) = r /\ j \in RowsOf(r)'
    BY <2>1 DEF RowsOf
  <2>3. \A k \in RowsOf(r)' : VersionOf(k) <= VersionOf(j)
    BY <1>1, <2>1, <2>2 DEF IsLatest
  <2>4. IsLatest(j)'
    BY <2>2, <2>3 DEF IsLatest
  <2>5. getLatestResourceJob(r) = j
    BY <2>1, LatestRow
  <2>6. \A i : i \in RowsOf(r)' /\ IsLatest(i)' => i = j
    <3>1. SUFFICES ASSUME NEW i \in RowsOf(r)', IsLatest(i)' PROVE i = j
      OBVIOUS
    <3>2. i \in DOMAIN jobs /\ ResourceOf(i) = r /\ VersionOf(i) <= VersionOf(j)
      BY <1>1, <2>3 DEF RowsOf
    <3>3. VersionOf(j) <= VersionOf(i)
      BY <2>2, <3>1, <3>2 DEF IsLatest, RowsOf
    <3>4. VersionOf(i) \in Nat /\ VersionOf(j) \in Nat
      BY <2>2, <3>2, RowsDiffer
    <3>5. VersionOf(i) = VersionOf(j)
      BY <3>2, <3>3, <3>4
    <3> QED
      BY <2>2, <3>2, <3>5, RowsDiffer
  <2>7. getLatestResourceJob(r)' = j
    BY <2>2, <2>4, <2>6 DEF getLatestResourceJob
  <2>8. ASSUME NEW k \in DOMAIN jobs', ResourceOf(k) = r PROVE IsLatest(k)' <=> IsLatest(k)
    <3>1. k \in RowsOf(r)' /\ k \in RowsOf(r)
      BY <2>8 DEF RowsOf
    <3>2. IsLatest(k)' => k = j
      BY <2>6, <3>1
    <3>3. IsLatest(k) => k = j
      BY <2>5, <3>1, LatestRow
    <3> QED
      BY <2>1, <2>4, <3>2, <3>3
  <2> QED
    BY <1>3, <2>1, <2>2, <2>5, <2>7, <2>8
<1> QED
  BY <1>2, <1>3

(* A decision to send a job outlives every step that inserts nothing: a    *)
(* recorded result never changes, and the purge keeps the latest row.      *)
LEMMA DecisionKept ==
  ASSUME TableTypeOK, TableTypeOK', RowsInv,
         DOMAIN jobs' \subseteq DOMAIN jobs,
         \A j \in DOMAIN jobs : IsLatest(j) => j \in DOMAIN jobs',
         \A j \in DOMAIN jobs' : /\ jobs'[j].payload = jobs[j].payload
                                 /\ jobs[j].result # "none" => jobs'[j].result = jobs[j].result
  PROVE  Needed \subseteq Needed'
<1> SUFFICES ASSUME NEW r \in Resource, NEW p \in Payload, shouldDispatchQueuedJob(r, p)
             PROVE  shouldDispatchQueuedJob(r, p)'
  BY DEF Needed
<1>1. CASE RowsOf(r) = {}
  BY <1>1, SameLatest DEF shouldDispatchQueuedJob
<1>2. CASE RowsOf(r) # {}
  <2> DEFINE j == getLatestResourceJob(r)
  <2>1. j \in DOMAIN jobs' /\ getLatestResourceJob(r)' = j
    BY <1>2, SameLatest
  <2>2. jobs[j].payload # p \/ jobs[j].result \notin {"none", "applied"}
    BY <1>2 DEF shouldDispatchQueuedJob
  <2>3. jobs'[j].payload # p \/ jobs'[j].result \notin {"none", "applied"}
    BY <2>1, <2>2
  <2> QED
    BY <2>1, <2>3 DEF shouldDispatchQueuedJob
<1> QED
  BY <1>1, <1>2

-----------------------------------------------------------------------------
(* The candidates of a dispatcher have the type of a payload.              *)
LEMMA CandidatesTyped ==
  ASSUME TypeOK
  PROVE  /\ buildReconciliationCandidates \in [Resource -> Payload]
         /\ \A r \in Resource, x \in Value : PayloadFor(r, x) \in Payload
<1>1. \A r \in Resource : PublishesDkim(r) \in BOOLEAN
  BY DEF PublishesDkim
<1>2. \A r \in Resource, x \in Value : PayloadFor(r, x) \in Payload
  BY <1>1, ControlLoopAssumption DEF PayloadFor
<1> QED
  BY <1>2 DEF TypeOK, buildReconciliationCandidates

(* A transaction that edits nothing has an edit of no resources.           *)
LEMMA NoEditTyped == Nothing \in UNION {[R -> Value] : R \in SUBSET Resource}
<1>1. Nothing \in [{} -> Value]
  BY DEF Nothing
<1> QED
  BY <1>1

(* Without jobs, every part of the invariant holds.                        *)
LEMMA LoopInit == Init => SoloInv
<1> SUFFICES ASSUME Init PROVE SoloInv
  OBVIOUS
<1>1. DOMAIN jobs = {}
  BY DEF Init
<1>2. TableTypeOK
  BY <1>1 DEF Init, TableTypeOK
<1>3. \A d \in Dispatcher : tx[d] = NoTx /\ tx[d].step = "idle"
  BY DEF Init, NoTx
<1>4. TypeOK
  BY <1>2 DEF Init, TypeOK, Sent
<1>5. HeldInv /\ UnsentInv /\ ResultInv /\ RowsInv
  BY <1>1 DEF Init, HeldInv, UnsentInv, ResultInv, RowsInv, RowsOf
<1>6. StampInv /\ NewestInv /\ DecidedInv
  BY <1>3 DEF StampInv, NewestInv, DecidedInv, Dispatcher
<1>7. ClaimOrderInv /\ RunOrderInv /\ HostInv
  BY <1>1 DEF ClaimOrderInv, RunOrderInv, HostInv
<1> QED
  BY <1>4, <1>5, <1>6, <1>7 DEF SoloInv, LoopInv

(* Steps of the operators and of the dispatchers before they commit.       *)
DispatcherMoves ==
  \/ \E r \in Resource, x \in Value : SaveDesiredState(r, x)
  \/ \E d \in Reconciler : BeginReconciliation(d)
  \/ \E d \in Operator, e \in Entry : BeginDispatch(d, e)
  \/ \E d \in DdnsClient, e \in Entry, x \in Value : BeginDdnsUpdate(d, e, x)
  \/ \E d \in Dispatcher : Stamp(d) \/ Decide(d) \/ Rollback(d)
  \/ Calm

(* Where the one that moves is afterwards.                                 *)
MovesTo(d) == \/ tx'[d].step \notin {"stamped", "decided"}
              \/ Stamp(d) /\ tx'[d].step = "stamped"
              \/ /\ tx'[d].step = "decided" /\ tx[d].step = "stamped"
                 /\ tx'[d].version = tx[d].version /\ tx'[d].payload = tx[d].payload
                 /\ d \in Reconciler =>
                      tx'[d].chosen = {e \in Entry :
                        shouldDispatchQueuedJob(KeyOf[e], tx[d].payload[KeyOf[e]])}

(* Up to their commits, dispatchers change their own transactions only.    *)
LEMMA TxTyped ==
  ASSUME TypeOK, StampInv, DispatcherMoves
  PROVE  /\ UNCHANGED <<jobs, agents>>
         /\ tx' \in [Dispatcher -> Tx \cup {NoTx}]
         /\ desired' \in [Resource -> Value] /\ calm' \in BOOLEAN
         /\ StampInv'
         /\ \/ UNCHANGED tx
            \/ \E d \in Dispatcher :
                 /\ \A e \in Dispatcher \ {d} : tx'[e] = tx[e]
                 /\ MovesTo(d)
<1>t. /\ tx \in [Dispatcher -> Tx \cup {NoTx}] /\ desired \in [Resource -> Value]
      /\ calm \in BOOLEAN
  BY DEF TypeOK
<1>n. NoTx.step = "idle"
  BY DEF NoTx
<1>b. ASSUME NEW d \in Dispatcher, NEW t \in Tx \cup {NoTx}, t.step \in {"built", "idle"},
             tx' = [tx EXCEPT ![d] = t]
      PROVE  /\ tx' \in [Dispatcher -> Tx \cup {NoTx}] /\ StampInv'
             /\ \A e \in Dispatcher \ {d} : tx'[e] = tx[e]
             /\ tx'[d].step \notin {"stamped", "decided"}
  <2>1. tx'[d] = t /\ \A e \in Dispatcher \ {d} : tx'[e] = tx[e]
    BY <1>b, <1>t
  <2>2. tx' \in [Dispatcher -> Tx \cup {NoTx}]
    BY <1>b, <1>t
  <2> QED
    BY <1>b, <2>1, <2>2 DEF StampInv
<1>1. ASSUME NEW r \in Resource, NEW x \in Value, SaveDesiredState(r, x)
      PROVE  /\ UNCHANGED <<jobs, agents, tx>> /\ desired' \in [Resource -> Value]
             /\ calm' \in BOOLEAN
  BY <1>1, <1>t DEF SaveDesiredState
<1>2. ASSUME NEW d \in Reconciler, BeginReconciliation(d)
      PROVE  \E t \in Tx \cup {NoTx} : t.step = "built" /\ tx' = [tx EXCEPT ![d] = t]
  <2> DEFINE t == [NoTx EXCEPT !.step = "built", !.payload = buildReconciliationCandidates]
  <2>1. t \in Tx /\ t.step = "built"
    BY CandidatesTyped, NoEditTyped DEF NoTx, Tx
  <2> QED
    BY <1>2, <2>1 DEF BeginReconciliation
<1>3. ASSUME NEW d \in Operator, NEW e \in Entry, BeginDispatch(d, e)
      PROVE  \E t \in Tx \cup {NoTx} : t.step = "built" /\ tx' = [tx EXCEPT ![d] = t]
  <2> DEFINE t == [NoTx EXCEPT !.step = "built", !.payload = buildReconciliationCandidates,
                               !.chosen = {e}]
  <2>1. t \in Tx /\ t.step = "built"
    BY CandidatesTyped, NoEditTyped DEF NoTx, Tx
  <2> QED
    BY <1>3, <2>1 DEF BeginDispatch
<1>4. ASSUME NEW d \in DdnsClient, NEW e \in Entry, NEW x \in Value, BeginDdnsUpdate(d, e, x)
      PROVE  \E t \in Tx \cup {NoTx} : t.step = "built" /\ tx' = [tx EXCEPT ![d] = t]
  <2> DEFINE r == KeyOf[e]
             t == [NoTx EXCEPT !.step = "built",
                               !.payload = [buildReconciliationCandidates EXCEPT
                                              ![r] = PayloadFor(r, x)],
                               !.chosen = {e},
                               !.edit = [s \in {r} |-> x]]
  <2>1. r \in Resource
    BY ControlLoopAssumption
  <2>2. [buildReconciliationCandidates EXCEPT ![r] = PayloadFor(r, x)] \in [Resource -> Payload]
    BY <2>1, CandidatesTyped
  <2>3. [s \in {r} |-> x] \in UNION {[R -> Value] : R \in SUBSET Resource}
    <3>1. [s \in {r} |-> x] \in [{r} -> Value]
      OBVIOUS
    <3> QED
      BY <2>1, <3>1
  <2>4. t \in Tx /\ t.step = "built"
    BY <2>2, <2>3 DEF NoTx, Tx
  <2> HIDE DEF t
  <2>5. tx' = [tx EXCEPT ![d] = t]
    BY <1>4 DEF BeginDdnsUpdate, t
  <2> QED
    BY <2>4, <2>5
<1>5. ASSUME NEW d \in Dispatcher, Stamp(d)
      PROVE  /\ tx' \in [Dispatcher -> Tx \cup {NoTx}] /\ StampInv'
             /\ \A e \in Dispatcher \ {d} : tx'[e] = tx[e]
             /\ tx'[d].step = "stamped"
  <2>1. tx[d] \in Tx
    BY <1>5, <1>n, <1>t DEF Stamp
  <2>2. PICK v \in Version : tx' = [tx EXCEPT ![d].version = v, ![d].step = "stamped"]
    BY <1>5 DEF Stamp
  <2>3. /\ tx'[d] = [tx[d] EXCEPT !.version = v, !.step = "stamped"]
        /\ \A e \in Dispatcher \ {d} : tx'[e] = tx[e]
    BY <1>t, <2>2
  <2>4. tx'[d] \in Tx /\ tx'[d].step = "stamped" /\ tx'[d].version = v
    BY <2>1, <2>3 DEF Tx
  <2>5. tx' \in [Dispatcher -> Tx \cup {NoTx}]
    BY <1>t, <2>2, <2>3, <2>4
  <2> QED
    BY <2>3, <2>4, <2>5 DEF StampInv
<1>6. ASSUME NEW d \in Dispatcher, Decide(d)
      PROVE  /\ tx' \in [Dispatcher -> Tx \cup {NoTx}] /\ StampInv'
             /\ \A e \in Dispatcher \ {d} : tx'[e] = tx[e]
             /\ tx'[d].step = "decided" /\ tx[d].step = "stamped"
             /\ tx'[d].version = tx[d].version /\ tx'[d].payload = tx[d].payload
             /\ d \in Reconciler =>
                  tx'[d].chosen = {e \in Entry :
                    shouldDispatchQueuedJob(KeyOf[e], tx[d].payload[KeyOf[e]])}
  <2>1. tx[d] \in Tx /\ tx[d].step = "stamped"
    BY <1>6, <1>n, <1>t DEF Decide
  <2> DEFINE C == IF d \in Reconciler
                  THEN {e \in Entry : shouldDispatchQueuedJob(KeyOf[e], tx[d].payload[KeyOf[e]])}
                  ELSE tx[d].chosen
  <2> DEFINE t == [tx[d] EXCEPT !.step = "decided", !.chosen = C]
  <2>a. tx' = [tx EXCEPT ![d] = t]
    BY <1>6 DEF Decide
  <2>2. tx'[d] = t /\ \A e \in Dispatcher \ {d} : tx'[e] = tx[e]
    <3> HIDE DEF t
    <3> QED
      BY <1>t, <2>a
  <2>3. C \subseteq Entry
    BY <2>1 DEF Tx
  <2>4. tx'[d] \in Tx /\ tx'[d].step = "decided" /\ tx'[d].version = tx[d].version
        /\ tx'[d].payload = tx[d].payload /\ tx'[d].chosen = C
    <3> HIDE DEF C
    <3> QED
      BY <2>1, <2>2, <2>3 DEF Tx
  <2>5. tx' \in [Dispatcher -> Tx \cup {NoTx}]
    <3> HIDE DEF t
    <3> QED
      BY <1>t, <2>a, <2>2, <2>4
  <2>6. StampInv'
    BY <2>1, <2>2, <2>4 DEF StampInv
  <2> QED
    BY <2>1, <2>2, <2>3, <2>4, <2>5, <2>6
<1>7. ASSUME NEW d \in Dispatcher, Rollback(d)
      PROVE  tx' = [tx EXCEPT ![d] = NoTx]
  BY <1>7 DEF Rollback
<1>8. Reconciler \subseteq Dispatcher /\ Operator \subseteq Dispatcher /\ DdnsClient \subseteq Dispatcher
  BY DEF Dispatcher
<1>9. \/ UNCHANGED <<jobs, agents, tx>> /\ desired' \in [Resource -> Value] /\ calm' \in BOOLEAN
      \/ UNCHANGED <<jobs, agents, desired, calm>>
  <2>1. CASE \E r \in Resource, x \in Value : SaveDesiredState(r, x)
    BY <1>1, <2>1
  <2>2. CASE \E d \in Reconciler : BeginReconciliation(d)
    BY <2>2 DEF BeginReconciliation
  <2>3. CASE \E d \in Operator, e \in Entry : BeginDispatch(d, e)
    BY <2>3 DEF BeginDispatch
  <2>4. CASE \E d \in DdnsClient, e \in Entry, x \in Value : BeginDdnsUpdate(d, e, x)
    BY <2>4 DEF BeginDdnsUpdate
  <2>5. CASE \E d \in Dispatcher : Stamp(d) \/ Decide(d) \/ Rollback(d)
    BY <2>5 DEF Stamp, Decide, Rollback
  <2>6. CASE Calm
    BY <1>t, <2>6 DEF Calm
  <2> QED
    BY <2>1, <2>2, <2>3, <2>4, <2>5, <2>6 DEF DispatcherMoves
<1>10. UNCHANGED tx => /\ tx' \in [Dispatcher -> Tx \cup {NoTx}]
                       /\ StampInv'
  BY <1>t DEF StampInv
<1>11. CASE UNCHANGED <<jobs, agents, tx>> /\ desired' \in [Resource -> Value] /\ calm' \in BOOLEAN
  BY <1>10, <1>11
<1>12. CASE UNCHANGED <<jobs, agents, desired, calm>>
  <2>1. /\ UNCHANGED <<jobs, agents>>
        /\ desired' \in [Resource -> Value] /\ calm' \in BOOLEAN
    BY <1>12, <1>t
  <2>2. ASSUME NEW d \in Dispatcher, NEW t \in Tx \cup {NoTx}, t.step \in {"built", "idle"},
               tx' = [tx EXCEPT ![d] = t]
        PROVE  /\ tx' \in [Dispatcher -> Tx \cup {NoTx}] /\ StampInv'
               /\ \E c \in Dispatcher : /\ \A e \in Dispatcher \ {c} : tx'[e] = tx[e]
                                        /\ MovesTo(c)
    BY <1>b, <2>2 DEF MovesTo
  <2>3. CASE \/ \E d \in Reconciler : BeginReconciliation(d)
             \/ \E d \in Operator, e \in Entry : BeginDispatch(d, e)
             \/ \E d \in DdnsClient, e \in Entry, x \in Value : BeginDdnsUpdate(d, e, x)
    <3>1. \E d \in Dispatcher, t \in Tx \cup {NoTx} :
            t.step = "built" /\ tx' = [tx EXCEPT ![d] = t]
      BY <1>2, <1>3, <1>4, <1>8, <2>3
    <3> QED
      BY <2>1, <2>2, <3>1 DEF MovesTo
  <2>4. CASE \E d \in Dispatcher : Rollback(d)
    <3>1. NoTx \in Tx \cup {NoTx}
      OBVIOUS
    <3> QED
      BY <1>7, <1>n, <2>1, <2>2, <2>4, <3>1
  <2>5. CASE \E d \in Dispatcher : Stamp(d)
    BY <1>5, <2>1, <2>5 DEF MovesTo
  <2>6. CASE \E d \in Dispatcher : Decide(d)
    BY <1>6, <2>1, <2>6 DEF MovesTo
  <2>7. CASE \/ \E r \in Resource, x \in Value : SaveDesiredState(r, x)
             \/ Calm
    <3>1. UNCHANGED tx
      BY <2>7 DEF SaveDesiredState, Calm
    <3> QED
      BY <1>10, <2>1, <3>1
  <2> QED
    BY <2>3, <2>4, <2>5, <2>6, <2>7 DEF DispatcherMoves
<1> QED
  BY <1>9, <1>11, <1>12

(* They leave the table and the agents alone.                              *)
LEMMA MovesKeepLoop ==
  ASSUME LoopInv, DispatcherMoves
  PROVE  LoopInv'
<1>1. TypeOK /\ StampInv
  BY DEF LoopInv
<1>2. UNCHANGED <<jobs, agents>> /\ StampInv' /\ tx' \in [Dispatcher -> Tx \cup {NoTx}]
      /\ desired' \in [Resource -> Value] /\ calm' \in BOOLEAN
  BY <1>1, TxTyped
<1>3. TypeOK'
  BY <1>1, <1>2 DEF TypeOK, TableTypeOK, agents
<1> QED
  BY <1>2, <1>3
  DEF LoopInv, HeldInv, UnsentInv, ResultInv, RowsInv, RowsOf, IsLatest, Open, Claimed, agents

(* Only a transaction at work takes a stamp.                               *)
LEMMA StampsBuilt ==
  ASSUME TypeOK, NEW d \in Dispatcher, Stamp(d)
  PROVE  tx[d] \in Tx
BY DEF TypeOK, Stamp, NoTx

(* Alone, a dispatcher stamps above all rows and decides on what it reads. *)
LEMMA MovesKeepSolo ==
  ASSUME SoloInv, OneDispatcher, DispatcherMoves
  PROVE  SoloInv'
<1>1. LoopInv /\ TypeOK /\ StampInv
  BY DEF SoloInv, LoopInv
<1>2. UNCHANGED <<jobs, agents>>
  BY <1>1, TxTyped
<1>3. ClaimOrderInv' /\ RunOrderInv' /\ HostInv'
  BY <1>2 DEF SoloInv, ClaimOrderInv, RunOrderInv, HostInv, Claimed, Executed, IsLatest, RowsOf,
              agents
<1>4. Needed \subseteq Needed'
  BY <1>1, <1>2, DecisionKept DEF LoopInv, TypeOK, TableTypeOK, IsLatest
<1>5. ASSUME UNCHANGED tx PROVE NewestInv' /\ DecidedInv'
  <2>1. NewestInv'
    BY <1>2, <1>5 DEF SoloInv, NewestInv
  <2>2. DecidedInv'
    BY <1>4, <1>5 DEF SoloInv, DecidedInv
  <2> QED
    BY <2>1, <2>2
<1>6. ASSUME NEW d \in Dispatcher, MovesTo(d)
      PROVE  NewestInv' /\ DecidedInv'
  <2>1. \A c \in Dispatcher : c = d
    BY DEF OneDispatcher
  <2>2. Reconciler \subseteq Dispatcher
    BY DEF Dispatcher
  <2>3. CASE tx'[d].step \notin {"stamped", "decided"}
    BY <2>1, <2>2, <2>3 DEF NewestInv, DecidedInv
  <2>4. CASE Stamp(d) /\ tx'[d].step = "stamped"
    <3>1. PICK v \in Version : NextVersion(v)
                               /\ tx' = [tx EXCEPT ![d].version = v, ![d].step = "stamped"]
      BY <2>4 DEF Stamp
    <3>2. tx'[d].version = v
      <4>1. tx[d] \in Tx /\ tx'[d] = [tx[d] EXCEPT !.version = v, !.step = "stamped"]
        BY <1>1, <2>4, <3>1, StampsBuilt DEF TypeOK
      <4> QED
        BY <4>1 DEF Tx
    <3>3. \A j \in DOMAIN jobs : VersionOf(j) < v
      BY <3>1 DEF NextVersion
    <3> QED
      BY <1>2, <2>1, <2>2, <2>4, <3>2, <3>3 DEF NewestInv, DecidedInv
  <2>5. CASE /\ tx'[d].step = "decided" /\ tx[d].step = "stamped"
             /\ tx'[d].version = tx[d].version
             /\ tx'[d].payload = tx[d].payload
             /\ d \in Reconciler =>
                  tx'[d].chosen = {e \in Entry :
                    shouldDispatchQueuedJob(KeyOf[e], tx[d].payload[KeyOf[e]])}
    <3>1. NewestInv'
      BY <1>2, <2>1, <2>5 DEF SoloInv, NewestInv
    <3>2. ASSUME d \in Reconciler, NEW e \in tx'[d].chosen
          PROVE  <<KeyOf[e], tx'[d].payload[KeyOf[e]]>> \in Needed
      <4>1. e \in Entry /\ KeyOf[e] \in Resource
        BY <2>5, <3>2, ControlLoopAssumption
      <4>2. tx[d] \in Tx
        BY <1>1, <2>5 DEF TypeOK, NoTx
      <4>3. tx[d].payload[KeyOf[e]] \in Payload
        BY <4>1, <4>2 DEF Tx
      <4> QED
        BY <2>5, <3>2, <4>1, <4>3 DEF Needed
    <3>3. DecidedInv'
      BY <1>4, <2>1, <2>2, <3>2 DEF DecidedInv
    <3> QED
      BY <3>1, <3>3
  <2> QED
    BY <1>6, <2>3, <2>4, <2>5 DEF MovesTo
<1>7. NewestInv' /\ DecidedInv'
  BY <1>1, <1>5, <1>6, TxTyped
<1>8. LoopInv'
  BY <1>1, MovesKeepLoop
<1> QED
  BY <1>3, <1>7, <1>8 DEF SoloInv
-----------------------------------------------------------------------------
(* A step that stores and drops no row.                                    *)
LEMMA SameRows ==
  ASSUME LoopInv, TableTypeOK', DOMAIN jobs' = DOMAIN jobs
  PROVE  RowsInv' /\ \A j \in DOMAIN jobs : IsLatest(j)' <=> IsLatest(j)
BY DEF LoopInv, RowsInv, RowsOf, IsLatest

(* Claims and results leave the stamp the newest and what was decided      *)
(* needed.                                                                 *)
LEMMA SameRowsSolo ==
  ASSUME SoloInv, TableTypeOK', DOMAIN jobs' = DOMAIN jobs, UNCHANGED tx,
         \A j \in DOMAIN jobs : /\ jobs'[j].payload = jobs[j].payload
                                /\ jobs[j].result # "none" => jobs'[j].result = jobs[j].result
  PROVE  NewestInv' /\ DecidedInv'
<1>1. Needed \subseteq Needed'
  BY DecisionKept DEF SoloInv, LoopInv, TypeOK
<1>2. NewestInv'
  BY DEF SoloInv, NewestInv
<1> QED
  BY <1>1, <1>2 DEF SoloInv, DecidedInv

(* A claim takes the oldest rows; one that is not claimed again had never  *)
(* been claimed.                                                           *)
LEMMA ClaimKeeps ==
  ASSUME LoopInv, NEW n \in Node, Claim(n)
  PROVE  LoopInv' /\ (SoloInv => SoloInv')
<1> USE DEF LoopInv
<1>1. PICK B \in ClaimBatches(n) :
        /\ claimJobs(B)
        /\ held' = [held EXCEPT ![n] = B] \/ held' = held
  BY DEF Claim
<1>2. /\ B \in SUBSET DOMAIN jobs
      /\ \A j \in B : /\ NodeOf[ResourceOf(j)] = n /\ jobs[j].result = "none"
                      /\ ClaimedOnce(j) => ~ Claimed(j)
      /\ \A j \in B, k \in DOMAIN jobs :
           /\ k \notin B /\ NodeOf[ResourceOf(k)] = n /\ jobs[k].result = "none" /\ ~ Claimed(k)
           => VersionOf(j) <= VersionOf(k)
  <2>1. B \subseteq Claimable(n) /\ \A j \in B, k \in Claimable(n) \ B : VersionOf(j) <= VersionOf(k)
    BY <1>1 DEF ClaimBatches
  <2>2. \A k \in DOMAIN jobs :
          NodeOf[ResourceOf(k)] = n /\ jobs[k].result = "none" /\ ~ Claimed(k) =>
            k \in Claimable(n)
    BY DEF Claimable, Claimed
  <2>3. \A j \in Claimable(n) : /\ j \in DOMAIN jobs
                                /\ NodeOf[ResourceOf(j)] = n /\ jobs[j].result = "none"
                                /\ ClaimedOnce(j) => ~ Claimed(j)
    BY DEF Claimable, Claimed, ClaimedOnce
  <2> QED
    BY <2>1, <2>2, <2>3
<1>3. /\ TableTypeOK'
      /\ DOMAIN jobs' = DOMAIN jobs
      /\ \A j \in DOMAIN jobs : SameJob(jobs[j], jobs'[j])
      /\ \A j \in B : jobs'[j].claim = "fresh"
      /\ \A j \in DOMAIN jobs \ B : jobs'[j] = jobs[j]
  BY <1>1, <1>2, ClaimEffect DEF TypeOK
<1>4. /\ \A j \in B : Claimed(j)'
      /\ \A j \in DOMAIN jobs \ B : Claimed(j)' <=> Claimed(j)
      /\ \A j \in JobId : Open(j)' <=> Open(j)
      /\ \A j \in DOMAIN jobs : /\ jobs'[j].result = jobs[j].result
                                /\ jobs'[j].payload = jobs[j].payload
  BY <1>2, <1>3 DEF Claimed, Open, SameJob
<1>5. /\ UNCHANGED <<desired, tx, host, unsent, calm>>
      /\ \A m \in Node \ {n} : held'[m] = held[m]
      /\ held'[n] = B \/ held'[n] = held[n]
      /\ TypeOK'
  <2>1. B \subseteq JobId
    BY <1>2 DEF TypeOK, TableTypeOK
  <2> QED
    BY <1>1, <1>3, <2>1 DEF Claim, TypeOK
<1>6. HeldInv'
  <2> SUFFICES ASSUME NEW m \in Node, NEW j \in held'[m]
               PROVE  (Open(j) /\ Claimed(j) /\ NodeOf[ResourceOf(j)] = m)'
    BY DEF HeldInv
  <2>1. CASE j \in held[m]
    <3>1. Open(j) /\ Claimed(j) /\ NodeOf[ResourceOf(j)] = m
      BY <2>1 DEF HeldInv
    <3>2. j \in DOMAIN jobs /\ j \in JobId
      BY <3>1 DEF Open, TypeOK, TableTypeOK
    <3> QED
      BY <1>4, <3>1, <3>2
  <2>2. CASE m = n /\ j \in B
    <3>1. j \in JobId /\ Open(j)
      BY <1>2, <2>2 DEF Open, TypeOK, TableTypeOK
    <3> QED
      BY <1>2, <1>4, <2>2, <3>1
  <2> QED
    BY <1>5, <2>1, <2>2
<1>7. UnsentInv'
  <2> SUFFICES ASSUME NEW j \in JobId, unsent'[j] # Sent PROVE Open(j)' /\ Claimed(j)'
    BY DEF UnsentInv
  <2>1. Open(j) /\ Claimed(j) /\ j \in DOMAIN jobs
    BY <1>5 DEF UnsentInv, Open
  <2> QED
    BY <1>4, <2>1
<1>8. ResultInv'
  BY <1>3, <1>4 DEF ResultInv
<1>9. RowsInv' /\ \A j \in DOMAIN jobs : IsLatest(j)' <=> IsLatest(j)
  BY <1>3, SameRows
<1>10. LoopInv'
  BY <1>5, <1>6, <1>7, <1>8, <1>9 DEF StampInv
<1>11. ASSUME SoloInv PROVE SoloInv'
  <2>1. NewestInv' /\ DecidedInv'
    BY <1>3, <1>4, <1>5, <1>11, SameRowsSolo
  <2>2. ClaimOrderInv'
    <3> SUFFICES ASSUME NEW j \in DOMAIN jobs, NEW k \in DOMAIN jobs,
                        ResourceOf(j) = ResourceOf(k), Claimed(j)', ~ Claimed(k)'
                 PROVE  VersionOf(j) < VersionOf(k)
      BY <1>3 DEF ClaimOrderInv
    <3>1. k \notin B /\ ~ Claimed(k) /\ jobs[k].result = "none"
      BY <1>4 DEF ResultInv
    <3>2. CASE Claimed(j)
      BY <1>11, <3>1, <3>2 DEF SoloInv, ClaimOrderInv
    <3>3. CASE j \in B
      <4>1. VersionOf(j) <= VersionOf(k) /\ j # k
        BY <1>2, <3>1, <3>3
      <4>2. /\ VersionOf(j) \in Nat /\ VersionOf(k) \in Nat
            /\ VersionOf(j) # VersionOf(k)
        BY <4>1, RowsDiffer DEF TypeOK
      <4> QED
        BY <4>1, <4>2
    <3> QED
      BY <1>4, <3>2, <3>3
  <2>3. RunOrderInv'
    <3> SUFFICES ASSUME NEW m \in Node, NEW j \in held'[m], NEW k \in DOMAIN jobs,
                        ResourceOf(j) = ResourceOf(k), ClaimedOnce(j), Executed(k)'
                 PROVE  VersionOf(k) < VersionOf(j)
      BY <1>3 DEF RunOrderInv, ClaimedOnce
    <3>1. Executed(k)
      BY <1>4, <1>5 DEF Executed
    <3>2. CASE j \in held[m]
      BY <1>11, <3>1, <3>2 DEF SoloInv, RunOrderInv
    <3>3. CASE j \in B
      <4>1. Claimed(k)
        <5>1. k \in JobId
          BY DEF TypeOK, TableTypeOK
        <5> QED
          BY <3>1, <5>1 DEF Executed, ResultInv, UnsentInv
      <4>2. ~ Claimed(j) /\ j \in DOMAIN jobs
        BY <1>2, <3>3
      <4> QED
        BY <1>11, <4>1, <4>2 DEF SoloInv, ClaimOrderInv
    <3> QED
      BY <1>5, <3>2, <3>3
  <2>4. HostInv'
    BY <1>3, <1>4, <1>5, <1>9, <1>11 DEF SoloInv, HostInv, ClaimedOnce
  <2> QED
    BY <1>10, <2>1, <2>2, <2>3, <2>4 DEF SoloInv
<1> QED
  BY <1>10, <1>11

(* A row with a newer one of its resource is not the latest.               *)
LEMMA OlderIsNotLatest ==
  ASSUME TableTypeOK, NEW i \in DOMAIN jobs, NEW j \in DOMAIN jobs,
         ResourceOf(i) = ResourceOf(j), VersionOf(i) < VersionOf(j)
  PROVE  ~ IsLatest(i)
<1>1. VersionOf(i) \in Nat /\ VersionOf(j) \in Nat
  BY RowsDiffer
<1> QED
  BY <1>1 DEF IsLatest, RowsOf

(* A report stored or buffered, of a job that is open: what the three      *)
(* steps that execute or deliver have in common.                           *)
LEMMA OutcomeKeeps ==
  ASSUME LoopInv, NEW j \in JobId, NEW status \in Status, Open(j), Claimed(j),
         \/ reportJob(j, status) /\ unsent' = [unsent EXCEPT ![j] = Sent]
         \/ unsent' = [unsent EXCEPT ![j] = status] /\ UNCHANGED jobs,
         \A n \in Node : held'[n] \subseteq held[n] /\ j \notin held'[n],
         held' \in [Node -> SUBSET JobId],
         host' \in [Resource -> Payload \cup {Nothing}],
         \A r \in Resource \ {ResourceOf(j)} : host'[r] = host[r],
         UNCHANGED <<desired, tx, calm>>
  PROVE  /\ LoopInv'
         /\ SoloInv /\ (\A n \in Node : \A k \in held'[n], i \in DOMAIN jobs :
                          ResourceOf(k) = ResourceOf(i) /\ ClaimedOnce(k) /\ (Executed(i) \/ i = j)
                            => VersionOf(i) < VersionOf(k))
                    /\ (ClaimedOnce(j) =>
                          /\ IsLatest(j) /\ status = "applied" => host'[ResourceOf(j)] = jobs[j].payload
                          /\ \A i \in DOMAIN jobs :
                               /\ ResourceOf(i) = ResourceOf(j) /\ i # j
                               /\ Executed(i) /\ IsLatest(i)
                               => host'[ResourceOf(j)] = host[ResourceOf(j)])
            => SoloInv'
<1> USE DEF LoopInv
<1>1. /\ TableTypeOK'
      /\ j \in DOMAIN jobs /\ DOMAIN jobs' = DOMAIN jobs
      /\ \A k \in DOMAIN jobs : /\ jobs'[k].claim = jobs[k].claim
                                /\ jobs'[k].payload = jobs[k].payload
                                /\ jobs[k].result # "none" => jobs'[k].result = jobs[k].result
      /\ \A k \in DOMAIN jobs \ {j} : jobs'[k] = jobs[k]
      /\ \A k \in JobId \ {j} : unsent'[k] = unsent[k]
      /\ jobs'[j].result \in {"none", status}
      /\ unsent'[j] \in {Sent, status}
      /\ jobs'[j].result = "none" \/ unsent'[j] = Sent
      /\ unsent' \in [JobId -> Status \cup {Sent}]
  <2>1. j \in DOMAIN jobs /\ jobs[j].result = "none" /\ unsent \in [JobId -> Status \cup {Sent}]
        /\ TableTypeOK
    BY DEF Open, TypeOK
  <2>2. CASE reportJob(j, status) /\ unsent' = [unsent EXCEPT ![j] = Sent]
    BY <2>1, <2>2, ReportEffect
  <2>3. CASE unsent' = [unsent EXCEPT ![j] = status] /\ UNCHANGED jobs
    BY <2>1, <2>3 DEF TableTypeOK
  <2> QED
    BY <2>2, <2>3
<1>2. TypeOK'
  BY <1>1 DEF TypeOK
<1>3. \A k \in DOMAIN jobs : /\ Claimed(k)' <=> Claimed(k)
                             /\ k # j => (Executed(k)' <=> Executed(k))
  <2>1. DOMAIN jobs \subseteq JobId
    BY DEF TypeOK, TableTypeOK
  <2> QED
    BY <1>1, <2>1 DEF Claimed, Executed
<1>4. HeldInv'
  <2> SUFFICES ASSUME NEW n \in Node, NEW k \in held'[n]
               PROVE  (Open(k) /\ Claimed(k) /\ NodeOf[ResourceOf(k)] = n)'
    BY DEF HeldInv
  <2>1. Open(k) /\ Claimed(k) /\ NodeOf[ResourceOf(k)] = n /\ k # j
    BY DEF HeldInv
  <2>2. k \in DOMAIN jobs
    BY <2>1 DEF Open
  <2> QED
    BY <1>1, <1>3, <2>1, <2>2 DEF Open
<1>5. UnsentInv'
  <2> SUFFICES ASSUME NEW k \in JobId, unsent'[k] # Sent PROVE Open(k)' /\ Claimed(k)'
    BY DEF UnsentInv
  <2>1. CASE k = j
    BY <1>1, <1>3, <2>1 DEF Open
  <2>2. CASE k # j
    <3>1. Open(k) /\ Claimed(k) /\ k \in DOMAIN jobs
      BY <1>1, <2>2 DEF UnsentInv, Open
    <3> QED
      BY <1>1, <1>3, <2>2, <3>1 DEF Open
  <2> QED
    BY <2>1, <2>2
<1>6. ResultInv'
  BY <1>1, <1>3 DEF ResultInv
<1>7. RowsInv' /\ \A k \in DOMAIN jobs : IsLatest(k)' <=> IsLatest(k)
  BY <1>1, SameRows
<1>8. LoopInv'
  BY <1>2, <1>4, <1>5, <1>6, <1>7 DEF StampInv
<1>9. ASSUME SoloInv,
             \A n \in Node : \A k \in held'[n], i \in DOMAIN jobs :
               ResourceOf(k) = ResourceOf(i) /\ ClaimedOnce(k) /\ (Executed(i) \/ i = j)
                 => VersionOf(i) < VersionOf(k),
             ClaimedOnce(j) =>
               /\ IsLatest(j) /\ status = "applied" => host'[ResourceOf(j)] = jobs[j].payload
               /\ \A i \in DOMAIN jobs :
                    /\ ResourceOf(i) = ResourceOf(j) /\ i # j
                    /\ Executed(i) /\ IsLatest(i)
                    => host'[ResourceOf(j)] = host[ResourceOf(j)]
      PROVE  SoloInv'
  <2>1. NewestInv' /\ DecidedInv'
    BY <1>1, <1>9, SameRowsSolo
  <2>2. ClaimOrderInv'
    BY <1>1, <1>3, <1>9 DEF SoloInv, ClaimOrderInv
  <2>3. RunOrderInv'
    BY <1>1, <1>3, <1>9 DEF RunOrderInv, ClaimedOnce
  <2>4. HostInv'
    <3> SUFFICES ASSUME NEW i \in DOMAIN jobs, ClaimedOnce(i), IsLatest(i),
                        "applied" \in {jobs'[i].result, unsent'[i]}
                 PROVE  host'[ResourceOf(i)] = jobs'[i].payload
      BY <1>1, <1>7 DEF HostInv, ClaimedOnce
    <3>0. i \in JobId /\ ResourceOf(i) \in Resource
      BY RowsDiffer DEF TypeOK
    <3>1. CASE i = j
      <4>1. status = "applied"
        BY <1>1, <3>1 DEF Sent
      <4> QED
        BY <1>1, <1>9, <3>1, <4>1
    <3>2. CASE i # j
      <4>1. Executed(i) /\ "applied" \in {jobs[i].result, unsent[i]}
        BY <1>1, <3>0, <3>2 DEF Executed, Sent
      <4>2. ResourceOf(i) = ResourceOf(j) => host'[ResourceOf(j)] = host[ResourceOf(j)]
        BY <1>9, <3>2, <4>1 DEF ClaimedOnce
      <4>3. host[ResourceOf(i)] = jobs[i].payload
        BY <1>9, <4>1 DEF SoloInv, HostInv
      <4> QED
        BY <1>1, <3>0, <4>2, <4>3
    <3> QED
      BY <3>1, <3>2
  <2> QED
    BY <1>8, <2>1, <2>2, <2>3, <2>4 DEF SoloInv
<1> QED
  BY <1>8, <1>9
(* Of the jobs in memory of one resource the oldest runs first.            *)
LEMMA RunKeeps ==
  ASSUME LoopInv, NEW n \in Node, NEW j \in JobId, NEW status \in Status, Run(n, j, status)
  PROVE  LoopInv' /\ (SoloInv => SoloInv')
<1>1. /\ j \in held[n] /\ Open(j) /\ Claimed(j) /\ NodeOf[ResourceOf(j)] = n
      /\ \A k \in held[n] : VersionOf(j) <= VersionOf(k)
      /\ ResourceOf(j) \in Resource /\ j \in DOMAIN jobs
  BY RowsDiffer DEF Run, NextHeld, LoopInv, HeldInv, Open, TypeOK
<1>2. /\ held' = [held EXCEPT ![n] = @ \ {j}]
      /\ \/ reportJob(j, status) /\ unsent' = [unsent EXCEPT ![j] = Sent]
         \/ unsent' = [unsent EXCEPT ![j] = status] /\ UNCHANGED jobs
      /\ UNCHANGED <<desired, tx, calm>>
      /\ host' = [host EXCEPT ![ResourceOf(j)] = jobs[j].payload]
         \/ (status = "failed" /\ host' = host)
  BY DEF Run
<1>3. /\ held' \in [Node -> SUBSET JobId]
      /\ \A m \in Node : held'[m] \subseteq held[m] /\ j \notin held'[m]
  <2>1. held \in [Node -> SUBSET JobId]
    BY DEF LoopInv, TypeOK
  <2>2. \A m \in Node : j \in held[m] => m = n
    BY <1>1 DEF LoopInv, HeldInv
  <2> QED
    BY <1>2, <2>1, <2>2
<1>4. /\ host' \in [Resource -> Payload \cup {Nothing}]
      /\ \A r \in Resource \ {ResourceOf(j)} : host'[r] = host[r]
      /\ status = "applied" => host'[ResourceOf(j)] = jobs[j].payload
  <2>1. host \in [Resource -> Payload \cup {Nothing}] /\ jobs[j] \in Row
    BY <1>1 DEF LoopInv, TypeOK, TableTypeOK
  <2>2. jobs[j].payload \in Payload
    BY <2>1 DEF Row
  <2> QED
    BY <1>1, <1>2, <2>1, <2>2
<1>5. ASSUME SoloInv
      PROVE  /\ \A m \in Node : \A k \in held'[m], i \in DOMAIN jobs :
                  ResourceOf(k) = ResourceOf(i) /\ ClaimedOnce(k) /\ (Executed(i) \/ i = j)
                    => VersionOf(i) < VersionOf(k)
             /\ ClaimedOnce(j) =>
                  \A i \in DOMAIN jobs :
                    ResourceOf(i) = ResourceOf(j) /\ i # j /\ Executed(i) => ~ IsLatest(i)
  <2>1. ASSUME NEW m \in Node, NEW k \in held'[m], NEW i \in DOMAIN jobs,
               ResourceOf(k) = ResourceOf(i), ClaimedOnce(k), Executed(i) \/ i = j
        PROVE  VersionOf(i) < VersionOf(k)
    <3>1. k \in held[m] /\ k # j
      BY <1>3
    <3>2. CASE Executed(i)
      BY <1>5, <2>1, <3>1, <3>2 DEF SoloInv, RunOrderInv
    <3>3. CASE i = j
      <4>1. NodeOf[ResourceOf(k)] = m /\ k \in DOMAIN jobs
        BY <3>1 DEF LoopInv, HeldInv, Open
      <4>2. m = n /\ VersionOf(j) <= VersionOf(k)
        BY <1>1, <2>1, <3>1, <3>3, <4>1
      <4>3. /\ VersionOf(j) \in Nat /\ VersionOf(k) \in Nat
            /\ VersionOf(j) # VersionOf(k)
        BY <1>1, <2>1, <3>1, <3>3, <4>1, RowsDiffer DEF LoopInv, TypeOK
      <4> QED
        BY <3>3, <4>2, <4>3
    <3> QED
      BY <2>1, <3>2, <3>3
  <2>2. ASSUME ClaimedOnce(j), NEW i \in DOMAIN jobs, ResourceOf(i) = ResourceOf(j), Executed(i)
        PROVE  ~ IsLatest(i)
    BY <1>1, <1>5, <2>2, OlderIsNotLatest DEF SoloInv, RunOrderInv, LoopInv, TypeOK
  <2> QED
    BY <2>1, <2>2
<1> QED
  BY <1>1, <1>2, <1>3, <1>4, <1>5, OutcomeKeeps

(* A buffered report: it fills in the result of an open job, and of the    *)
(* latest one only if that was the last to change the host.                *)
LEMMA FlushKeeps ==
  ASSUME LoopInv, NEW n \in Node, NEW j \in JobId, Flush(n, j)
  PROVE  LoopInv' /\ (SoloInv => SoloInv')
<1> DEFINE status == unsent[j]
<1>1. /\ status \in Status /\ Open(j) /\ Claimed(j) /\ j \in DOMAIN jobs
      /\ held[n] = {} /\ NodeOf[ResourceOf(j)] = n
      /\ reportJob(j, status) /\ unsent' = [unsent EXCEPT ![j] = Sent]
      /\ UNCHANGED <<desired, tx, host, held, calm>>
  BY DEF Flush, LoopInv, UnsentInv, TypeOK, Open
<1>2. /\ \A m \in Node : held'[m] \subseteq held[m] /\ j \notin held'[m]
      /\ held' \in [Node -> SUBSET JobId] /\ host' \in [Resource -> Payload \cup {Nothing}]
      /\ \A r \in Resource \ {ResourceOf(j)} : host'[r] = host[r]
  BY <1>1 DEF LoopInv, HeldInv, TypeOK
<1>3. Executed(j) /\ jobs[j].result = "none"
  BY <1>1 DEF Flush, Executed, Open
<1>4. ASSUME SoloInv
      PROVE  /\ \A m \in Node : \A k \in held'[m], i \in DOMAIN jobs :
                  ResourceOf(k) = ResourceOf(i) /\ ClaimedOnce(k) /\ (Executed(i) \/ i = j)
                    => VersionOf(i) < VersionOf(k)
             /\ ClaimedOnce(j) =>
                  /\ IsLatest(j) /\ status = "applied" => host'[ResourceOf(j)] = jobs[j].payload
                  /\ \A i \in DOMAIN jobs :
                       /\ ResourceOf(i) = ResourceOf(j) /\ i # j
                       /\ Executed(i) /\ IsLatest(i)
                       => host'[ResourceOf(j)] = host[ResourceOf(j)]
  <2>1. \A m \in Node : \A k \in held'[m], i \in DOMAIN jobs :
          ResourceOf(k) = ResourceOf(i) /\ ClaimedOnce(k) /\ (Executed(i) \/ i = j)
            => VersionOf(i) < VersionOf(k)
    BY <1>1, <1>3, <1>4 DEF SoloInv, RunOrderInv
  <2>2. ClaimedOnce(j) /\ IsLatest(j) /\ status = "applied" =>
          host'[ResourceOf(j)] = jobs[j].payload
    BY <1>1, <1>4 DEF SoloInv, HostInv
  <2> QED
    BY <1>1, <2>1, <2>2
<1> HIDE DEF status
<1> QED
  BY <1>1, <1>2, <1>4, OutcomeKeeps
(* An agent that dies forgets what it holds; the job it was running is     *)
(* younger than all that were executed, and stays open.                    *)
LEMMA CrashKeeps ==
  ASSUME LoopInv, NEW n \in Node, Crash(n)
  PROVE  LoopInv' /\ (SoloInv => SoloInv')
<1>1. /\ held' = [held EXCEPT ![n] = {}]
      /\ UNCHANGED <<jobs, desired, tx, unsent, calm>>
      /\ host' = host \/ \E j \in held[n] : host' = [host EXCEPT ![ResourceOf(j)] = jobs[j].payload]
  BY DEF Crash, NextHeld
<1>2. \A m \in Node : held'[m] \subseteq held[m]
  BY <1>1 DEF LoopInv, TypeOK
<1>3. TypeOK'
  <2>1. ASSUME NEW j \in held[n] PROVE ResourceOf(j) \in Resource /\ jobs[j].payload \in Payload
    <3>1. j \in DOMAIN jobs
      BY DEF LoopInv, HeldInv, Open
    <3>2. jobs[j] \in Row
      BY <3>1 DEF LoopInv, TypeOK, TableTypeOK
    <3> QED
      BY <3>1, <3>2, RowsDiffer DEF Row, LoopInv, TypeOK
  <2>2. host' \in [Resource -> Payload \cup {Nothing}]
    BY <1>1, <2>1 DEF LoopInv, TypeOK
  <2> QED
    BY <1>1, <2>2 DEF LoopInv, TypeOK, TableTypeOK
<1>4. LoopInv'
  BY <1>1, <1>2, <1>3
  DEF LoopInv, HeldInv, UnsentInv, ResultInv, RowsInv, StampInv, RowsOf, IsLatest, Open, Claimed
<1>5. ASSUME SoloInv PROVE SoloInv'
  <2>1. NewestInv' /\ DecidedInv'
    BY <1>1, <1>4, <1>5, SameRowsSolo DEF LoopInv, TypeOK
  <2>2. ClaimOrderInv' /\ RunOrderInv'
    BY <1>1, <1>2, <1>5 DEF SoloInv, ClaimOrderInv, RunOrderInv, Claimed, Executed
  <2>3. HostInv'
    <3> SUFFICES ASSUME NEW i \in DOMAIN jobs, ClaimedOnce(i), IsLatest(i),
                        "applied" \in {jobs[i].result, unsent[i]}
                 PROVE  host'[ResourceOf(i)] = jobs[i].payload
      BY <1>1 DEF HostInv, ClaimedOnce, IsLatest, RowsOf
    <3>1. host[ResourceOf(i)] = jobs[i].payload /\ Executed(i)
      BY <1>5 DEF SoloInv, HostInv, Executed, Sent
    <3>2. ASSUME NEW j \in held[n], ResourceOf(j) = ResourceOf(i) PROVE FALSE
      <4>1. j \in DOMAIN jobs
        BY DEF LoopInv, HeldInv, Open
      <4>2. VersionOf(i) < VersionOf(j)
        BY <1>5, <3>1, <3>2 DEF SoloInv, RunOrderInv, ClaimedOnce
      <4> QED
        BY <3>2, <4>1, <4>2, OlderIsNotLatest DEF LoopInv, TypeOK
    <3>3. host' \in [Resource -> Payload \cup {Nothing}] /\ host \in [Resource -> Payload \cup {Nothing}]
          /\ ResourceOf(i) \in Resource
      BY <1>3, RowsDiffer DEF LoopInv, TypeOK
    <3> QED
      BY <1>1, <3>1, <3>2, <3>3
  <2> QED
    BY <1>4, <2>1, <2>2, <2>3 DEF SoloInv
<1> QED
  BY <1>4, <1>5

(* Time: a claim goes stale, a completion falls behind the cutoff.         *)
LEMMA TimeKeeps ==
  ASSUME LoopInv, NEW j \in JobId, ClaimTimeout(j) \/ Age(j)
  PROVE  LoopInv' /\ (SoloInv => SoloInv')
<1>1. /\ TableTypeOK' /\ DOMAIN jobs' = DOMAIN jobs
      /\ \A k \in DOMAIN jobs : SameJob(jobs[k], jobs'[k])
      /\ \A k \in DOMAIN jobs : jobs'[k].claim = "never" <=> jobs[k].claim = "never"
  BY TimeoutEffect, AgeEffect DEF ClaimTimeout, Age, LoopInv, TypeOK
<1>2. UNCHANGED <<desired, tx, host, held, unsent, calm>>
  BY DEF ClaimTimeout, Age, agents
<1>3. /\ \A k \in DOMAIN jobs : /\ Claimed(k)' <=> Claimed(k)
                                /\ jobs'[k].result = jobs[k].result
                                /\ jobs'[k].payload = jobs[k].payload
                                /\ Executed(k)' <=> Executed(k)
      /\ \A k : Open(k)' <=> Open(k)
  BY <1>1, <1>2 DEF Claimed, Executed, Open, SameJob
<1>4. RowsInv' /\ \A k \in DOMAIN jobs : IsLatest(k)' <=> IsLatest(k)
  BY <1>1, SameRows
<1>5. TypeOK' /\ StampInv'
  BY <1>1, <1>2 DEF LoopInv, TypeOK, StampInv
<1>6. HeldInv' /\ UnsentInv' /\ ResultInv'
  BY <1>1, <1>2, <1>3 DEF LoopInv, HeldInv, UnsentInv, ResultInv, Open
<1>7. LoopInv'
  BY <1>4, <1>5, <1>6 DEF LoopInv
<1>8. ASSUME SoloInv PROVE SoloInv'
  <2>1. NewestInv' /\ DecidedInv'
    BY <1>1, <1>2, <1>3, <1>8, SameRowsSolo
  <2>2. ClaimOrderInv' /\ RunOrderInv' /\ HostInv'
    BY <1>1, <1>2, <1>3, <1>4, <1>8
    DEF SoloInv, ClaimOrderInv, RunOrderInv, HostInv, ClaimedOnce
  <2> QED
    BY <1>7, <2>1, <2>2 DEF SoloInv
<1> QED
  BY <1>7, <1>8

-----------------------------------------------------------------------------
(* The purge drops completed rows that are not the latest.                 *)
LEMMA PurgeRows ==
  ASSUME LoopInv, Purge
  PROVE  /\ TableTypeOK' /\ DOMAIN jobs' = DOMAIN jobs \ Purgeable
         /\ \A j \in DOMAIN jobs' : jobs'[j] = jobs[j]
         /\ \A j \in Purgeable : jobs[j].result # "none"
         /\ \A j \in DOMAIN jobs : IsLatest(j) => j \in DOMAIN jobs'
         /\ \A j \in DOMAIN jobs' : IsLatest(j)' <=> IsLatest(j)
         /\ UNCHANGED <<desired, tx, host, held, unsent, calm>>
<1>1. /\ TableTypeOK' /\ DOMAIN jobs' = DOMAIN jobs \ Purgeable
      /\ \A j \in DOMAIN jobs' : jobs'[j] = jobs[j]
      /\ \A j \in Purgeable : jobs[j].result # "none"
      /\ UNCHANGED <<desired, tx, host, held, unsent, calm>>
  BY PurgeEffect DEF Purge, agents, LoopInv, TypeOK
<1>2. \A j \in DOMAIN jobs : IsLatest(j) => j \in DOMAIN jobs'
  BY <1>1 DEF Purgeable
<1>3. ASSUME NEW j \in DOMAIN jobs' PROVE IsLatest(j)' <=> IsLatest(j)
  <2>1. ResourceOf(j) \in Resource
    BY <1>1, RowsDiffer DEF LoopInv, TypeOK
  <2> QED
    BY <1>1, <1>2, <2>1, SameLatest DEF LoopInv, TypeOK
<1> QED
  BY <1>1, <1>2, <1>3

(* The purge takes finished rows that are not the latest of their          *)
(* resource.                                                               *)
LEMMA PurgeKeeps ==
  ASSUME LoopInv, Purge
  PROVE  LoopInv' /\ (SoloInv => SoloInv')
<1>1. /\ TableTypeOK' /\ DOMAIN jobs' = DOMAIN jobs \ Purgeable
      /\ \A j \in DOMAIN jobs' : jobs'[j] = jobs[j]
      /\ \A j \in Purgeable : jobs[j].result # "none"
      /\ \A j \in DOMAIN jobs : IsLatest(j) => j \in DOMAIN jobs'
      /\ \A j \in DOMAIN jobs' : IsLatest(j)' <=> IsLatest(j)
      /\ UNCHANGED <<desired, tx, host, held, unsent, calm>>
  BY PurgeRows
<1>2. TypeOK' /\ StampInv'
  BY <1>1 DEF LoopInv, TypeOK, StampInv
<1>3. \A j : Open(j) => Open(j)' /\ (Claimed(j) => Claimed(j)')
  BY <1>1 DEF Open, Claimed
<1>4. HeldInv' /\ UnsentInv' /\ ResultInv'
  BY <1>1, <1>3 DEF LoopInv, HeldInv, UnsentInv, ResultInv, Claimed
<1>5. RowsInv'
  <2> SUFFICES ASSUME NEW r \in Resource, RowsOf(r)' # {} PROVE \E j \in RowsOf(r)' : IsLatest(j)'
    BY DEF RowsInv
  <2>1. RowsOf(r) # {}
    BY <1>1 DEF RowsOf
  <2>2. PICK j \in RowsOf(r) : IsLatest(j)
    BY <2>1 DEF LoopInv, RowsInv
  <2>3. j \in RowsOf(r)' /\ IsLatest(j)'
    BY <1>1, <2>2 DEF RowsOf
  <2> QED
    BY <2>3
<1>6. LoopInv'
  BY <1>2, <1>4, <1>5 DEF LoopInv
<1>7. ASSUME SoloInv PROVE SoloInv'
  <2>1. Needed \subseteq Needed'
    BY <1>1, DecisionKept DEF LoopInv, TypeOK
  <2>2. NewestInv' /\ DecidedInv'
    BY <1>1, <1>7, <2>1 DEF SoloInv, NewestInv, DecidedInv
  <2>3. ClaimOrderInv' /\ RunOrderInv'
    BY <1>1, <1>7 DEF SoloInv, ClaimOrderInv, RunOrderInv, Claimed, Executed, ClaimedOnce
  <2>4. HostInv'
    BY <1>1, <1>7 DEF SoloInv, HostInv, ClaimedOnce
  <2> QED
    BY <1>6, <2>2, <2>3, <2>4 DEF SoloInv
<1> QED
  BY <1>6, <1>7

(* What a commit stores: at most one row of each resource, all of one      *)
(* version.                                                                *)
LEMMA CommitRows ==
  ASSUME LoopInv, NEW d \in Dispatcher, Commit(d)
  PROVE  /\ TableTypeOK'
         /\ DOMAIN jobs' = DOMAIN jobs \cup JobsToInsert(d)
         /\ \A j \in DOMAIN jobs : jobs'[j] = jobs[j]
         /\ \A j \in JobsToInsert(d) : /\ VersionOf(j) = tx[d].version /\ ResourceOf(j) \in Resource
                                       /\ j \notin DOMAIN jobs
                                       /\ jobs'[j].result = "none" /\ jobs'[j].claim = "never"
         /\ desired' \in [Resource -> Value] /\ tx' = [tx EXCEPT ![d] = NoTx]
         /\ UNCHANGED <<host, held, unsent, calm>>
         /\ tx[d].version \in Nat
<1>1. tx[d] \in Tx /\ tx[d].step = "decided" /\ tx[d].version \in Version
  BY DEF Commit, LoopInv, TypeOK, StampInv, NoTx
<1>2. \A e \in tx[d].chosen : KeyOf[e] \in Resource
  BY <1>1, ControlLoopAssumption DEF Tx
<1> DEFINE payloadOf == [j \in JobsToInsert(d) |-> tx[d].payload[ResourceOf(j)]]
<1>3. \A j \in JobsToInsert(d) : /\ VersionOf(j) = tx[d].version /\ ResourceOf(j) \in Resource
                                 /\ j \in JobId
  BY <1>1, <1>2 DEF JobsToInsert, VersionOf, ResourceOf, JobId
<1>4. payloadOf \in [JobsToInsert(d) -> Payload]
  <2>1. tx[d].payload \in [Resource -> Payload]
    BY <1>1 DEF Tx
  <2> QED
    BY <1>3, <2>1
<1>5. insertDispatchedJobs(JobsToInsert(d), payloadOf)
  BY DEF Commit
<1>6. /\ TableTypeOK'
      /\ DOMAIN jobs' = DOMAIN jobs \cup JobsToInsert(d)
      /\ JobsToInsert(d) \cap DOMAIN jobs = {}
      /\ \A j \in DOMAIN jobs : jobs'[j] = jobs[j]
      /\ \A j \in JobsToInsert(d) : jobs'[j] = NewRow(payloadOf[j])
  <2> HIDE DEF payloadOf
  <2>1. JobsToInsert(d) \in SUBSET JobId
    BY <1>3
  <2> QED
    BY <1>4, <1>5, <2>1, InsertEffect DEF LoopInv, TypeOK
<1>7. desired' \in [Resource -> Value]
  <2>1. PICK S \in SUBSET Resource : tx[d].edit \in [S -> Value]
    BY <1>1 DEF Tx
  <2> QED
    BY <2>1 DEF Commit, LoopInv, TypeOK
<1>8. tx[d].version \in Nat
  BY <1>1, JobTableAssumption
<1>9. \A j \in JobsToInsert(d) : /\ j \notin DOMAIN jobs
                                 /\ jobs'[j].result = "none" /\ jobs'[j].claim = "never"
  BY <1>6 DEF NewRow
<1>10. tx' = [tx EXCEPT ![d] = NoTx] /\ UNCHANGED <<host, held, unsent, calm>>
  BY DEF Commit, agents
<1> QED
  BY <1>3, <1>6, <1>7, <1>8, <1>9, <1>10

(* New rows are unclaimed and have no result.                              *)
LEMMA CommitKeepsLoop ==
  ASSUME LoopInv, NEW d \in Dispatcher, Commit(d)
  PROVE  LoopInv'
<1> DEFINE J == JobsToInsert(d)
<1>1. /\ TableTypeOK'
      /\ DOMAIN jobs' = DOMAIN jobs \cup J
      /\ \A j \in DOMAIN jobs : jobs'[j] = jobs[j]
      /\ \A j \in J : /\ VersionOf(j) = tx[d].version /\ ResourceOf(j) \in Resource
                      /\ j \notin DOMAIN jobs
                      /\ jobs'[j].result = "none" /\ jobs'[j].claim = "never"
      /\ desired' \in [Resource -> Value] /\ tx' = [tx EXCEPT ![d] = NoTx]
      /\ UNCHANGED <<host, held, unsent, calm>>
      /\ tx[d].version \in Nat
  BY CommitRows
<1> HIDE DEF J
<1>2. TypeOK' /\ StampInv'
  BY <1>1 DEF LoopInv, TypeOK, StampInv, NoTx
<1>3. \A j : Open(j) => Open(j)' /\ (Claimed(j) => Claimed(j)')
  BY <1>1 DEF Open, Claimed
<1>4. HeldInv' /\ UnsentInv' /\ ResultInv'
  BY <1>1, <1>3 DEF LoopInv, HeldInv, UnsentInv, ResultInv, Claimed
<1>5. RowsInv'
  <2> SUFFICES ASSUME NEW r \in Resource, RowsOf(r)' # {} PROVE \E j \in RowsOf(r)' : IsLatest(j)'
    BY DEF RowsInv
  <2>1. RowsOf(r)' = RowsOf(r) \cup {j \in J : ResourceOf(j) = r}
    BY <1>1 DEF RowsOf
  <2>2. CASE {j \in J : ResourceOf(j) = r} = {}
    <3>1. PICK j \in RowsOf(r) : IsLatest(j)
      BY <2>1, <2>2 DEF LoopInv, RowsInv
    <3> QED
      BY <1>1, <2>1, <2>2, <3>1 DEF IsLatest, RowsOf
  <2>3. CASE RowsOf(r) = {}
    <3>1. PICK j \in RowsOf(r)' : TRUE
      OBVIOUS
    <3>2. \A k \in RowsOf(r)' : VersionOf(k) = tx[d].version /\ k \in DOMAIN jobs' /\ ResourceOf(k) = r
      BY <1>1, <2>1, <2>3
    <3>3. \A k \in RowsOf(r)' : VersionOf(k) <= VersionOf(j)
      BY <1>1, <3>1, <3>2
    <3>4. IsLatest(j)'
      BY <3>1, <3>2, <3>3 DEF IsLatest
    <3> QED
      BY <3>4
  <2>4. ASSUME NEW j \in J, ResourceOf(j) = r, NEW k \in RowsOf(r), IsLatest(k)
        PROVE  \E i \in RowsOf(r)' : IsLatest(i)'
    <3>0. /\ k \in DOMAIN jobs /\ ResourceOf(k) = r /\ j \in RowsOf(r)' /\ k \in RowsOf(r)'
          /\ j \in DOMAIN jobs' /\ k \in DOMAIN jobs'
      BY <1>1, <2>1, <2>4 DEF RowsOf
    <3>1. VersionOf(k) \in Nat /\ VersionOf(j) \in Nat /\ VersionOf(j) = tx[d].version
      BY <1>1, <2>4, <3>0, RowsDiffer DEF LoopInv, TypeOK
    <3>2. \A i \in RowsOf(r) : VersionOf(i) \in Nat /\ VersionOf(i) <= VersionOf(k)
      BY <2>4, <3>0, RowsDiffer DEF IsLatest, RowsOf, LoopInv, TypeOK
    <3>3. \A i \in RowsOf(r)' : i \in RowsOf(r) \/ VersionOf(i) = VersionOf(j)
      BY <1>1, <2>1, <3>1
    <3>4. CASE VersionOf(k) <= VersionOf(j)
      <4>1. \A i \in RowsOf(r)' : VersionOf(i) <= VersionOf(j)
        BY <3>1, <3>2, <3>3, <3>4
      <4>2. IsLatest(j)'
        BY <2>4, <3>0, <4>1 DEF IsLatest
      <4> QED
        BY <3>0, <4>2
    <3>5. CASE VersionOf(j) <= VersionOf(k)
      <4>1. \A i \in RowsOf(r)' : VersionOf(i) <= VersionOf(k)
        BY <3>1, <3>2, <3>3, <3>5
      <4>2. IsLatest(k)'
        BY <3>0, <4>1 DEF IsLatest
      <4> QED
        BY <3>0, <4>2
    <3> QED
      BY <3>1, <3>4, <3>5
  <2> QED
    BY <2>2, <2>3, <2>4 DEF LoopInv, RowsInv
<1> QED
  BY <1>2, <1>4, <1>5 DEF LoopInv

(* ... and, inserted by the only dispatcher, are the latest of their       *)
(* resources.                                                              *)
LEMMA CommitKeepsSolo ==
  ASSUME SoloInv, OneDispatcher, NEW d \in Dispatcher, Commit(d)
  PROVE  SoloInv'
<1> DEFINE J == JobsToInsert(d)
<1>0. LoopInv
  BY DEF SoloInv
<1>1. /\ TableTypeOK'
      /\ DOMAIN jobs' = DOMAIN jobs \cup J
      /\ \A j \in DOMAIN jobs : jobs'[j] = jobs[j]
      /\ \A j \in J : /\ VersionOf(j) = tx[d].version /\ ResourceOf(j) \in Resource
                      /\ j \notin DOMAIN jobs
                      /\ jobs'[j].result = "none" /\ jobs'[j].claim = "never"
      /\ tx' = [tx EXCEPT ![d] = NoTx]
      /\ UNCHANGED <<host, held, unsent, calm>>
  BY <1>0, CommitRows
<1>2. \A j \in DOMAIN jobs, k \in J : VersionOf(j) < VersionOf(k)
  BY <1>1 DEF SoloInv, NewestInv, Commit
<1>3. LoopInv'
  BY <1>0, CommitKeepsLoop
<1> HIDE DEF J
<1>4. NewestInv' /\ DecidedInv'
  <2>1. Reconciler \subseteq Dispatcher /\ \A c \in Dispatcher : tx'[c].step = "idle"
    BY <1>1, <1>0 DEF Dispatcher, OneDispatcher, NoTx, LoopInv, TypeOK
  <2> QED
    BY <2>1 DEF NewestInv, DecidedInv
<1>5. ClaimOrderInv'
  BY <1>1, <1>2 DEF SoloInv, ClaimOrderInv, Claimed
<1>6. \A j \in J : unsent'[j] = Sent /\ ~ Executed(j)' /\ j \in JobId
  <2>1. \A j \in J : j \in JobId
    BY <1>1 DEF TableTypeOK
  <2> QED
    BY <1>0, <1>1, <2>1 DEF LoopInv, UnsentInv, Open, Executed
<1>7. \A j \in DOMAIN jobs : Executed(j)' <=> Executed(j)
  BY <1>1 DEF Executed
<1>8. RunOrderInv'
  BY <1>1, <1>6, <1>7 DEF SoloInv, RunOrderInv, ClaimedOnce
<1>9. HostInv'
  <2> SUFFICES ASSUME NEW j \in DOMAIN jobs', ClaimedOnce(j), IsLatest(j)',
                      "applied" \in {jobs'[j].result, unsent'[j]}
               PROVE  host'[ResourceOf(j)] = jobs'[j].payload
    BY DEF HostInv, ClaimedOnce
  <2>1. j \in DOMAIN jobs
    BY <1>1, <1>6 DEF Sent
  <2>2. IsLatest(j)
    BY <1>1, <2>1 DEF IsLatest, RowsOf
  <2> QED
    BY <1>1, <2>1, <2>2 DEF SoloInv, HostInv, ClaimedOnce
<1> QED
  BY <1>3, <1>4, <1>5, <1>8, <1>9 DEF SoloInv

-----------------------------------------------------------------------------
(* Nothing happens.                                                        *)
LEMMA StutterKeeps ==
  ASSUME UNCHANGED vars
  PROVE  (LoopInv => LoopInv') /\ (SoloInv => SoloInv')
<1>1. UNCHANGED <<jobs, desired, tx, host, held, unsent, calm>>
  BY DEF vars, agents
<1>2. LoopInv => LoopInv'
  BY <1>1 DEF LoopInv, TypeOK, TableTypeOK, HeldInv, UnsentInv, ResultInv, RowsInv, StampInv,
              RowsOf, IsLatest, Open, Claimed
<1>3. ASSUME SoloInv PROVE SoloInv'
  <2>1. NewestInv' /\ DecidedInv'
    BY <1>1, <1>2, <1>3, SameRowsSolo DEF SoloInv, LoopInv, TypeOK
  <2> QED
    BY <1>1, <1>2, <1>3, <2>1
    DEF SoloInv, ClaimOrderInv, RunOrderInv, HostInv, Claimed, Executed, ClaimedOnce, IsLatest,
        RowsOf
<1> QED
  BY <1>2, <1>3

(* Every step of the loop.                                                 *)
LEMMA LoopStep ==
  ASSUME LoopInv, [Next]_vars
  PROVE  LoopInv' /\ (SoloInv /\ OneDispatcher => SoloInv')
<1>1. CASE UNCHANGED vars
  BY <1>1, StutterKeeps
<1>2. CASE DispatcherMoves
  BY <1>2, MovesKeepLoop, MovesKeepSolo
<1>3. CASE \E d \in Dispatcher : Commit(d)
  BY <1>3, CommitKeepsLoop, CommitKeepsSolo
<1>4. CASE Purge
  BY <1>4, PurgeKeeps
<1>5. CASE \E n \in Node : AgentStep(n) \/ Crash(n)
  BY <1>5, ClaimKeeps, RunKeeps, FlushKeeps, CrashKeeps DEF AgentStep
<1>6. CASE \E j \in JobId : ClaimTimeout(j) \/ Age(j)
  BY <1>6, TimeKeeps
<1> QED
  BY <1>1, <1>2, <1>3, <1>4, <1>5, <1>6 DEF Next, TxStep, DispatcherMoves

(* Whatever number of dispatchers: the types, and that what an agent holds *)
(* or has yet to report is open and claimed.                               *)
THEOREM LoopKept == Spec => []LoopInv
<1>1. LoopInv /\ [Next]_vars => LoopInv'
  BY LoopStep
<1>2. Init => LoopInv
  BY LoopInit DEF SoloInv
<1> QED
  BY <1>1, <1>2, PTL DEF Spec

(* Every variable of the control loop has its type.                        *)
THEOREM LoopTyped == Spec => []TypeOK
<1>1. LoopInv => TypeOK
  BY DEF LoopInv
<1> QED
  BY <1>1, LoopKept, PTL

(* One dispatcher: its stamps, the order of claims and runs, the host.     *)
THEOREM SoloKept ==
  ASSUME OneDispatcher
  PROVE  Spec => []SoloInv
<1>1. SoloInv /\ [Next]_vars => SoloInv'
  BY LoopStep DEF SoloInv
<1> QED
  BY <1>1, LoopInit, PTL DEF Spec

(* What the drift view says of a resource that it shows in sync.           *)
InSyncIsApplied(r) == InSync(r) => host[r] = buildReconciliationCandidates[r]

(* In sync means that the latest row is applied and as desired.            *)
LEMMA InSyncFromHost ==
  ASSUME SoloInv, NEW r \in Resource \ Reclaimable
  PROVE  InSyncIsApplied(r)
<1> DEFINE p == buildReconciliationCandidates[r]
<1> SUFFICES ASSUME createResourceDriftSummary(r, p).driftStatus = "in_sync"
             PROVE  host[r] = p
  BY DEF InSyncIsApplied, InSync, drift
<1> HIDE DEF p
<1>1. RowsOf(r) # {}
  BY DEF createResourceDriftSummary
<1>2. PICK j \in RowsOf(r) : IsLatest(j)
  BY <1>1 DEF SoloInv, LoopInv, RowsInv
<1>3. getLatestResourceJob(r) = j
  BY <1>2, LatestRow DEF SoloInv, LoopInv, TypeOK
<1>4. j \in DOMAIN jobs /\ ResourceOf(j) = r /\ jobs[j] \in Row
  BY <1>2 DEF RowsOf, SoloInv, LoopInv, TypeOK, TableTypeOK
<1>5. jobs[j].result = "applied" /\ jobs[j].payload = p
  BY <1>1, <1>3, <1>4 DEF createResourceDriftSummary, Row, Status
<1> QED
  BY <1>2, <1>4, <1>5 DEF SoloInv, HostInv, ClaimedOnce

(* The drift view: with one dispatcher, a resource whose jobs are claimed  *)
(* once and that is shown in sync has the desired payload on its host,     *)
(* whatever agents die and whatever is purged.                             *)
THEOREM OnceClaimedInSync ==
  ASSUME OneDispatcher
  PROVE  Spec => [](\A r \in Resource \ Reclaimable : InSyncIsApplied(r))
<1>1. SoloInv => \A r \in Resource \ Reclaimable : InSyncIsApplied(r)
  BY InSyncFromHost
<1> QED
  BY <1>1, SoloKept, PTL

(* The same of all resources, when no kind is claimed again.               *)
THEOREM InSyncIsOnTheHost ==
  ASSUME OneDispatcher, Reclaimable = {}
  PROVE  Spec => []InSyncMeansApplied
<1>1. SoloInv => InSyncMeansApplied
  BY InSyncFromHost DEF InSyncMeansApplied, InSyncIsApplied
<1> QED
  BY <1>1, SoloKept, PTL

(* What one reconciler decided is still asked for when its jobs become     *)
(* visible: agents only add results, and the purge keeps the latest row.   *)
THEOREM DispatchesAreNeeded ==
  ASSUME OneDispatcher
  PROVE  Spec => DispatchIsNeeded
<1> DEFINE A == \A d \in Reconciler : Commit(d) =>
                  \A j \in JobsToInsert(d) :
                    shouldDispatchQueuedJob(ResourceOf(j), tx[d].payload[ResourceOf(j)])
<1>1. SoloInv => A
  <2> SUFFICES ASSUME SoloInv, NEW d \in Reconciler, Commit(d), NEW e \in tx[d].chosen
               PROVE  shouldDispatchQueuedJob(KeyOf[e], tx[d].payload[KeyOf[e]])
    BY DEF JobsToInsert, ResourceOf
  <2>1. <<KeyOf[e], tx[d].payload[KeyOf[e]]>> \in Needed
    BY DEF SoloInv, DecidedInv, Commit
  <2> QED
    BY <2>1 DEF Needed
<1>2. SoloInv /\ [Next]_vars => [A]_vars
  BY <1>1
<1> QED
  BY <1>2, SoloKept, PTL DEF Spec, DispatchIsNeeded

(* The purge decides nothing: the drift of a resource rests on its latest  *)
(* row, which is spared, and of a zone also on results that are not.       *)
LEMMA PurgeSparesDrift ==
  ASSUME LoopInv, Purge, NEW r \in Resource \ DOMAIN MailOf
  PROVE  drift(r)' = drift(r)
<1>1. /\ TableTypeOK' /\ DOMAIN jobs' = DOMAIN jobs \ Purgeable
      /\ \A j \in DOMAIN jobs' : jobs'[j] = jobs[j]
      /\ \A j \in DOMAIN jobs : IsLatest(j) => j \in DOMAIN jobs'
      /\ UNCHANGED desired
  BY PurgeRows
<1>2. buildReconciliationCandidates[r]' = buildReconciliationCandidates[r]
  BY <1>1 DEF buildReconciliationCandidates, PayloadFor, PublishesDkim
<1>3. /\ RowsOf(r)' = {} <=> RowsOf(r) = {}
      /\ RowsOf(r) # {} => /\ getLatestResourceJob(r) \in DOMAIN jobs'
                           /\ getLatestResourceJob(r)' = getLatestResourceJob(r)
  BY <1>1, SameLatest DEF LoopInv, TypeOK
<1>4. RowsOf(r) # {} => jobs'[getLatestResourceJob(r)'] = jobs[getLatestResourceJob(r)]
  BY <1>1, <1>3
<1>5. CASE RowsOf(r) = {}
  BY <1>3, <1>5 DEF drift, createResourceDriftSummary
<1>6. CASE RowsOf(r) # {}
  <2> DEFINE latest == jobs[getLatestResourceJob(r)]
             p == buildReconciliationCandidates[r]
             Summary(status, dispatch) == [driftStatus |-> status, dispatchRecommended |-> dispatch]
             S(row, q) ==
               CASE row.result = "none"                     -> Summary("pending", row.payload # q)
                 [] row.result # "none" /\ row.payload # q  -> Summary("out_of_sync", TRUE)
                 [] row.result = "failed" /\ row.payload = q -> Summary("failed", TRUE)
                 [] row.result = "applied" /\ row.payload = q -> Summary("in_sync", FALSE)
  <2>1. drift(r) = S(latest, p)
    BY <1>6 DEF drift, createResourceDriftSummary
  <2>2. drift(r)' = S(latest', p')
    BY <1>3, <1>6 DEF drift, createResourceDriftSummary
  <2>3. latest' = latest /\ p' = p
    BY <1>2, <1>4, <1>6
  <2> HIDE DEF S, latest, p
  <2> QED
    BY <2>1, <2>2, <2>3
<1> QED
  BY <1>5, <1>6

(* The purge leaves every drift status and dispatch decision as it was,    *)
(* but for zones that take their DKIM record from the results it deletes.  *)
THEOREM PurgeSparesDecisions ==
  Spec => [][Purge => \A r \in Resource \ DOMAIN MailOf : drift(r)' = drift(r)]_vars
<1>1. LoopInv /\ [Next]_vars =>
        [Purge => \A r \in Resource \ DOMAIN MailOf : drift(r)' = drift(r)]_vars
  BY PurgeSparesDrift
<1> QED
  BY <1>1, LoopKept, PTL DEF Spec

(* The same of all resources, when no zone does.                           *)
THEOREM PurgeChangesNoDecision ==
  ASSUME DOMAIN MailOf = {}
  PROVE  Spec => PurgeKeepsDecisions
<1>1. LoopInv /\ [Next]_vars => [Purge => \A r \in Resource : drift(r)' = drift(r)]_vars
  BY PurgeSparesDrift
<1> QED
  BY <1>1, LoopKept, PTL DEF Spec, PurgeKeepsDecisions
=============================================================================
