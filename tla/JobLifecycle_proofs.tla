------------------------- MODULE JobLifecycle_proofs -------------------------
(***************************************************************************)
(* Proofs, for any nodes, resources, payloads and versions, that the       *)
(* invariants of JobLifecycle hold and that it implements JobContract.     *)
(* The argument is one induction over IInv: an agent past its flush holds  *)
(* only open jobs of its own node, because claims happen with nothing held *)
(* and only reports complete a job; what the buffer holds is an outcome    *)
(* the job really had; a job of a kind that is not reclaimable is claimed  *)
(* once and hence executed once.                                           *)
(***************************************************************************)
EXTENDS JobLifecycle, JobTable_proofs

LEMMA InitInv == Init => IInv
<1> SUFFICES ASSUME Init PROVE IInv
  OBVIOUS
<1> USE DEF Init
<1>1. TypeOK
  <2>1. TableTypeOK
    BY Zenon DEF TableTypeOK
  <2>2. attempts \in [JobId -> 0..2]
    OBVIOUS
  <2>3. /\ todo \in [Node -> SUBSET JobId]
        /\ batch \in [Node -> SUBSET JobId]
        /\ outcomes \in [JobId -> SUBSET Status]
        /\ issued \in SUBSET JobId
    OBVIOUS
  <2>4. /\ phase \in [Node -> Phase]
        /\ current \in [Node -> JobId \cup {NoJob}]
        /\ outcome \in [Node -> Status \cup {None}]
        /\ spool \in [JobId -> {None, "claimed", "executed"}]
        /\ buffer \in [JobId -> Status \cup {None}]
        /\ calm \in BOOLEAN
    BY DEF Phase
  <2> QED
    BY <2>1, <2>2, <2>3, <2>4 DEF TypeOK
<1>2. CycleInv
  BY DEF CycleInv, Holding
<1>3. HeldInv
  BY DEF HeldInv, Holding
<1>4. RecordInv
  BY DEF RecordInv
<1>5. RecordedResultIsReal /\ AtMostOnceUnlessReclaimable /\ SpoolIsJournal
  BY DEF RecordedResultIsReal, AtMostOnceUnlessReclaimable, SpoolIsJournal
<1> QED
  BY <1>1, <1>2, <1>3, <1>4, <1>5 DEF IInv

-----------------------------------------------------------------------------
(* A step that only touches rows no agent holds, or leaves their result,   *)
(* payload and first claim alone, keeps the invariant.                     *)
LEMMA DispatchInv ==
  ASSUME IInv, NEW v \in Version, Dispatch(v)
  PROVE  IInv'
<1>0. PICK R \in SUBSET Resource : \E payloadOf \in [{v} \X R -> Payload] :
                              /\ insertDispatchedJobs({v} \X R, payloadOf)
                              /\ issued' = issued \cup ({v} \X R)
  BY DEF Dispatch
<1>1. PICK payloadOf \in [{v} \X R -> Payload] :
             /\ insertDispatchedJobs({v} \X R, payloadOf)
             /\ issued' = issued \cup ({v} \X R)
  BY <1>0
<1> DEFINE J == {v} \X R
<1>2. J \in SUBSET JobId
  BY DEF JobId
<1>3. /\ TableTypeOK'
      /\ DOMAIN jobs' = DOMAIN jobs \cup J
      /\ J \cap DOMAIN jobs = {}
      /\ \A j \in DOMAIN jobs : jobs'[j] = jobs[j]
      /\ \A j \in J : jobs'[j] = NewRow(payloadOf[j])
  <2> HIDE DEF J
  <2>1. TableTypeOK /\ payloadOf \in [J -> Payload] /\ insertDispatchedJobs(J, payloadOf)
    BY <1>1 DEF IInv, TypeOK, J
  <2> QED
    BY <1>2, <2>1, InsertEffect
<1>4. \A j \in J : j \notin issued
  BY DEF Dispatch, VersionOf
<1>5. issued' = issued \cup J
  BY <1>1
<1>6. UNCHANGED <<agentMemory, agentDisk, history, calm>>
  BY DEF Dispatch
<1> HIDE DEF J
<1> USE <1>2, <1>3, <1>4, <1>5, <1>6 DEF agentMemory, agentDisk, history
<1>7. TypeOK'
  BY DEF IInv, TypeOK
<1>8. CycleInv'
  BY DEF IInv, CycleInv
<1>9. HeldInv'
  BY DEF IInv, HeldInv, Waiting, Open
<1>10. RecordInv'
  BY DEF IInv, RecordInv, TypeOK
<1>11. RecordedResultIsReal'
  BY DEF IInv, RecordedResultIsReal, NewRow
<1>12. AtMostOnceUnlessReclaimable'
  BY DEF IInv, AtMostOnceUnlessReclaimable
<1>13. SpoolIsJournal'
  BY DEF IInv, SpoolIsJournal, RecordInv
<1> QED
  BY <1>7, <1>8, <1>9, <1>10, <1>11, <1>12, <1>13 DEF IInv

(* Purge removes completed rows, and no held row is completed.             *)
LEMMA PurgeInv ==
  ASSUME IInv, Purge
  PROVE  IInv'
<1>1. /\ TableTypeOK'
      /\ DOMAIN jobs' = DOMAIN jobs \ Purgeable
      /\ \A j \in DOMAIN jobs' : jobs'[j] = jobs[j]
      /\ \A j \in Purgeable : jobs[j].result # "none"
  BY PurgeEffect DEF Purge, IInv, TypeOK
<1>2. UNCHANGED <<issued, agentMemory, agentDisk, history, calm>>
  BY DEF Purge
<1> USE <1>1, <1>2 DEF agentMemory, agentDisk, history
<1>3. TypeOK'
  BY DEF IInv, TypeOK
<1>4. CycleInv'
  BY DEF IInv, CycleInv
<1>5. HeldInv'
  BY DEF IInv, HeldInv, Waiting, Open
<1>6. RecordInv'
  BY DEF IInv, RecordInv
<1>7. RecordedResultIsReal' /\ AtMostOnceUnlessReclaimable' /\ SpoolIsJournal'
  BY DEF IInv, RecordedResultIsReal, AtMostOnceUnlessReclaimable, SpoolIsJournal
<1> QED
  BY <1>3, <1>4, <1>5, <1>6, <1>7 DEF IInv

LEMMA TimeInv ==
  ASSUME IInv, NEW j \in JobId, ClaimTimeout(j) \/ Age(j)
  PROVE  IInv'
<1>1. /\ TableTypeOK'
      /\ DOMAIN jobs' = DOMAIN jobs
      /\ \A k \in DOMAIN jobs : SameJob(jobs[k], jobs'[k])
      /\ \A k \in DOMAIN jobs : jobs'[k].claim = "never" <=> jobs[k].claim = "never"
  BY TimeoutEffect, AgeEffect DEF ClaimTimeout, Age, IInv, TypeOK
<1>2. UNCHANGED <<issued, agentMemory, agentDisk, history, calm>>
  BY DEF ClaimTimeout, Age
<1> USE <1>1, <1>2 DEF agentMemory, agentDisk, history, SameJob
<1>3. TypeOK'
  BY DEF IInv, TypeOK
<1>4. CycleInv'
  BY DEF IInv, CycleInv
<1>5. HeldInv'
  BY DEF IInv, HeldInv, Waiting, Open
<1>6. RecordInv'
  BY DEF IInv, RecordInv
<1>7. RecordedResultIsReal' /\ AtMostOnceUnlessReclaimable' /\ SpoolIsJournal'
  BY DEF IInv, RecordedResultIsReal, AtMostOnceUnlessReclaimable, SpoolIsJournal
<1> QED
  BY <1>3, <1>4, <1>5, <1>6, <1>7 DEF IInv

-----------------------------------------------------------------------------
(* Steps that write neither the table nor a file.                          *)
LEMMA MemoryInv ==
  ASSUME IInv, NEW n \in Node, StartCycle(n) \/ ClaimFails(n) \/ Crash(n)
  PROVE  IInv'
<1>1. UNCHANGED <<jobs, issued, spool, buffer, attempts, outcomes, calm>>
  BY DEF StartCycle, ClaimFails, Crash, agentDisk, history
<1> USE <1>1
<1>2. TypeOK'
  BY DEF IInv, TypeOK, TableTypeOK, Phase, JobsOf, StartCycle, ClaimFails, Crash
<1>3. CycleInv'
  BY DEF IInv, TypeOK, CycleInv, Holding, JobsOf, StartCycle, ClaimFails, Crash
<1>4. HeldInv'
  BY DEF IInv, TypeOK, HeldInv, Waiting, Open, Holding, StartCycle, ClaimFails, Crash
<1>5. RecordInv'
  BY DEF IInv, RecordInv
<1>6. RecordedResultIsReal' /\ AtMostOnceUnlessReclaimable' /\ SpoolIsJournal'
  BY DEF IInv, RecordedResultIsReal, AtMostOnceUnlessReclaimable, SpoolIsJournal
<1> QED
  BY <1>2, <1>3, <1>4, <1>5, <1>6 DEF IInv

(* What a delivered report, one whose reply is lost and one that fails have *)
(* in common: the row, if written, takes the status in the buffer.          *)
LEMMA DeliveryEffect ==
  ASSUME IInv, NEW j \in JobId, buffer[j] # None,
         Delivered(j) \/ ReplyLost(j) \/ Undelivered(j)
  PROVE  /\ TableTypeOK'
         /\ DOMAIN jobs' = DOMAIN jobs
         /\ \A k \in DOMAIN jobs : jobs'[k].claim = jobs[k].claim
         /\ \A k \in DOMAIN jobs \ {j} : jobs'[k] = jobs[k]
         /\ j \in DOMAIN jobs => jobs'[j].result \in {jobs[j].result, buffer[j]}
         /\ buffer' \in [JobId -> Status \cup {None}]
         /\ \A k \in JobId \ {j} : buffer'[k] = buffer[k]
         /\ buffer'[j] \in {buffer[j], None}
<1>1. buffer[j] \in Status /\ TableTypeOK
  BY DEF IInv, TypeOK
<1>2. CASE Undelivered(j)
  BY <1>1, <1>2 DEF Undelivered, TableTypeOK, IInv, TypeOK
<1>3. CASE reportJob(j, buffer[j]) /\ (Delivered(j) \/ ReplyLost(j))
  <2>1. /\ TableTypeOK'
        /\ j \in DOMAIN jobs
        /\ DOMAIN jobs' = DOMAIN jobs
        /\ jobs'[j].result = buffer[j]
        /\ jobs'[j].claim = jobs[j].claim
        /\ \A k \in DOMAIN jobs \ {j} : jobs'[k] = jobs[k]
    BY <1>1, <1>3, ReportEffect
  <2>2. /\ buffer' \in [JobId -> Status \cup {None}]
        /\ \A k \in JobId \ {j} : buffer'[k] = buffer[k]
        /\ buffer'[j] \in {buffer[j], None}
    BY <1>3 DEF Delivered, ReplyLost, IInv, TypeOK
  <2> QED
    BY <2>1, <2>2
<1> QED
  BY <1>2, <1>3 DEF Delivered, ReplyLost

(* A flush sends what the buffer holds for jobs nobody holds.              *)
LEMMA FlushInv ==
  ASSUME IInv, NEW n \in Node, flushBufferedReports(n)
  PROVE  IInv'
<1>1. PICK j \in todo[n] : /\ Delivered(j) \/ ReplyLost(j) \/ Undelivered(j)
                           /\ todo' = [todo EXCEPT ![n] = @ \ {j}]
  BY DEF flushBufferedReports
<1>2. j \in JobsOf(n) /\ j \in JobId /\ buffer[j] # None
  BY DEF IInv, CycleInv, JobsOf
<1>3. /\ TableTypeOK'
      /\ DOMAIN jobs' = DOMAIN jobs
      /\ \A k \in DOMAIN jobs : jobs'[k].claim = jobs[k].claim
      /\ \A k \in DOMAIN jobs \ {j} : jobs'[k] = jobs[k]
      /\ j \in DOMAIN jobs => jobs'[j].result \in {jobs[j].result, buffer[j]}
      /\ buffer' \in [JobId -> Status \cup {None}]
      /\ \A k \in JobId \ {j} : buffer'[k] = buffer[k]
      /\ buffer'[j] \in {buffer[j], None}
  BY <1>1, <1>2, DeliveryEffect
<1>4. /\ phase[n] = "flush"
      /\ UNCHANGED <<issued, phase, batch, current, outcome, spool, history, calm>>
  BY DEF flushBufferedReports
<1>5. \A m \in Node : /\ j \notin batch[m]
                      /\ phase[m] \in Holding => current[m] # j
  <2> SUFFICES ASSUME NEW m \in Node
               PROVE  /\ j \notin batch[m]
                      /\ phase[m] \in Holding => current[m] # j
    OBVIOUS
  <2>1. CASE m = n
    BY <1>4, <2>1 DEF IInv, CycleInv, Holding
  <2>2. CASE m # n
    BY <1>2, <2>2 DEF IInv, CycleInv, JobsOf
  <2> QED
    BY <2>1, <2>2
<1> USE <1>1, <1>2, <1>3, <1>4 DEF history
<1>6. TypeOK'
  BY DEF IInv, TypeOK
<1>7. CycleInv'
  <2> SUFFICES ASSUME NEW m \in Node
               PROVE  /\ todo'[m] \subseteq {k \in JobsOf(m) : buffer'[k] # None}
                      /\ todo'[m] # {} => phase'[m] = "flush"
                      /\ batch'[m] \subseteq JobsOf(m)
                      /\ batch'[m] # {} => phase'[m] \notin {"idle", "flush"}
                      /\ phase'[m] \in Holding => current'[m] \in JobsOf(m) \ batch'[m]
    BY DEF CycleInv, JobsOf
  <2>1. todo'[m] \subseteq todo[m] \ {j}
    BY DEF IInv, TypeOK, CycleInv, JobsOf
  <2>2. todo[m] \subseteq {k \in JobsOf(m) : buffer[k] # None} /\ JobsOf(m) \subseteq JobId
    BY DEF IInv, CycleInv, JobsOf
  <2>3. todo'[m] \subseteq {k \in JobsOf(m) : buffer'[k] # None}
    BY <2>1, <2>2
  <2> QED
    BY <2>1, <2>3 DEF IInv, CycleInv
<1>8. HeldInv'
  BY <1>5 DEF IInv, TypeOK, CycleInv, HeldInv, Waiting, Open, Holding, JobsOf
<1>9. RecordInv'
  BY DEF IInv, TypeOK, RecordInv
<1>10. RecordedResultIsReal'
  BY DEF IInv, TypeOK, TableTypeOK, RecordInv, RecordedResultIsReal
<1>11. AtMostOnceUnlessReclaimable'
  BY DEF IInv, AtMostOnceUnlessReclaimable
<1>12. SpoolIsJournal'
  BY DEF IInv, TypeOK, TableTypeOK, SpoolIsJournal, None
<1> QED
  BY <1>6, <1>7, <1>8, <1>9, <1>10, <1>11, <1>12 DEF IInv

(* A claim hands out open jobs of the node, none of which has run unless   *)
(* its kind is reclaimable, to an agent that holds none.                   *)
LEMMA ClaimInv ==
  ASSUME IInv, NEW n \in Node, Claim(n)
  PROVE  IInv'
<1>1. PICK B \in ClaimBatches(n) :
        /\ claimJobs(B)
        /\ \/ /\ batch' = [batch EXCEPT ![n] = B]
              /\ phase' = [phase EXCEPT ![n] = IF B = {} THEN "idle" ELSE "run"]
           \/ /\ phase' = [phase EXCEPT ![n] = "idle"]
              /\ UNCHANGED batch
  BY DEF Claim
<1>2. /\ phase[n] = "flush"
      /\ todo[n] = {}
      /\ UNCHANGED <<issued, todo, current, outcome, agentDisk, history, calm>>
  BY DEF Claim
<1>3. /\ B \in SUBSET DOMAIN jobs
      /\ B \subseteq JobsOf(n)
      /\ \A j \in B : /\ Open(j)
                      /\ jobs[j].claim = "never" \/ ResourceOf(j) \in Reclaimable
  BY <1>1 DEF ClaimBatches, Claimable, Open, JobsOf, IInv, TypeOK, TableTypeOK
<1>4. /\ TableTypeOK'
      /\ DOMAIN jobs' = DOMAIN jobs
      /\ \A j \in DOMAIN jobs : SameJob(jobs[j], jobs'[j])
      /\ \A j \in B : jobs'[j].claim = "fresh"
      /\ \A j \in DOMAIN jobs \ B : jobs'[j] = jobs[j]
  BY <1>1, <1>3, ClaimEffect DEF IInv, TypeOK
<1>5. \A j \in DOMAIN jobs : jobs'[j].claim = "never" => jobs[j].claim = "never"
  BY <1>4
<1>6. \A j \in B : Waiting(j)'
  BY <1>3, <1>4 DEF Waiting, Open, SameJob, IInv, RecordInv, TypeOK, TableTypeOK, Claim, history
<1> USE <1>2, <1>4 DEF agentDisk, history, SameJob
<1>7. TypeOK'
  BY <1>1, <1>3 DEF IInv, TypeOK, Phase, JobsOf
<1>8. CycleInv'
  BY <1>1, <1>3 DEF IInv, TypeOK, CycleInv, Holding, JobsOf
<1>9. HeldInv'
  <2>1. \A j \in JobId : Waiting(j) => Waiting(j)'
    BY <1>5 DEF Waiting, Open
  <2>2. \A m \in Node : \A j \in batch'[m] : Waiting(j)'
    BY <1>1, <1>6, <2>1 DEF IInv, TypeOK, HeldInv
  <2>3. \A m \in Node : phase'[m] \in Holding => phase[m] = phase'[m]
    BY <1>1 DEF IInv, TypeOK, Holding
  <2>4. \A m \in Node : phase[m] \in Holding => current[m] \in JobId
    BY DEF IInv, CycleInv, JobsOf
  <2> QED
    BY <1>5, <2>1, <2>2, <2>3, <2>4 DEF IInv, HeldInv, Open, Holding
<1>10. RecordInv'
  BY <1>5 DEF IInv, RecordInv
<1>11. RecordedResultIsReal' /\ AtMostOnceUnlessReclaimable' /\ SpoolIsJournal'
  BY DEF IInv, RecordedResultIsReal, AtMostOnceUnlessReclaimable, SpoolIsJournal
<1> QED
  BY <1>7, <1>8, <1>9, <1>10, <1>11 DEF IInv

LEMMA SpoolClaimedInv ==
  ASSUME IInv, NEW n \in Node, SpoolClaimed(n)
  PROVE  IInv'
<1>1. PICK j \in batch[n] : /\ current' = [current EXCEPT ![n] = j]
                            /\ batch' = [batch EXCEPT ![n] = @ \ {j}]
                            /\ spool' = [spool EXCEPT ![j] = "claimed"]
  BY DEF SpoolClaimed
<1>2. /\ phase[n] = "run"
      /\ phase' = [phase EXCEPT ![n] = "execute"]
      /\ UNCHANGED <<jobs, issued, todo, outcome, buffer, history, calm>>
  BY DEF SpoolClaimed
<1>3. j \in JobsOf(n) /\ j \in JobId /\ Waiting(j)
  BY DEF IInv, CycleInv, HeldInv, JobsOf
<1> USE <1>1, <1>2, <1>3 DEF history
<1>4. \A k \in JobId : spool[k] # None => spool'[k] # None
  BY DEF IInv, TypeOK, None
<1>5. spool'[j] # None
  BY DEF IInv, TypeOK, None
<1>6. TypeOK'
  BY DEF IInv, TypeOK, TableTypeOK, Phase
<1>7. CycleInv'
  BY DEF IInv, TypeOK, CycleInv, Holding, JobsOf
<1>8. HeldInv'
  <2>1. \A m \in Node : \A k \in batch'[m] : Waiting(k)
    BY DEF IInv, TypeOK, HeldInv
  <2>2. \A m \in Node : phase[m] \in Holding => current[m] \in JobId
    BY DEF IInv, CycleInv, JobsOf
  <2> QED
    BY <1>4, <1>5, <2>1, <2>2 DEF IInv, TypeOK, HeldInv, Waiting, Open, Holding
<1>9. RecordInv'
  BY DEF IInv, RecordInv
<1>10. RecordedResultIsReal' /\ AtMostOnceUnlessReclaimable'
  BY DEF IInv, RecordedResultIsReal, AtMostOnceUnlessReclaimable
<1>11. SpoolIsJournal'
  BY <1>4 DEF IInv, TypeOK, TableTypeOK, SpoolIsJournal
<1> QED
  BY <1>6, <1>7, <1>8, <1>9, <1>10, <1>11 DEF IInv

(* The job that runs was waiting, and no other agent waits for it.         *)
LEMMA ExecuteInv ==
  ASSUME IInv, NEW n \in Node, NEW status \in Status, Execute(n, status)
  PROVE  IInv'
<1> DEFINE j == current[n]
<1>1. /\ phase[n] = "execute"
      /\ outcome' = [outcome EXCEPT ![n] = status]
      /\ attempts' = [attempts EXCEPT ![j] = IF @ = 0 THEN 1 ELSE 2]
      /\ outcomes' = [outcomes EXCEPT ![j] = @ \cup {status}]
      /\ phase' = [phase EXCEPT ![n] = "buffer"]
      /\ UNCHANGED <<jobs, issued, todo, batch, current, spool, buffer, calm>>
  BY DEF Execute, agentDisk
<1>2. j \in JobId /\ j \in JobsOf(n) /\ j \notin batch[n] /\ Waiting(j) /\ spool[j] # None
  BY <1>1 DEF IInv, CycleInv, HeldInv, JobsOf, Holding
<1>3. \A m \in Node \ {n} : /\ j \notin batch[m]
                            /\ phase[m] \in Holding => current[m] # j
  BY <1>2 DEF IInv, CycleInv, JobsOf
<1> HIDE DEF j
<1> USE <1>1, <1>2
<1>4. /\ \A k \in JobId \ {j} : attempts'[k] = attempts[k] /\ outcomes'[k] = outcomes[k]
      /\ attempts'[j] \in {1, 2}
      /\ attempts[j] = 0 => attempts'[j] = 1
      /\ outcomes'[j] = outcomes[j] \cup {status}
  BY DEF IInv, TypeOK
<1>5. TypeOK'
  <2>1. attempts' \in [JobId -> 0..2]
    BY DEF IInv, TypeOK
  <2>2. outcomes' \in [JobId -> SUBSET Status]
    BY DEF IInv, TypeOK
  <2> QED
    BY <2>1, <2>2 DEF IInv, TypeOK, TableTypeOK, Phase
<1>6. CycleInv'
  BY DEF IInv, TypeOK, CycleInv, Holding, JobsOf
<1>7. HeldInv'
  <2>1. \A m \in Node : \A k \in batch'[m] : Waiting(k)'
    BY <1>3, <1>4 DEF IInv, TypeOK, HeldInv, Waiting, Open
  <2>2. \A m \in Node \ {n} : phase'[m] = "execute" => Waiting(current[m])'
    BY <1>3, <1>4 DEF IInv, TypeOK, HeldInv, CycleInv, JobsOf, Waiting, Open, Holding
  <2>3. \A m \in Node \ {n} : phase'[m] \in Holding \ {"execute"} =>
                                 outcome'[m] \in outcomes'[current[m]]
    BY <1>3, <1>4 DEF IInv, TypeOK, HeldInv, CycleInv, JobsOf, Holding
  <2>4. outcome'[n] \in outcomes'[current'[n]]
    BY <1>4 DEF IInv, TypeOK, j
  <2>5. phase'[n] = "buffer" /\ \A m \in Node \ {n} : phase'[m] = phase[m] /\ outcome'[m] = outcome[m]
    BY DEF IInv, TypeOK
  <2> QED
    BY <2>1, <2>2, <2>3, <2>4, <2>5 DEF IInv, HeldInv, Waiting, Open, Holding, j
<1>8. RecordInv'
  BY <1>4 DEF IInv, RecordInv, Waiting, Open
<1>9. RecordedResultIsReal'
  BY <1>4 DEF IInv, TypeOK, TableTypeOK, RecordedResultIsReal
<1>10. AtMostOnceUnlessReclaimable'
  BY <1>4 DEF IInv, AtMostOnceUnlessReclaimable, Waiting
<1>11. SpoolIsJournal'
  BY <1>4 DEF IInv, TypeOK, TableTypeOK, SpoolIsJournal
<1> QED
  BY <1>5, <1>6, <1>7, <1>8, <1>9, <1>10, <1>11 DEF IInv

(* The buffered status is the outcome of the job just executed, which is   *)
(* open: no recorded result can differ from it.                            *)
LEMMA BufferReportInv ==
  ASSUME IInv, NEW n \in Node, BufferReport(n)
  PROVE  IInv'
<1> DEFINE j == current[n]
<1>1. /\ phase[n] = "buffer"
      /\ buffer' = [buffer EXCEPT ![j] = outcome[n]]
      /\ phase' = [phase EXCEPT ![n] = "spool"]
      /\ UNCHANGED <<jobs, issued, todo, batch, current, outcome, spool, history, calm>>
  BY DEF BufferReport
<1>2. /\ j \in JobId /\ j \in JobsOf(n) /\ Open(j)
      /\ outcome[n] \in outcomes[j] /\ outcome[n] \in Status /\ outcome[n] # None
  BY <1>1 DEF IInv, TypeOK, CycleInv, HeldInv, JobsOf, Holding, None, Status
<1>3. \A m \in Node \ {n} : phase[m] \in Holding => current[m] # j
  BY <1>2 DEF IInv, CycleInv, JobsOf
<1> HIDE DEF j
<1> USE <1>1, <1>2 DEF history
<1>4. buffer'[j] = outcome[n] /\ \A k \in JobId \ {j} : buffer'[k] = buffer[k]
  BY DEF IInv, TypeOK
<1>5. TypeOK'
  BY DEF IInv, TypeOK, TableTypeOK, Phase
<1>6. CycleInv'
  <2>1. \A k \in JobId : buffer[k] # None => buffer'[k] # None
    BY <1>4
  <2> QED
    BY <2>1 DEF IInv, TypeOK, CycleInv, Holding, JobsOf
<1>7. HeldInv'
  <2>1. \A m \in Node \ {n} : phase[m] \in Holding => current[m] \in JobId
    BY DEF IInv, CycleInv, JobsOf
  <2>2. phase'[n] = "spool" /\ \A m \in Node \ {n} : phase'[m] = phase[m]
    BY DEF IInv, TypeOK
  <2> QED
    BY <1>3, <1>4, <2>1, <2>2 DEF IInv, HeldInv, Waiting, Open, Holding, j
<1>8. RecordInv'
  BY <1>4 DEF IInv, RecordInv
<1>9. RecordedResultIsReal'
  BY <1>4 DEF IInv, TypeOK, TableTypeOK, RecordedResultIsReal, Open
<1>10. AtMostOnceUnlessReclaimable' /\ SpoolIsJournal'
  BY DEF IInv, AtMostOnceUnlessReclaimable, SpoolIsJournal
<1> QED
  BY <1>5, <1>6, <1>7, <1>8, <1>9, <1>10 DEF IInv

LEMMA SpoolExecutedInv ==
  ASSUME IInv, NEW n \in Node, SpoolExecuted(n)
  PROVE  IInv'
<1>1. /\ phase[n] = "spool"
      /\ spool' = [spool EXCEPT ![current[n]] = "executed"]
      /\ phase' = [phase EXCEPT ![n] = "deliver"]
      /\ UNCHANGED <<jobs, issued, todo, batch, current, outcome, buffer, history, calm>>
  BY DEF SpoolExecuted
<1> USE <1>1 DEF history
<1>2. current[n] \in JobId
  BY DEF IInv, CycleInv, JobsOf, Holding
<1>3. \A k \in JobId : spool[k] # None => spool'[k] # None
  BY <1>2 DEF IInv, TypeOK, None
<1>4. TypeOK'
  BY <1>2 DEF IInv, TypeOK, TableTypeOK, Phase
<1>5. CycleInv'
  BY DEF IInv, TypeOK, CycleInv, Holding, JobsOf
<1>6. HeldInv'
  <2>1. \A m \in Node : phase[m] \in Holding => current[m] \in JobId
    BY DEF IInv, CycleInv, JobsOf
  <2>2. phase'[n] = "deliver" /\ \A m \in Node \ {n} : phase'[m] = phase[m]
    BY DEF IInv, TypeOK
  <2> QED
    BY <1>3, <2>1, <2>2 DEF IInv, HeldInv, Waiting, Open, Holding
<1>7. RecordInv'
  BY DEF IInv, RecordInv
<1>8. RecordedResultIsReal' /\ AtMostOnceUnlessReclaimable'
  BY DEF IInv, RecordedResultIsReal, AtMostOnceUnlessReclaimable
<1>9. SpoolIsJournal'
  BY <1>3 DEF IInv, TypeOK, TableTypeOK, SpoolIsJournal
<1> QED
  BY <1>4, <1>5, <1>6, <1>7, <1>8, <1>9 DEF IInv

(* The job delivered leaves the agent's hands, so completing it disturbs   *)
(* nobody; its spool entry goes only once the row has its result.          *)
LEMMA DeliverInv ==
  ASSUME IInv, NEW n \in Node, Deliver(n)
  PROVE  IInv'
<1> DEFINE j == current[n]
<1>1. /\ phase[n] = "deliver"
      /\ \/ Delivered(j) /\ spool' = [spool EXCEPT ![j] = None]
         \/ (ReplyLost(j) \/ Undelivered(j)) /\ UNCHANGED spool
      /\ current' = [current EXCEPT ![n] = NoJob]
      /\ outcome' = [outcome EXCEPT ![n] = None]
      /\ phase' = [phase EXCEPT ![n] = IF batch[n] = {} THEN "idle" ELSE "run"]
      /\ UNCHANGED <<issued, todo, batch, history, calm>>
  BY DEF Deliver
<1>2. /\ j \in JobId /\ j \in JobsOf(n) /\ j \notin batch[n] /\ Open(j)
      /\ outcome[n] \in Status /\ buffer[j] = outcome[n] /\ buffer[j] # None
  BY <1>1 DEF IInv, TypeOK, CycleInv, HeldInv, RecordInv, JobsOf, Holding, None, Status
<1>3. \A m \in Node : /\ j \notin batch[m]
                      /\ j \notin todo[m]
                      /\ m # n /\ phase[m] \in Holding => current[m] # j
  <2> SUFFICES ASSUME NEW m \in Node
               PROVE  /\ j \notin batch[m]
                      /\ j \notin todo[m]
                      /\ m # n /\ phase[m] \in Holding => current[m] # j
    OBVIOUS
  <2>1. CASE m = n
    BY <1>1, <1>2, <2>1 DEF IInv, CycleInv
  <2>2. CASE m # n
    BY <1>2, <2>2 DEF IInv, CycleInv, JobsOf
  <2> QED
    BY <2>1, <2>2
<1>4. /\ TableTypeOK'
      /\ DOMAIN jobs' = DOMAIN jobs
      /\ \A k \in DOMAIN jobs : jobs'[k].claim = jobs[k].claim
      /\ \A k \in DOMAIN jobs \ {j} : jobs'[k] = jobs[k]
      /\ j \in DOMAIN jobs => jobs'[j].result \in {jobs[j].result, buffer[j]}
      /\ buffer' \in [JobId -> Status \cup {None}]
      /\ \A k \in JobId \ {j} : buffer'[k] = buffer[k]
      /\ buffer'[j] \in {buffer[j], None}
  <2>1. Delivered(j) \/ ReplyLost(j) \/ Undelivered(j)
    BY <1>1
  <2> HIDE DEF j
  <2> QED
    BY <1>2, <2>1, DeliveryEffect
<1>5. spool'[j] = None => jobs'[j].result # "none"
  <2>1. CASE Delivered(j)
    <3>1. TableTypeOK
      BY DEF IInv, TypeOK
    <3>2. jobs'[j].result = buffer[j]
      BY <1>2, <2>1, <3>1, ReportEffect DEF Delivered
    <3> QED
      BY <1>2, <3>2 DEF None
  <2>2. CASE UNCHANGED spool
    BY <1>1, <2>2 DEF IInv, HeldInv, Holding
  <2> QED
    BY <1>1, <2>1, <2>2
<1>6. \A k \in JobId \ {j} : spool'[k] = spool[k]
  BY <1>1 DEF IInv, TypeOK
<1>7. spool' \in [JobId -> {None, "claimed", "executed"}]
  BY <1>1 DEF IInv, TypeOK
<1> HIDE DEF j
<1> USE <1>1, <1>2, <1>3, <1>4, <1>6, <1>7 DEF history
<1>8. TypeOK'
  BY DEF IInv, TypeOK, Phase
<1>9. CycleInv'
  BY DEF IInv, TypeOK, CycleInv, Holding, JobsOf
<1>10. HeldInv'
  <2>1. \A m \in Node : \A k \in batch[m] : k \in JobId \ {j} /\ Waiting(k)'
    BY DEF IInv, TypeOK, HeldInv, Waiting, Open
  <2>2. phase'[n] \notin Holding
    BY DEF IInv, TypeOK, Holding
  <2>3. \A m \in Node \ {n} : /\ phase'[m] = phase[m]
                              /\ current'[m] = current[m]
                              /\ outcome'[m] = outcome[m]
    BY DEF IInv, TypeOK
  <2>4. \A m \in Node \ {n} : phase[m] \in Holding => current[m] \in JobId \ {j}
    BY DEF IInv, CycleInv, JobsOf
  <2> QED
    BY <2>1, <2>2, <2>3, <2>4 DEF IInv, HeldInv, Waiting, Open, Holding
<1>11. RecordInv'
  BY DEF IInv, TypeOK, RecordInv
<1>12. RecordedResultIsReal'
  BY DEF IInv, TypeOK, TableTypeOK, RecordInv, RecordedResultIsReal, Open
<1>13. AtMostOnceUnlessReclaimable'
  BY DEF IInv, AtMostOnceUnlessReclaimable
<1>14. SpoolIsJournal'
  BY <1>5 DEF IInv, TypeOK, TableTypeOK, SpoolIsJournal
<1> QED
  BY <1>8, <1>9, <1>10, <1>11, <1>12, <1>13, <1>14 DEF IInv

LEMMA StutterInv ==
  ASSUME IInv, UNCHANGED <<jobs, issued, agentMemory, agentDisk, history>>,
         calm' \in BOOLEAN
  PROVE  IInv'
<1> USE DEF agentMemory, agentDisk, history
<1>1. TypeOK' /\ CycleInv'
  BY DEF IInv, TypeOK, TableTypeOK, CycleInv
<1>2. HeldInv' /\ RecordInv'
  BY DEF IInv, HeldInv, RecordInv, Waiting, Open
<1>3. RecordedResultIsReal' /\ AtMostOnceUnlessReclaimable' /\ SpoolIsJournal'
  BY DEF IInv, RecordedResultIsReal, AtMostOnceUnlessReclaimable, SpoolIsJournal
<1> QED
  BY <1>1, <1>2, <1>3 DEF IInv

-----------------------------------------------------------------------------
(* The invariant is inductive: every step of dispatchers, purge, time and  *)
(* agents, crashes and failed exchanges included, preserves it.            *)
THEOREM Invariance == Spec => []IInv
<1>1. IInv /\ [Next]_vars => IInv'
  <2> SUFFICES ASSUME IInv, [Next]_vars PROVE IInv'
    OBVIOUS
  <2>1. CASE \E v \in Version : Dispatch(v)
    BY <2>1, DispatchInv
  <2>2. CASE \E j \in JobId : ClaimTimeout(j) \/ Age(j)
    BY <2>2, TimeInv
  <2>3. CASE Purge
    BY <2>3, PurgeInv
  <2>4. CASE \E n \in Node : StartCycle(n) \/ ClaimFails(n) \/ Crash(n)
    BY <2>4, MemoryInv
  <2>5. CASE \E n \in Node : flushBufferedReports(n)
    BY <2>5, FlushInv
  <2>6. CASE \E n \in Node : Claim(n)
    BY <2>6, ClaimInv
  <2>7. CASE \E n \in Node : SpoolClaimed(n)
    BY <2>7, SpoolClaimedInv
  <2>8. CASE \E n \in Node, status \in Status : Execute(n, status)
    BY <2>8, ExecuteInv
  <2>9. CASE \E n \in Node : BufferReport(n)
    BY <2>9, BufferReportInv
  <2>10. CASE \E n \in Node : SpoolExecuted(n)
    BY <2>10, SpoolExecutedInv
  <2>11. CASE \E n \in Node : Deliver(n)
    BY <2>11, DeliverInv
  <2>12. CASE Calm
    BY <2>12, StutterInv DEF Calm
  <2>13. CASE UNCHANGED vars
    BY <2>13, StutterInv DEF vars, IInv, TypeOK
  <2> QED
    BY <2>1, <2>2, <2>3, <2>4, <2>5, <2>6, <2>7, <2>8, <2>9, <2>10, <2>11, <2>12, <2>13
       DEF Next, AgentStep
<1> QED
  BY InitInv, <1>1, PTL DEF Spec

(* Type correctness of the table, the agents' memory and their files.      *)
THEOREM TypeCorrect == Spec => []TypeOK
<1>1. IInv => TypeOK
  BY DEF IInv
<1> QED
  BY Invariance, <1>1, PTL

(* No agent holds a job whose result is recorded or whose row is purged.   *)
THEOREM HeldJobsAreOpen == Spec => []HeldJobIsOpen
<1>1. IInv => HeldJobIsOpen
  BY DEF IInv, HeldInv, Waiting, HeldJobIsOpen, Holding
<1> QED
  BY Invariance, <1>1, PTL

(* A recorded result is an outcome the job had, and repeats are harmless.  *)
THEOREM ResultsAreReal == Spec => []RecordedResultIsReal
<1>1. IInv => RecordedResultIsReal
  BY DEF IInv
<1> QED
  BY Invariance, <1>1, PTL

(* Jobs of a kind that is not reclaimable are never executed twice.        *)
THEOREM AtMostOnce == Spec => []AtMostOnceUnlessReclaimable
<1>1. IInv => AtMostOnceUnlessReclaimable
  BY DEF IInv
<1> QED
  BY Invariance, <1>1, PTL

(* The spool remembers every executed job until its result is recorded.    *)
THEOREM SpoolRemembers == Spec => []SpoolIsJournal
<1>1. IInv => SpoolIsJournal
  BY DEF IInv
<1> QED
  BY Invariance, <1>1, PTL

-----------------------------------------------------------------------------
(* The refinement.  recordedOf is the contract's view of the table.        *)
recordedOf == [j \in JobId |-> IF j \in DOMAIN jobs THEN jobs[j].result ELSE None]
contractView == <<issued, attempts, outcomes, recordedOf, issued \ DOMAIN jobs>>

(* A step that changes no result, no row's presence and no execution count *)
(* is invisible to the contract.                                           *)
LEMMA Invisible ==
  ASSUME UNCHANGED <<issued, attempts, outcomes>>,
         DOMAIN jobs' = DOMAIN jobs,
         \A j \in DOMAIN jobs : jobs'[j].result = jobs[j].result
  PROVE  UNCHANGED contractView
BY DEF contractView, recordedOf

LEMMA DispatchIsSubmit ==
  ASSUME IInv, NEW v \in Version, Dispatch(v)
  PROVE  \E J \in SUBSET JobId : Contract!Submit(J)
<1>0. PICK R \in SUBSET Resource : \E payloadOf \in [{v} \X R -> Payload] :
                              /\ insertDispatchedJobs({v} \X R, payloadOf)
                              /\ issued' = issued \cup ({v} \X R)
  BY DEF Dispatch
<1>1. PICK payloadOf \in [{v} \X R -> Payload] :
             /\ insertDispatchedJobs({v} \X R, payloadOf)
             /\ issued' = issued \cup ({v} \X R)
  BY <1>0
<1> DEFINE J == {v} \X R
<1>2. J \in SUBSET JobId /\ payloadOf \in [J -> Payload] /\ TableTypeOK
  BY <1>1 DEF JobId, IInv, TypeOK
<1>3. J \cap issued = {}
  BY DEF Dispatch, VersionOf
<1>4. /\ insertDispatchedJobs(J, payloadOf)
      /\ issued' = issued \cup J
  BY <1>1
<1> HIDE DEF J
<1>5. /\ DOMAIN jobs' = DOMAIN jobs \cup J
      /\ J \cap DOMAIN jobs = {}
      /\ \A j \in DOMAIN jobs : jobs'[j] = jobs[j]
      /\ \A j \in J : jobs'[j] = NewRow(payloadOf[j])
  BY <1>2, <1>4, InsertEffect
<1>6. recordedOf' = recordedOf
  BY <1>5 DEF recordedOf, NewRow, None
<1>7. issued' \ DOMAIN jobs' = issued \ DOMAIN jobs
  BY <1>3, <1>4, <1>5
<1>8. UNCHANGED <<attempts, outcomes>>
  BY DEF Dispatch, history
<1>9. Contract!Submit(J)
  BY <1>3, <1>4, <1>6, <1>7, <1>8 DEF Contract!Submit, recordedOf
<1> QED
  BY <1>2, <1>9

LEMMA PurgeIsForget ==
  ASSUME IInv, Purge
  PROVE  \E J \in SUBSET JobId : Contract!Forget(J)
<1>1. /\ DOMAIN jobs' = DOMAIN jobs \ Purgeable
      /\ \A j \in DOMAIN jobs' : jobs'[j] = jobs[j]
      /\ Purgeable \subseteq DOMAIN jobs
      /\ \A j \in Purgeable : jobs[j].result # "none"
  BY PurgeEffect DEF Purge, IInv, TypeOK
<1>2. UNCHANGED <<issued, attempts, outcomes>>
  BY DEF Purge, history
<1>3. DOMAIN jobs \subseteq issued /\ DOMAIN jobs \subseteq JobId
  BY DEF IInv, RecordInv, TypeOK, TableTypeOK
<1>4. PICK J \in SUBSET JobId : J = Purgeable
  BY <1>1, <1>3
<1>5. issued' \ DOMAIN jobs' = (issued \ DOMAIN jobs) \cup J
  BY <1>1, <1>2, <1>3, <1>4
<1>6. recordedOf' = [j \in JobId |-> IF j \in J THEN None ELSE recordedOf[j]]
  BY <1>1, <1>4 DEF recordedOf
<1>7. \A j \in J : recordedOf[j] # None
  BY <1>1, <1>3, <1>4 DEF recordedOf, None
<1>8. Contract!Forget(J)
  BY <1>1, <1>2, <1>3, <1>4, <1>5, <1>6, <1>7 DEF Contract!Forget, recordedOf
<1> QED
  BY <1>8

(* Only the execution of an open job, the first one unless its kind is     *)
(* reclaimable.                                                            *)
LEMMA ExecuteIsRun ==
  ASSUME IInv, NEW n \in Node, NEW status \in Status, Execute(n, status)
  PROVE  Contract!Run(current[n], status) /\ current[n] \in JobId
<1> DEFINE j == current[n]
<1>1. j \in JobId /\ Waiting(j)
  BY DEF Execute, IInv, CycleInv, HeldInv, JobsOf, Holding
<1>2. j \in issued /\ j \in DOMAIN jobs /\ recordedOf[j] = None
  BY <1>1 DEF IInv, RecordInv, Waiting, Open, recordedOf, None
<1>3. attempts[j] = 0 \/ j \in {k \in JobId : ResourceOf(k) \in Reclaimable}
  BY <1>1 DEF Waiting
<1>4. UNCHANGED <<issued, jobs>> /\ recordedOf' = recordedOf
  BY DEF Execute, recordedOf
<1> QED
  BY <1>1, <1>2, <1>3, <1>4 DEF Contract!Run, Execute, recordedOf

(* A report records the outcome of an open job, or repeats what is stored. *)
LEMMA DeliveryIsRecord ==
  ASSUME IInv, NEW j \in JobId, buffer[j] # None,
         Delivered(j) \/ ReplyLost(j) \/ Undelivered(j),
         UNCHANGED <<issued, attempts, outcomes>>
  PROVE  UNCHANGED contractView \/ \E s \in Status : Contract!Record(j, s)
<1>1. /\ DOMAIN jobs' = DOMAIN jobs
      /\ \A k \in DOMAIN jobs \ {j} : jobs'[k] = jobs[k]
      /\ j \in DOMAIN jobs => jobs'[j].result \in {jobs[j].result, buffer[j]}
  BY DeliveryEffect
<1>2. buffer[j] \in Status /\ buffer[j] \in outcomes[j]
  BY DEF IInv, TypeOK, RecordInv
<1>3. CASE j \notin DOMAIN jobs \/ jobs'[j].result = jobs[j].result
  BY <1>1, <1>3, Invisible
<1>4. CASE j \in DOMAIN jobs /\ jobs'[j].result # jobs[j].result
  <2>1. jobs[j].result = "none" /\ jobs'[j].result = buffer[j]
    BY <1>1, <1>4 DEF IInv, RecordedResultIsReal
  <2>2. j \in issued /\ recordedOf[j] = None
    BY <1>4, <2>1 DEF IInv, RecordInv, recordedOf, None
  <2>3. recordedOf' = [recordedOf EXCEPT ![j] = buffer[j]]
    BY <1>1, <1>4, <2>1 DEF recordedOf
  <2>4. PICK s \in Status : s = buffer[j]
    BY <1>2
  <2>5. Contract!Record(j, s)
    BY <1>1, <1>2, <1>4, <2>2, <2>3, <2>4 DEF Contract!Record, recordedOf
  <2> QED
    BY <2>5
<1> QED
  BY <1>3, <1>4

(* Agents, files, messages and crashes implement the contract: for any     *)
(* nodes, resources and versions, every step of the system is one step of  *)
(* JobContract or invisible to it.                                         *)
THEOREM Refinement == Spec => ImplementsContract
<1>1. Init => Contract!ContractInit
  BY DEF Init, Contract!ContractInit
<1>2. IInv /\ [Next]_vars => [Contract!ContractNext]_contractView
  <2> SUFFICES ASSUME IInv, [Next]_vars
               PROVE  Contract!ContractNext \/ UNCHANGED contractView
    OBVIOUS
  <2>1. CASE \E v \in Version : Dispatch(v)
    BY <2>1, DispatchIsSubmit DEF Contract!ContractNext
  <2>2. CASE Purge
    BY <2>2, PurgeIsForget DEF Contract!ContractNext
  <2>3. CASE \E n \in Node, status \in Status : Execute(n, status)
    BY <2>3, ExecuteIsRun DEF Contract!ContractNext
  <2>4. CASE \E n \in Node : flushBufferedReports(n)
    <3>1. PICK n \in Node : flushBufferedReports(n)
      BY <2>4
    <3>2. PICK j \in todo[n] : Delivered(j) \/ ReplyLost(j) \/ Undelivered(j)
      BY <3>1 DEF flushBufferedReports
    <3>3. /\ j \in JobId /\ buffer[j] # None
          /\ UNCHANGED <<issued, attempts, outcomes>>
      BY <3>1 DEF flushBufferedReports, history, IInv, CycleInv, JobsOf
    <3> QED
      BY <3>2, <3>3, DeliveryIsRecord DEF Contract!ContractNext
  <2>5. CASE \E n \in Node : Deliver(n)
    <3>1. PICK n \in Node : Deliver(n)
      BY <2>5
    <3>2. PICK j \in JobId : j = current[n]
      BY <3>1 DEF Deliver, IInv, CycleInv, JobsOf, Holding
    <3>3. /\ Delivered(j) \/ ReplyLost(j) \/ Undelivered(j)
          /\ buffer[j] # None
          /\ UNCHANGED <<issued, attempts, outcomes>>
      BY <3>1, <3>2 DEF Deliver, history, IInv, TypeOK, CycleInv, HeldInv, RecordInv,
                        JobsOf, Holding, None, Status
    <3> QED
      BY <3>2, <3>3, DeliveryIsRecord DEF Contract!ContractNext
  <2>6. CASE \E n \in Node : Claim(n)
    <3>0. PICK n \in Node : Claim(n)
      BY <2>6
    <3>1. PICK B \in ClaimBatches(n) :
             claimJobs(B) /\ UNCHANGED <<issued, attempts, outcomes>>
      BY <3>0 DEF Claim, history
    <3>2. B \in SUBSET DOMAIN jobs
      BY <3>1 DEF ClaimBatches, Claimable
    <3>3. /\ DOMAIN jobs' = DOMAIN jobs
          /\ \A j \in DOMAIN jobs : SameJob(jobs[j], jobs'[j])
      BY <3>1, <3>2, ClaimEffect DEF IInv, TypeOK
    <3> QED
      BY <3>1, <3>3, Invisible DEF SameJob
  <2>7. CASE \E j \in JobId : ClaimTimeout(j) \/ Age(j)
    <3>1. PICK j \in JobId : ClaimTimeout(j) \/ Age(j)
      BY <2>7
    <3>2. UNCHANGED <<issued, attempts, outcomes>>
      BY <3>1 DEF ClaimTimeout, Age, history
    <3>3. /\ DOMAIN jobs' = DOMAIN jobs
          /\ \A k \in DOMAIN jobs : SameJob(jobs[k], jobs'[k])
      BY <3>1, TimeoutEffect, AgeEffect DEF ClaimTimeout, Age, IInv, TypeOK
    <3> QED
      BY <3>2, <3>3, Invisible DEF SameJob
  <2>8. CASE \/ \E n \in Node : \/ StartCycle(n) \/ ClaimFails(n) \/ Crash(n)
                                \/ SpoolClaimed(n) \/ BufferReport(n) \/ SpoolExecuted(n)
             \/ Calm
             \/ UNCHANGED vars
    <3>1. UNCHANGED <<jobs, issued, attempts, outcomes>>
      BY <2>8 DEF StartCycle, ClaimFails, Crash, SpoolClaimed, BufferReport,
                  SpoolExecuted, Calm, vars, history
    <3> QED
      BY <3>1, Invisible
  <2> QED
    BY <2>1, <2>2, <2>3, <2>4, <2>5, <2>6, <2>7, <2>8 DEF Next, AgentStep
<1>3. [Contract!ContractNext]_contractView => [Contract!ContractNext]_(Contract!contractVars)
  BY DEF contractView, recordedOf, Contract!contractVars
<1>4. IInv /\ [Next]_vars => [Contract!ContractNext]_(Contract!contractVars)
  BY <1>2, <1>3
<1> QED
  BY <1>1, <1>4, Invariance, PTL DEF Spec, ImplementsContract, Contract!ContractSpec
=============================================================================
