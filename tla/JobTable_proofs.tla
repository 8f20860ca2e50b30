--------------------------- MODULE JobTable_proofs ---------------------------
(***************************************************************************)
(* What each transaction on the job table changes and what it keeps: the   *)
(* lemmas the proofs about JobLifecycle cite instead of the definitions.   *)
(***************************************************************************)
EXTENDS JobTable, TLAPS

(* Two rows that differ at most in claim and aged.                         *)
SameJob(before, after) == /\ after.payload = before.payload
                          /\ after.result = before.result

(* insertDispatchedJobs adds open, never claimed rows and keeps the others.*)
LEMMA InsertEffect ==
  ASSUME TableTypeOK, NEW J \in SUBSET JobId, NEW payloadOf \in [J -> Payload],
         insertDispatchedJobs(J, payloadOf)
  PROVE  /\ TableTypeOK'
         /\ DOMAIN jobs' = DOMAIN jobs \cup J
         /\ J \cap DOMAIN jobs = {}
         /\ \A j \in DOMAIN jobs : jobs'[j] = jobs[j]
         /\ \A j \in J : jobs'[j] = NewRow(payloadOf[j])
<1>1. DOMAIN jobs' = DOMAIN jobs \cup J
  BY DEF insertDispatchedJobs
<1>2. \A j \in DOMAIN jobs : jobs'[j] = jobs[j]
  BY DEF insertDispatchedJobs
<1>3. \A j \in J : jobs'[j] = NewRow(payloadOf[j])
  BY DEF insertDispatchedJobs
<1>4. \A j \in DOMAIN jobs' : jobs'[j] \in Row
  <2>1. \A j \in J : NewRow(payloadOf[j]) \in Row
    BY DEF NewRow, Row
  <2>2. \A j \in DOMAIN jobs : jobs[j] \in Row
    BY DEF TableTypeOK
  <2> QED
    BY <1>1, <1>2, <1>3, <2>1, <2>2
<1>5. jobs' = [j \in DOMAIN jobs' |-> jobs'[j]]
  BY <1>1 DEF insertDispatchedJobs
<1>6. TableTypeOK'
  BY <1>1, <1>4, <1>5 DEF TableTypeOK
<1> QED
  BY <1>1, <1>2, <1>3, <1>6 DEF insertDispatchedJobs

(* claimJobs stamps the batch, completes nothing and stores nothing.       *)
LEMMA ClaimEffect ==
  ASSUME TableTypeOK, NEW B \in SUBSET DOMAIN jobs, claimJobs(B)
  PROVE  /\ TableTypeOK'
         /\ DOMAIN jobs' = DOMAIN jobs
         /\ \A j \in DOMAIN jobs : SameJob(jobs[j], jobs'[j])
         /\ \A j \in B : jobs'[j].claim = "fresh"
         /\ \A j \in DOMAIN jobs \ B : jobs'[j] = jobs[j]
<1>1. DOMAIN jobs' = DOMAIN jobs
  BY DEF claimJobs
<1>2. \A j \in B : jobs'[j] = [jobs[j] EXCEPT !.claim = "fresh"]
  BY DEF claimJobs
<1>3. \A j \in DOMAIN jobs \ B : jobs'[j] = jobs[j]
  BY DEF claimJobs
<1>4. \A j \in DOMAIN jobs : jobs[j] \in Row
  BY DEF TableTypeOK
<1>5. \A j \in DOMAIN jobs' : jobs'[j] \in Row
  <2>1. \A row \in Row : [row EXCEPT !.claim = "fresh"] \in Row
    BY DEF Row
  <2> QED
    BY <1>1, <1>2, <1>3, <1>4, <2>1
<1>6. jobs' = [j \in DOMAIN jobs' |-> jobs'[j]]
  BY <1>1 DEF claimJobs
<1>7. TableTypeOK'
  BY <1>1, <1>5, <1>6 DEF TableTypeOK
<1>8. \A j \in DOMAIN jobs : SameJob(jobs[j], jobs'[j])
  <2>1. \A row \in Row : SameJob(row, [row EXCEPT !.claim = "fresh"])
    BY DEF Row, SameJob
  <2>2. \A row \in Row : SameJob(row, row)
    BY DEF SameJob
  <2> QED
    BY <1>2, <1>3, <1>4, <2>1, <2>2
<1>9. \A j \in B : jobs'[j].claim = "fresh"
  <2>1. \A row \in Row : [row EXCEPT !.claim = "fresh"].claim = "fresh"
    BY DEF Row
  <2> QED
    BY <1>2, <1>4, <2>1
<1> QED
  BY <1>1, <1>3, <1>7, <1>8, <1>9

(* reportJob completes one stored job with the reported status.            *)
LEMMA ReportEffect ==
  ASSUME TableTypeOK, NEW j, NEW status \in Status, reportJob(j, status)
  PROVE  /\ TableTypeOK'
         /\ j \in DOMAIN jobs
         /\ DOMAIN jobs' = DOMAIN jobs
         /\ jobs'[j].result = status
         /\ jobs'[j].claim = jobs[j].claim
         /\ jobs'[j].payload = jobs[j].payload
         /\ \A k \in DOMAIN jobs \ {j} : jobs'[k] = jobs[k]
<1>1. j \in DOMAIN jobs /\ jobs' = [jobs EXCEPT ![j].result = status]
  BY DEF reportJob
<1>2. \A k \in DOMAIN jobs : jobs[k] \in Row
  BY DEF TableTypeOK
<1>3. /\ DOMAIN jobs' = DOMAIN jobs
      /\ jobs'[j] = [jobs[j] EXCEPT !.result = status]
      /\ \A k \in DOMAIN jobs \ {j} : jobs'[k] = jobs[k]
  BY <1>1 DEF TableTypeOK
<1>4. jobs'[j] \in Row /\ jobs'[j].result = status /\ jobs'[j].claim = jobs[j].claim
      /\ jobs'[j].payload = jobs[j].payload
  BY <1>1, <1>2, <1>3 DEF Row
<1>5. TableTypeOK'
  BY <1>1, <1>2, <1>3, <1>4 DEF TableTypeOK
<1> QED
  BY <1>1, <1>3, <1>4, <1>5

(* The purge drops completed rows only and leaves the others as they were. *)
LEMMA PurgeEffect ==
  ASSUME TableTypeOK, purgeOperationalHistoryRows
  PROVE  /\ TableTypeOK'
         /\ DOMAIN jobs' = DOMAIN jobs \ Purgeable
         /\ \A j \in DOMAIN jobs' : jobs'[j] = jobs[j]
         /\ Purgeable \subseteq DOMAIN jobs
         /\ \A j \in Purgeable : jobs[j].result # "none"
<1>1. /\ DOMAIN jobs' = DOMAIN jobs \ Purgeable
      /\ \A j \in DOMAIN jobs' : jobs'[j] = jobs[j]
  BY DEF purgeOperationalHistoryRows
<1>2. TableTypeOK'
  BY <1>1 DEF TableTypeOK, purgeOperationalHistoryRows
<1> QED
  BY <1>1, <1>2 DEF Purgeable

(* A claim that times out changes nothing but its own claim stamp.         *)
LEMMA TimeoutEffect ==
  ASSUME TableTypeOK, NEW j, ClaimTimesOut(j)
  PROVE  /\ TableTypeOK'
         /\ DOMAIN jobs' = DOMAIN jobs
         /\ \A k \in DOMAIN jobs : SameJob(jobs[k], jobs'[k])
         /\ \A k \in DOMAIN jobs : jobs'[k].claim = "never" <=> jobs[k].claim = "never"
<1>1. /\ j \in DOMAIN jobs
      /\ jobs[j].claim = "fresh"
      /\ jobs' = [jobs EXCEPT ![j].claim = "stale"]
  BY DEF ClaimTimesOut, Open
<1>2. \A k \in DOMAIN jobs : jobs[k] \in Row
  BY DEF TableTypeOK
<1>3. /\ DOMAIN jobs' = DOMAIN jobs
      /\ jobs'[j] = [jobs[j] EXCEPT !.claim = "stale"]
      /\ \A k \in DOMAIN jobs \ {j} : jobs'[k] = jobs[k]
  BY <1>1 DEF TableTypeOK
<1>4. jobs'[j] \in Row /\ SameJob(jobs[j], jobs'[j]) /\ jobs'[j].claim = "stale"
  BY <1>1, <1>2, <1>3 DEF Row, SameJob
<1>5. TableTypeOK'
  BY <1>1, <1>2, <1>3, <1>4 DEF TableTypeOK
<1> QED
  BY <1>1, <1>3, <1>4, <1>5 DEF SameJob

(* A completion that falls behind the cutoff changes nothing else.         *)
LEMMA AgeEffect ==
  ASSUME TableTypeOK, NEW j, CompletionAges(j)
  PROVE  /\ TableTypeOK'
         /\ DOMAIN jobs' = DOMAIN jobs
         /\ \A k \in DOMAIN jobs : SameJob(jobs[k], jobs'[k]) /\ jobs'[k].claim = jobs[k].claim
<1>1. j \in DOMAIN jobs /\ jobs' = [jobs EXCEPT ![j].aged = TRUE]
  BY DEF CompletionAges
<1>2. \A k \in DOMAIN jobs : jobs[k] \in Row
  BY DEF TableTypeOK
<1>3. /\ DOMAIN jobs' = DOMAIN jobs
      /\ jobs'[j] = [jobs[j] EXCEPT !.aged = TRUE]
      /\ \A k \in DOMAIN jobs \ {j} : jobs'[k] = jobs[k]
  BY <1>1 DEF TableTypeOK
<1>4. jobs'[j] \in Row /\ SameJob(jobs[j], jobs'[j]) /\ jobs'[j].claim = jobs[j].claim
  BY <1>1, <1>2, <1>3 DEF Row, SameJob
<1>5. TableTypeOK'
  BY <1>1, <1>2, <1>3, <1>4 DEF TableTypeOK
<1> QED
  BY <1>1, <1>3, <1>4, <1>5 DEF SameJob
=============================================================================
