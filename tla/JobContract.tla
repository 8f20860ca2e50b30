---------------------------- MODULE JobContract ----------------------------
(***************************************************************************)
(* What the job queue promises to whoever dispatches a job, without        *)
(* agents, files or messages: a dispatched job may run, a job of a kind    *)
(* that is not reclaimable runs at most once, a result is recorded once,   *)
(* is one the job really had, and never changes while it is remembered; a  *)
(* job whose result is recorded does not run again.                        *)
(***************************************************************************)
EXTENDS Naturals

CONSTANTS Job, Repeatable, Result, NoResult

VARIABLES
  known,     \* jobs dispatched so far
  runs,      \* executions of each job: 0, 1, or 2 for more than one
  seen,      \* the results its executions had
  recorded,  \* the result the control plane shows, or NoResult
  forgotten  \* completed jobs dropped from history

contractVars == <<known, runs, seen, recorded, forgotten>>

ContractInit ==
  /\ known = {}
  /\ runs = [j \in Job |-> 0]
  /\ seen = [j \in Job |-> {}]
  /\ recorded = [j \in Job |-> NoResult]
  /\ forgotten = {}

Submit(J) ==
  /\ J \cap known = {}
  /\ known' = known \cup J
  /\ UNCHANGED <<runs, seen, recorded, forgotten>>

Run(j, s) ==
  /\ j \in known \ forgotten
  /\ recorded[j] = NoResult
  /\ runs[j] = 0 \/ j \in Repeatable
  /\ runs' = [runs EXCEPT ![j] = IF @ = 0 THEN 1 ELSE 2]
  /\ seen' = [seen EXCEPT ![j] = @ \cup {s}]
  /\ UNCHANGED <<known, recorded, forgotten>>

Record(j, s) ==
  /\ j \in known \ forgotten
  /\ recorded[j] = NoResult
  /\ s \in seen[j]
  /\ recorded' = [recorded EXCEPT ![j] = s]
  /\ UNCHANGED <<known, runs, seen, forgotten>>

Forget(J) ==
  /\ J \subseteq known \ forgotten
  /\ \A j \in J : recorded[j] # NoResult
  /\ forgotten' = forgotten \cup J
  /\ recorded' = [j \in Job |-> IF j \in J THEN NoResult ELSE recorded[j]]
  /\ UNCHANGED <<known, runs, seen>>

ContractNext ==
  \/ \E J \in SUBSET Job : Submit(J) \/ Forget(J)
  \/ \E j \in Job, s \in Result : Run(j, s) \/ Record(j, s)

ContractSpec == ContractInit /\ [][ContractNext]_contractVars
=============================================================================
