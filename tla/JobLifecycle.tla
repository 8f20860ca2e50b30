---------------------------- MODULE JobLifecycle ----------------------------
(***************************************************************************)
(* The life of a job: dispatch into the control database, claim by the     *)
(* node's agent, execution, buffered report, history purge; with agents    *)
(* that crash at any step and HTTP exchanges that fail before or after the *)
(* control plane has served them.                                          *)
(*                                                                         *)
(* apps/agent/src/index.ts runs one cycle at a time per node: flush the    *)
(* report buffer, claim, execute each claimed job.  Each step of the cycle *)
(* that writes a file or talks to the control plane is an action.          *)
(***************************************************************************)
EXTENDS JobTable

CONSTANT NoJob
ASSUME NoJobAssumption == NoJob \notin JobId

VARIABLES
  issued,     \* ids ever dispatched (an id is never used again)
  phase,      \* where each agent is in its cycle; lost in a crash
  todo,       \* report files the running flush has still to send; lost
  batch,      \* claimed jobs the cycle has still to start; lost
  current,    \* the job being executed, or NoJob; lost
  outcome,    \* the status executeAllowlistedJob returned; lost
  spool,      \* job-spool/<id>.json
  buffer,     \* report-buffer/<id>.json, by the status it carries
  attempts,   \* executions of each job: 0, 1, or 2 for more than one
  outcomes,   \* every status an execution of the job ended with
  calm        \* TRUE once crashes and failed exchanges have stopped

agentMemory == <<phase, todo, batch, current, outcome>>
agentDisk   == <<spool, buffer>>
history     == <<attempts, outcomes>>
vars == <<jobs, issued, agentMemory, agentDisk, history, calm>>

None == "none"

JobsOf(n) == {j \in JobId : NodeOf[ResourceOf(j)] = n}

Phase == {"idle", "flush", "run", "execute", "buffer", "spool", "deliver"}

TypeOK ==
  /\ TableTypeOK
  /\ issued \in SUBSET JobId
  /\ phase \in [Node -> Phase]
  /\ todo \in [Node -> SUBSET JobId]
  /\ batch \in [Node -> SUBSET JobId]
  /\ current \in [Node -> JobId \cup {NoJob}]
  /\ outcome \in [Node -> Status \cup {None}]
  /\ spool \in [JobId -> {None, "claimed", "executed"}]
  /\ buffer \in [JobId -> Status \cup {None}]
  /\ attempts \in [JobId -> 0..2]
  /\ outcomes \in [JobId -> SUBSET Status]
  /\ calm \in BOOLEAN

Init ==
  /\ jobs = [j \in {} |-> NewRow(CHOOSE p \in Payload : TRUE)]
  /\ issued = {}
  /\ phase = [n \in Node |-> "idle"]
  /\ todo = [n \in Node |-> {}]
  /\ batch = [n \in Node |-> {}]
  /\ current = [n \in Node |-> NoJob]
  /\ outcome = [n \in Node |-> None]
  /\ spool = [j \in JobId |-> None]
  /\ buffer = [j \in JobId |-> None]
  /\ attempts = [j \in JobId |-> 0]
  /\ outcomes = [j \in JobId |-> {}]
  /\ calm = FALSE

-----------------------------------------------------------------------------
(* The control plane.                                                      *)

(* A dispatch transaction commits.  Its version, hence created_at, was     *)
(* drawn when it started, so an older version may commit after a newer one.*)
Dispatch(v) ==
  /\ \A j \in issued : VersionOf(j) # v
  /\ \E R \in SUBSET Resource \ {{}} :
       \E payloadOf \in [{v} \X R -> Payload] :
         /\ insertDispatchedJobs({v} \X R, payloadOf)
         /\ issued' = issued \cup ({v} \X R)
  /\ UNCHANGED <<agentMemory, agentDisk, history, calm>>

Purge ==
  /\ purgeOperationalHistoryRows
  /\ UNCHANGED <<issued, agentMemory, agentDisk, history, calm>>

ClaimTimeout(j) ==
  /\ ClaimTimesOut(j)
  /\ UNCHANGED <<issued, agentMemory, agentDisk, history, calm>>

Age(j) ==
  /\ CompletionAges(j)
  /\ UNCHANGED <<issued, agentMemory, agentDisk, history, calm>>

-----------------------------------------------------------------------------
(* Delivery of a buffered report: the three ways reportJob can end for the *)
(* agent.  An exchange fails at will unless the network is calm; the       *)
(* control plane refuses the report of a row it no longer has.             *)

(* Fault: the reported status is taken from elsewhere than the buffer.     *)
DeliveredAsApplied(j) ==
  /\ reportJob(j, "applied")
  /\ buffer' = [buffer EXCEPT ![j] = None]

Delivered(j) ==
  /\ reportJob(j, buffer[j])
  /\ buffer' = [buffer EXCEPT ![j] = None]

ReplyLost(j) ==
  /\ ~ calm
  /\ reportJob(j, buffer[j])
  /\ UNCHANGED buffer

Undelivered(j) ==
  /\ ~ calm \/ j \notin DOMAIN jobs
  /\ UNCHANGED <<jobs, buffer>>

-----------------------------------------------------------------------------
(* The agent's cycle.                                                      *)

(* Fault: the cycle does not look at the buffer.                           *)
StartCycleWithoutFlush(n) ==
  /\ phase[n] = "idle"
  /\ phase' = [phase EXCEPT ![n] = "flush"]
  /\ UNCHANGED <<jobs, issued, todo, batch, current, outcome, agentDisk, history, calm>>

StartCycle(n) ==
  /\ phase[n] = "idle"
  /\ phase' = [phase EXCEPT ![n] = "flush"]
  /\ todo' = [todo EXCEPT ![n] = {j \in JobsOf(n) : buffer[j] # None}]
  /\ UNCHANGED <<jobs, issued, batch, current, outcome, agentDisk, history, calm>>

flushBufferedReports(n) ==
  /\ phase[n] = "flush"
  /\ \E j \in todo[n] :
       /\ \/ Delivered(j) \/ ReplyLost(j) \/ Undelivered(j)
       /\ todo' = [todo EXCEPT ![n] = @ \ {j}]
  /\ UNCHANGED <<issued, phase, batch, current, outcome, spool, history, calm>>

Claim(n) ==
  /\ phase[n] = "flush"
  /\ todo[n] = {}
  /\ \E B \in ClaimBatches(n) :
       /\ claimJobs(B)
       /\ \/ /\ batch' = [batch EXCEPT ![n] = B]
             /\ phase' = [phase EXCEPT ![n] = IF B = {} THEN "idle" ELSE "run"]
          \/ /\ ~ calm          \* the reply is lost: claimed, never received
             /\ phase' = [phase EXCEPT ![n] = "idle"]
             /\ UNCHANGED batch
  /\ UNCHANGED <<issued, todo, current, outcome, agentDisk, history, calm>>

(* The request never reaches the control plane, or is answered by an error.*)
ClaimFails(n) ==
  /\ ~ calm
  /\ phase[n] = "flush"
  /\ todo[n] = {}
  /\ phase' = [phase EXCEPT ![n] = "idle"]
  /\ UNCHANGED <<jobs, issued, todo, batch, current, outcome, agentDisk, history, calm>>

SpoolClaimed(n) ==
  /\ phase[n] = "run"
  /\ \E j \in batch[n] :
       /\ \A k \in batch[n] : VersionOf(j) <= VersionOf(k)
       /\ current' = [current EXCEPT ![n] = j]
       /\ batch' = [batch EXCEPT ![n] = @ \ {j}]
       /\ spool' = [spool EXCEPT ![j] = "claimed"]
  /\ phase' = [phase EXCEPT ![n] = "execute"]
  /\ UNCHANGED <<jobs, issued, todo, outcome, buffer, history, calm>>

(* executeAllowlistedJob returns, or throws and counts as failed.          *)
Execute(n, status) ==
  /\ phase[n] = "execute"
  /\ outcome' = [outcome EXCEPT ![n] = status]
  /\ attempts' = [attempts EXCEPT ![current[n]] = IF @ = 0 THEN 1 ELSE 2]
  /\ outcomes' = [outcomes EXCEPT ![current[n]] = @ \cup {status}]
  /\ phase' = [phase EXCEPT ![n] = "buffer"]
  /\ UNCHANGED <<jobs, issued, todo, batch, current, agentDisk, calm>>

(* Fault: the buffered report says applied whatever happened.              *)
BufferAsApplied(n) ==
  /\ phase[n] = "buffer"
  /\ buffer' = [buffer EXCEPT ![current[n]] = "applied"]
  /\ phase' = [phase EXCEPT ![n] = "spool"]
  /\ UNCHANGED <<jobs, issued, todo, batch, current, outcome, spool, history, calm>>

BufferReport(n) ==
  /\ phase[n] = "buffer"
  /\ buffer' = [buffer EXCEPT ![current[n]] = outcome[n]]
  /\ phase' = [phase EXCEPT ![n] = "spool"]
  /\ UNCHANGED <<jobs, issued, todo, batch, current, outcome, spool, history, calm>>

SpoolExecuted(n) ==
  /\ phase[n] = "spool"
  /\ spool' = [spool EXCEPT ![current[n]] = "executed"]
  /\ phase' = [phase EXCEPT ![n] = "deliver"]
  /\ UNCHANGED <<jobs, issued, todo, batch, current, outcome, buffer, history, calm>>

(* Fault: the spool entry goes with the attempt to deliver.                *)
DeliverAndForget(n) ==
  /\ phase[n] = "deliver"
  /\ LET j == current[n]
     IN  /\ Delivered(j) \/ ReplyLost(j) \/ Undelivered(j)
         /\ spool' = [spool EXCEPT ![j] = None]
  /\ current' = [current EXCEPT ![n] = NoJob]
  /\ outcome' = [outcome EXCEPT ![n] = None]
  /\ phase' = [phase EXCEPT ![n] = IF batch[n] = {} THEN "idle" ELSE "run"]
  /\ UNCHANGED <<issued, todo, batch, history, calm>>

(* The spool entry goes only with a delivered report.                      *)
Deliver(n) ==
  /\ phase[n] = "deliver"
  /\ LET j == current[n]
     IN  \/ Delivered(j) /\ spool' = [spool EXCEPT ![j] = None]
         \/ (ReplyLost(j) \/ Undelivered(j)) /\ UNCHANGED spool
  /\ current' = [current EXCEPT ![n] = NoJob]
  /\ outcome' = [outcome EXCEPT ![n] = None]
  /\ phase' = [phase EXCEPT ![n] = IF batch[n] = {} THEN "idle" ELSE "run"]
  /\ UNCHANGED <<issued, todo, batch, history, calm>>

(* The process dies, or a file operation throws out of the cycle: what the *)
(* cycle held in memory is gone and the next cycle starts from the disk.   *)
Crash(n) ==
  /\ ~ calm
  /\ phase[n] # "idle"
  /\ phase' = [phase EXCEPT ![n] = "idle"]
  /\ todo' = [todo EXCEPT ![n] = {}]
  /\ batch' = [batch EXCEPT ![n] = {}]
  /\ current' = [current EXCEPT ![n] = NoJob]
  /\ outcome' = [outcome EXCEPT ![n] = None]
  /\ UNCHANGED <<jobs, issued, agentDisk, history, calm>>

(* From here on the environment behaves: a device to state liveness.       *)
Calm ==
  /\ ~ calm
  /\ calm' = TRUE
  /\ UNCHANGED <<jobs, issued, agentMemory, agentDisk, history>>

-----------------------------------------------------------------------------
AgentStep(n) ==
  \/ StartCycle(n)
  \/ flushBufferedReports(n)
  \/ Claim(n)
  \/ SpoolClaimed(n)
  \/ \E status \in Status : Execute(n, status)
  \/ BufferReport(n)
  \/ SpoolExecuted(n)
  \/ Deliver(n)

Next ==
  \/ \E v \in Version : Dispatch(v)
  \/ \E j \in JobId : ClaimTimeout(j) \/ Age(j)
  \/ Purge
  \/ \E n \in Node : AgentStep(n) \/ ClaimFails(n) \/ Crash(n)
  \/ Calm

Spec == Init /\ [][Next]_vars

(* The agent's loop never stops (systemd restarts it, the catch in         *)
(* startManagerAgent resumes it), and time passes.                         *)
FairSpec ==
  /\ Spec
  /\ \A n \in Node : WF_vars(AgentStep(n))
  /\ \A j \in JobId : WF_vars(ClaimTimeout(j))

-----------------------------------------------------------------------------
(* A job the agent holds, waiting or executing, is still a stored and      *)
(* unfinished job of the control plane: no crash, lost reply, reclaim or   *)
(* purge makes an agent run a job whose result is already recorded.        *)
HeldJobIsOpen ==
  \A n \in Node :
    /\ \A j \in batch[n] : Open(j)
    /\ phase[n] \in {"execute", "buffer", "spool", "deliver"} => Open(current[n])

(* A recorded result is one that an execution of this job really had, and  *)
(* a report still in the buffer after a lost reply repeats the recorded    *)
(* status: overwriting the job_results row is harmless.                    *)
RecordedResultIsReal ==
  \A j \in DOMAIN jobs :
    jobs[j].result # "none" =>
      /\ jobs[j].result \in outcomes[j]
      /\ buffer[j] \in {None, jobs[j].result}

(* Database, package, firewall and code-server jobs run at most once: only *)
(* the kinds listed as reclaimable may be executed again.                  *)
AtMostOnceUnlessReclaimable ==
  \A j \in JobId : attempts[j] = 2 => ResourceOf(j) \in Reclaimable

(* The spool and the buffer account for every execution: a job that ran    *)
(* and is not recorded has its spool entry, so a restarted agent still     *)
(* knows what it started.                                                  *)
SpoolIsJournal ==
  \A j \in DOMAIN jobs :
    attempts[j] > 0 /\ jobs[j].result = "none" => spool[j] # None

(* Once the environment behaves, a stored job of a reclaimable kind is     *)
(* completed, whatever was lost before.                                    *)
ReclaimableJobCompletes ==
  \A j \in JobId :
    ResourceOf(j) \in Reclaimable =>
      (calm /\ Open(j)) ~> ~ Open(j)

(* Once the environment behaves, a buffered report reaches the control     *)
(* plane unless the purge has removed its job.                             *)
ReportIsDelivered ==
  \A j \in JobId :
    (calm /\ buffer[j] # None) ~> (buffer[j] = None \/ j \notin DOMAIN jobs)

(* The jobs, agents and control plane together implement JobContract.      *)
Contract ==
  INSTANCE JobContract WITH
    Job        <- JobId,
    Repeatable <- {j \in JobId : ResourceOf(j) \in Reclaimable},
    Result     <- Status,
    NoResult   <- None,
    known      <- issued,
    runs       <- attempts,
    seen       <- outcomes,
    recorded   <- [j \in JobId |-> IF j \in DOMAIN jobs THEN jobs[j].result ELSE None],
    forgotten  <- issued \ DOMAIN jobs

ImplementsContract == Contract!ContractSpec

-----------------------------------------------------------------------------
(* The inductive invariant behind the properties above.                    *)

Holding == {"execute", "buffer", "spool", "deliver"}

(* Each agent handles its own node's jobs; a flush sends only what is in   *)
(* the buffer; a cycle that holds jobs is past its flush.                  *)
CycleInv ==
  \A n \in Node :
    /\ todo[n] \subseteq {j \in JobsOf(n) : buffer[j] # None}
    /\ todo[n] # {} => phase[n] = "flush"
    /\ batch[n] \subseteq JobsOf(n)
    /\ batch[n] # {} => phase[n] \notin {"idle", "flush"}
    /\ phase[n] \in Holding => current[n] \in JobsOf(n) \ batch[n]

(* A claimed job that has still to run, for the first time unless its kind *)
(* is reclaimable.                                                         *)
Waiting(j) == /\ Open(j)
              /\ jobs[j].claim # "never"
              /\ ResourceOf(j) \notin Reclaimable => attempts[j] = 0

HeldInv ==
  \A n \in Node :
    /\ \A j \in batch[n] : Waiting(j)
    /\ phase[n] = "execute" => Waiting(current[n])
    /\ phase[n] \in Holding => /\ Open(current[n])
                               /\ jobs[current[n]].claim # "never"
                               /\ spool[current[n]] # None
    /\ phase[n] \in Holding \ {"execute"} => outcome[n] \in outcomes[current[n]]
    /\ phase[n] \in {"spool", "deliver"} => buffer[current[n]] = outcome[n]

(* What the rows, the buffer and the history say about each other.         *)
RecordInv ==
  /\ DOMAIN jobs \subseteq issued
  /\ \A j \in JobId : j \notin issued => attempts[j] = 0
  /\ \A j \in DOMAIN jobs : jobs[j].claim = "never" => attempts[j] = 0
  /\ \A j \in JobId : buffer[j] \in outcomes[j] \cup {None}

IInv == /\ TypeOK
        /\ CycleInv
        /\ HeldInv
        /\ RecordInv
        /\ RecordedResultIsReal
        /\ AtMostOnceUnlessReclaimable
        /\ SpoolIsJournal
=============================================================================
