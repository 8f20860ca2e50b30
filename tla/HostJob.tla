------------------------------ MODULE HostJob ------------------------------
(***************************************************************************)
(* The job a node agent is executing on its host.  runManagerAgentCycle    *)
(* executes claimed jobs one after the other, so a host has at most one    *)
(* job at work; executeAllowlistedJob hands it to the driver of its kind,  *)
(* and each driver is a program of steps between which the agent may die.  *)
(* The modules that model drivers share these variables and operators.     *)
(***************************************************************************)
CONSTANTS Target,     \* what jobs are for: vhosts, containers, databases, mail
          None        \* no such file, no such job, nothing reported

VARIABLES job,        \* the job at work, the step its driver is at and what the driver found
          applied,    \* per target: the payload of the last job reported applied
          unsettled   \* targets whose last job ended in a way that promises nothing:
                      \* the agent died, or the driver reported an incomplete rollback

jobVars == <<job, applied, unsettled>>

Idle == [target |-> None, payload |-> None, step |-> "idle", found |-> {}]

JobInit == /\ job = Idle
           /\ applied = [t \in Target |-> None]
           /\ unsettled = {}

(* A driver starts; found names the things it looked for and saw.          *)
Start(t, p, step, found) ==
    /\ job = Idle
    /\ job' = [target |-> t, payload |-> p, step |-> step, found |-> found]
    /\ UNCHANGED <<applied, unsettled>>

At(t, step) == job.target = t /\ job.step = step

GoTo(step) == /\ job' = [job EXCEPT !.step = step]
              /\ UNCHANGED <<applied, unsettled>>

(* createCompletedResult(..., "applied", ...)                              *)
Applied == /\ job' = Idle
           /\ applied' = [applied EXCEPT ![job.target] = job.payload]
           /\ unsettled' = unsettled \ {job.target}

(* createFailedResult; undone: everything the driver did is undone.        *)
Failed(undone) ==
    /\ job' = Idle
    /\ unsettled' = IF undone THEN unsettled ELSE unsettled \cup {job.target}
    /\ UNCHANGED applied

(* The agent dies at the driver's present step, or between two steps.      *)
Die == /\ job # Idle
       /\ job' = Idle
       /\ unsettled' = unsettled \cup {job.target}
       /\ UNCHANGED applied

(* No job is at work on t and the last one kept its promises.              *)
Settled(t) == t \notin unsettled /\ job.target # t
=============================================================================
