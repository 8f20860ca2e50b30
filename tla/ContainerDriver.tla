-------------------------- MODULE ContainerDriver --------------------------
(***************************************************************************)
(* executeContainerReconcileJob: a quadlet unit file and, for a payload    *)
(* with an environment, an environment file beside it; systemd generates   *)
(* the service from the unit file and the service reads the environment    *)
(* when it starts.  A payload without an environment leaves an existing    *)
(* environment file alone.                                                 *)
(* Left out: staged files, host directories, `start: false' (no caller     *)
(* sends it), and errors of rename and rm.                                 *)
(***************************************************************************)
EXTENDS HostJob

CONSTANTS Container, Unit, Env,
          Unstartable          \* the units whose service does not become active

VARIABLES unitFile, envFile,   \* what is deployed
          unitBak, envBak,     \* the copies beside them
          running              \* the unit and environment the service was started with

containerVars == <<unitFile, envFile, unitBak, envBak, running>>

ContainerPayload == [unit : Unit, env : Env \cup {None}]

ContainerInit == /\ unitFile = [c \in Container |-> None]
                 /\ envFile = [c \in Container |-> None]
                 /\ unitBak = [c \in Container |-> None]
                 /\ envBak = [c \in Container |-> None]
                 /\ running = [c \in Container |-> None]

(* What a service started now would run: the unit names the environment    *)
(* file only when its payload had an environment (renderQuadletContainerUnit). *)
Instance(unit, env, withEnv) == [unit |-> unit, env |-> IF withEnv THEN env ELSE None]

(* A unit file carries whether its payload had an environment.             *)
Rendering(p) == [unit |-> p.unit, withEnv |-> p.env # None]
Started(u, e) == Instance(u.unit, e, u.withEnv)

StartContainer(c) ==
    /\ \E p \in ContainerPayload :
          Start(c, p, "copy",
                (IF unitFile[c] # None THEN {"unit"} ELSE {})
                \cup (IF p.env # None /\ envFile[c] # None THEN {"env"} ELSE {}))
    /\ UNCHANGED containerVars

(* An error while copying is caught outside the rollback: nothing is done. *)
BackUpContainer(c) ==
    /\ At(c, "copy")
    /\ \/ /\ unitBak' = [unitBak EXCEPT ![c] = IF "unit" \in job.found THEN unitFile[c] ELSE @]
          /\ envBak' = [envBak EXCEPT ![c] = IF "env" \in job.found THEN envFile[c] ELSE @]
          /\ GoTo("installUnit")
       \/ Failed(TRUE) /\ UNCHANGED <<unitBak, envBak>>
    /\ UNCHANGED <<unitFile, envFile, running>>

InstallContainer(c) ==
    \/ /\ At(c, "installUnit")
       /\ unitFile' = [unitFile EXCEPT ![c] = Rendering(job.payload)]
       /\ GoTo(IF job.payload.env = None THEN "load" ELSE "installEnv")
       /\ UNCHANGED <<envFile, unitBak, envBak, running>>
    \/ /\ At(c, "installEnv")
       /\ envFile' = [envFile EXCEPT ![c] = job.payload.env]
       /\ GoTo("load")
       /\ UNCHANGED <<unitFile, unitBak, envBak, running>>
    \/ /\ job.target = c
       /\ job.step \in {"installUnit", "installEnv"}
       /\ GoTo("stop")
       /\ UNCHANGED containerVars

(* daemon-reload, restart and is-active: a service that is not active is a *)
(* failure, and so is any of the three commands failing.                   *)
RestartContainer(c) ==
    /\ At(c, "load")
    /\ \/ GoTo("stop") /\ UNCHANGED running
       \/ /\ job.payload.unit \notin Unstartable
          /\ running' = [running EXCEPT ![c] = Started(unitFile[c], envFile[c])]
          /\ GoTo("clean")
       \/ running' = [running EXCEPT ![c] = None] /\ GoTo("stop")
    /\ UNCHANGED <<unitFile, envFile, unitBak, envBak>>

CompleteContainer(c) ==
    /\ At(c, "clean")
    /\ unitBak' = [unitBak EXCEPT ![c] = IF "unit" \in job.found THEN None ELSE @]
    /\ envBak' = [envBak EXCEPT ![c] = IF "env" \in job.found THEN None ELSE @]
    /\ Applied
    /\ UNCHANGED <<unitFile, envFile, running>>

(* `disable --now' of a service that was not there before; it may fail.    *)
StopContainer(c) ==
    /\ At(c, "stop")
    /\ GoTo("restoreUnit")
    /\ \/ running' = running
       \/ "unit" \notin job.found /\ running' = [running EXCEPT ![c] = None]
    /\ UNCHANGED <<unitFile, envFile, unitBak, envBak>>

(* Fault: the rollback forgets the environment file.                      *)
RestoreContainerUnitOnly(c) ==
    /\ At(c, "restoreUnit")
    /\ unitFile' = [unitFile EXCEPT ![c] = IF "unit" \in job.found THEN unitBak[c] ELSE None]
    /\ unitBak' = [unitBak EXCEPT ![c] = None]
    /\ GoTo("reload")
    /\ UNCHANGED <<envFile, envBak, running>>

RestoreContainer(c) ==
    \/ /\ At(c, "restoreUnit")
       /\ unitFile' = [unitFile EXCEPT ![c] = IF "unit" \in job.found THEN unitBak[c] ELSE None]
       /\ unitBak' = [unitBak EXCEPT ![c] = IF "unit" \in job.found THEN None ELSE @]
       /\ GoTo(IF job.payload.env = None THEN "reload" ELSE "restoreEnv")
       /\ UNCHANGED <<envFile, envBak, running>>
    \/ /\ At(c, "restoreEnv")
       /\ envFile' = [envFile EXCEPT ![c] = IF "env" \in job.found THEN envBak[c] ELSE None]
       /\ envBak' = [envBak EXCEPT ![c] = IF "env" \in job.found THEN None ELSE @]
       /\ GoTo("reload")
       /\ UNCHANGED <<unitFile, unitBak, running>>

(* daemon-reload and, if there was a service before, its restart: what of  *)
(* this failed is in the report (rollbackError, previousServiceRestarted). *)
RestartPrevious(c) ==
    /\ At(c, "reload")
    /\ \/ Failed(FALSE) /\ UNCHANGED running
       \/ "unit" \notin job.found /\ Failed(TRUE) /\ UNCHANGED running
       \/ /\ "unit" \in job.found
          /\ \/ /\ unitFile[c].unit \notin Unstartable
                /\ running' = [running EXCEPT ![c] = Started(unitFile[c], envFile[c])]
                /\ Failed(TRUE)
             \/ running' = [running EXCEPT ![c] = None] /\ Failed(FALSE)
    /\ UNCHANGED <<unitFile, envFile, unitBak, envBak>>

ContainerStep(c) == \/ StartContainer(c) \/ BackUpContainer(c) \/ InstallContainer(c)
                    \/ RestartContainer(c) \/ CompleteContainer(c) \/ StopContainer(c)
                    \/ RestoreContainer(c) \/ RestartPrevious(c)

UnitFile == [unit : Unit, withEnv : BOOLEAN]
ServiceRecord == [unit : Unit, env : Env \cup {None}]

ContainerType ==
    /\ unitFile \in [Container -> UnitFile \cup {None}]
    /\ unitBak \in [Container -> UnitFile \cup {None}]
    /\ envFile \in [Container -> Env \cup {None}]
    /\ envBak \in [Container -> Env \cup {None}]
    /\ running \in [Container -> ServiceRecord \cup {None}]
=============================================================================
