---------------------------- MODULE HostDrivers ----------------------------
(***************************************************************************)
(* The drivers of one host together: one job at a time, and an agent that  *)
(* may die at any step of it and start again on the files it left.         *)
(***************************************************************************)
EXTENDS VhostDriver, ContainerDriver, DatabaseDriver, MailDriver

CONSTANT Workloads     \* which targets the jobs of one behaviour are for

(* Kinds have their own targets, and the absence of a file is no rendering. *)
ASSUME HostAssumption ==
    /\ Target = Vhost \cup Container \cup Database \cup {Mail}
    /\ Vhost \cap (Container \cup Database \cup {Mail}) = {}
    /\ Container \cap (Database \cup {Mail}) = {}
    /\ Mail \notin Database
    /\ None \notin Target \cup Rendered \cup Password \cup MailPayload \cup Key
    /\ None \notin ContainerPayload \cup UnitFile
    /\ Partial \notin Rendered \cup {None}
    /\ CutKey \notin Key \cup {None}
    /\ Broken \subseteq Rendered

VARIABLE workload

vars == <<jobVars, vhostVars, containerVars, databaseVars, mailVars, workload>>

Init == /\ JobInit /\ VhostInit /\ ContainerInit /\ DatabaseInit /\ MailInit
        /\ workload \in Workloads

VhostWork == /\ \E v \in Vhost \cap workload : VhostStep(v)
             /\ UNCHANGED <<containerVars, databaseVars, mailVars, workload>>

ContainerWork == /\ \E c \in Container \cap workload : ContainerStep(c)
                 /\ UNCHANGED <<vhostVars, databaseVars, mailVars, workload>>

DatabaseWork == /\ \E d \in Database \cap workload :
                      DatabaseStep(d) \/ AppWrites(d) \/ RestoreByHand(d)
                /\ UNCHANGED <<vhostVars, containerVars, mailVars, workload>>

MailWork == /\ Mail \in workload /\ MailStep
            /\ UNCHANGED <<vhostVars, containerVars, databaseVars, workload>>

Crash == /\ Die
         /\ UNCHANGED <<vhostVars, containerVars, databaseVars, mailVars, workload>>

Next == VhostWork \/ ContainerWork \/ DatabaseWork \/ MailWork \/ Crash

Spec == Init /\ [][Next]_vars

-----------------------------------------------------------------------------
(* Every variable has its type.                                            *)
Steps == {"idle", "copy", "copying", "install", "validate", "reload", "clean",
          "restore", "reloadRestored", "installUnit", "installEnv", "load", "stop",
          "restoreUnit", "restoreEnv", "role", "database", "user", "login",
          "dropDatabase", "dropRole", "key", "generate", "render", "check", "report"}
         \cup Service
Finds == {"file", "unit", "env", "createdDatabase", "createdRole", "dkim"}
         \cup Service

TypeOK == /\ VhostType /\ ContainerType /\ DatabaseType /\ MailType
          /\ job.target \in Target \cup {None}
          /\ job.step \in Steps
          /\ job.found \subseteq Finds
          /\ unsettled \subseteq Target

-----------------------------------------------------------------------------
(* What the control plane shows as applied is what the host has: unless    *)
(* the agent died in the last job of a vhost, its file and the file httpd  *)
(* serves are the last payload reported applied, or none before the first. *)
(* Every failed job of it, and of other vhosts, left it so.                *)
AppliedVhostIsServed ==
    \A v \in Vhost : Settled(v) => sites[v] = applied[v] /\ served[v] = applied[v]

(* The configuration httpd serves is always one that validated as a whole, *)
(* whatever files interrupted jobs left beside it.                         *)
ServedConfigurationIsValid == validateApacheConfiguration(served)

(* The unit file, environment file and running service of a settled        *)
(* container belong together and to the last applied payload: a failed job *)
(* that reports a complete rollback never mixes two payloads.              *)
AppliedContainerRuns ==
    \A c \in Container : Settled(c) =>
        IF applied[c] = None THEN unitFile[c] = None
        ELSE /\ unitFile[c] = Rendering(applied[c])
             /\ running[c] = applied[c]
             /\ applied[c].env # None => envFile[c] = applied[c].env

(* An app can log in to its database with the password last applied.       *)
AppliedDatabaseLogsIn ==
    \A d \in Database : Settled(d) /\ applied[d] # None => Login(d, applied[d])

(* No rollback drops a database that holds data.                           *)
DataIsNeverDropped ==
    [][\A d \in Database : dbs[d] = "inUse" => dbs'[d] = "inUse"]_vars

(* After an applied mail.sync, and until the next, no mail service runs on *)
(* another payload's files: each one runs on that payload's or is down,    *)
(* and the ones the report calls active run.  And the DKIM key the control *)
(* plane publishes for the domain is the key the host signs with, whatever *)
(* runs died or failed since the report.                                   *)
AppliedMailServes ==
    /\ Settled(Mail) => /\ live = applied[Mail] /\ rendered = applied[Mail]
                        /\ \A s \in Service : serving[s] \in {applied[Mail], None}
                        /\ \A s \in reportedActive : serving[s] = applied[Mail]
    /\ reportedKey # None => dkimKey = reportedKey
=============================================================================
