----------------------------- MODULE BackupRuns -----------------------------
(***************************************************************************)
(* The generations of one backup policy: a directory per run in its        *)
(* storage location and a replica of it on another node.  The backup       *)
(* runner applies the local retention, dumps, writes the manifest, copies, *)
(* applies the replica's retention and records the run; a daily pass of    *)
(* another timer applies both retentions at any moment between.            *)
(* Left out: what is dumped, the cron schedule, the policy's edits, runs   *)
(* started by hand beside the timer's, and a removal cut short.            *)
(***************************************************************************)
EXTENDS Naturals

CONSTANTS Generations,     \* runs, numbered in the order of their directories (a bound)
          LocalDays, ReplicaDays,   \* retentionDays, replicaRetentionDays
          MaxAge           \* days counted (a bound)

ASSUME BackupAssumption ==
    /\ Generations \in Nat /\ LocalDays \in Nat /\ ReplicaDays \in Nat
    /\ MaxAge \in Nat /\ MaxAge > LocalDays /\ MaxAge > ReplicaDays

Generation == 1..Generations
Store == {"local", "replica"}
Actor == {"runner", "retention"}     \* the timers' two services

VARIABLES store,      \* per store and generation: none, partial or complete
          age,        \* days since a generation's directory was last written
          pass,       \* per actor: step, its generation, directories to remove
          recorded,   \* generations recorded succeeded
          held,       \* stores that once held a complete generation
          misjudged   \* stores some pass listed while a partial directory was the newest

backupVars == <<store, age, pass, recorded, held, misjudged>>

Resting == [step |-> "idle", gen |-> 0, doomed |-> {}]

BackupInit ==
    /\ store = [s \in Store |-> [g \in Generation |-> "none"]]
    /\ age = [g \in Generation |-> 0]
    /\ pass = [a \in Actor |-> Resting]
    /\ recorded = {} /\ held = {} /\ misjudged = {}

Enter(a, step) == pass' = [pass EXCEPT ![a].step = step]
Directories(s) == {g \in Generation : store[s][g] # "none"}
Listing(s) == IF s = "local" THEN "list-local" ELSE "list-replica"
Removing(s) == IF s = "local" THEN "remove-local" ELSE "remove-replica"
LocalDaysOnly(s) == LocalDays          \* fault: one window for both stores

Days(s) == IF s = "local" THEN LocalDays ELSE ReplicaDays

-----------------------------------------------------------------------------
(* selectBackupRetentionCandidates, and its twin in shell for the replica: *)
(* every directory past the window but the newest.                         *)
EveryExpired(s) == {g \in Directories(s) : age[g] > Days(s)}     \* fault

selectBackupRetentionCandidates(s) ==
    {g \in Directories(s) : age[g] > Days(s) /\ \E newer \in Directories(s) : newer > g}

NewestIsPartial(s) ==
    \E g \in Generation : store[s][g] = "partial" /\ \A newer \in Directories(s) : newer <= g

(* Listing a store; without a window nothing is removed.                   *)
ListStore(a, s) ==
    /\ pass[a].step = Listing(s)
    /\ LET doom == IF Days(s) = 0 THEN {} ELSE selectBackupRetentionCandidates(s)
       IN pass' = [pass EXCEPT ![a] = [step |-> Removing(s), gen |-> @.gen, doomed |-> doom]]
    /\ misjudged' = IF NewestIsPartial(s) THEN misjudged \cup {s} ELSE misjudged
    /\ UNCHANGED <<store, age, recorded, held>>

RemoveDirectory(a, s) ==
    /\ pass[a].step = Removing(s)
    /\ \E g \in pass[a].doomed :
          /\ store' = [store EXCEPT ![s][g] = "none"]
          /\ pass' = [pass EXCEPT ![a].doomed = @ \ {g}]
    /\ UNCHANGED <<age, recorded, held, misjudged>>

AfterRetention(a, s) ==
    IF a = "runner" THEN IF s = "local" THEN "mkdir" ELSE "record"
    ELSE IF s = "local" THEN "list-replica" ELSE "idle"

EndRetention(a, s) ==
    /\ pass[a].step = Removing(s) /\ pass[a].doomed = {}
    /\ Enter(a, AfterRetention(a, s))
    /\ UNCHANGED <<store, age, recorded, held, misjudged>>

(* Either timer.                                                           *)
Begin(a) ==
    /\ pass[a].step = "idle"
    /\ a = "runner" => pass[a].gen < Generations
    /\ pass' = [pass EXCEPT ![a].step = "list-local"]
    /\ UNCHANGED <<store, age, recorded, held, misjudged>>

-----------------------------------------------------------------------------
(* executePolicy after its retention.                                      *)
run == pass["runner"].gen
At(step) == pass["runner"].step = step
Put(s, content) == store' = [store EXCEPT ![s][run] = content]

MakeRunDirectory ==
    /\ At("mkdir")
    /\ pass' = [pass EXCEPT !["runner"] = [step |-> "dump", gen |-> run + 1, doomed |-> {}]]
    /\ store' = [store EXCEPT !["local"][run + 1] = "partial"]
    /\ UNCHANGED <<age, recorded, held, misjudged>>

WriteManifest ==
    /\ At("dump") /\ Enter("runner", "mkdir-replica")
    /\ Put("local", "complete")
    /\ age' = [age EXCEPT ![run] = 0]
    /\ held' = held \cup {"local"}
    /\ UNCHANGED <<recorded, misjudged>>

(* A dump or an empty selection throws: the run's directory is removed.    *)
DumpFails ==
    /\ At("dump") /\ Enter("runner", "idle")
    /\ Put("local", "none")
    /\ UNCHANGED <<age, recorded, held, misjudged>>

MakeReplicaDirectory ==
    /\ At("mkdir-replica") /\ Enter("runner", "rsync")
    /\ Put("replica", "partial")
    /\ UNCHANGED <<age, recorded, held, misjudged>>

Replicate ==
    /\ At("rsync") /\ Enter("runner", "list-replica")
    /\ Put("replica", "complete")
    /\ held' = held \cup {"replica"}
    /\ UNCHANGED <<age, recorded, misjudged>>

RecordRun ==
    /\ At("record") /\ Enter("runner", "idle")
    /\ recorded' = recorded \cup {run}
    /\ UNCHANGED <<store, age, held, misjudged>>

CutShort(a) == pass' = [pass EXCEPT ![a] = [Resting EXCEPT !.gen = pass[a].gen]]

(* Recorded failed, or not at all: what was written so far stays.          *)
RunFails ==
    /\ pass["runner"].step \in {"remove-local", "mkdir", "mkdir-replica", "rsync",
                                "list-replica", "remove-replica", "record"}
    /\ CutShort("runner")
    /\ UNCHANGED <<store, age, recorded, held, misjudged>>

(* A service is killed, or its node reboots.                               *)
ServiceDies(a) ==
    /\ pass[a].step # "idle"
    /\ CutShort(a)
    /\ UNCHANGED <<store, age, recorded, held, misjudged>>

DayPasses ==
    /\ \E g \in Generation : age[g] < MaxAge /\ \E s \in Store : store[s][g] # "none"
    /\ age' = [g \in Generation |->
                 IF (\E s \in Store : store[s][g] # "none") /\ age[g] < MaxAge
                   THEN age[g] + 1 ELSE age[g]]
    /\ UNCHANGED <<store, pass, recorded, held, misjudged>>

BackupNext ==
    \/ MakeRunDirectory \/ WriteManifest \/ DumpFails \/ MakeReplicaDirectory
    \/ Replicate \/ RecordRun \/ RunFails \/ DayPasses
    \/ \E a \in Actor : Begin(a) \/ ServiceDies(a)
    \/ \E a \in Actor, s \in Store :
          ListStore(a, s) \/ RemoveDirectory(a, s) \/ EndRetention(a, s)

BackupSpec == BackupInit /\ [][BackupNext]_backupVars

-----------------------------------------------------------------------------
(* Every variable has its type.                                            *)
BackupTypeOK ==
    /\ store \in [Store -> [Generation -> {"none", "partial", "complete"}]]
    /\ age \in [Generation -> 0..MaxAge]
    /\ pass \in [Actor -> [step : {"idle", "mkdir", "dump", "mkdir-replica", "rsync", "record"}
                                   \cup {Listing(s) : s \in Store}
                                   \cup {Removing(s) : s \in Store},
                           gen : 0..Generations, doomed : SUBSET Generation]]
    /\ recorded \subseteq Generation /\ held \subseteq Store /\ misjudged \subseteq Store

(* Runs that fail and two retentions at once: a store that held a complete *)
(* backup still holds one, unless a pass took a partial directory for the  *)
(* newest generation.                                                      *)
LastGenerationIsKept ==
    \A s \in held \ misjudged : \E g \in Generation : store[s][g] = "complete"

(* A run recorded succeeded is complete in each store for all of that      *)
(* store's own window, whatever passes and later runs do.                  *)
RecordedRunsAreKept ==
    \A g \in recorded :
        /\ age[g] <= LocalDays => store["local"][g] = "complete"
        /\ age[g] <= ReplicaDays => store["replica"][g] = "complete"
=============================================================================
