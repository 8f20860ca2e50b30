----------------------------- MODULE StoreStart -----------------------------
(***************************************************************************)
(* createPostgresControlPlaneStore: what API, worker and backup runner do  *)
(* before they serve.  Each reads which migrations are applied, applies    *)
(* the missing ones of its own release in order, one transaction each, and *)
(* makes sure the bootstrap administrator exists.  Nothing keeps them from *)
(* doing so at the same moment: the loser of a race meets a primary key or *)
(* a unique index, exits and is started again.                             *)
(* Left out: the legacy name of the migrations table, which only renames   *)
(* it, and the administrator's password and role, which every start sets   *)
(* to the same values.                                                     *)
(***************************************************************************)
EXTENDS Naturals, Sequences

CONSTANTS Process,
          Checksum,      \* contents a migration file can have
          Migrations     \* the migration files of every release, in release order

NotApplied == "missing"

ASSUME StoreAssumption ==
    /\ Migrations \in Seq(Seq(Checksum)) /\ Migrations # <<>>
    /\ NotApplied \notin Checksum

VARIABLES release,       \* the release `current' points to
          applied,       \* rows of the migrations table: version to checksum
          ran,           \* checksums of the SQL committed per version, in order
          admins,        \* user rows with the administrator's email
          proc,          \* per process: step, release, rows read, next version, found admin
          steady         \* no more deployments and deaths

storeVars == <<release, applied, ran, admins, proc, steady>>

Files(p) == Migrations[proc[p].release]
Versions == UNION {DOMAIN Migrations[r] : r \in DOMAIN Migrations}

Down == [step |-> "down", release |-> 1, seen |-> [v \in Versions |-> NotApplied],
         next |-> 1, found |-> FALSE]

StoreInit ==
    /\ release = 1
    /\ applied = [v \in Versions |-> NotApplied]
    /\ ran = [v \in Versions |-> <<>>]
    /\ admins = 0
    /\ proc = [p \in Process |-> Down]
    /\ steady = FALSE

Goes(p, step) == proc' = [proc EXCEPT ![p].step = step]
Exit(p) == proc' = [proc EXCEPT ![p] = Down]

-----------------------------------------------------------------------------
Launch(p) ==
    /\ proc[p].step = "down"
    /\ proc' = [proc EXCEPT ![p].step = "read", ![p].release = release]
    /\ UNCHANGED <<release, applied, ran, admins, steady>>

(* getAppliedControlMigrations, once, before the loop.                     *)
ReadApplied(p) ==
    /\ proc[p].step = "read"
    /\ proc' = [proc EXCEPT ![p].step = "plan", ![p].seen = applied]
    /\ UNCHANGED <<release, applied, ran, admins, steady>>

More(p) == proc[p].step = "plan" /\ proc[p].next <= Len(Files(p))
Seen(p) == proc[p].seen[proc[p].next]

(* Fault: an edited migration is taken for the applied one.               *)
SkipUnread(p) ==
    /\ More(p) /\ Seen(p) # NotApplied
    /\ proc' = [proc EXCEPT ![p].next = @ + 1]
    /\ UNCHANGED <<release, applied, ran, admins, steady>>

(* A row that was read: the next one, or out if the file has changed.      *)
SkipApplied(p) ==
    /\ More(p) /\ Seen(p) # NotApplied
    /\ IF Seen(p) = Files(p)[proc[p].next]
         THEN proc' = [proc EXCEPT ![p].next = @ + 1]
         ELSE Exit(p)
    /\ UNCHANGED <<release, applied, ran, admins, steady>>

BeginMigration(p) ==
    /\ More(p) /\ Seen(p) = NotApplied
    /\ Goes(p, "migrate")
    /\ UNCHANGED <<release, applied, ran, admins, steady>>

(* The SQL and its row commit together, or the row is there already and    *)
(* both are rolled back.  Fault: the row is written ON CONFLICT DO        *)
(* UPDATE, so the SQL of a second process commits too.                     *)
CommitOverwriting(p) ==
    LET v == proc[p].next  sum == Files(p)[v]
    IN /\ proc[p].step = "migrate"
       /\ applied' = [applied EXCEPT ![v] = sum]
       /\ ran' = [ran EXCEPT ![v] = Append(@, sum)]
       /\ proc' = [proc EXCEPT ![p].step = "plan", ![p].next = @ + 1]
       /\ UNCHANGED <<release, admins, steady>>

(* Fault: the loser goes on with the rows it read before.                 *)
CommitRetrying(p) ==
    LET v == proc[p].next  sum == Files(p)[v]
    IN /\ proc[p].step = "migrate"
       /\ Goes(p, "plan")
       /\ IF applied[v] = NotApplied
            THEN /\ applied' = [applied EXCEPT ![v] = sum]
                 /\ ran' = [ran EXCEPT ![v] = Append(@, sum)]
            ELSE UNCHANGED <<applied, ran>>
       /\ UNCHANGED <<release, admins, steady>>

CommitMigration(p) ==
    LET v == proc[p].next  sum == Files(p)[v]
    IN /\ proc[p].step = "migrate"
       /\ IF applied[v] = NotApplied
            THEN /\ applied' = [applied EXCEPT ![v] = sum]
                 /\ ran' = [ran EXCEPT ![v] = Append(@, sum)]
                 /\ proc' = [proc EXCEPT ![p].step = "plan", ![p].next = @ + 1]
            ELSE Exit(p) /\ UNCHANGED <<applied, ran>>
       /\ UNCHANGED <<release, admins, steady>>

(* ensureBootstrapAdmin: look the email up, then insert or update.         *)
FindAdmin(p) ==
    /\ proc[p].step = "plan" /\ ~More(p)
    /\ proc' = [proc EXCEPT ![p].step = "admin", ![p].found = admins > 0]
    /\ UNCHANGED <<release, applied, ran, admins, steady>>

EnsureAdmin(p) ==
    /\ proc[p].step = "admin"
    /\ IF proc[p].found THEN Goes(p, "serving") /\ admins' = admins
       ELSE IF admins = 0 THEN Goes(p, "serving") /\ admins' = 1
       ELSE Exit(p) /\ admins' = admins
    /\ UNCHANGED <<release, applied, ran, steady>>

-----------------------------------------------------------------------------
(* deploy-release.sh and rollback-release.sh move the current release and  *)
(* restart the services, one after the other.                              *)
Deploy(r) ==
    /\ ~steady /\ r # release /\ release' = r
    /\ UNCHANGED <<applied, ran, admins, proc, steady>>

ProcessDies(p) ==
    /\ ~steady /\ proc[p].step # "down" /\ Exit(p)
    /\ UNCHANGED <<release, applied, ran, admins, steady>>

(* The restart that follows a deployment also comes when it is over.       *)
RestartForRelease(p) ==
    /\ proc[p].step # "down" /\ proc[p].release # release /\ Exit(p)
    /\ UNCHANGED <<release, applied, ran, admins, steady>>

StoreSteady == /\ ~steady /\ steady' = TRUE
               /\ UNCHANGED <<release, applied, ran, admins, proc>>

StartStep(p) ==
    \/ Launch(p) \/ ReadApplied(p) \/ SkipApplied(p) \/ BeginMigration(p)
    \/ CommitMigration(p) \/ FindAdmin(p) \/ EnsureAdmin(p)

StoreNext == \/ StoreSteady
             \/ \E r \in DOMAIN Migrations : Deploy(r)
             \/ \E p \in Process : StartStep(p) \/ ProcessDies(p) \/ RestartForRelease(p)

(* Restart=always on the services, a timer for the backup runner.          *)
StoreFairness == \A p \in Process : WF_storeVars(StartStep(p)) /\ WF_storeVars(RestartForRelease(p))

StoreSpec == StoreInit /\ [][StoreNext]_storeVars /\ StoreFairness

-----------------------------------------------------------------------------
(* Every variable has its type.                                            *)
StoreTypeOK ==
    /\ release \in DOMAIN Migrations
    /\ applied \in [Versions -> Checksum \cup {NotApplied}]
    /\ ran \in [Versions -> Seq(Checksum)]
    /\ admins \in Nat
    /\ proc \in [Process -> [step : {"down", "read", "plan", "migrate", "admin", "serving"},
                             release : DOMAIN Migrations,
                             seen : [Versions -> Checksum \cup {NotApplied}],
                             next : Nat \ {0}, found : BOOLEAN]]
    /\ steady \in BOOLEAN

(* The migrations of several starting processes: the SQL of a version is   *)
(* committed exactly when its row is, once, and never before that of the   *)
(* version before it.                                                      *)
MigratesOnceInOrder ==
    \A v \in Versions :
        /\ ran[v] = IF applied[v] = NotApplied THEN <<>> ELSE <<applied[v]>>
        /\ v > 1 /\ applied[v] # NotApplied => applied[v - 1] # NotApplied

(* A process serves only on a schema that has every migration of its       *)
(* release as that release has it, with exactly one administrator.         *)
ServesItsSchema ==
    \A p \in Process : proc[p].step = "serving" =>
        /\ \A v \in 1..Len(Files(p)) : ran[v] = <<Files(p)[v]>>
        /\ admins = 1

(* However the starts race and whatever was deployed before: when that     *)
(* ends every process serves the current release, unless a migration of it *)
(* was applied with other contents.                                        *)
CurrentReleaseServes ==
    <>[](steady => \/ \E v \in 1..Len(Migrations[release]) :
                         applied[v] \notin {NotApplied, Migrations[release][v]}
                   \/ \A p \in Process : /\ proc[p].step = "serving"
                                         /\ proc[p].release = release)
=============================================================================
