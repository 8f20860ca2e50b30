--------------------------- MODULE DatabaseDriver ---------------------------
(***************************************************************************)
(* executePostgresReconcileJob and executeMariadbReconcileJob: a role and  *)
(* a database with the payload's password, a validation login, and a       *)
(* rollback that drops what the job created.  PostgreSQL learns that it    *)
(* created something from the CREATE that succeeded, MariaDB from a read   *)
(* before its CREATE ... IF NOT EXISTS.  The payload is the password.      *)
(* Left out: the grants, which both drivers repeat on every run.           *)
(***************************************************************************)
EXTENDS HostJob

CONSTANTS Database, Password,
          Mariadb,       \* the databases on MariaDB; the others are on PostgreSQL
          Restorable     \* databases a person may create and load by hand at any time

VARIABLES roles,         \* per database: its role's password, or None
          dbs            \* per database: "absent", "empty" or "inUse"

databaseVars == <<roles, dbs>>

DatabaseInit == /\ roles = [d \in Database |-> None]
                /\ dbs = [d \in Database |-> "absent"]

(* Faults: what existed counts as created by the job, on either engine.   *)
StartDatabaseUnread(d) ==
    /\ \E p \in Password :
          Start(d, p, "role",
                IF d \in Mariadb THEN {"createdDatabase", "createdRole"} ELSE {})
    /\ UNCHANGED databaseVars

PostgresDatabaseUnread(d) ==
    /\ At(d, "database") /\ d \notin Mariadb
    /\ dbs' = [dbs EXCEPT ![d] = IF @ = "absent" THEN "empty" ELSE @]
    /\ job' = [job EXCEPT !.step = "login", !.found = @ \cup {"createdDatabase"}]
    /\ UNCHANGED <<roles, applied, unsettled>>

(* MariaDB reads both existences first and calls created what was absent.  *)
StartDatabase(d) ==
    /\ \E p \in Password :
          Start(d, p, "role",
                IF d \in Mariadb THEN (IF dbs[d] = "absent" THEN {"createdDatabase"} ELSE {})
                                      \cup (IF roles[d] = None THEN {"createdRole"} ELSE {})
                                 ELSE {})
    /\ UNCHANGED databaseVars

Created(what, step) == job' = [job EXCEPT !.step = step, !.found = @ \cup what]

(* CREATE ROLE or ALTER ROLE; both set the password.                       *)
PostgresRole(d) ==
    /\ At(d, "role") /\ d \notin Mariadb
    /\ roles' = [roles EXCEPT ![d] = job.payload]
    /\ Created(IF roles[d] = None THEN {"createdRole"} ELSE {}, "database")
    /\ UNCHANGED <<dbs, applied, unsettled>>

PostgresDatabase(d) ==
    /\ At(d, "database") /\ d \notin Mariadb
    /\ dbs' = [dbs EXCEPT ![d] = IF @ = "absent" THEN "empty" ELSE @]
    /\ Created(IF dbs[d] = "absent" THEN {"createdDatabase"} ELSE {}, "login")
    /\ UNCHANGED <<roles, applied, unsettled>>

MariadbDatabase(d) ==
    /\ At(d, "role") /\ d \in Mariadb
    /\ dbs' = [dbs EXCEPT ![d] = IF @ = "absent" THEN "empty" ELSE @]
    /\ GoTo("user")
    /\ UNCHANGED roles

MariadbUser(d) ==
    /\ At(d, "user")
    /\ roles' = [roles EXCEPT ![d] = job.payload]
    /\ GoTo("login")
    /\ UNCHANGED dbs

(* The login the driver proves its work with.                              *)
Login(d, password) == roles[d] = password /\ dbs[d] # "absent"

CompleteDatabase(d) ==
    /\ At(d, "login")
    /\ Login(d, job.payload)
    /\ Applied
    /\ UNCHANGED databaseVars

(* Any statement may fail and start the rollback.                          *)
DatabaseError(d) ==
    /\ job.target = d
    /\ job.step \in {"role", "database", "user", "login"}
    /\ GoTo("dropDatabase")
    /\ UNCHANGED databaseVars

(* A DROP that fails ends the rollback: the report says rollbackError.     *)
RollBackDatabase(d) ==
    \/ /\ At(d, "dropDatabase")
       /\ dbs' = [dbs EXCEPT ![d] = IF "createdDatabase" \in job.found THEN "absent" ELSE @]
       /\ GoTo("dropRole")
       /\ UNCHANGED roles
    \/ /\ At(d, "dropRole")
       /\ roles' = [roles EXCEPT ![d] = IF "createdRole" \in job.found THEN None ELSE @]
       /\ Failed("createdRole" \in job.found)
       /\ UNCHANGED dbs
    \/ /\ job.target = d /\ job.step \in {"dropDatabase", "dropRole"}
       /\ job.found # {}
       /\ Failed(FALSE)
       /\ UNCHANGED databaseVars

(* The app logs in with the password it was last given and stores data.    *)
AppWrites(d) ==
    /\ applied[d] # None /\ Login(d, applied[d])
    /\ dbs' = [dbs EXCEPT ![d] = "inUse"]
    /\ UNCHANGED <<jobVars, roles>>

(* A person creates the database and loads a dump.                         *)
RestoreByHand(d) ==
    /\ d \in Restorable /\ dbs[d] = "absent"
    /\ dbs' = [dbs EXCEPT ![d] = "inUse"]
    /\ UNCHANGED <<jobVars, roles>>

DatabaseStep(d) ==
    \/ StartDatabase(d) \/ PostgresRole(d) \/ PostgresDatabase(d)
    \/ MariadbDatabase(d) \/ MariadbUser(d) \/ CompleteDatabase(d)
    \/ DatabaseError(d) \/ RollBackDatabase(d)

DatabaseType == /\ roles \in [Database -> Password \cup {None}]
                /\ dbs \in [Database -> {"absent", "empty", "inUse"}]
=============================================================================
