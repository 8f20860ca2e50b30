------------------------------- MODULE AppPlans -------------------------------
(***************************************************************************)
(* What the control plane plans for an app: its vhosts, its containers,    *)
(* and the job that gives its database the password the containers have.   *)
(* Two builders choose among the app's database rows, each with a query of *)
(* its own, and skip what has no password yet.                             *)
(* Left out: images, ports, volumes and the environment beyond the         *)
(* database; other apps; two rows with one name in two engines, which      *)
(* neither query orders.  A second row makes the candidates hold one job   *)
(* twice, which a set does not show.                                       *)
(***************************************************************************)
EXTENDS Naturals

CONSTANTS Host,       \* the nodes
          Tunnelled,  \* those with a WireGuard address
          RowId,      \* ids of database rows
          DefaultRow, \* the one called database-<slug>
          RowName,    \* names: numbers, in alphabetical order
          Login,      \* passwords
          Unset       \* no standby, no database, no password

ASSUME AppPlansAssumption == /\ DefaultRow \in RowId /\ Tunnelled \subseteq Host
                             /\ RowName \subseteq Nat
                             /\ Unset \notin Host /\ Unset \notin Login

VARIABLES app,        \* [primary, standby, mode]
          rows,       \* control_plane_databases: [id, name, node]
          logins,     \* control_plane_database_credentials: id -> password
          dispatched  \* database jobs an operator sent since the last edit

appVars == <<app, rows, logins, dispatched>>

AppInit == /\ app = [primary |-> CHOOSE h \in Host : TRUE, standby |-> Unset,
                     mode |-> "active-passive"]
           /\ rows = {} /\ logins = [id \in RowId |-> Unset] /\ dispatched = {}

-----------------------------------------------------------------------------
Targets == CASE app.mode = "metadata-only" -> {}
             [] app.mode = "active-passive" -> {app.primary, app.standby} \ {Unset}
             [] OTHER -> {app.primary}

(* Both queries put the row with the default id first, then go by name.    *)
Before(r, s) == IF r.id = DefaultRow THEN TRUE
                ELSE s.id # DefaultRow /\ r.name <= s.name

FirstRow == CHOOSE r \in rows : \A s \in rows : Before(r, s)

DatabaseJob(password) ==
    [node |-> FirstRow.node, name |-> FirstRow.name, password |-> password]

(* Refused without a password; any password will do before it is stored.   *)
buildDatabasePayload(given) ==
    IF rows = {} \/ (given = Unset /\ logins[FirstRow.id] = Unset) THEN {}
    ELSE {[node |-> FirstRow.node, name |-> FirstRow.name,
           password |-> IF given # Unset THEN given ELSE logins[FirstRow.id]]}

DatabaseCandidates ==
    IF app.mode = "metadata-only" THEN {} ELSE buildDatabasePayload(Unset)

(* Fault: in the order of their names.                                     *)
FirstByName == CHOOSE r \in rows : \A s \in rows : r.name <= s.name

(* The first row of the query of buildAppContainerPlans.                   *)
ContainerRow == CHOOSE r \in rows : \A s \in rows : Before(r, s)

CredentialMissing == rows # {} /\ \/ ContainerRow.node \notin Tunnelled
                                  \/ logins[ContainerRow.id] = Unset

(* DB_HOST, DB_NAME and DB_PASSWORD.                                       *)
Environment == IF rows = {} THEN Unset
               ELSE [node |-> ContainerRow.node, name |-> ContainerRow.name,
                     password |-> logins[ContainerRow.id]]

buildAppContainerPlans ==
    IF CredentialMissing THEN {} ELSE {[node |-> t, env |-> Environment] : t \in Targets}

buildProxyPayload == Targets

-----------------------------------------------------------------------------
validateApp(next, databases) ==
    /\ \A r, s \in databases : r # s => r.id # s.id /\ r.name # s.name
    /\ \A r \in databases : r.node = next.primary

(* An edit that validates is stored; a row keeps the password of its id,   *)
(* unless one is given, and a row that goes takes it along.                *)
StoreApp(next, databases, given) ==
    /\ validateApp(next, databases)
    /\ app' = next /\ rows' = databases
    /\ logins' = [id \in RowId |-> IF \A r \in databases : r.id # id THEN Unset
                                   ELSE IF given[id] # Unset THEN given[id] ELSE logins[id]]
    /\ dispatched' = {}

NoneGiven == [id \in RowId |-> Unset]

SaveApp == \E primary \in Host, standby \in Host \cup {Unset},
              mode \in {"active-active", "active-passive", "metadata-only"} :
    StoreApp([primary |-> primary, standby |-> standby, mode |-> mode], rows, NoneGiven)

(* From the form, or a whole specification: a row, or its password.  The   *)
(* rows' two identities cannot be exchanged (ResourceTables).              *)
SaveRow == \E row \in [id : RowId, name : RowName, node : Host], password \in Login \cup {Unset} :
    /\ \A r \in rows : r.id = row.id <=> r.name = row.name
    /\ StoreApp(app, {r \in rows : r.id # row.id} \cup {row}, [NoneGiven EXCEPT ![row.id] = password])

DeleteRow == \E row \in rows : StoreApp(app, rows \ {row}, NoneGiven)

(* A whole specification moves the app with its databases.                 *)
MoveApp == \E h \in Host :
    StoreApp([app EXCEPT !.primary = h], {[r EXCEPT !.node = h] : r \in rows}, NoneGiven)

(* The password given is stored under the default id, whose row must be    *)
(* there; the job is inserted in the same transaction.                     *)
dispatchDatabaseReconcile == \E given \in Login \cup {Unset} :
    /\ buildDatabasePayload(given) # {}
    /\ given # Unset => \E r \in rows : r.id = DefaultRow
    /\ logins' = IF given = Unset THEN logins ELSE [logins EXCEPT ![DefaultRow] = given]
    /\ dispatched' = buildDatabasePayload(given)
    /\ UNCHANGED <<app, rows>>

AppPlanNext == SaveApp \/ SaveRow \/ DeleteRow \/ MoveApp \/ dispatchDatabaseReconcile

AppPlanSpec == AppInit /\ [][AppPlanNext]_appVars

-----------------------------------------------------------------------------
(* Whatever was edited and sent in whichever order, the plans of an app    *)
(* agree: a container has the name and password that the reconciler's      *)
(* database job sets, on a node its environment can name; each node of a   *)
(* vhost has a container unless the password is missing; and a database    *)
(* job an operator sent is the one the reconciler wants, which will not    *)
(* set another password after it.                                          *)
AppPlansAgree ==
    /\ \A c \in buildAppContainerPlans :
          IF rows = {} THEN c.env = Unset
          ELSE c.env \in DatabaseCandidates /\ c.env.node \in Tunnelled
    /\ CredentialMissing \/ buildProxyPayload = {c.node : c \in buildAppContainerPlans}
    /\ app.mode = "metadata-only" \/ dispatched \subseteq DatabaseCandidates
=============================================================================
