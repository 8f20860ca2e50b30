---------------------------- MODULE ResourceTables ----------------------------
(***************************************************************************)
(* applyDesiredStateSpec on the tables whose rows have a second identity:  *)
(* a site has its id and its canonical domain, a database its id and its   *)
(* (engine, name).  INSERT ... ON CONFLICT finds a row by the second, the  *)
(* final DELETEs go by the first, and a row already there under the other  *)
(* identity makes the statement, and with it the whole apply, fail.  The   *)
(* specifications come from the resource workspace, whose forms know a     *)
(* database by its app, and from an operator's client, which names ids.    *)
(* Left out: the columns that are no identity, the references checked as   *)
(* those to apps are, and two edits at once (DesiredState has them).       *)
(***************************************************************************)
EXTENDS SequencesExt

CONSTANTS App,            \* slugs: numbers, in alphabetical order
          Domain,         \* canonical domains
          DatabaseId,
          DatabaseName,   \* an engine and a name in it
          DefaultId,      \* the id of an app's database that comes without one
          Password

ASSUME ResourceTablesAssumption == /\ IsFiniteSet(App) /\ IsFiniteSet(Domain)
                                   /\ DefaultId \in [App -> DatabaseId]

VARIABLES sites,      \* rows [id, app, domain]: an app has its site's
          databases,  \* rows [id, app, name]
          secrets,    \* database id -> password
          given,      \* what the last apply wanted stored
          saved       \* the databases it was given, by app and name

tableVars == <<sites, databases, secrets, given, saved>>

TablesInit == /\ sites = {} /\ databases = {} /\ secrets = <<>> /\ saved = {}
              /\ given = [apps |-> {}, databases |-> {}, secrets |-> <<>>]

Ids(rows) == {r.id : r \in rows}
Slugs(list) == {list[i].slug : i \in DOMAIN list}

(* buildDesiredStateSpecFromDatabase: apps joined with their sites.        *)
ExportedApps == {[slug |-> s.app, domain |-> s.domain] : s \in sites}

Stored == [apps |-> ExportedApps, databases |-> databases, secrets |-> secrets]

-----------------------------------------------------------------------------
(* A specification: apps in the order listed, databases, passwords by id.  *)
validateDesiredStateSpec(spec) ==
    /\ \A i, j \in DOMAIN spec.apps :
          i # j => /\ spec.apps[i].slug # spec.apps[j].slug
                   /\ spec.apps[i].domain # spec.apps[j].domain
    /\ \A d, e \in spec.databases : d # e => d.id # e.id /\ d.name # e.name
    /\ \A d \in spec.databases : d.app \in Slugs(spec.apps)

(* One app: its site is deleted, and inserted ON CONFLICT (canonical_domain). *)
PutSite(table, a) ==
    LET others == {s \in table.rows : s.app # a.slug}
        found == {s \in others : s.domain = a.domain}
    IN  [rows |-> (others \ found) \cup
                    (IF found = {} THEN {[id |-> a.slug, app |-> a.slug, domain |-> a.domain]}
                     ELSE {[s EXCEPT !.app = a.slug] : s \in found}),
         fits |-> table.fits /\ (found # {} \/ a.slug \notin Ids(others))]

PutSites(list) ==
    LET put[i \in 0..Len(list)] ==
          IF i = 0 THEN [rows |-> sites, fits |-> TRUE] ELSE PutSite(put[i - 1], list[i])
    IN  put[Len(list)]

(* The row that ON CONFLICT (engine, database_name) finds.                 *)
FoundBy(d) == {r \in databases : r.name = d.name}

(* Fault: ON CONFLICT DO NOTHING.                                          *)
InsertDatabases(wanted) ==
    databases \cup {d \in wanted : FoundBy(d) = {}}

PutDatabases(wanted) ==
    {r \in databases : \A d \in wanted : r \notin FoundBy(d)}
      \cup UNION {IF FoundBy(d) = {} THEN {d} ELSE {[r EXCEPT !.app = d.app] : r \in FoundBy(d)} :
                  d \in wanted}

(* A new row needs a new id, and a password the row of its id.             *)
DatabasesFit(spec) ==
    /\ \A d \in spec.databases : FoundBy(d) = {} => d.id \notin Ids(databases)
    /\ DOMAIN spec.passwords \subseteq Ids(PutDatabases(spec.databases))

(* The passwords given, and those in place, of these databases.            *)
Merged(passwords, ids) ==
    [id \in ids \cap (DOMAIN passwords \cup DOMAIN secrets) |->
       IF id \in DOMAIN passwords THEN passwords[id] ELSE secrets[id]]

Wanted(spec) == [apps |-> {spec.apps[i] : i \in DOMAIN spec.apps},
                 databases |-> spec.databases,
                 secrets |-> Merged(spec.passwords, Ids(spec.databases))]

(* A database is stored under another id than the specification has.       *)
ChangesId(spec) == \E d \in spec.databases : \E r \in FoundBy(d) : r.id # d.id

applyDesiredStateSpec(spec) ==
    /\ validateDesiredStateSpec(spec)
    /\ PutSites(spec.apps).fits /\ DatabasesFit(spec)
    /\ sites' = {s \in PutSites(spec.apps).rows : s.app \in Slugs(spec.apps)}
    /\ databases' = {r \in PutDatabases(spec.databases) :
                       r.id \in Ids(spec.databases) /\ r.app \in Slugs(spec.apps)}
    /\ secrets' = Merged(spec.passwords, Ids(databases'))
    /\ given' = IF ChangesId(spec) THEN Stored' ELSE Wanted(spec)
    /\ saved' = {<<d.app, d.name>> : d \in spec.databases}

-----------------------------------------------------------------------------
(* The export sorts apps by slug.                                          *)
Sorted(apps) == {list \in SetToSeqs(apps) :
                    \A i, j \in DOMAIN list : i < j => list[i].slug < list[j].slug}

ApplyEdit(apps, rows, passwords) ==
    \E list \in Sorted(apps) :
      applyDesiredStateSpec([apps |-> list, databases |-> rows, passwords |-> passwords])

(* The forms of the workspace: upsertByKey and removeByKey on the export.  *)
UpsertApp(next, original) ==
    ApplyEdit({a \in ExportedApps : a.slug \notin {next.slug, original}} \cup {next},
              databases, <<>>)

DeleteApp(slug) == ApplyEdit({a \in ExportedApps : a.slug # slug}, databases, <<>>)

(* No form has the database's id, and a blank password is none.            *)
UpsertDatabase(app, name, original) ==
    \E p \in Password \cup {""} :
      ApplyEdit(ExportedApps,
                {d \in databases : d.app \notin {app, original}}
                  \cup {[id |-> DefaultId[app], app |-> app, name |-> name]},
                [id \in (IF p = "" THEN {} ELSE {DefaultId[app]}) |-> p])

DeleteDatabase(app) ==
    ApplyEdit(ExportedApps, {d \in databases : d.app # app}, <<>>)

(* PUT /v1/resources/spec: any list of apps, and databases with any id.    *)
ApplySpec ==
    \E slugs \in SUBSET App : \E domain \in [slugs -> Domain], order \in SetToSeqs(slugs) :
      LET list == [i \in DOMAIN order |-> [slug |-> order[i], domain |-> domain[order[i]]]]
          kept == {r \in databases : r.app \in slugs}
      IN  \E d \in [id : DatabaseId, app : slugs, name : DatabaseName] :
            \E rows \in {kept, {r \in kept : r.id # d.id}, {r \in kept : r.id # d.id} \cup {d}} :
              applyDesiredStateSpec([apps |-> list, databases |-> rows, passwords |-> <<>>])

TablesNext == \/ \E next \in [slug : App, domain : Domain], original \in App :
                    UpsertApp(next, original)
              \/ \E app, original \in App, name \in DatabaseName :
                    UpsertDatabase(app, name, original)
              \/ \E app \in App : DeleteApp(app) \/ DeleteDatabase(app)
              \/ ApplySpec

TablesSpec == TablesInit /\ [][TablesNext]_tableVars

-----------------------------------------------------------------------------
(* An apply that is not refused stores what it was given and nothing else, *)
(* passwords it was not given included, unless it names a stored database  *)
(* by another id.                                                          *)
AppliedIsStored == Stored = given

(* The workspace answers "Saved database" (desired-state-resource-routes   *)
(* 145): the databases of an apply that was not refused are stored.        *)
SavedDatabaseIsStored == saved \subseteq {<<r.app, r.name>> : r \in databases}
=============================================================================
