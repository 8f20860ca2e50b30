-------------------------- MODULE ControlServices_proofs ------------------
(***************************************************************************)
(* The proofs about the services around the job loop, one section per      *)
(* module of the model, and the theorem that puts them together.           *)
(***************************************************************************)
EXTENDS ControlServices, StartAndAccess_proofs, WellFoundedInduction, NaturalsInduction,
        FiniteSetTheorems, SequenceTheorems, TLAPS

---------------------------------------------------------------------------
(***************************************************************************)
(* AppliedIsStored for any tables and any edits.  PutSites is a recursive  *)
(* function of how many apps are put; that each prefix of the list does    *)
(* what is claimed of it is shown without an induction theorem: the least  *)
(* prefix that did not would follow one that did.                          *)
(***************************************************************************)

(* Least counterexample: a set of naturals that has an element has a first one. *)
LEMMA HasLeast ==
  ASSUME NEW T \in SUBSET Nat, T # {}
  PROVE  \E m \in T : \A x \in T : m <= x
<1> DEFINE R == {ss \in Nat \X Nat : ss[1] < ss[2]}
<1>1. OpToRel(<, Nat) = R
  BY DEF OpToRel
<1>2. IsWellFoundedOn(OpToRel(<, Nat), Nat)
  BY NatLessThanWellFounded
<1>3. PICK m \in T : \A x \in T : ~(<<x, m>> \in R)
  <2> HIDE DEF R
  <2> QED
    BY <1>1, <1>2, WFMin, Zenon
<1>4. ASSUME NEW x \in T PROVE m <= x
  <2>1. <<x, m>> \in Nat \X Nat /\ ~(<<x, m>> \in R)
    BY <1>3
  <2> QED
    BY <2>1
<1> QED
  BY <1>4

(* The tables of PutSites, one per app: the recursion defines a function.  *)
LEMMA PutSitesRuns ==
  ASSUME NEW list, Len(list) \in Nat
  PROVE  \E put : /\ put[0] = [rows |-> sites, fits |-> TRUE]
                  /\ \A i \in 1..Len(list) : put[i] = PutSite(put[i - 1], list[i])
                  /\ PutSites(list) = put[Len(list)]
<1> DEFINE Base == [rows |-> sites, fits |-> TRUE]
           Runs(g, n) == g = [i \in 0..n |-> IF i = 0 THEN Base ELSE PutSite(g[i - 1], list[i])]
           T == {n \in Nat : ~\E g : Runs(g, n)}
<1>1. T = {}
  <2> SUFFICES ASSUME T # {} PROVE FALSE
    OBVIOUS
  <2>1. PICK m \in T : \A x \in T : m <= x
    <3> HIDE DEF T
    <3>1. T \in SUBSET Nat
      BY DEF T
    <3> QED
      BY <3>1, HasLeast
  <2>2. m # 0
    <3>1. Runs([i \in 0..0 |-> Base], 0)
      OBVIOUS
    <3> QED
      BY <2>1, <3>1
  <2>3. m - 1 \in Nat /\ ~(m - 1 \in T)
    BY <2>1, <2>2
  <2>4. PICK g : Runs(g, m - 1)
    BY <2>3
  <2> DEFINE h == [i \in 0..m |-> IF i <= m - 1 THEN g[i] ELSE PutSite(g[m - 1], list[m])]
  <2>5. ASSUME NEW i \in 0..m
        PROVE  h[i] = IF i = 0 THEN Base ELSE PutSite(h[i - 1], list[i])
    <3>1. \A j \in 0..(m - 1) : g[j] = IF j = 0 THEN Base ELSE PutSite(g[j - 1], list[j])
      BY <2>4, Zenon
    <3>2. CASE i = m
      BY <2>2, <2>3, <3>2
    <3>3. CASE i # m
      <4>1. /\ i \in 0..(m - 1) /\ h[i] = g[i]
            /\ i # 0 => i - 1 \in 0..m /\ i - 1 <= m - 1
        BY <2>3, <3>3
      <4>2. i # 0 => h[i - 1] = g[i - 1]
        BY <4>1
      <4> HIDE DEF h
      <4> QED
        BY <3>1, <4>1, <4>2
    <3> QED
      BY <3>2, <3>3
  <2>6. h = [i \in 0..m |-> IF i = 0 THEN Base ELSE PutSite(h[i - 1], list[i])]
    BY <2>5
  <2> QED
    BY <2>1, <2>6
<1>2. PICK g : Runs(g, Len(list))
  BY <1>1
<1> DEFINE put == CHOOSE f : Runs(f, Len(list))
<1>3. Runs(put, Len(list))
  BY <1>2
<1>4. PutSites(list) = put[Len(list)]
  BY DEF PutSites
<1> HIDE DEF put
<1>5. \A i \in 0..Len(list) : put[i] = IF i = 0 THEN Base ELSE PutSite(put[i - 1], list[i])
  BY <1>3, Zenon
<1>6. put[0] = Base
  <2>1. 0 \in 0..Len(list)
    OBVIOUS
  <2> QED
    BY <1>5, <2>1, Zenon
<1>7. ASSUME NEW i \in 1..Len(list) PROVE put[i] = PutSite(put[i - 1], list[i])
  <2>1. i \in 0..Len(list) /\ i # 0
    OBVIOUS
  <2> QED
    BY <1>5, <2>1, Zenon
<1> QED
  BY <1>4, <1>6, <1>7

SiteRow == [id : App, app : App, domain : Domain]
AppRecord == [slug : App, domain : Domain]
DatabaseRow == [id : DatabaseId, app : App, name : DatabaseName]

OneSiteEach(placed) == \A r, s \in placed : r.app = s.app \/ r.domain = s.domain => r = s
OneRowEach(placed) == \A r, s \in placed : r.id = s.id \/ r.name = s.name => r = s

TablesInv == /\ sites \subseteq SiteRow /\ OneSiteEach(sites)
             /\ databases \subseteq DatabaseRow /\ OneRowEach(databases)
             /\ AppliedIsStored

(* One app of  the specification: its row has its domain, the others keep   *)
(* theirs unless this app took it.                                          *)
LEMMA PutSiteKeeps ==
  ASSUME NEW table, table.rows \subseteq SiteRow, OneSiteEach(table.rows), NEW a \in AppRecord
  PROVE  LET placed == PutSite(table, a).rows IN
         /\ placed \subseteq SiteRow /\ OneSiteEach(placed)
         /\ \E s \in placed : s.app = a.slug /\ s.domain = a.domain
         /\ \A s \in table.rows : s.app # a.slug /\ s.domain # a.domain => s \in placed
<1> DEFINE placed == PutSite(table, a).rows
           others == {s \in table.rows : s.app # a.slug}
           found == {s \in others : s.domain = a.domain}
           put == IF found = {} THEN {[id |-> a.slug, app |-> a.slug, domain |-> a.domain]}
                  ELSE {[s EXCEPT !.app = a.slug] : s \in found}
<1>1. placed = (others \ found) \cup put
  BY DEF PutSite
<1>2. a.slug \in App /\ a.domain \in Domain
  BY DEF AppRecord
<1>3. \E p \in SiteRow : put = {p} /\ p.app = a.slug /\ p.domain = a.domain
  <2>1. CASE found = {}
    <3> DEFINE p == [id |-> a.slug, app |-> a.slug, domain |-> a.domain]
    <3>1. p \in SiteRow /\ p.app = a.slug /\ p.domain = a.domain
      BY <1>2 DEF SiteRow
    <3> QED
      BY <2>1, <3>1
  <2>2. CASE found # {}
    <3>1. PICK s \in found : TRUE
      BY <2>2
    <3>2. found = {s}
      BY <3>1 DEF OneSiteEach
    <3> DEFINE p == [s EXCEPT !.app = a.slug]
    <3>3. p \in SiteRow /\ p.app = a.slug /\ p.domain = a.domain
      BY <1>2, <3>1 DEF SiteRow
    <3>4. put = {p}
      BY <2>2, <3>2
    <3> QED
      BY <3>3, <3>4
  <2> QED
    BY <2>1, <2>2
<1>4. PICK p \in SiteRow : put = {p} /\ p.app = a.slug /\ p.domain = a.domain
  BY <1>3
<1> HIDE DEF put, placed
<1>5. \A s \in placed : s = p \/ (s \in table.rows /\ s.app # a.slug /\ s.domain # a.domain)
  BY <1>1, <1>4
<1>6. placed \subseteq SiteRow /\ p \in placed
  BY <1>1, <1>4
<1>7. OneSiteEach(placed)
  BY <1>4, <1>5 DEF OneSiteEach
<1>8. \A s \in table.rows : s.app # a.slug /\ s.domain # a.domain => s \in placed
  BY <1>1
<1> QED
  BY <1>4, <1>6, <1>7, <1>8 DEF placed

(* The whole list, when no slug and no domain comes twice.                 *)
LEMMA PutSitesKeeps ==
  ASSUME NEW list \in Seq(AppRecord), sites \subseteq SiteRow, OneSiteEach(sites),
         \A i, j \in DOMAIN list :
            i # j => list[i].slug # list[j].slug /\ list[i].domain # list[j].domain
  PROVE  /\ PutSites(list).rows \subseteq SiteRow /\ OneSiteEach(PutSites(list).rows)
         /\ \A i \in DOMAIN list : \E s \in PutSites(list).rows :
               s.app = list[i].slug /\ s.domain = list[i].domain
<1> DEFINE n == Len(list)
<1>0. n \in Nat /\ DOMAIN list = 1..n /\ \A i \in 1..n : list[i] \in AppRecord
  OBVIOUS
<1>1. PICK put : /\ put[0] = [rows |-> sites, fits |-> TRUE]
                 /\ \A i \in 1..n : put[i] = PutSite(put[i - 1], list[i])
                 /\ PutSites(list) = put[n]
  BY <1>0, PutSitesRuns
<1> HIDE DEF n
<1> DEFINE PutUpTo(k) == /\ put[k].rows \subseteq SiteRow /\ OneSiteEach(put[k].rows)
                      /\ \A i \in 1..k : \E s \in put[k].rows :
                            s.app = list[i].slug /\ s.domain = list[i].domain
           T == {k \in 0..n : ~PutUpTo(k)}
<1>2. PutUpTo(0)
  BY <1>1
<1>3. ASSUME NEW k \in 1..n, PutUpTo(k - 1) PROVE PutUpTo(k)
  <2> DEFINE placed == put[k].rows
             old == put[k - 1].rows
  <2>1. list[k] \in AppRecord /\ put[k] = PutSite(put[k - 1], list[k])
    BY <1>0, <1>1
  <2>2. /\ placed \subseteq SiteRow /\ OneSiteEach(placed)
        /\ \E s \in placed : s.app = list[k].slug /\ s.domain = list[k].domain
        /\ \A s \in old : s.app # list[k].slug /\ s.domain # list[k].domain => s \in placed
    BY <1>3, <2>1, PutSiteKeeps
  <2>3. ASSUME NEW i \in 1..k
        PROVE  \E s \in placed : s.app = list[i].slug /\ s.domain = list[i].domain
    <3>1. CASE i = k
      BY <2>2, <3>1
    <3>2. CASE i # k
      <4>1. i \in 1..(k - 1) /\ i \in DOMAIN list /\ k \in DOMAIN list
        BY <1>0, <3>2
      <4>2. PICK s \in old : s.app = list[i].slug /\ s.domain = list[i].domain
        BY <1>3, <4>1
      <4>3. s.app # list[k].slug /\ s.domain # list[k].domain
        BY <3>2, <4>1, <4>2
      <4> QED
        BY <2>2, <4>2, <4>3
    <3> QED
      BY <3>1, <3>2
  <2> QED
    BY <2>2, <2>3
<1>4. T = {}
  <2> SUFFICES ASSUME T # {} PROVE FALSE
    OBVIOUS
  <2> HIDE DEF PutUpTo
  <2>0. T \in SUBSET Nat
    BY <1>0
  <2>1. PICK m \in T : \A x \in T : m <= x
    <3> HIDE DEF T
    <3> QED
      BY <2>0, HasLeast
  <2>2. m # 0
    BY <1>2, <2>1
  <2>3. m \in 1..n /\ m - 1 \in 0..n /\ ~(m - 1 \in T)
    BY <1>0, <2>1, <2>2
  <2>4. PutUpTo(m - 1)
    BY <2>3
  <2> QED
    BY <1>3, <2>1, <2>3, <2>4
<1>5. PutUpTo(n)
  <2> HIDE DEF PutUpTo
  <2> QED
    BY <1>0, <1>4
<1> QED
  BY <1>0, <1>1, <1>5

(* Sites, exported, are the apps given.                                    *)
LEMMA SitesStored ==
  ASSUME TablesInv, NEW list \in Seq(AppRecord),
         \A i, j \in DOMAIN list :
            i # j => list[i].slug # list[j].slug /\ list[i].domain # list[j].domain,
         sites' = {s \in PutSites(list).rows : s.app \in Slugs(list)}
  PROVE  /\ sites' \subseteq SiteRow /\ OneSiteEach(sites')
         /\ ExportedApps' = {list[i] : i \in DOMAIN list}
<1>1. /\ PutSites(list).rows \subseteq SiteRow /\ OneSiteEach(PutSites(list).rows)
      /\ \A i \in DOMAIN list : \E s \in PutSites(list).rows :
            s.app = list[i].slug /\ s.domain = list[i].domain
  BY PutSitesKeeps DEF TablesInv
<1>2. sites' \subseteq SiteRow /\ OneSiteEach(sites')
  BY <1>1 DEF OneSiteEach
<1>3. ASSUME NEW i \in DOMAIN list
      PROVE  /\ list[i] \in AppRecord
             /\ list[i] = [slug |-> list[i].slug, domain |-> list[i].domain]
  <2>1. list[i] \in AppRecord
    OBVIOUS
  <2> QED
    BY <2>1 DEF AppRecord
<1>4. ASSUME NEW i \in DOMAIN list PROVE list[i] \in ExportedApps'
  <2>1. PICK s \in PutSites(list).rows : s.app = list[i].slug /\ s.domain = list[i].domain
    BY <1>1
  <2>2. s \in sites'
    BY <2>1 DEF Slugs
  <2> QED
    BY <1>3, <2>1, <2>2 DEF ExportedApps
<1>5. ASSUME NEW s \in sites'
      PROVE  \E i \in DOMAIN list : [slug |-> s.app, domain |-> s.domain] = list[i]
  <2>1. PICK i \in DOMAIN list : s.app = list[i].slug
    BY DEF Slugs
  <2>2. PICK t \in PutSites(list).rows : t.app = list[i].slug /\ t.domain = list[i].domain
    BY <1>1
  <2>3. s = t
    BY <1>1, <2>1, <2>2 DEF OneSiteEach
  <2> QED
    BY <1>3, <2>2, <2>3
<1> QED
  BY <1>2, <1>4, <1>5 DEF ExportedApps

(* Databases: a row found by its name keeps its id, a new one has a new    *)
(* id; unless an id differs, what is stored is what was given.             *)
LEMMA DatabasesStored ==
  ASSUME TablesInv, NEW wanted \in SUBSET DatabaseRow,
         \A d, e \in wanted : d # e => d.id # e.id /\ d.name # e.name,
         \A d \in wanted : FoundBy(d) = {} => d.id \notin Ids(databases),
         NEW slugs, \A d \in wanted : d.app \in slugs,
         databases' = {r \in PutDatabases(wanted) : r.id \in Ids(wanted) /\ r.app \in slugs}
  PROVE  /\ databases' \subseteq DatabaseRow /\ OneRowEach(databases')
         /\ (\A d \in wanted : \A r \in FoundBy(d) : r.id = d.id) => databases' = wanted
<1> DEFINE put(d) == IF FoundBy(d) = {} THEN {d} ELSE {[r EXCEPT !.app = d.app] : r \in FoundBy(d)}
<1>0. /\ databases \subseteq DatabaseRow
      /\ \A r, s \in databases : r.id = s.id \/ r.name = s.name => r = s
      /\ \A d : \A r : r \in FoundBy(d) <=> r \in databases /\ r.name = d.name
  BY DEF TablesInv, OneRowEach, FoundBy
(* Each row put in is of one wanted database.                              *)
<1>1. ASSUME NEW d \in wanted, NEW r \in put(d)
      PROVE  /\ r \in DatabaseRow /\ r.name = d.name /\ r.app = d.app
             /\ \/ FoundBy(d) = {} /\ r = d
                \/ \E o \in FoundBy(d) : r.id = o.id /\ r = [o EXCEPT !.app = d.app]
  <2>1. CASE FoundBy(d) = {}
    BY <1>1, <2>1
  <2>2. CASE FoundBy(d) # {}
    <3>1. PICK o \in FoundBy(d) : r = [o EXCEPT !.app = d.app]
      BY <1>1, <2>2
    <3>2. o \in DatabaseRow /\ o.name = d.name /\ d \in DatabaseRow
      BY <1>0, <3>1
    <3>3. r \in DatabaseRow /\ r.name = o.name /\ r.app = d.app /\ r.id = o.id
      BY <3>1, <3>2 DEF DatabaseRow
    <3> QED
      BY <3>1, <3>2, <3>3
  <2> QED
    BY <2>1, <2>2
<1>2. PutDatabases(wanted) =
        {r \in databases : \A d \in wanted : r \notin FoundBy(d)} \cup UNION {put(d) : d \in wanted}
  BY DEF PutDatabases
<1> HIDE DEF put
<1>3. \A r \in databases' :
        \/ r \in databases /\ \A d \in wanted : r \notin FoundBy(d)
        \/ \E d \in wanted : r \in put(d)
  BY <1>2
<1>4. databases' \subseteq DatabaseRow
  BY <1>0, <1>1, <1>3
(* Two placed with the id or the name in common are one.                     *)
<1>5. ASSUME NEW d \in wanted, NEW r \in put(d), NEW s \in databases,
             \A e \in wanted : s \notin FoundBy(e)
      PROVE  r.id # s.id /\ r.name # s.name
  <2>1. r.name # s.name
    BY <1>0, <1>1, <1>5
  <2>2. CASE FoundBy(d) = {} /\ r = d
    BY <2>1, <2>2 DEF Ids
  <2>3. CASE \E o \in FoundBy(d) : r.id = o.id
    BY <1>0, <1>5, <2>1, <2>3
  <2> QED
    BY <1>1, <2>1, <2>2, <2>3
<1>6. ASSUME NEW d \in wanted, NEW r \in put(d), NEW e \in wanted, NEW s \in put(e),
             r.id = s.id \/ r.name = s.name
      PROVE  r = s
  <2>1. CASE d = e
    BY <1>0, <1>1, <2>1
  <2>2. CASE d # e
    <3>1. d.id # e.id /\ d.name # e.name
      BY <2>2
    <3>2. r.name # s.name
      BY <1>1, <3>1
    <3>3. CASE FoundBy(d) = {} /\ r = d /\ FoundBy(e) = {} /\ s = e
      BY <1>6, <3>1, <3>3
    <3>4. CASE FoundBy(d) = {} /\ r = d /\ \E o \in FoundBy(e) : s.id = o.id
      BY <1>0, <1>6, <3>2, <3>4 DEF Ids
    <3>5. CASE (\E o \in FoundBy(d) : r.id = o.id) /\ FoundBy(e) = {} /\ s = e
      BY <1>0, <1>6, <3>2, <3>5 DEF Ids
    <3>6. CASE (\E o \in FoundBy(d) : r.id = o.id) /\ \E o \in FoundBy(e) : s.id = o.id
      <4>1. PICK o \in FoundBy(d), q \in FoundBy(e) : r.id = o.id /\ s.id = q.id
        BY <3>6
      <4>2. o.name = d.name /\ q.name = e.name /\ o \in databases /\ q \in databases
        BY <1>0, <4>1
      <4> QED
        BY <1>0, <1>6, <3>1, <3>2, <4>1, <4>2
    <3> QED
      BY <1>1, <3>3, <3>4, <3>5, <3>6
  <2> QED
    BY <2>1, <2>2
<1>7. OneRowEach(databases')
  <2> SUFFICES ASSUME NEW r \in databases', NEW s \in databases', r.id = s.id \/ r.name = s.name
               PROVE  r = s
    BY DEF OneRowEach
  <2> QED
    BY <1>0, <1>3, <1>5, <1>6
<1>8. ASSUME \A d \in wanted : \A r \in FoundBy(d) : r.id = d.id PROVE databases' = wanted
  <2>1. ASSUME NEW d \in wanted PROVE put(d) = {d}
    <3>1. CASE FoundBy(d) = {}
      BY <3>1 DEF put
    <3>2. ASSUME NEW o \in FoundBy(d) PROVE [o EXCEPT !.app = d.app] = d
      <4>1. o \in DatabaseRow /\ d \in DatabaseRow /\ o.name = d.name /\ o.id = d.id
        BY <1>0, <1>8, <3>2
      <4> QED
        BY <4>1 DEF DatabaseRow
    <3>3. CASE FoundBy(d) # {}
      BY <3>2, <3>3 DEF put
    <3> QED
      BY <3>1, <3>3
  <2>2. \A d \in wanted : d \in databases'
    BY <1>2, <2>1 DEF Ids
  <2>3. ASSUME NEW r \in databases' PROVE r \in wanted
    <3>1. PICK d \in wanted : r.id = d.id
      BY DEF Ids
    <3>2. CASE r \in databases /\ \A e \in wanted : r \notin FoundBy(e)
      <4>1. FoundBy(d) # {}
        BY <3>1, <3>2 DEF Ids
      <4>2. PICK o \in FoundBy(d) : o.id = d.id
        BY <1>8, <4>1
      <4>3. r = o
        BY <1>0, <3>1, <3>2, <4>2
      <4> QED
        BY <3>2, <4>2, <4>3
    <3>3. CASE \E e \in wanted : r \in put(e)
      BY <2>1, <3>3
    <3> QED
      BY <1>3, <3>2, <3>3
  <2> QED
    BY <2>2, <2>3
<1> QED
  BY <1>4, <1>7, <1>8

(* What is applied fits the tables, so they hold what it was given.        *)
LEMMA ApplyKeeps ==
  ASSUME TablesInv, NEW spec, spec.apps \in Seq(AppRecord), spec.databases \subseteq DatabaseRow,
         applyDesiredStateSpec(spec)
  PROVE  TablesInv'
<1>1. /\ \A i, j \in DOMAIN spec.apps :
            i # j => /\ spec.apps[i].slug # spec.apps[j].slug
                     /\ spec.apps[i].domain # spec.apps[j].domain
      /\ \A d, e \in spec.databases : d # e => d.id # e.id /\ d.name # e.name
      /\ \A d \in spec.databases : d.app \in Slugs(spec.apps)
      /\ \A d \in spec.databases : FoundBy(d) = {} => d.id \notin Ids(databases)
      /\ sites' = {s \in PutSites(spec.apps).rows : s.app \in Slugs(spec.apps)}
      /\ databases' = {r \in PutDatabases(spec.databases) :
                         r.id \in Ids(spec.databases) /\ r.app \in Slugs(spec.apps)}
      /\ secrets' = Merged(spec.passwords, Ids(databases'))
      /\ given' = IF ChangesId(spec) THEN Stored' ELSE Wanted(spec)
  BY DEF applyDesiredStateSpec, validateDesiredStateSpec, DatabasesFit
<1>2. /\ sites' \subseteq SiteRow /\ OneSiteEach(sites')
      /\ ExportedApps' = {spec.apps[i] : i \in DOMAIN spec.apps}
  BY <1>1, SitesStored
<1>3. /\ databases' \subseteq DatabaseRow /\ OneRowEach(databases')
      /\ (\A d \in spec.databases : \A r \in FoundBy(d) : r.id = d.id) =>
            databases' = spec.databases
  BY <1>1, DatabasesStored
<1>4. CASE ChangesId(spec)
  BY <1>1, <1>2, <1>3, <1>4 DEF TablesInv, AppliedIsStored
<1>5. CASE ~ChangesId(spec)
  <2>1. databases' = spec.databases
    BY <1>3, <1>5 DEF ChangesId
  <2>2. Stored' = Wanted(spec)
    BY <1>1, <1>2, <2>1 DEF Stored, Wanted
  <2> QED
    BY <1>1, <1>2, <1>3, <1>5, <2>2 DEF TablesInv, AppliedIsStored
<1> QED
  BY <1>4, <1>5

LEMMA AppsFinite == IsFiniteSet(AppRecord)
<1> DEFINE f == [p \in App \X Domain |-> [slug |-> p[1], domain |-> p[2]]]
<1>1. IsFiniteSet(App \X Domain)
  BY FS_Product, ResourceTablesAssumption
<1>2. ASSUME NEW a \in AppRecord PROVE \E p \in App \X Domain : f[p] = a
  <2>1. <<a.slug, a.domain>> \in App \X Domain /\ a = [slug |-> a.slug, domain |-> a.domain]
    BY DEF AppRecord
  <2> QED
    BY <2>1
<1>3. f \in Surjection(App \X Domain, AppRecord)
  <2>1. f \in [App \X Domain -> AppRecord]
    BY DEF AppRecord
  <2> QED
    BY <1>2, <2>1 DEF Surjection
<1> QED
  BY <1>1, <1>3, FS_Surjection

(* A list of the elements of a finite set is a sequence over it.           *)
LEMMA SeqsOfFinite ==
  ASSUME NEW S, IsFiniteSet(S), NEW list \in SetToSeqs(S)
  PROVE  list \in Seq(S)
<1>1. Cardinality(S) \in Nat
  BY FS_CardinalityType
<1> QED
  BY <1>1 DEF SetToSeqs

(* Every operation ends in ApplyEdit, of apps and databases of its own.    *)
LEMMA EditKeeps ==
  ASSUME TablesInv, NEW apps \in SUBSET AppRecord, NEW placed \in SUBSET DatabaseRow, NEW passwords,
         ApplyEdit(apps, placed, passwords)
  PROVE  TablesInv'
<1>1. PICK list \in Sorted(apps) :
        applyDesiredStateSpec([apps |-> list, databases |-> placed, passwords |-> passwords])
  BY DEF ApplyEdit
<1>2. IsFiniteSet(apps)
  BY AppsFinite, FS_Subset
<1>3. list \in Seq(apps)
  BY <1>2, SeqsOfFinite DEF Sorted
<1>4. list \in Seq(AppRecord)
  BY <1>3
<1> QED
  BY <1>1, <1>4, ApplyKeeps

LEMMA TablesInitInv == TablesInit => TablesInv
BY DEF TablesInit, TablesInv, OneSiteEach, OneRowEach, AppliedIsStored, Stored, ExportedApps

LEMMA TablesStepInv == TablesInv /\ [TablesNext]_tableVars => TablesInv'
<1> SUFFICES ASSUME TablesInv, [TablesNext]_tableVars PROVE TablesInv'
  OBVIOUS
<1>0. ExportedApps \subseteq AppRecord /\ databases \subseteq DatabaseRow
  BY DEF TablesInv, ExportedApps, SiteRow, AppRecord
<1>1. ASSUME NEW next \in [slug : App, domain : Domain], NEW original \in App,
             UpsertApp(next, original)
      PROVE  TablesInv'
  <2>1. {a \in ExportedApps : a.slug \notin {next.slug, original}} \cup {next} \in SUBSET AppRecord
    BY <1>0 DEF AppRecord
  <2> QED
    BY <1>0, <1>1, <2>1, EditKeeps DEF UpsertApp
<1>2. ASSUME NEW slug \in App, NEW original \in App, NEW name \in DatabaseName,
             UpsertDatabase(slug, name, original)
      PROVE  TablesInv'
  <2> DEFINE placed == {d \in databases : d.app \notin {slug, original}}
                       \cup {[id |-> DefaultId[slug], app |-> slug, name |-> name]}
  <2>1. placed \in SUBSET DatabaseRow
    BY <1>0, ResourceTablesAssumption DEF DatabaseRow
  <2>2. PICK p \in Password \cup {""} :
          ApplyEdit(ExportedApps, placed, [id \in (IF p = "" THEN {} ELSE {DefaultId[slug]}) |-> p])
    BY <1>2 DEF UpsertDatabase
  <2> QED
    BY <1>0, <2>1, <2>2, EditKeeps
<1>3. ASSUME NEW slug \in App, DeleteApp(slug) \/ DeleteDatabase(slug) PROVE TablesInv'
  <2>1. /\ {a \in ExportedApps : a.slug # slug} \in SUBSET AppRecord
        /\ {d \in databases : d.app # slug} \in SUBSET DatabaseRow
    BY <1>0
  <2> QED
    BY <1>0, <1>3, <2>1, EditKeeps DEF DeleteApp, DeleteDatabase
<1>4. CASE ApplySpec
  <2>0. PICK slugs \in SUBSET App :
          \E domain \in [slugs -> Domain], order \in SetToSeqs(slugs) :
          LET list == [i \in DOMAIN order |-> [slug |-> order[i], domain |-> domain[order[i]]]]
              kept == {r \in databases : r.app \in slugs}
          IN  \E d \in [id : DatabaseId, app : slugs, name : DatabaseName] :
                \E placed \in {kept, {r \in kept : r.id # d.id}, {r \in kept : r.id # d.id} \cup {d}} :
                  applyDesiredStateSpec([apps |-> list, databases |-> placed, passwords |-> <<>>])
    BY <1>4 DEF ApplySpec
  <2>1. PICK domain \in [slugs -> Domain], order \in SetToSeqs(slugs) :
          LET list == [i \in DOMAIN order |-> [slug |-> order[i], domain |-> domain[order[i]]]]
              kept == {r \in databases : r.app \in slugs}
          IN  \E d \in [id : DatabaseId, app : slugs, name : DatabaseName] :
                \E placed \in {kept, {r \in kept : r.id # d.id}, {r \in kept : r.id # d.id} \cup {d}} :
                  applyDesiredStateSpec([apps |-> list, databases |-> placed, passwords |-> <<>>])
    BY <2>0
  <2> DEFINE list == [i \in DOMAIN order |-> [slug |-> order[i], domain |-> domain[order[i]]]]
             kept == {r \in databases : r.app \in slugs}
  <2>2. PICK d \in [id : DatabaseId, app : slugs, name : DatabaseName] :
          \E placed \in {kept, {r \in kept : r.id # d.id}, {r \in kept : r.id # d.id} \cup {d}} :
            applyDesiredStateSpec([apps |-> list, databases |-> placed, passwords |-> <<>>])
    BY <2>1
  <2>3. PICK placed \in {kept, {r \in kept : r.id # d.id}, {r \in kept : r.id # d.id} \cup {d}} :
          applyDesiredStateSpec([apps |-> list, databases |-> placed, passwords |-> <<>>])
    BY <2>2
  <2>4. placed \subseteq DatabaseRow
    <3>1. d \in DatabaseRow
      BY DEF DatabaseRow
    <3> QED
      BY <1>0, <2>3, <3>1
  <2>5. order \in Seq(slugs)
    BY <2>1, SeqsOfFinite, FS_Subset, ResourceTablesAssumption
  <2>6. list \in Seq(AppRecord)
    <3>1. \A i \in 1..Len(order) : order[i] \in slugs /\ order[i] \in App
      BY <2>5
    <3>2. \A i \in 1..Len(order) : domain[order[i]] \in Domain
      BY <3>1
    <3>3. \A i \in 1..Len(order) : [slug |-> order[i], domain |-> domain[order[i]]] \in AppRecord
      BY <3>1, <3>2 DEF AppRecord
    <3>4. Len(order) \in Nat /\ DOMAIN order = 1..Len(order)
      BY <2>5
    <3> QED
      BY <3>3, <3>4
  <2> HIDE DEF list, kept
  <2> QED
    BY <2>3, <2>4, <2>6, ApplyKeeps
<1>5. CASE UNCHANGED tableVars
  BY <1>5 DEF tableVars, TablesInv, AppliedIsStored, Stored, ExportedApps
<1> QED
  BY <1>1, <1>2, <1>3, <1>4, <1>5 DEF TablesNext

(* applyDesiredStateSpec: what a valid edit of apps and databases asks for *)
(* is what the tables hold, and export, once it is applied.                *)
THEOREM AppliesAreStored == TablesSpec => []AppliedIsStored
<1>1. TablesInv => AppliedIsStored
  BY DEF TablesInv
<1> QED
  BY <1>1, TablesInitInv, TablesStepInv, PTL DEF TablesSpec

---------------------------------------------------------------------------
(***************************************************************************)
(* Theorems about DriftCache for any number of changes, refreshes and      *)
(* invalidations.                                                          *)
(***************************************************************************)

(* A refresh that no cache entry points to is owed to an invalidation: one *)
(* fewer may run while no promise is cached.                               *)
Debt == IF cache.promise = None THEN invalidations ELSE invalidations + 1

DriftInv == /\ DriftTypeOK
        /\ CachedPromiseRuns
        /\ IsFiniteSet(Refreshing)
        /\ Cardinality(Refreshing) <= Debt

LEMMA DebtIs ==
  ASSUME DriftTypeOK
  PROVE  Debt \in Nat /\ Debt <= invalidations + 1
  BY DEF Debt, DriftTypeOK

LEMMA StartedEffect ==
  ASSUME DriftTypeOK, NEW p \in Refresh \ Refreshing, reads' = Started(p)
  PROVE  /\ Refreshing' = Refreshing \cup {p}
         /\ Refreshing' \subseteq Refresh
         /\ reads' \in [Refreshing' -> Nat \cup {None}]
  BY DEF Started, Refreshing, DriftTypeOK

LEMMA EndedEffect ==
  ASSUME DriftTypeOK, NEW p \in Refreshing, reads' = Ended(p)
  PROVE  /\ Refreshing' = Refreshing \ {p}
         /\ Refreshing' \subseteq Refresh
         /\ reads' \in [Refreshing' -> Nat \cup {None}]
  BY DEF Ended, Refreshing, DriftTypeOK

(* One refresh alone, in a cache that waits for it.                        *)
LEMMA WarmUp ==
  ASSUME NEW p \in Refresh, reads' = [q \in {p} |-> None],
         cache' = Waiting(p), invalidations' = 0,
         changes' \in Nat, ddns' \in BOOLEAN, calm' \in BOOLEAN
  PROVE  DriftInv'
  <1>1. Refreshing' = {p}
    BY DEF Refreshing
  <1>2. cache' = [value |-> None, fresh |-> FALSE, promise |-> p]
    BY DEF Waiting
  <1>3. p # None
    BY DriftCacheAssumption
  <1>4. DriftTypeOK'
    <2>1. reads' \in [Refreshing' -> Nat \cup {None}] /\ Refreshing' \subseteq Refresh
      BY <1>1
    <2>2. cache' \in [value : Nat \cup {None}, fresh : BOOLEAN, promise : Refresh \cup {None}]
      BY <1>2
    <2> QED BY <2>1, <2>2 DEF DriftTypeOK
  <1>5. CachedPromiseRuns'
    BY <1>1, <1>2 DEF CachedPromiseRuns
  <1>6. IsFiniteSet(Refreshing') /\ Cardinality(Refreshing') = 1
    BY <1>1, FS_Singleton
  <1>7. Debt' = 1
    BY <1>2, <1>3 DEF Debt
  <1> QED BY <1>4, <1>5, <1>6, <1>7 DEF DriftInv

LEMMA DriftInitInv == DriftInit => DriftInv
  <1> SUFFICES ASSUME DriftInit PROVE DriftInv
    OBVIOUS
  <1>0. First \in Refresh
    BY DriftCacheAssumption DEF First
  <1>1. PICK p \in Refresh : /\ reads = [q \in {p} |-> None]
                             /\ cache = Waiting(p)
    BY <1>0 DEF DriftInit
  <1>2. Refreshing = {p}
    BY <1>1 DEF Refreshing
  <1>3. cache = [value |-> None, fresh |-> FALSE, promise |-> p] /\ p # None
    BY <1>1, DriftCacheAssumption DEF Waiting
  <1>4. DriftTypeOK
    <2>1. reads \in [Refreshing -> Nat \cup {None}] /\ Refreshing \subseteq Refresh
      BY <1>1, <1>2
    <2>2. cache \in [value : Nat \cup {None}, fresh : BOOLEAN, promise : Refresh \cup {None}]
      BY <1>3
    <2>3. changes \in Nat /\ ddns \in BOOLEAN /\ invalidations \in Nat /\ calm \in BOOLEAN
      BY DEF DriftInit
    <2> QED BY <2>1, <2>2, <2>3 DEF DriftTypeOK
  <1>5. IsFiniteSet(Refreshing) /\ Cardinality(Refreshing) = 1
    BY <1>2, FS_Singleton
  <1>6. Debt = 1
    BY <1>3 DEF Debt, DriftInit
  <1> QED BY <1>2, <1>3, <1>4, <1>5, <1>6 DEF DriftInv, CachedPromiseRuns

(* A load that starts a refresh puts it in a cache that had no promise.    *)
LEMMA LoadStep ==
  ASSUME DriftInv, loadResourceDriftSummaries
  PROVE  DriftInv'
  <1>1. PICK p \in Refresh \ Refreshing :
          /\ reads' = Started(p)
          /\ cache' = [cache EXCEPT !.promise = p, !.fresh = cache.value # None]
    BY DEF loadResourceDriftSummaries
  <1>2. /\ cache.promise = None
        /\ UNCHANGED <<changes, ddns, invalidations, calm>>
    BY DEF loadResourceDriftSummaries
  <1>3. /\ Refreshing' = Refreshing \cup {p}
        /\ Refreshing' \subseteq Refresh
        /\ reads' \in [Refreshing' -> Nat \cup {None}]
    BY <1>1, StartedEffect DEF DriftInv
  <1>4. /\ cache' \in [value : Nat \cup {None}, fresh : BOOLEAN, promise : Refresh \cup {None}]
        /\ cache'.promise = p
    BY <1>1 DEF DriftInv, DriftTypeOK
  <1>5. DriftTypeOK'
    BY <1>2, <1>3, <1>4 DEF DriftInv, DriftTypeOK
  <1>6. IsFiniteSet(Refreshing') /\ Cardinality(Refreshing') = Cardinality(Refreshing) + 1
    BY <1>1, <1>3, FS_AddElement DEF DriftInv
  <1>7. Debt = invalidations /\ Debt' = invalidations + 1
    BY <1>1, <1>2, <1>4, DriftCacheAssumption DEF Debt
  <1>8. Cardinality(Refreshing') <= Debt'
    BY <1>6, <1>7, FS_CardinalityType DEF DriftInv, DriftTypeOK
  <1> QED BY <1>3, <1>4, <1>5, <1>6, <1>8 DEF DriftInv, CachedPromiseRuns

LEMMA ReadStep ==
  ASSUME DriftInv, NEW p \in Refresh, buildResourceDriftSummaries(p)
  PROVE  DriftInv'
  <1>1. /\ Refreshing' = Refreshing
        /\ reads' \in [Refreshing' -> Nat \cup {None}]
        /\ UNCHANGED <<changes, cache, ddns, invalidations, calm>>
    BY DEF buildResourceDriftSummaries, Refreshing, DriftInv, DriftTypeOK
  <1> QED BY <1>1 DEF DriftInv, DriftTypeOK, CachedPromiseRuns, Debt

LEMMA OneLess ==
  ASSUME NEW c \in Nat, NEW d \in Nat, NEW e \in Nat, c <= d, d <= e + 1
  PROVE  c - 1 <= e
  OBVIOUS

(* A refresh ends; the cache has no promise any more, or keeps another.    *)
LEMMA EndStep ==
  ASSUME DriftInv, NEW p \in Refreshing, reads' = Ended(p),
         cache' \in [value : Nat \cup {None}, fresh : BOOLEAN, promise : Refresh \cup {None}],
         \/ cache'.promise = None
         \/ cache'.promise = cache.promise /\ cache.promise # p,
         UNCHANGED <<changes, ddns, invalidations, calm>>
  PROVE  DriftInv'
  <1>1. /\ Refreshing' = Refreshing \ {p}
        /\ Refreshing' \subseteq Refresh
        /\ reads' \in [Refreshing' -> Nat \cup {None}]
    BY EndedEffect DEF DriftInv
  <1>2. DriftTypeOK'
    BY <1>1 DEF DriftInv, DriftTypeOK
  <1>3. CachedPromiseRuns'
    BY <1>1 DEF DriftInv, CachedPromiseRuns
  <1>4. IsFiniteSet(Refreshing') /\ Cardinality(Refreshing') = Cardinality(Refreshing) - 1
    BY <1>1, FS_RemoveElement DEF DriftInv
  <1>5. Debt <= Debt' + 1 /\ Debt' \in Nat /\ Debt \in Nat
    BY <1>2, DebtIs DEF Debt, DriftInv, DriftTypeOK
  <1>6. Cardinality(Refreshing') <= Debt'
    <2>1. Cardinality(Refreshing) \in Nat /\ Cardinality(Refreshing) <= Debt
      BY FS_CardinalityType DEF DriftInv
    <2>2. Cardinality(Refreshing') = Cardinality(Refreshing) - 1
      BY <1>4
    <2> QED BY <1>5, <2>1, <2>2, OneLess
  <1> QED BY <1>2, <1>3, <1>4, <1>6 DEF DriftInv

LEMMA InvalidateStep ==
  ASSUME DriftInv, InvalidateForDdns
  PROVE  DriftInv'
  <1>1. /\ cache' = Undefined
        /\ invalidations' = invalidations + 1
        /\ ddns' = TRUE
        /\ UNCHANGED <<changes, reads, calm>>
        /\ Refreshing' = Refreshing
    BY DEF InvalidateForDdns, Refreshing
  <1>2. DriftTypeOK' /\ CachedPromiseRuns'
    BY <1>1 DEF DriftInv, DriftTypeOK, CachedPromiseRuns, Undefined
  <1>3. Debt' = invalidations + 1
    BY <1>1 DEF Debt, Undefined
  <1>4. Cardinality(Refreshing) <= invalidations + 1
    BY DebtIs, FS_CardinalityType DEF DriftInv, DriftTypeOK
  <1> QED BY <1>1, <1>2, <1>3, <1>4 DEF DriftInv

(* Every step keeps the invariant.                                         *)
LEMMA DriftStepInv == DriftInv /\ [DriftNext]_driftVars => DriftInv'
  <1> SUFFICES ASSUME DriftInv, [DriftNext]_driftVars PROVE DriftInv'
    OBVIOUS
  <1>1. CASE CommitChange \/ EndDdns \/ DriftCalm
    <2>1. changes \in Nat /\ ddns \in BOOLEAN /\ calm \in BOOLEAN
      BY DEF DriftInv, DriftTypeOK
    <2>2. changes' \in {changes, changes + 1}
      BY <1>1 DEF CommitChange, EndDdns, DriftCalm
    <2>3. /\ ddns' \in {ddns, FALSE} /\ calm' \in {calm, TRUE}
          /\ UNCHANGED <<cache, reads, invalidations>>
      BY <1>1 DEF CommitChange, EndDdns, DriftCalm
    <2>4. /\ changes' \in Nat /\ ddns' \in BOOLEAN /\ calm' \in BOOLEAN
          /\ UNCHANGED <<cache, reads, invalidations>>
      <3>1. changes' \in Nat
        BY <2>1, <2>2
      <3>2. ddns' \in BOOLEAN /\ calm' \in BOOLEAN
        BY <2>1, <2>3, Zenon
      <3> QED BY <2>3, <3>1, <3>2
    <2> QED BY <2>4 DEF DriftInv, DriftTypeOK, CachedPromiseRuns, Debt, Refreshing
  <1>2. CASE ExpireValue
    <2>1. /\ cache' \in [value : Nat \cup {None}, fresh : BOOLEAN, promise : Refresh \cup {None}]
          /\ cache'.promise = cache.promise
          /\ UNCHANGED <<changes, reads, ddns, invalidations, calm>>
      BY <1>2 DEF ExpireValue, DriftInv, DriftTypeOK
    <2> QED BY <2>1 DEF DriftInv, DriftTypeOK, CachedPromiseRuns, Debt, Refreshing
  <1>3. CASE ServeCached \/ UNCHANGED driftVars
    BY <1>3 DEF ServeCached, driftVars, DriftInv, DriftTypeOK, CachedPromiseRuns, Debt, Refreshing
  <1>4. CASE loadResourceDriftSummaries
    BY <1>4, LoadStep
  <1>5. ASSUME NEW p \in Refresh, buildResourceDriftSummaries(p)
        PROVE  DriftInv'
    BY <1>5, ReadStep
  <1>6. ASSUME NEW p \in Refresh, SettlePromise(p)
        PROVE  DriftInv'
    <2>1. /\ p \in Refreshing /\ reads' = Ended(p)
          /\ cache' = [value |-> reads[p], fresh |-> TRUE, promise |-> None]
          /\ UNCHANGED <<changes, ddns, invalidations, calm>>
      BY <1>6 DEF SettlePromise
    <2>2. reads[p] \in Nat \cup {None}
      BY <2>1 DEF DriftInv, DriftTypeOK
    <2> QED BY <2>1, <2>2, EndStep
  <1>7. ASSUME NEW p \in Refresh, RejectPromise(p)
        PROVE  DriftInv'
    <2>1. /\ p \in Refreshing /\ reads' = Ended(p)
          /\ UNCHANGED <<changes, ddns, invalidations, calm>>
      BY <1>7 DEF RejectPromise
    <2>2. cache \in [value : Nat \cup {None}, fresh : BOOLEAN, promise : Refresh \cup {None}]
      BY DEF DriftInv, DriftTypeOK
    <2>3. \/ cache' = [cache EXCEPT !.promise = None]
          \/ cache' = Undefined
          \/ cache' = cache /\ cache.promise # p
      BY <1>7 DEF RejectPromise
    <2>4. /\ cache' \in [value : Nat \cup {None}, fresh : BOOLEAN, promise : Refresh \cup {None}]
          /\ \/ cache'.promise = None
             \/ cache'.promise = cache.promise /\ cache.promise # p
      <3>1. CASE cache' = [cache EXCEPT !.promise = None]
        BY <2>2, <3>1
      <3>2. CASE cache' = Undefined
        BY <3>2 DEF Undefined
      <3>3. CASE cache' = cache /\ cache.promise # p
        BY <2>2, <3>3
      <3> QED BY <2>3, <3>1, <3>2, <3>3
    <2> QED BY <2>1, <2>4, EndStep
  <1>8. CASE InvalidateForDdns
    BY <1>8, InvalidateStep
  <1>9. CASE RestartApi
    BY <1>9, WarmUp DEF RestartApi, DriftInv, DriftTypeOK
  <1> QED BY <1>1, <1>2, <1>3, <1>4, <1>5, <1>6, <1>7, <1>8, <1>9 DEF DriftNext

(* However many dashboards load, refreshes fail and zones change, no more  *)
(* than one refresh runs beside those that invalidations cut loose.        *)
THEOREM RefreshesAreBounded == DriftSpec => []RefreshesBounded
  <1>1. DriftInv => RefreshesBounded
    BY DebtIs, FS_CardinalityType DEF DriftInv, RefreshesBounded, DriftTypeOK
  <1> QED BY DriftInitInv, DriftStepInv, <1>1, PTL DEF DriftSpec

(* The cache never holds a promise that has settled.                       *)
THEOREM NoSettledPromise == DriftSpec => []CachedPromiseRuns
  <1>1. DriftInv => CachedPromiseRuns
    BY DEF DriftInv
  <1> QED BY DriftInitInv, DriftStepInv, <1>1, PTL DEF DriftSpec

---------------------------------------------------------------------------
(***************************************************************************)
(* LastGenerationIsKept and RecordedRunsAreKept for any number of runs and *)
(* any two windows.  What makes them inductive: a pass never dooms the     *)
(* newest directory it lists, so each store keeps a complete generation    *)
(* newer than everything that either pass has doomed; and what is doomed   *)
(* is older than the run at work and past the window of its store.         *)
(***************************************************************************)

RunnerAt(steps) == pass["runner"].step \in steps
Beginning == {"list-local", "remove-local", "mkdir"}
Copying == {"dump", "mkdir-replica", "rsync"}
AfterDump == {"mkdir-replica", "rsync", "list-replica", "remove-replica", "record"}
AfterCopy == {"list-replica", "remove-replica", "record"}
IsDoomed(s, g) == \E a \in Actor : pass[a].step = Removing(s) /\ g \in pass[a].doomed

(* The run at work: where its directory is written, and what it is not yet *)
RunInv ==
    /\ RunnerAt(Beginning) => run < Generations
    /\ RunnerAt(Copying \cup AfterDump) => run \in Generation
    /\ \A s \in Store, g \in Generation : g > run => store[s][g] = "none"
    /\ \A g \in recorded : g <= run
    /\ RunnerAt({"dump"}) => store["local"][run] # "complete"
    /\ RunnerAt(Copying) => store["replica"][run] # "complete" /\ run \notin recorded
    /\ RunnerAt(AfterDump) => store["local"][run] = "complete"
    /\ RunnerAt(AfterCopy) => store["replica"][run] = "complete"

(* What is doomed is older than the run at work and past its window.       *)
DoomedInv ==
    \A s \in Store, g \in Generation : IsDoomed(s, g) => g < run /\ age[g] > Days(s)

(* The generation that outlives every pass, once there is something to     *)
(* lose.                                                                   *)
Survives(s, h) == store[s][h] = "complete" /\ \A g \in Generation : IsDoomed(s, g) => g < h

SurvivorInv ==
    \A s \in Store \ misjudged :
        s \in held \/ (\E g \in Generation : IsDoomed(s, g)) =>
            \E h \in Generation : Survives(s, h)

HeldInv == \A s \in Store, g \in Generation : store[s][g] = "complete" => s \in held

BackupInv == /\ BackupTypeOK /\ RunInv /\ DoomedInv /\ SurvivorInv /\ HeldInv
             /\ RecordedRunsAreKept

(* Without induction over the data: the least of N - x is the greatest x.  *)
LEMMA HasGreatest ==
  ASSUME NEW N \in Nat, NEW S \in SUBSET (1..N), S # {}
  PROVE  \E m \in S : \A x \in S : x <= m
<1> DEFINE T == {k \in Nat : \E x \in S : k + x = N}
           R == {ss \in Nat \X Nat : ss[1] < ss[2]}
<1>1. OpToRel(<, Nat) = R
  BY DEF OpToRel
<1>2. IsWellFoundedOn(OpToRel(<, Nat), Nat)
  BY NatLessThanWellFounded
<1>3. \A x \in S : x \in Nat /\ x <= N /\ N - x \in Nat /\ (N - x) + x = N
  OBVIOUS
<1>4. T \subseteq Nat /\ T # {}
  BY <1>3
<1>5. PICK t \in T : \A u \in T : ~(<<u, t>> \in R)
  <2> HIDE DEF T, R
  <2> QED
    BY <1>1, <1>2, <1>4, WFMin, Zenon
<1>6. PICK m \in S : t + m = N
  OBVIOUS
<1>7. ASSUME NEW x \in S PROVE x <= m
  <2>1. N - x \in T
    BY <1>3
  <2>2. ~(N - x < t)
    BY <1>3, <1>5, <2>1
  <2> QED
    BY <1>3, <1>6, <2>2
<1> QED
  BY <1>7

Steps == {"idle", "mkdir", "dump", "mkdir-replica", "rsync", "record",
          "list-local", "list-replica", "remove-local", "remove-replica"}
PassType == [Actor -> [step : Steps, gen : 0..Generations, doomed : SUBSET Generation]]

LEMMA StepNames == /\ Removing("local") = "remove-local" /\ Removing("replica") = "remove-replica"
                   /\ Listing("local") = "list-local" /\ Listing("replica") = "list-replica"
                   /\ {Listing(s) : s \in Store} = {"list-local", "list-replica"}
                   /\ {Removing(s) : s \in Store} = {"remove-local", "remove-replica"}
  BY DEF Removing, Listing, Store

LEMMA PassTyped ==
  /\ BackupTypeOK => pass \in PassType
  /\ BackupTypeOK' => pass' \in PassType
  /\ pass' \in PassType =>
       pass' \in [Actor -> [step : {"idle", "mkdir", "dump", "mkdir-replica", "rsync", "record"}
                                    \cup {Listing(s) : s \in Store}
                                    \cup {Removing(s) : s \in Store},
                            gen : 0..Generations, doomed : SUBSET Generation]]
<1>1. {"idle", "mkdir", "dump", "mkdir-replica", "rsync", "record"}
        \cup {Listing(s) : s \in Store} \cup {Removing(s) : s \in Store} = Steps
  BY StepNames DEF Steps
<1> QED
  BY <1>1 DEF BackupTypeOK, PassType

LEMMA BackupFacts ==
  ASSUME BackupTypeOK
  PROVE  /\ run \in 0..Generations /\ run \in Nat /\ Generations \in Nat
         /\ \A s \in Store : Days(s) \in Nat
         /\ \A g \in Generation : g \in Nat /\ age[g] \in Nat
<1>1. run \in 0..Generations
  BY PassTyped DEF PassType, Actor, run
<1> QED
  BY <1>1, BackupAssumption DEF BackupTypeOK, Days, Store, Generation

LEMMA BackupInitInv == BackupInit => BackupInv
<1> SUFFICES ASSUME BackupInit PROVE BackupInv
  OBVIOUS
<1>1. BackupTypeOK
  BY BackupAssumption DEF BackupInit, BackupTypeOK, Resting, Store, Actor
<1>2. run = 0 /\ \A a \in Actor : pass[a].step = "idle"
  BY DEF BackupInit, Resting, run, Actor
<1>3. \A s \in Store, g \in Generation : ~IsDoomed(s, g) /\ store[s][g] = "none"
  BY <1>2 DEF BackupInit, IsDoomed, Removing, Actor
<1>4. RunInv
  BY <1>2, <1>3 DEF RunInv, RunnerAt, Beginning, Copying, AfterDump, AfterCopy, BackupInit,
                    Actor
<1> QED
  BY <1>1, <1>3, <1>4 DEF BackupInv, DoomedInv, SurvivorInv, HeldInv, RecordedRunsAreKept,
                          BackupInit

(* A step that dooms nothing new and takes no survivor.                    *)
LEMMA NothingNewDoomed ==
  ASSUME BackupInv, run' \in Nat, run' >= run,
         held \subseteq held', misjudged \subseteq misjudged',
         \A g \in Generation : age'[g] \in Nat,
         \A s \in Store, g \in Generation :
             /\ IsDoomed(s, g)' => IsDoomed(s, g) /\ age'[g] >= age[g]
             /\ store[s][g] = "complete" /\ ~IsDoomed(s, g) => store'[s][g] = "complete",
         \A s \in held' \ held : \E h \in Generation : store'[s][h] = "complete"
  PROVE  DoomedInv' /\ SurvivorInv'
<1> USE BackupFacts DEF BackupInv
<1>1. DoomedInv'
  <2> SUFFICES ASSUME NEW s \in Store, NEW g \in Generation, IsDoomed(s, g)'
               PROVE  g < run' /\ age'[g] > Days(s)
    BY DEF DoomedInv, Days
  <2>1. g < run /\ age[g] > Days(s) /\ age'[g] >= age[g]
    BY DEF DoomedInv
  <2>2. g \in Nat /\ run \in Nat /\ age[g] \in Nat /\ Days(s) \in Nat /\ age'[g] \in Nat
    OBVIOUS
  <2> QED
    BY <2>1, <2>2
<1>2. SurvivorInv'
  <2> SUFFICES ASSUME NEW s \in Store \ misjudged',
                      s \in held' \/ \E g \in Generation : IsDoomed(s, g)'
               PROVE  \E h \in Generation : /\ store'[s][h] = "complete"
                                            /\ \A g \in Generation : IsDoomed(s, g)' => g < h
    BY DEF SurvivorInv, Survives
  <2>1. CASE s \in held \/ \E g \in Generation : IsDoomed(s, g)
    <3>1. PICK h \in Generation : Survives(s, h)
      BY <2>1 DEF SurvivorInv
    <3>2. ~IsDoomed(s, h)
      BY <3>1 DEF Survives
    <3> QED
      BY <3>1, <3>2 DEF Survives
  <2>2. CASE s \notin held /\ \A g \in Generation : ~IsDoomed(s, g)
    BY <2>2
  <2> QED
    BY <2>1, <2>2
<1> QED
  BY <1>1, <1>2

(* A step that changes no directory, no age and no record.                 *)
LEMMA OnlyMoves ==
  ASSUME BackupInv, pass' \in PassType, run' = run,
         UNCHANGED <<store, age, recorded, held>>, misjudged \subseteq misjudged',
         misjudged' \subseteq Store,
         \A s \in Store, g \in Generation : IsDoomed(s, g)' => IsDoomed(s, g),
         pass'["runner"].step # "idle" =>
            /\ pass'["runner"].step \in Beginning =>
                  RunnerAt(Beginning) \/ run < Generations
            /\ pass'["runner"].step \in Copying => RunnerAt({pass'["runner"].step})
            /\ pass'["runner"].step \in AfterDump => RunnerAt(AfterDump)
            /\ pass'["runner"].step \in AfterCopy => RunnerAt(AfterCopy)
  PROVE  BackupInv'
<1> USE DEF BackupInv
<1>1. BackupTypeOK'
  BY PassTyped DEF BackupTypeOK
<1>2. RunInv'
  BY DEF RunInv, RunnerAt, Beginning, Copying, AfterDump, AfterCopy
<1>3. DoomedInv' /\ SurvivorInv'
  <2>1. \A g \in Generation : age'[g] \in Nat /\ age'[g] >= age[g]
    BY BackupFacts
  <2> QED
    BY <2>1, BackupFacts, NothingNewDoomed
<1>4. HeldInv' /\ RecordedRunsAreKept'
  BY DEF HeldInv, RecordedRunsAreKept
<1> QED
  BY <1>1, <1>2, <1>3, <1>4

(* A pass that ends, is cut off or starts has nothing doomed.              *)
LEMMA CutOffKeeps ==
  ASSUME BackupInv, NEW a \in Actor, ServiceDies(a) \/ (RunFails /\ a = "runner")
  PROVE  BackupInv'
<1>1. /\ CutShort(a) /\ UNCHANGED <<store, age, recorded, held, misjudged>>
  BY DEF ServiceDies, RunFails
<1>2. pass \in PassType
  BY PassTyped DEF BackupInv
<1>3. /\ pass' \in PassType /\ run' = run
      /\ pass'[a].step = "idle" /\ \A b \in Actor \ {a} : pass'[b] = pass[b]
  BY <1>1, <1>2 DEF CutShort, Resting, PassType, Steps, run
<1>4. \A s \in Store, g \in Generation : IsDoomed(s, g)' => IsDoomed(s, g)
  BY <1>3, StepNames DEF IsDoomed, Store
<1>5. pass'["runner"].step # "idle" => pass'["runner"] = pass["runner"]
  BY <1>3 DEF Actor
<1>6. misjudged' = misjudged /\ misjudged \subseteq Store
  BY <1>1 DEF BackupInv, BackupTypeOK
<1> QED
  BY <1>1, <1>3, <1>4, <1>5, <1>6, OnlyMoves DEF RunnerAt

LEMMA BeginKeeps ==
  ASSUME BackupInv, NEW a \in Actor, Begin(a)
  PROVE  BackupInv'
<1>1. /\ pass' = [pass EXCEPT ![a].step = "list-local"]
      /\ a = "runner" => pass[a].gen < Generations
      /\ UNCHANGED <<store, age, recorded, held, misjudged>>
  BY DEF Begin
<1>2. pass \in PassType
  BY PassTyped DEF BackupInv
<1>3. /\ pass' \in PassType /\ run' = run
      /\ pass'[a].step = "list-local" /\ \A b \in Actor \ {a} : pass'[b] = pass[b]
  BY <1>1, <1>2 DEF PassType, Steps, run
<1>4. \A s \in Store, g \in Generation : IsDoomed(s, g)' => IsDoomed(s, g)
  BY <1>3, StepNames DEF IsDoomed, Store
<1>5. CASE a = "runner"
  <2>1. pass'["runner"].step \in Beginning \ (Copying \cup AfterDump \cup AfterCopy)
    BY <1>3, <1>5 DEF Beginning, Copying, AfterDump, AfterCopy
  <2> QED
    BY <1>1, <1>3, <1>4, <1>5, <2>1, OnlyMoves DEF BackupInv, BackupTypeOK, run
<1>6. CASE a # "runner"
  <2>1. pass'["runner"] = pass["runner"]
    BY <1>3, <1>6 DEF Actor
  <2> QED
    BY <1>1, <1>3, <1>4, <2>1, OnlyMoves DEF BackupInv, BackupTypeOK, RunnerAt
<1> QED
  BY <1>5, <1>6

LEMMA EndRetentionKeeps ==
  ASSUME BackupInv, NEW a \in Actor, NEW s \in Store, EndRetention(a, s)
  PROVE  BackupInv'
<1> DEFINE next == AfterRetention(a, s)
<1>1. /\ pass[a].step = Removing(s) /\ pass[a].doomed = {}
      /\ pass' = [pass EXCEPT ![a].step = next]
      /\ UNCHANGED <<store, age, recorded, held, misjudged>>
  BY DEF EndRetention, Enter
<1>2. pass \in PassType /\ next \in {"mkdir", "record", "list-replica", "idle"}
  BY PassTyped DEF BackupInv, AfterRetention
<1> HIDE DEF next
<1>3. /\ pass' \in PassType /\ run' = run
      /\ pass'[a].step = next /\ \A b \in Actor \ {a} : pass'[b] = pass[b]
  BY <1>1, <1>2 DEF PassType, Steps, run
<1>4. \A t \in Store, g \in Generation : IsDoomed(t, g)' => IsDoomed(t, g)
  BY <1>2, <1>3, StepNames DEF IsDoomed, Store
<1>5. CASE a = "runner"
  <2>1. /\ s = "local" => next = "mkdir" /\ RunnerAt({"remove-local"})
        /\ s = "replica" => next = "record" /\ RunnerAt({"remove-replica"})
    BY <1>1, <1>5, StepNames DEF AfterRetention, next, RunnerAt
  <2>2. pass'["runner"].step = next
    BY <1>3, <1>5
  <2>3. /\ next \in Beginning => RunnerAt(Beginning)
        /\ next \notin Copying
        /\ next \in AfterDump => RunnerAt(AfterDump)
        /\ next \in AfterCopy => RunnerAt(AfterCopy)
    BY <2>1 DEF Store, Beginning, Copying, AfterDump, AfterCopy, RunnerAt
  <2> QED
    BY <1>1, <1>3, <1>4, <2>2, <2>3, OnlyMoves DEF BackupInv, BackupTypeOK
<1>6. CASE a # "runner"
  <2>1. pass'["runner"] = pass["runner"]
    BY <1>3, <1>6 DEF Actor
  <2> QED
    BY <1>1, <1>3, <1>4, <2>1, OnlyMoves DEF BackupInv, BackupTypeOK, RunnerAt
<1> QED
  BY <1>5, <1>6

(* A pass that lists a store: what it dooms is older than the newest       *)
(* directory, which is complete or the store is misjudged.                 *)
LEMMA ListStoreKeeps ==
  ASSUME BackupInv, NEW a \in Actor, NEW s \in Store, ListStore(a, s)
  PROVE  BackupInv'
<1> DEFINE doom == IF Days(s) = 0 THEN {} ELSE selectBackupRetentionCandidates(s)
<1>1. /\ pass[a].step = Listing(s)
      /\ pass' = [pass EXCEPT ![a] = [step |-> Removing(s), gen |-> @.gen, doomed |-> doom]]
      /\ misjudged' = IF NewestIsPartial(s) THEN misjudged \cup {s} ELSE misjudged
      /\ UNCHANGED <<store, age, recorded, held>>
  BY DEF ListStore
<1>2. pass \in PassType /\ doom \in SUBSET Generation /\ Removing(s) \in Steps
  BY PassTyped DEF BackupInv, selectBackupRetentionCandidates, Directories, Removing, Steps
<1>3. \A g \in doom : /\ age[g] > Days(s) /\ g \in Directories(s)
                      /\ \E newer \in Directories(s) : newer > g
  BY DEF selectBackupRetentionCandidates
<1> HIDE DEF doom
<1>4. /\ pass' \in PassType /\ run' = run
      /\ pass'[a].step = Removing(s) /\ pass'[a].doomed = doom
      /\ \A b \in Actor \ {a} : pass'[b] = pass[b]
  BY <1>1, <1>2 DEF PassType, run
<1>5. \A t \in Store, g \in Generation :
        IsDoomed(t, g)' => IsDoomed(t, g) \/ (t = s /\ g \in doom)
  BY <1>4, StepNames DEF IsDoomed, Store
<1>6. BackupTypeOK'
  BY <1>1, <1>4, PassTyped DEF BackupInv, BackupTypeOK
<1>7. /\ Directories(s) \subseteq Generation
      /\ \A d \in Directories(s) : d \in Nat /\ d <= run
  BY BackupFacts DEF Directories, BackupInv, RunInv, Generation
<1>8. RunInv'
  <2>1. CASE a = "runner"
    <3>1. /\ s = "local" => pass["runner"].step = "list-local"
                            /\ pass'["runner"].step = "remove-local"
          /\ s = "replica" => pass["runner"].step = "list-replica"
                              /\ pass'["runner"].step = "remove-replica"
      BY <1>1, <1>4, <2>1, StepNames
    <3> QED
      BY <1>1, <1>4, <3>1 DEF BackupInv, RunInv, RunnerAt, Beginning, Copying, AfterDump,
                              AfterCopy, Store
  <2>2. CASE a # "runner"
    <3>1. pass'["runner"] = pass["runner"]
      BY <1>4, <2>2 DEF Actor
    <3> QED
      BY <1>1, <1>4, <3>1 DEF BackupInv, RunInv, RunnerAt
  <2> QED
    BY <2>1, <2>2
<1>9. DoomedInv'
  <2> SUFFICES ASSUME NEW t \in Store, NEW g \in Generation, IsDoomed(t, g)'
               PROVE  g < run /\ age[g] > Days(t)
    BY <1>1, <1>4 DEF DoomedInv, Days
  <2>1. CASE IsDoomed(t, g)
    BY <2>1 DEF BackupInv, DoomedInv
  <2>2. CASE t = s /\ g \in doom
    BY <1>3, <1>7, <2>2, BackupFacts DEF BackupInv
  <2> QED
    BY <1>5, <2>1, <2>2
<1>10. SurvivorInv'
  <2> SUFFICES ASSUME NEW t \in Store \ misjudged',
                      t \in held \/ \E g \in Generation : IsDoomed(t, g)'
               PROVE  \E h \in Generation :
                         /\ store[t][h] = "complete"
                         /\ \A g \in Generation : IsDoomed(t, g)' => g < h
    BY <1>1 DEF SurvivorInv, Survives
  <2>1. t \notin misjudged /\ ~(t = s /\ NewestIsPartial(s))
    BY <1>1
  <2>2. CASE t # s \/ Directories(s) = {}
    <3>1. \A g \in Generation : IsDoomed(t, g)' => IsDoomed(t, g)
      BY <1>3, <1>5, <2>2
    <3> QED
      BY <2>1, <3>1 DEF BackupInv, SurvivorInv, Survives
  <2>3. CASE t = s /\ Directories(s) # {}
    <3>1. PICK m \in Directories(s) : \A x \in Directories(s) : x <= m
      BY <1>7, <2>3, HasGreatest, BackupAssumption DEF Generation
    <3>2. m \in Generation /\ store[s][m] # "none" /\ store[s][m] # "partial"
      BY <1>7, <2>1, <2>3, <3>1 DEF NewestIsPartial, Directories
    <3>3. store[s][m] = "complete"
      BY <3>2 DEF BackupInv, BackupTypeOK
    <3>4. \A g \in doom : g < m
      BY <1>3, <1>7, <3>1
    <3>5. \A g \in Generation : IsDoomed(s, g) => g < m
      <4> SUFFICES ASSUME NEW g \in Generation, IsDoomed(s, g) PROVE g < m
        OBVIOUS
      <4>1. PICK h \in Generation : Survives(s, h)
        BY <2>1, <2>3 DEF BackupInv, SurvivorInv
      <4>2. g < h /\ h \in Directories(s)
        BY <4>1 DEF Survives, Directories
      <4> QED
        BY <3>1, <3>2, <4>1, <4>2, BackupFacts DEF BackupInv
    <3> QED
      BY <1>5, <2>3, <3>2, <3>3, <3>4, <3>5
  <2> QED
    BY <2>2, <2>3
<1>11. HeldInv' /\ RecordedRunsAreKept'
  BY <1>1 DEF BackupInv, HeldInv, RecordedRunsAreKept
<1> QED
  BY <1>6, <1>8, <1>9, <1>10, <1>11 DEF BackupInv

(* A removal takes what is doomed: neither the survivor, nor a run at      *)
(* work, nor one inside its window.                                        *)
LEMMA RemoveDirectoryKeeps ==
  ASSUME BackupInv, NEW a \in Actor, NEW s \in Store, RemoveDirectory(a, s)
  PROVE  BackupInv'
<1>1. PICK x \in pass[a].doomed :
        /\ store' = [store EXCEPT ![s][x] = "none"]
        /\ pass' = [pass EXCEPT ![a].doomed = @ \ {x}]
  BY DEF RemoveDirectory
<1>2. pass[a].step = Removing(s) /\ UNCHANGED <<age, recorded, held, misjudged>>
  BY DEF RemoveDirectory
<1>3. pass \in PassType
  BY PassTyped DEF BackupInv
<1>4. x \in Generation /\ IsDoomed(s, x)
  BY <1>2, <1>3 DEF PassType, IsDoomed
<1>5. /\ pass' \in PassType /\ run' = run
      /\ \A b \in Actor : /\ pass'[b].step = pass[b].step
                          /\ pass'[b].doomed \subseteq pass[b].doomed
  BY <1>1, <1>3 DEF PassType, run
<1>6. \A t \in Store, g \in Generation : IsDoomed(t, g)' => IsDoomed(t, g)
  BY <1>5 DEF IsDoomed
<1>7. /\ x < run /\ age[x] > Days(s)
  BY <1>4 DEF BackupInv, DoomedInv
<1>8. /\ store' \in [Store -> [Generation -> {"none", "partial", "complete"}]]
      /\ \A t \in Store, g \in Generation :
            store'[t][g] = IF t = s /\ g = x THEN "none" ELSE store[t][g]
  BY <1>1, <1>4 DEF BackupInv, BackupTypeOK
<1>9. BackupTypeOK'
  BY <1>2, <1>5, <1>8, PassTyped DEF BackupInv, BackupTypeOK
<1>10. \A g \in Generation : g = run => g # x
  BY <1>7, BackupFacts DEF BackupInv
<1>11. RunInv'
  <2>1. /\ pass'["runner"].step = pass["runner"].step
        /\ RunnerAt(Copying \cup AfterDump) =>
             run \in Generation /\ \A t \in Store : store'[t][run] = store[t][run]
    BY <1>5, <1>8, <1>10 DEF BackupInv, RunInv, Actor
  <2>2. \A t \in Store, g \in Generation : store[t][g] = "none" => store'[t][g] = "none"
    BY <1>8
  <2> QED
    BY <1>2, <1>5, <2>1, <2>2
    DEF BackupInv, RunInv, RunnerAt, Copying, AfterDump, AfterCopy, Store
<1>12. DoomedInv' /\ SurvivorInv'
  <2>1. run' \in Nat /\ run' >= run /\ \A g \in Generation : age'[g] \in Nat /\ age'[g] >= age[g]
    BY <1>2, <1>5, BackupFacts DEF BackupInv
  <2> QED
    BY <1>2, <1>4, <1>6, <1>8, <2>1, NothingNewDoomed
<1>13. HeldInv'
  BY <1>2, <1>8 DEF BackupInv, HeldInv
<1>14. RecordedRunsAreKept'
  <2> SUFFICES ASSUME NEW g \in recorded
               PROVE  /\ age[g] <= LocalDays => store'["local"][g] = "complete"
                      /\ age[g] <= ReplicaDays => store'["replica"][g] = "complete"
    BY <1>2 DEF RecordedRunsAreKept
  <2>1. g \in Generation
    BY DEF BackupInv, BackupTypeOK
  <2>2. /\ g = x /\ s = "local" => ~(age[g] <= LocalDays)
        /\ g = x /\ s = "replica" => ~(age[g] <= ReplicaDays)
    BY <1>7, <2>1, BackupFacts, BackupAssumption DEF BackupInv, Days
  <2> QED
    BY <1>8, <2>1, <2>2 DEF BackupInv, RecordedRunsAreKept, Store
<1> QED
  BY <1>9, <1>11, <1>12, <1>13, <1>14 DEF BackupInv

(* The new directory is newer than every other, in either store.           *)
LEMMA MakeRunDirectoryKeeps ==
  ASSUME BackupInv, MakeRunDirectory
  PROVE  BackupInv'
<1>1. /\ pass["runner"].step = "mkdir"
      /\ pass' = [pass EXCEPT !["runner"] = [step |-> "dump", gen |-> run + 1, doomed |-> {}]]
      /\ store' = [store EXCEPT !["local"][run + 1] = "partial"]
      /\ UNCHANGED <<age, recorded, held, misjudged>>
  BY DEF MakeRunDirectory, At
<1>2. pass \in PassType
  BY PassTyped DEF BackupInv
<1>3. run < Generations /\ run \in 0..Generations /\ run + 1 \in Generation
  BY <1>1, BackupFacts, BackupAssumption
  DEF BackupInv, RunInv, RunnerAt, Beginning, Generation
<1>4. /\ pass' \in PassType /\ run' = run + 1
      /\ pass'["runner"].step = "dump" /\ pass'["runner"].doomed = {}
      /\ \A b \in Actor \ {"runner"} : pass'[b] = pass[b]
  <2>1. PICK n \in 0..Generations : n = run + 1
    BY <1>3, BackupAssumption DEF Generation
  <2>2. pass' = [pass EXCEPT !["runner"] = [step |-> "dump", gen |-> n, doomed |-> {}]]
    BY <1>1, <2>1
  <2>3. /\ pass' \in PassType /\ pass'["runner"] = [step |-> "dump", gen |-> n, doomed |-> {}]
        /\ \A b \in Actor \ {"runner"} : pass'[b] = pass[b]
    BY <1>2, <2>2 DEF PassType, Steps, Actor
  <2> QED
    BY <2>1, <2>3 DEF run
<1>5. /\ store' \in [Store -> [Generation -> {"none", "partial", "complete"}]]
      /\ \A t \in Store, g \in Generation :
            store'[t][g] = IF t = "local" /\ g = run + 1 THEN "partial" ELSE store[t][g]
  BY <1>1, <1>3 DEF BackupInv, BackupTypeOK, Store
<1>6. BackupTypeOK'
  BY <1>1, <1>4, <1>5, PassTyped DEF BackupInv, BackupTypeOK
<1>7. \A t \in Store : store[t][run + 1] = "none"
  BY <1>3, BackupFacts DEF BackupInv, RunInv
<1>8. \A g \in Generation : g > run + 1 => g > run
  BY <1>3, BackupFacts DEF BackupInv
<1>9. \A g \in recorded : g <= run + 1 /\ g # run + 1
  BY <1>3, BackupFacts DEF BackupInv, RunInv, BackupTypeOK
<1>10. RunInv'
  <2>1. \A t \in Store, g \in Generation : g > run' => store'[t][g] = "none"
    BY <1>3, <1>4, <1>5, <1>8, BackupFacts DEF BackupInv, RunInv
  <2>2. store'["local"][run'] # "complete" /\ store'["replica"][run'] # "complete"
    BY <1>3, <1>4, <1>5, <1>7 DEF Store
  <2> QED
    BY <1>1, <1>3, <1>4, <1>9, <2>1, <2>2
    DEF RunInv, RunnerAt, Beginning, Copying, AfterDump, AfterCopy
<1>11. DoomedInv' /\ SurvivorInv'
  <2>1. \A t \in Store, g \in Generation : IsDoomed(t, g)' => IsDoomed(t, g)
    BY <1>4, StepNames DEF IsDoomed, Store
  <2>2. run' \in Nat /\ run' >= run /\ \A g \in Generation : age'[g] \in Nat /\ age'[g] >= age[g]
    BY <1>1, <1>3, <1>4, BackupFacts DEF BackupInv
  <2>3. \A t \in Store, g \in Generation : store[t][g] = "complete" => store'[t][g] = "complete"
    BY <1>5, <1>7
  <2> QED
    BY <1>1, <2>1, <2>2, <2>3, NothingNewDoomed
<1>12. HeldInv' /\ RecordedRunsAreKept'
  BY <1>1, <1>5, <1>7 DEF BackupInv, BackupTypeOK, HeldInv, RecordedRunsAreKept, Store
<1> QED
  BY <1>6, <1>10, <1>11, <1>12 DEF BackupInv

(* A step of the run at work moves the runner on and writes at most its    *)
(* own directory of one store.                                             *)
LEMMA RunnerWrites ==
  ASSUME BackupInv, NEW step \in Steps \ {"remove-local", "remove-replica"},
         NEW s \in Store, NEW content \in {"none", "partial", "complete"},
         RunnerAt(Copying \cup AfterDump), Enter("runner", step), Put(s, content)
  PROVE  /\ pass' \in PassType /\ run' = run /\ pass'["runner"].step = step
         /\ run \in Generation /\ run \in Nat
         /\ store' \in [Store -> [Generation -> {"none", "partial", "complete"}]]
         /\ \A t \in Store, g \in Generation :
               store'[t][g] = IF t = s /\ g = run THEN content ELSE store[t][g]
         /\ \A t \in Store, g \in Generation : IsDoomed(t, g)' => IsDoomed(t, g) /\ g # run
<1>1. pass \in PassType /\ pass' = [pass EXCEPT !["runner"].step = step]
  BY PassTyped DEF BackupInv, Enter
<1>2. /\ pass' \in PassType /\ run' = run /\ pass'["runner"].step = step
      /\ \A b \in Actor \ {"runner"} : pass'[b] = pass[b]
  BY <1>1 DEF PassType, Actor, run
<1>3. run \in Generation /\ run \in Nat
  BY BackupFacts DEF BackupInv, RunInv
<1>4. \A t \in Store, g \in Generation : IsDoomed(t, g)' => IsDoomed(t, g)
  BY <1>2, StepNames DEF IsDoomed, Store
<1>5. \A t \in Store, g \in Generation : IsDoomed(t, g) => g # run
  BY <1>3, BackupFacts DEF BackupInv, DoomedInv
<1>6. /\ store' \in [Store -> [Generation -> {"none", "partial", "complete"}]]
      /\ \A t \in Store, g \in Generation :
            store'[t][g] = IF t = s /\ g = run THEN content ELSE store[t][g]
  BY <1>3 DEF Put, BackupInv, BackupTypeOK
<1> QED
  BY <1>2, <1>3, <1>4, <1>5, <1>6

LEMMA WriteManifestKeeps ==
  ASSUME BackupInv, WriteManifest
  PROVE  BackupInv'
<1>1. /\ pass["runner"].step = "dump" /\ Enter("runner", "mkdir-replica")
      /\ Put("local", "complete") /\ age' = [age EXCEPT ![run] = 0]
      /\ held' = held \cup {"local"} /\ UNCHANGED <<recorded, misjudged>>
  BY DEF WriteManifest, At
<1>2. RunnerAt(Copying \cup AfterDump) /\ "local" \in Store /\ "replica" \in Store
      /\ "mkdir-replica" \in Steps \ {"remove-local", "remove-replica"}
  BY <1>1 DEF RunnerAt, Copying, Store, Steps
<1>3. /\ pass' \in PassType /\ run' = run /\ pass'["runner"].step = "mkdir-replica"
      /\ run \in Generation /\ run \in Nat
      /\ store' \in [Store -> [Generation -> {"none", "partial", "complete"}]]
      /\ \A t \in Store, g \in Generation :
            store'[t][g] = IF t = "local" /\ g = run THEN "complete" ELSE store[t][g]
      /\ \A t \in Store, g \in Generation : IsDoomed(t, g)' => IsDoomed(t, g) /\ g # run
  BY <1>1, <1>2, RunnerWrites
<1>4. /\ age' \in [Generation -> 0..MaxAge]
      /\ \A g \in Generation : age'[g] = IF g = run THEN 0 ELSE age[g]
      /\ \A g \in Generation : age'[g] \in Nat
  <2>1. 0 \in 0..MaxAge /\ 0..MaxAge \subseteq Nat
    BY BackupAssumption
  <2> QED
    BY <1>1, <1>3, <2>1 DEF BackupInv, BackupTypeOK
<1>5. BackupTypeOK'
  BY <1>1, <1>2, <1>3, <1>4, PassTyped DEF BackupInv, BackupTypeOK
<1>6. run \notin recorded /\ store["replica"][run] # "complete"
  BY <1>1 DEF BackupInv, RunInv, RunnerAt, Copying
<1>7. RunInv'
  <2>1. \A t \in Store, g \in Generation : g > run => store'[t][g] = "none"
    <3>1. \A g \in Generation : g > run => g # run
      BY <1>3, BackupFacts DEF BackupInv
    <3>2. \A t \in Store, g \in Generation : g > run => store'[t][g] = store[t][g]
      BY <1>3, <3>1
    <3> QED
      BY <3>2 DEF BackupInv, RunInv
  <2>2. store'["local"][run] = "complete" /\ store'["replica"][run] # "complete"
    BY <1>2, <1>3, <1>6
  <2> QED
    BY <1>1, <1>3, <1>6, <2>1, <2>2
    DEF BackupInv, RunInv, RunnerAt, Beginning, Copying, AfterDump, AfterCopy
<1>8. DoomedInv' /\ SurvivorInv'
  <2>1. \A t \in Store, g \in Generation :
          /\ IsDoomed(t, g)' => IsDoomed(t, g) /\ age'[g] >= age[g]
          /\ store[t][g] = "complete" => store'[t][g] = "complete"
    BY <1>3, <1>4, BackupFacts DEF BackupInv
  <2>2. run' \in Nat /\ run' >= run
    BY <1>3
  <2>3. \A t \in held' \ held : \E h \in Generation : store'[t][h] = "complete"
    BY <1>1, <1>2, <1>3
  <2>4. held \subseteq held' /\ misjudged \subseteq misjudged'
    BY <1>1
  <2> QED
    BY <1>4, <2>1, <2>2, <2>3, <2>4, NothingNewDoomed
<1>9. HeldInv'
  BY <1>1, <1>3 DEF BackupInv, HeldInv
<1>10. RecordedRunsAreKept'
  <2>1. \A g \in recorded : g \in Generation /\ g # run
    BY <1>6 DEF BackupInv, BackupTypeOK
  <2> QED
    BY <1>1, <1>2, <1>3, <1>4, <2>1 DEF BackupInv, RecordedRunsAreKept
<1> QED
  BY <1>5, <1>7, <1>8, <1>9, <1>10 DEF BackupInv

(* A failed dump takes its own directory back; a new replica directory     *)
(* covers no complete one.                                                 *)
LEMMA UnfinishedKeeps ==
  ASSUME BackupInv, DumpFails \/ MakeReplicaDirectory
  PROVE  BackupInv'
<1>1. PICK s \in Store, content \in {"none", "partial"}, step \in {"idle", "rsync"} :
        /\ \/ s = "local" /\ RunnerAt({"dump"}) /\ step = "idle"
           \/ s = "replica" /\ RunnerAt({"mkdir-replica"}) /\ step = "rsync"
        /\ Enter("runner", step) /\ Put(s, content)
  BY DEF DumpFails, MakeReplicaDirectory, At, RunnerAt, Store
<1>2. UNCHANGED <<age, recorded, held, misjudged>>
  BY DEF DumpFails, MakeReplicaDirectory
<1>3. /\ RunnerAt(Copying \cup AfterDump) /\ step \in Steps \ {"remove-local", "remove-replica"}
      /\ content \in {"none", "partial", "complete"}
  BY <1>1 DEF RunnerAt, Copying, AfterDump, Steps
<1>4. /\ pass' \in PassType /\ run' = run /\ pass'["runner"].step = step
      /\ run \in Generation /\ run \in Nat
      /\ store' \in [Store -> [Generation -> {"none", "partial", "complete"}]]
      /\ \A t \in Store, g \in Generation :
            store'[t][g] = IF t = s /\ g = run THEN content ELSE store[t][g]
      /\ \A t \in Store, g \in Generation : IsDoomed(t, g)' => IsDoomed(t, g) /\ g # run
  BY <1>1, <1>3, RunnerWrites
<1>5. BackupTypeOK'
  BY <1>2, <1>4, PassTyped DEF BackupInv, BackupTypeOK
<1>6. store[s][run] # "complete" /\ run \notin recorded
  BY <1>1 DEF BackupInv, RunInv, RunnerAt, Copying
<1>7. RunInv'
  <2>1. \A t \in Store, g \in Generation : g > run => store'[t][g] = "none"
    <3>1. \A g \in Generation : g > run => g # run
      BY <1>4, BackupFacts DEF BackupInv
    <3>2. \A t \in Store, g \in Generation : g > run => store'[t][g] = store[t][g]
      BY <1>4, <3>1
    <3> QED
      BY <3>2 DEF BackupInv, RunInv
  <2>2. step = "rsync" => /\ store'["local"][run] = "complete"
                          /\ store'["replica"][run] # "complete"
    BY <1>1, <1>4 DEF BackupInv, RunInv, RunnerAt, AfterDump, Store
  <2> QED
    BY <1>2, <1>4, <1>6, <2>1, <2>2
    DEF BackupInv, RunInv, RunnerAt, Beginning, Copying, AfterDump, AfterCopy
<1>8. DoomedInv' /\ SurvivorInv'
  <2>1. \A t \in Store, g \in Generation :
          /\ IsDoomed(t, g)' => IsDoomed(t, g) /\ age'[g] >= age[g]
          /\ store[t][g] = "complete" => store'[t][g] = "complete"
    <3>1. \A g \in Generation : age'[g] >= age[g]
      BY <1>2, BackupFacts DEF BackupInv
    <3>2. \A t \in Store, g \in Generation :
             store[t][g] = "complete" => store'[t][g] = "complete"
      BY <1>4, <1>6
    <3> QED
      BY <1>4, <3>1, <3>2
  <2>2. run' \in Nat /\ run' >= run /\ \A g \in Generation : age'[g] \in Nat
    BY <1>2, <1>4, BackupFacts DEF BackupInv
  <2> QED
    BY <1>2, <2>1, <2>2, NothingNewDoomed
<1>9. HeldInv'
  BY <1>2, <1>4 DEF BackupInv, HeldInv
<1>10. RecordedRunsAreKept'
  <2>1. \A g \in recorded : g \in Generation /\ g # run
    BY <1>6 DEF BackupInv, BackupTypeOK
  <2> QED
    BY <1>2, <1>4, <2>1 DEF BackupInv, RecordedRunsAreKept, Store
<1> QED
  BY <1>5, <1>7, <1>8, <1>9, <1>10 DEF BackupInv

LEMMA ReplicateKeeps ==
  ASSUME BackupInv, Replicate
  PROVE  BackupInv'
<1>1. /\ pass["runner"].step = "rsync" /\ Enter("runner", "list-replica")
      /\ Put("replica", "complete") /\ held' = held \cup {"replica"}
      /\ UNCHANGED <<age, recorded, misjudged>>
  BY DEF Replicate, At
<1>2. RunnerAt(Copying \cup AfterDump) /\ "local" \in Store /\ "replica" \in Store
      /\ "list-replica" \in Steps \ {"remove-local", "remove-replica"}
  BY <1>1 DEF RunnerAt, Copying, Store, Steps
<1>3. /\ pass' \in PassType /\ run' = run /\ pass'["runner"].step = "list-replica"
      /\ run \in Generation /\ run \in Nat
      /\ store' \in [Store -> [Generation -> {"none", "partial", "complete"}]]
      /\ \A t \in Store, g \in Generation :
            store'[t][g] = IF t = "replica" /\ g = run THEN "complete" ELSE store[t][g]
      /\ \A t \in Store, g \in Generation : IsDoomed(t, g)' => IsDoomed(t, g) /\ g # run
  BY <1>1, <1>2, RunnerWrites
<1>4. BackupTypeOK'
  BY <1>1, <1>2, <1>3, PassTyped DEF BackupInv, BackupTypeOK
<1>5. store["local"][run] = "complete"
  BY <1>1 DEF BackupInv, RunInv, RunnerAt, AfterDump
<1>6. RunInv'
  <2>1. \A t \in Store, g \in Generation : g > run => store'[t][g] = "none"
    <3>1. \A g \in Generation : g > run => g # run
      BY <1>3, BackupFacts DEF BackupInv
    <3>2. \A t \in Store, g \in Generation : g > run => store'[t][g] = store[t][g]
      BY <1>3, <3>1
    <3> QED
      BY <3>2 DEF BackupInv, RunInv
  <2>2. store'["local"][run] = "complete" /\ store'["replica"][run] = "complete"
    BY <1>2, <1>3, <1>5
  <2> QED
    BY <1>1, <1>3, <2>1, <2>2
    DEF BackupInv, RunInv, RunnerAt, Beginning, Copying, AfterDump, AfterCopy
<1>7. DoomedInv' /\ SurvivorInv'
  <2>1. \A t \in Store, g \in Generation :
          /\ IsDoomed(t, g)' => IsDoomed(t, g) /\ age'[g] >= age[g]
          /\ store[t][g] = "complete" => store'[t][g] = "complete"
    BY <1>1, <1>3, BackupFacts DEF BackupInv
  <2>2. run' \in Nat /\ run' >= run /\ \A g \in Generation : age'[g] \in Nat
    <3>1. run' \in Nat /\ run' >= run
      BY <1>3
    <3>2. age' = age /\ \A g \in Generation : age[g] \in Nat
      BY <1>1, BackupFacts DEF BackupInv
    <3> QED
      BY <3>1, <3>2
  <2>3. \A t \in held' \ held : \E h \in Generation : store'[t][h] = "complete"
    BY <1>1, <1>2, <1>3
  <2>4. held \subseteq held' /\ misjudged \subseteq misjudged'
    BY <1>1
  <2> QED
    BY <2>1, <2>2, <2>3, <2>4, NothingNewDoomed
<1>8. HeldInv'
  BY <1>1, <1>3 DEF BackupInv, HeldInv
<1>9. RecordedRunsAreKept'
  <2>1. \A g \in recorded : g \in Generation
    BY DEF BackupInv, BackupTypeOK
  <2> QED
    BY <1>1, <1>2, <1>3, <2>1 DEF BackupInv, RecordedRunsAreKept
<1> QED
  BY <1>4, <1>6, <1>7, <1>8, <1>9 DEF BackupInv

(* The run that is recorded has both its directories complete.             *)
LEMMA RecordRunKeeps ==
  ASSUME BackupInv, RecordRun
  PROVE  BackupInv'
<1>1. /\ pass["runner"].step = "record" /\ pass' = [pass EXCEPT !["runner"].step = "idle"]
      /\ recorded' = recorded \cup {run} /\ UNCHANGED <<store, age, held, misjudged>>
  BY DEF RecordRun, At, Enter
<1>2. pass \in PassType
  BY PassTyped DEF BackupInv
<1>3. /\ pass' \in PassType /\ run' = run /\ pass'["runner"].step = "idle"
      /\ \A b \in Actor \ {"runner"} : pass'[b] = pass[b]
  BY <1>1, <1>2 DEF PassType, Steps, Actor, run
<1>4. /\ run \in Generation /\ run \in Nat
      /\ store["local"][run] = "complete" /\ store["replica"][run] = "complete"
  BY <1>1, BackupFacts DEF BackupInv, RunInv, RunnerAt, AfterDump, AfterCopy
<1>5. BackupTypeOK'
  BY <1>1, <1>3, <1>4, PassTyped DEF BackupInv, BackupTypeOK
<1>6. RunInv'
  BY <1>1, <1>3, <1>4
  DEF BackupInv, RunInv, RunnerAt, Beginning, Copying, AfterDump, AfterCopy
<1>7. DoomedInv' /\ SurvivorInv'
  <2>1. \A t \in Store, g \in Generation : IsDoomed(t, g)' => IsDoomed(t, g)
    BY <1>3, StepNames DEF IsDoomed, Store
  <2>2. run' \in Nat /\ run' >= run /\ \A g \in Generation : age'[g] \in Nat /\ age'[g] >= age[g]
    BY <1>1, <1>3, <1>4, BackupFacts DEF BackupInv
  <2> QED
    BY <1>1, <2>1, <2>2, NothingNewDoomed
<1>8. HeldInv' /\ RecordedRunsAreKept'
  BY <1>1, <1>4 DEF BackupInv, HeldInv, RecordedRunsAreKept
<1> QED
  BY <1>5, <1>6, <1>7, <1>8 DEF BackupInv

LEMMA DayPassesKeeps ==
  ASSUME BackupInv, DayPasses
  PROVE  BackupInv'
<1>1. UNCHANGED <<store, pass, recorded, held, misjudged>>
  BY DEF DayPasses
<1>2. /\ age' \in [Generation -> 0..MaxAge]
      /\ \A g \in Generation : age'[g] \in Nat /\ age'[g] >= age[g]
  <2>1. \A g \in Generation : age[g] \in 0..MaxAge /\ (age[g] < MaxAge => age[g] + 1 \in 0..MaxAge)
    BY BackupAssumption DEF BackupInv, BackupTypeOK
  <2>2. \A g \in Generation : age'[g] \in 0..MaxAge /\ age'[g] >= age[g]
    BY <2>1, BackupAssumption DEF DayPasses
  <2> QED
    BY <2>1, <2>2, BackupAssumption DEF DayPasses
<1>3. BackupTypeOK' /\ RunInv' /\ HeldInv'
  BY <1>1, <1>2, PassTyped
  DEF BackupInv, BackupTypeOK, RunInv, RunnerAt, run, HeldInv
<1>4. DoomedInv' /\ SurvivorInv'
  <2>1. run' = run /\ \A t \in Store, g \in Generation : IsDoomed(t, g)' <=> IsDoomed(t, g)
    BY <1>1 DEF run, IsDoomed
  <2>2. run' \in Nat /\ run' >= run
    BY <2>1, BackupFacts DEF BackupInv
  <2> QED
    BY <1>1, <1>2, <2>1, <2>2, NothingNewDoomed
<1>5. RecordedRunsAreKept'
  <2>1. \A g \in recorded : /\ age'[g] <= LocalDays => age[g] <= LocalDays
                            /\ age'[g] <= ReplicaDays => age[g] <= ReplicaDays
    BY <1>2, BackupFacts, BackupAssumption DEF BackupInv, BackupTypeOK
  <2> QED
    BY <1>1, <2>1 DEF BackupInv, RecordedRunsAreKept
<1> QED
  BY <1>3, <1>4, <1>5 DEF BackupInv

LEMMA BackupStepInv == BackupInv /\ [BackupNext]_backupVars => BackupInv'
<1> SUFFICES ASSUME BackupInv, [BackupNext]_backupVars PROVE BackupInv'
  OBVIOUS
<1>1. CASE MakeRunDirectory \/ WriteManifest \/ DumpFails \/ MakeReplicaDirectory
  BY <1>1, MakeRunDirectoryKeeps, WriteManifestKeeps, UnfinishedKeeps
<1>2. CASE Replicate \/ RecordRun \/ DayPasses
  BY <1>2, ReplicateKeeps, RecordRunKeeps, DayPassesKeeps
<1>3. CASE RunFails \/ \E a \in Actor : Begin(a) \/ ServiceDies(a)
  BY <1>3, CutOffKeeps, BeginKeeps DEF Actor
<1>4. CASE \E a \in Actor, s \in Store :
             ListStore(a, s) \/ RemoveDirectory(a, s) \/ EndRetention(a, s)
  BY <1>4, ListStoreKeeps, RemoveDirectoryKeeps, EndRetentionKeeps
<1>5. CASE UNCHANGED backupVars
  <2>1. /\ UNCHANGED <<store, age, recorded, held>> /\ misjudged \subseteq misjudged'
        /\ misjudged' \subseteq Store /\ pass' = pass
    BY <1>5 DEF backupVars, BackupInv, BackupTypeOK
  <2>2. pass' \in PassType /\ run' = run
    BY <2>1, PassTyped DEF BackupInv, run
  <2>3. \A s \in Store, g \in Generation : IsDoomed(s, g)' => IsDoomed(s, g)
    BY <2>1 DEF IsDoomed
  <2> QED
    BY <2>1, <2>2, <2>3, OnlyMoves DEF RunnerAt
<1> QED
  BY <1>1, <1>2, <1>3, <1>4, <1>5 DEF BackupNext

(* selectBackupRetentionCandidates in both its forms: whatever fails and   *)
(* however two passes interleave, the last complete generation of a store  *)
(* stays, unless a pass judged by a partial directory.                     *)
THEOREM LastGenerationStays == BackupSpec => []LastGenerationIsKept
<1>1. BackupInv => LastGenerationIsKept
  <2> SUFFICES ASSUME BackupInv, NEW s \in held \ misjudged
               PROVE  \E g \in Generation : store[s][g] = "complete"
    BY DEF LastGenerationIsKept
  <2> QED
    BY DEF BackupInv, BackupTypeOK, SurvivorInv, Survives
<1> QED
  BY BackupInitInv, BackupStepInv, <1>1, PTL DEF BackupSpec

(* executePolicy and recordBackupRun: a run recorded as succeeded keeps    *)
(* both its directories for the window of each store.                      *)
THEOREM RecordedRunsStay == BackupSpec => []RecordedRunsAreKept
<1>1. BackupInv => RecordedRunsAreKept
  BY DEF BackupInv
<1> QED
  BY BackupInitInv, BackupStepInv, <1>1, PTL DEF BackupSpec

---------------------------------------------------------------------------
(***************************************************************************)
(* ActiveReleaseIsKept for any number of releases: a pass removes what it  *)
(* listed, never what `current' pointed to when it looked, so the link     *)
(* points to what goes only if it was moved there since; an operation      *)
(* removes only the release it builds.                                     *)
(***************************************************************************)

(* Taking a release out of the list takes exactly that one out.            *)
LEMMA WithoutOne ==
  ASSUME present \in Seq(Release), IsInjective(present), NEW r
  PROVE  /\ Without(r) \in Seq(Release) /\ IsInjective(Without(r))
         /\ ToSet(Without(r)) = ToSet(present) \ {r}
<1>1. CASE r \notin ToSet(present)
  BY <1>1 DEF Without
<1>2. CASE r \in ToSet(present)
  <2> DEFINE n == Len(present)
             i == CHOOSE j \in DOMAIN present : present[j] = r
             w == Without(r)
  <2>1. /\ n \in Nat /\ DOMAIN present = 1..n /\ \A j \in 1..n : present[j] \in Release
        /\ i \in 1..n /\ present[i] = r
    BY <1>2 DEF ToSet
  <2>2. \A j, k \in 1..n : present[j] = present[k] => j = k
    BY <2>1 DEF IsInjective
  <2>3. w = SubSeq(present, 1, i - 1) \o SubSeq(present, i + 1, n)
    BY <1>2 DEF Without, RemoveAt
  <2> HIDE DEF i, n, w
  <2>4. /\ w \in Seq(Release) /\ Len(w) = n - 1
        /\ \A j \in 1..(n - 1) : w[j] = IF j < i THEN present[j] ELSE present[j + 1]
    <3>1. /\ SubSeq(present, 1, i - 1) \in Seq(Release) /\ Len(SubSeq(present, 1, i - 1)) = i - 1
          /\ \A j \in 1..(i - 1) : SubSeq(present, 1, i - 1)[j] = present[j]
      BY <2>1 DEF n
    <3>2. /\ SubSeq(present, i + 1, n) \in Seq(Release) /\ Len(SubSeq(present, i + 1, n)) = n - i
          /\ \A j \in 1..(n - i) : SubSeq(present, i + 1, n)[j] = present[i + j]
      <4>1. /\ i + 1 \in Int /\ n \in Int /\ \A j \in (i + 1)..n : present[j] \in Release
            /\ i + 1 <= n \/ n - (i + 1) + 1 = 0
        BY <2>1
      <4>2. /\ SubSeq(present, i + 1, n) \in Seq(Release)
            /\ Len(SubSeq(present, i + 1, n)) = n - (i + 1) + 1
            /\ \A j \in 1..(n - (i + 1) + 1) : SubSeq(present, i + 1, n)[j] = present[(i + 1) + j - 1]
        BY <4>1, SubSeqProperties
      <4> QED
        BY <4>2, <2>1
    <3> DEFINE a == SubSeq(present, 1, i - 1)
               b == SubSeq(present, i + 1, n)
    <3> HIDE DEF a, b
    <3>3. /\ a \o b \in Seq(Release) /\ Len(a \o b) = n - 1
          /\ \A j \in 1..(n - 1) : (a \o b)[j] = IF j < i THEN a[j] ELSE b[j - (i - 1)]
      BY <2>1, <3>1, <3>2 DEF a, b
    <3>4. \A j \in 1..(n - 1) : (a \o b)[j] = IF j < i THEN present[j] ELSE present[j + 1]
      BY <2>1, <3>1, <3>2, <3>3 DEF a, b
    <3> QED
      BY <2>3, <3>3, <3>4 DEF a, b
  <2>5. DOMAIN w = 1..(n - 1)
    BY <2>4
  <2>6. IsInjective(w)
    BY <2>1, <2>2, <2>4, <2>5 DEF IsInjective
  <2>7. ToSet(w) \subseteq ToSet(present) \ {r}
    <3>1. ASSUME NEW j \in 1..(n - 1) PROVE w[j] \in ToSet(present) \ {r}
      <4>1. j \in 1..n /\ j + 1 \in 1..n
        BY <2>1
      <4>2. CASE j < i
        BY <4>1, <4>2, <2>1, <2>2, <2>4 DEF ToSet
      <4>3. CASE ~(j < i)
        BY <4>1, <4>3, <2>1, <2>2, <2>4 DEF ToSet
      <4> QED
        BY <4>2, <4>3
    <3> QED
      BY <3>1, <2>5 DEF ToSet
  <2>8. ASSUME NEW x \in ToSet(present) \ {r} PROVE x \in ToSet(w)
    <3>1. PICK j \in 1..n : present[j] = x /\ j # i
      BY <2>1 DEF ToSet
    <3>2. CASE j < i
      BY <2>1, <2>4, <2>5, <3>1, <3>2 DEF ToSet
    <3>3. CASE j > i
      <4>1. j - 1 \in 1..(n - 1) /\ w[j - 1] = x
        BY <2>1, <2>4, <3>1, <3>3
      <4> QED
        BY <2>5, <4>1 DEF ToSet
    <3> QED
      BY <2>1, <3>1, <3>2, <3>3
  <2> QED
    BY <2>4, <2>6, <2>7, <2>8 DEF w
<1> QED
  BY <1>1, <1>2

(* A release put first or last.                                            *)
LEMMA PutOnce ==
  ASSUME NEW s \in Seq(Release), IsInjective(s), NEW r \in Release, r \notin ToSet(s)
  PROVE  /\ <<r>> \o s \in Seq(Release) /\ IsInjective(<<r>> \o s)
         /\ ToSet(<<r>> \o s) = ToSet(s) \cup {r}
         /\ s \o <<r>> \in Seq(Release) /\ IsInjective(s \o <<r>>)
         /\ ToSet(s \o <<r>>) = ToSet(s) \cup {r}
<1> DEFINE n == Len(s)
           f == <<r>> \o s
           l == s \o <<r>>
<1>1. /\ n \in Nat /\ DOMAIN s = 1..n /\ \A j \in 1..n : s[j] \in Release /\ s[j] # r
      /\ \A j, k \in 1..n : s[j] = s[k] => j = k
  BY DEF ToSet, IsInjective
<1>2. /\ f \in Seq(Release) /\ DOMAIN f = 1..(n + 1) /\ f[1] = r
      /\ \A j \in 2..(n + 1) : f[j] = s[j - 1]
  BY <1>1
<1>3. /\ l \in Seq(Release) /\ DOMAIN l = 1..(n + 1) /\ l[n + 1] = r
      /\ \A j \in 1..n : l[j] = s[j]
  BY <1>1
<1> HIDE DEF n, f, l
<1>4. IsInjective(f) /\ IsInjective(l)
  BY <1>1, <1>2, <1>3 DEF IsInjective
<1>5. ASSUME NEW x \in ToSet(s) \cup {r} PROVE x \in ToSet(f) /\ x \in ToSet(l)
  <2>1. CASE x = r
    BY <2>1, <1>1, <1>2, <1>3 DEF ToSet
  <2>2. CASE x # r
    <3>1. PICK j \in 1..n : s[j] = x
      BY <2>2, <1>1 DEF ToSet
    <3>2. j + 1 \in 1..(n + 1) /\ f[j + 1] = x /\ j \in 1..(n + 1) /\ l[j] = x
      BY <1>1, <1>2, <1>3, <3>1
    <3> QED
      BY <1>2, <1>3, <3>2 DEF ToSet
  <2> QED
    BY <2>1, <2>2
<1>6. ToSet(f) \subseteq ToSet(s) \cup {r} /\ ToSet(l) \subseteq ToSet(s) \cup {r}
  <2>1. ASSUME NEW j \in 1..(n + 1) PROVE f[j] \in ToSet(s) \cup {r} /\ l[j] \in ToSet(s) \cup {r}
    <3>1. j # 1 => j - 1 \in 1..n /\ f[j] = s[j - 1]
      BY <1>1, <1>2
    <3>2. j # n + 1 => j \in 1..n /\ l[j] = s[j]
      BY <1>1, <1>3
    <3>3. \A k \in 1..n : s[k] \in ToSet(s)
      BY <1>1 DEF ToSet
    <3> QED
      BY <1>2, <1>3, <3>1, <3>2, <3>3
  <2> QED
    BY <2>1, <1>2, <1>3 DEF ToSet
<1> QED
  BY <1>2, <1>3, <1>4, <1>5, <1>6 DEF f, l

(* A pass keeps a candidate only as long as it is not the active release,  *)
(* unless the link was moved to it meanwhile.                              *)
SweepInv == sweep.step # "idle" /\ current \in sweep.candidates => current \in switched

(* An operation that copies, links or builds has a release.                *)
OperationInv == job.step # "idle" => job.release \in Release

ReleaseInv == ReleaseTypeOK /\ SweepInv /\ OperationInv

LEMMA ReleaseInitInv == ReleaseInit => ReleaseInv
<1> SUFFICES ASSUME ReleaseInit PROVE ReleaseInv
  OBVIOUS
<1>1. present \in Seq(Release) /\ IsInjective(present)
  BY DEF ReleaseInit, IsInjective
<1> QED
  BY <1>1, ReleaseAssumption
  DEF ReleaseInit, ReleaseInv, ReleaseTypeOK, SweepInv, OperationInv, NoJob, NoPass

LEMMA ReleaseStep ==
  ASSUME ReleaseInv, [ReleaseNext]_releaseVars
  PROVE  /\ ReleaseInv'
         /\ current \in ToSet(present) /\ current \notin ToSet(present') =>
               \/ job.step = "build" /\ job.release = current
               \/ sweep.step = "remove" /\ current \in switched
<1> DEFINE Goal == /\ ReleaseInv'
                   /\ current \in ToSet(present) /\ current \notin ToSet(present') =>
                         \/ job.step = "build" /\ job.release = current
                         \/ sweep.step = "remove" /\ current \in switched
<1> USE ReleaseAssumption
<1>w. \A r : /\ Without(r) \in Seq(Release) /\ IsInjective(Without(r))
             /\ ToSet(Without(r)) = ToSet(present) \ {r}
  BY WithoutOne DEF ReleaseInv, ReleaseTypeOK
<1>p. /\ present \in Seq(Release) /\ IsInjective(present) /\ ToSet(present) \subseteq Release
  BY DEF ReleaseInv, ReleaseTypeOK, ToSet
<1>o. ASSUME NEW r \in Release
      PROVE  /\ <<r>> \o Without(r) \in Seq(Release) /\ IsInjective(<<r>> \o Without(r))
             /\ ToSet(<<r>> \o Without(r)) = ToSet(present) \cup {r}
             /\ Without(r) \o <<r>> \in Seq(Release) /\ IsInjective(Without(r) \o <<r>>)
             /\ ToSet(Without(r) \o <<r>>) = ToSet(present) \cup {r}
  BY <1>w, PutOnce
<1>1. CASE RemoveOld
  BY <1>1, <1>w DEF RemoveOld, ReleaseInv, ReleaseTypeOK, SweepInv, OperationInv
<1>2. CASE MoveBuild
  <2>1. job.release \in Release
    BY <1>2 DEF MoveBuild, ReleaseInv, OperationInv
  <2> QED
    BY <1>2, <1>o, <2>1 DEF MoveBuild, ReleaseInv, ReleaseTypeOK, SweepInv, OperationInv
<1>3. CASE CopyRelease
  <2>1. job.release \in Release
    BY <1>3 DEF CopyRelease, ReleaseInv, OperationInv
  <2> QED
    BY <1>3, <1>o, <2>1 DEF CopyRelease, ReleaseInv, ReleaseTypeOK, SweepInv, OperationInv
<1>4. CASE LinkCurrent
  BY <1>4 DEF LinkCurrent, Link, NoJob, ReleaseInv, ReleaseTypeOK, SweepInv, OperationInv
<1>5. CASE OperationFails
  BY <1>5 DEF OperationFails, NoJob, ReleaseInv, ReleaseTypeOK, SweepInv, OperationInv
<1>6. CASE TakeInventory
  <2>1. selectReleaseCandidates \subseteq Release \ {current}
    BY <1>p DEF selectReleaseCandidates, resolveActiveRelease
  <2>2. sweep' \in [step : {"idle", "check", "remove"}, candidates : SUBSET Release,
                    active : Release \cup {NoRelease}]
        /\ sweep'.candidates = selectReleaseCandidates
    BY <1>6, <2>1 DEF TakeInventory, resolveActiveRelease, ReleaseInv, ReleaseTypeOK
  <2> QED
    BY <1>6, <2>1, <2>2 DEF TakeInventory, ReleaseInv, ReleaseTypeOK, SweepInv, OperationInv
<1>7. CASE CheckBlockers
  BY <1>7 DEF CheckBlockers, NoPass, ReleaseInv, ReleaseTypeOK, SweepInv, OperationInv
<1>8. CASE removeReleaseCandidate
  <2>1. PICK r \in sweep.candidates :
          /\ present' = IF r = sweep.active THEN present ELSE Without(r)
          /\ sweep' = [sweep EXCEPT !.candidates = @ \ {r}]
    BY <1>8 DEF removeReleaseCandidate
  <2>2. present' \in Seq(Release) /\ IsInjective(present')
        /\ ToSet(present) \ {r} \subseteq ToSet(present')
    BY <1>p, <1>w, <2>1
  <2>3. sweep' \in [step : {"idle", "check", "remove"}, candidates : SUBSET Release,
                    active : Release \cup {NoRelease}]
        /\ sweep'.step = "remove" /\ sweep'.candidates \subseteq sweep.candidates
    BY <1>8, <2>1 DEF removeReleaseCandidate, ReleaseInv, ReleaseTypeOK
  <2> QED
    BY <1>8, <2>1, <2>2, <2>3
    DEF removeReleaseCandidate, ReleaseInv, ReleaseTypeOK, SweepInv, OperationInv
<1>9. CASE EndPass
  BY <1>9 DEF EndPass, NoPass, ReleaseInv, ReleaseTypeOK, SweepInv, OperationInv
<1>10. ASSUME NEW r \in Release, ReleaseAges(r) PROVE Goal
  BY <1>10 DEF ReleaseAges, ReleaseInv, ReleaseTypeOK, SweepInv, OperationInv
<1>11. ASSUME NEW r \in Release, NEW what \in {"install", "rollback", "deploy"},
              StartOperation(what, r)
       PROVE  Goal
  BY <1>11 DEF StartOperation, NoJob, ReleaseInv, ReleaseTypeOK, SweepInv, OperationInv
<1>12. CASE UNCHANGED releaseVars
  BY <1>12 DEF releaseVars, ReleaseInv, ReleaseTypeOK, SweepInv, OperationInv
<1> QED
  BY <1>1, <1>2, <1>3, <1>4, <1>5, <1>6, <1>7, <1>8, <1>9, <1>10, <1>11, <1>12 DEF ReleaseNext

(* Every variable of the releases has its type.                            *)
THEOREM ReleasesTyped == ReleaseSpec => []ReleaseTypeOK
<1>1. ReleaseInv => ReleaseTypeOK
  BY DEF ReleaseInv
<1>2. ReleaseInv /\ [ReleaseNext]_releaseVars => ReleaseInv'
  BY ReleaseStep
<1> QED
  BY <1>1, <1>2, ReleaseInitInv, PTL DEF ReleaseSpec

(* pruneInactiveReleases beside installations, rollbacks and deployments:  *)
(* the release `current' points to disappears only while it is installed   *)
(* again, or if the link was moved to it after the pass looked.            *)
THEOREM ActiveReleaseStays == ReleaseSpec => ActiveReleaseIsKept
<1>1. ReleaseInv /\ [ReleaseNext]_releaseVars => ReleaseInv'
  BY ReleaseStep
<1>2. ReleaseInv /\ [ReleaseNext]_releaseVars =>
        [(current \in ToSet(present) /\ current \notin ToSet(present')) =>
          \/ job.step = "build" /\ job.release = current
          \/ sweep.step = "remove" /\ current \in switched]_releaseVars
  BY ReleaseStep
<1> QED
  BY <1>1, <1>2, ReleaseInitInv, PTL DEF ReleaseSpec, ActiveReleaseIsKept

---------------------------------------------------------------------------
(***************************************************************************)
(* MailReachesPrimary for any zone and any reports: validation binds the   *)
(* mail domain to the records around it, and a plan adds its records only  *)
(* beside what validation has let in.                                      *)
(***************************************************************************)

(* The mail domain and the records fit each other; a key that was reported *)
(* is the key of the node that reported it.                                *)
PlanInv == /\ mailDomain # Nobody => /\ mailDomain.primary \in Machine
                                     /\ validateMailDomain(mailDomain, zoneRecords)
           /\ \A r \in zoneRecords : r = Rr(r.name, r.type, r.value)
           /\ reported \in [Machine -> {Nobody} \cup {KeyOf[m] : m \in Machine}]
           /\ \A m \in Machine : reported[m] \in {Nobody, KeyOf[m]}

LEMMA PlanInitInv == PlanInit => PlanInv
BY DEF PlanInit, PlanInv

LEMMA PlanStepInv == PlanInv /\ [PlanNext]_planVars => PlanInv'
<1> SUFFICES ASSUME PlanInv, [PlanNext]_planVars PROVE PlanInv'
  OBVIOUS
<1> USE ZonePlansAssumption DEF PlanInv
<1>1. CASE SaveZone
  <2>1. PICK line \in ExplicitRecord :
          /\ zoneRecords' \in {zoneRecords \cup {line}, zoneRecords \ {line}}
          /\ validateMailDomain(mailDomain, zoneRecords')
          /\ UNCHANGED <<mailDomain, reported>>
    BY <1>1 DEF SaveZone
  <2>2. \A r \in zoneRecords' : r \in zoneRecords \/ r = line
    BY <2>1
  <2> QED
    BY <2>1, <2>2 DEF validateMailDomain
<1>2. CASE SaveSite
  BY <1>2 DEF SaveSite, validateMailDomain
<1>3. CASE UpsertMailDomain
  BY <1>3 DEF UpsertMailDomain, validateMailDomain
<1>4. CASE DeleteMailDomain
  BY <1>4 DEF DeleteMailDomain
<1>5. CASE SetAddress
  <2>1. PICK d \in DynamicRecord :
          zoneRecords' = {r \in zoneRecords : ~(r.name = d.name /\ r.type = d.type)} \cup {d}
    BY <1>5 DEF SetAddress
  <2>2. \A r \in zoneRecords' : r \in zoneRecords \/ (r = d /\ r.type # "MX")
    BY <2>1
  <2>3. UNCHANGED <<mailDomain, reported>>
    BY <1>5 DEF SetAddress
  <2>4. \A r \in zoneRecords' : r = Rr(r.name, r.type, r.value)
    BY <2>2
  <2>5. mailDomain # Nobody => validateMailDomain(mailDomain, zoneRecords')
    BY <2>2 DEF validateMailDomain
  <2> QED
    BY <2>3, <2>4, <2>5 DEF validateMailDomain
<1>6. CASE ReportMail
  BY <1>6 DEF ReportMail, validateMailDomain
<1>7. CASE UNCHANGED planVars
  BY <1>7 DEF planVars, validateMailDomain
<1> QED
  BY <1>1, <1>2, <1>3, <1>4, <1>5, <1>6, <1>7 DEF PlanNext

(* What is published at a name and type: what an operator entered, and a   *)
(* derived record whose slot nobody took.                                  *)
LEMMA PublishedAt ==
  ASSUME NEW name, NEW type
  PROVE  ValuesAt(name, type) =
           {r.value : r \in {s \in zoneRecords : s.name = name /\ s.type = type}}
             \cup {d.value : d \in {s \in buildZoneRecords \cup buildMailZoneRecords :
                                      /\ s.name = name /\ s.type = type
                                      /\ \A e \in zoneRecords : ~SameSlot(s, e)}}
BY DEF ValuesAt, PublishedRecords, mergeDerivedDnsRecords

LEMMA MailPlansAgree == PlanInv => MailReachesPrimary
<1> SUFFICES ASSUME PlanInv, Planned, mailDomain # Nobody
             PROVE  LET primaries == {p.node : p \in {q \in buildMailSyncPlans : q.role = "primary"}}
                    IN  /\ ValuesAt("@", "MX") \subseteq {mailDomain.host, NullHost}
                        /\ ValuesAt("@", "MX") # {}
                        /\ \A name \in MailNames : ~Taken(name) => ValuesAt(name, "A") = primaries
                        /\ Cardinality(primaries) = 1
                        /\ \A m \in primaries :
                             /\ \A s \in {"webmail", "mta-sts"} :
                                   [node |-> m, serverName |-> s] \in buildMailProxyPlans
                             /\ \A key \in ValuesAt("dkim._domainkey", "DKIM") :
                                   key = KeyOf[m] \/ Rr("dkim._domainkey", "DKIM", key) \in zoneRecords
  BY DEF MailReachesPrimary
<1> DEFINE primary == mailDomain.primary
           primaries == {p.node : p \in {q \in buildMailSyncPlans : q.role = "primary"}}
           derived == buildZoneRecords \cup buildMailZoneRecords
<1> USE ZonePlansAssumption
<1>0. primary \in MailTargets /\ primary \in Machine
  BY DEF PlanInv, MailTargets
<1>1. primaries = {primary}
  <2> DEFINE plan(m) == [node |-> m, role |-> IF m = primary THEN "primary" ELSE "standby"]
  <2>1. \A m : plan(m).node = m /\ (plan(m).role = "primary" <=> m = primary)
    OBVIOUS
  <2>2. buildMailSyncPlans = {plan(m) : m \in MailTargets}
    BY DEF buildMailSyncPlans
  <2> HIDE DEF plan, primary
  <2> QED
    BY <1>0, <2>1, <2>2
<1>2. /\ \A d \in buildZoneRecords : d.type = "A" /\ d.name \in claims
      /\ \A d \in buildMailZoneRecords :
            \/ d.type = "A" /\ d.name \in MailNames /\ d.value = primary
            \/ d.type = "MX" /\ d.name = "@" /\ d.value = mailDomain.host
            \/ d.type \notin {"A", "MX", "DKIM"}
            \/ d.type = "DKIM" /\ d.name = "dkim._domainkey" /\ d.value = reported[primary]
               /\ d.value # Nobody
  BY DEF buildZoneRecords, buildMailZoneRecords, dkimRuntimeRecords, Rr
<1>3. \A e \in zoneRecords : e.name = "@" /\ e.type = "MX" => e.value \in {mailDomain.host, NullHost}
  BY DEF PlanInv, validateMailDomain
<1>4. ValuesAt("@", "MX") \subseteq {mailDomain.host, NullHost}
  BY <1>2, <1>3, PublishedAt
<1>5. ValuesAt("@", "MX") # {}
  <2>1. Rr("@", "MX", mailDomain.host) \in buildMailZoneRecords
    BY DEF buildMailZoneRecords
  <2>2. \A e \in zoneRecords :
          SameSlot(Rr("@", "MX", mailDomain.host), e) => e.name = "@" /\ e.type = "MX"
    BY DEF SameSlot, Class, Rr
  <2> QED
    BY <2>1, <2>2, PublishedAt DEF Rr
<1>6. ASSUME NEW name \in MailNames, ~Taken(name) PROVE ValuesAt(name, "A") = primaries
  <2>1. Rr(name, "A", primary) \in buildMailZoneRecords
    BY DEF buildMailZoneRecords
  <2>2. \A e \in zoneRecords : ~SameSlot(Rr(name, "A", primary), e)
    BY <1>6 DEF Taken, SameSlot, Class, Rr
  <2>3. \A e \in zoneRecords : ~(e.name = name /\ e.type = "A")
    BY <1>6 DEF Taken, Class
  <2>4. primary \in ValuesAt(name, "A")
    BY <2>1, <2>2, PublishedAt DEF Rr
  <2>5. ValuesAt(name, "A") \subseteq {primary}
    BY <1>2, <1>6, <2>3, PublishedAt DEF Taken
  <2> QED
    BY <1>1, <2>4, <2>5
<1>7. Cardinality(primaries) = 1
  BY <1>1, FS_Singleton
<1>8. \A s \in {"webmail", "mta-sts"} : [node |-> primary, serverName |-> s] \in buildMailProxyPlans
  BY <1>0 DEF buildMailProxyPlans
<1>9. ASSUME NEW key \in ValuesAt("dkim._domainkey", "DKIM")
      PROVE  key = KeyOf[primary] \/ Rr("dkim._domainkey", "DKIM", key) \in zoneRecords
  <2>1. \/ \E e \in zoneRecords : e.name = "dkim._domainkey" /\ e.type = "DKIM" /\ e.value = key
        \/ key = reported[primary] /\ key # Nobody
    BY <1>2, <1>9, PublishedAt
  <2> QED
    BY <1>0, <2>1 DEF PlanInv
<1> QED
  BY <1>1, <1>4, <1>5, <1>6, <1>7, <1>8, <1>9

(* buildZoneDnsPlans, the mail plans and the mail proxy plans agree on the *)
(* node that has the mail of a domain.                                     *)
THEOREM MailAlwaysReachesPrimary == PlanSpec => []MailReachesPrimary
BY PlanInitInv, PlanStepInv, MailPlansAgree, PTL DEF PlanSpec

---------------------------------------------------------------------------
(***************************************************************************)
(* AppPlansAgree for any rows and logins: every plan reads the same rows,  *)
(* and an edit that changes one follows both plans.                        *)
(***************************************************************************)

(* A job an operator sent and no edit followed is the reconciler's own;    *)
(* the rows have ids of the app.                                           *)
SentInv == /\ logins \in [RowId -> Login \cup {Unset}]
           /\ \A r \in rows : r.id \in RowId
           /\ dispatched \subseteq buildDatabasePayload(Unset)

LEMMA AppInitInv == AppInit => SentInv
BY DEF AppInit, SentInv

LEMMA StoreAppKeeps ==
  ASSUME NEW next, NEW entries, NEW chosen \in [RowId -> Login \cup {Unset}],
         \A r \in entries : r.id \in RowId, SentInv, StoreApp(next, entries, chosen)
  PROVE  SentInv'
BY DEF StoreApp, SentInv

(* With a row of the default id, both queries put that row first.          *)
LEMMA DefaultRowIsFirst ==
  ASSUME NEW d \in rows, d.id = DefaultRow
  PROVE  FirstRow \in rows /\ FirstRow.id = DefaultRow
<1>1. \A s \in rows : Before(d, s)
  BY DEF Before
<1>2. FirstRow \in rows /\ Before(FirstRow, d)
  BY <1>1 DEF FirstRow
<1> QED
  BY <1>2 DEF Before

LEMMA AppStepInv == SentInv /\ [AppPlanNext]_appVars => SentInv'
<1> SUFFICES ASSUME SentInv, [AppPlanNext]_appVars PROVE SentInv'
  OBVIOUS
<1> USE AppPlansAssumption
<1>0. NoneGiven \in [RowId -> Login \cup {Unset}]
  BY DEF NoneGiven
<1>i. \A r \in rows : r.id \in RowId
  BY DEF SentInv
<1>1. CASE SaveApp
  BY <1>0, <1>1, <1>i, StoreAppKeeps DEF SaveApp
<1>2. CASE SaveRow
  <2>1. PICK row \in [id : RowId, name : RowName, node : Host], password \in Login \cup {Unset} :
          StoreApp(app, {r \in rows : r.id # row.id} \cup {row},
                   [NoneGiven EXCEPT ![row.id] = password])
    BY <1>2 DEF SaveRow
  <2>2. [NoneGiven EXCEPT ![row.id] = password] \in [RowId -> Login \cup {Unset}]
    BY <1>0
  <2>3. \A r \in {r \in rows : r.id # row.id} \cup {row} : r.id \in RowId
    BY <1>i
  <2> QED
    BY <2>1, <2>2, <2>3, StoreAppKeeps
<1>3. CASE DeleteRow
  BY <1>0, <1>3, <1>i, StoreAppKeeps DEF DeleteRow
<1>4. CASE MoveApp
  <2>1. PICK h \in Host :
          StoreApp([app EXCEPT !.primary = h], {[r EXCEPT !.node = h] : r \in rows}, NoneGiven)
    BY <1>4 DEF MoveApp
  <2>2. ASSUME NEW r \in rows PROVE [r EXCEPT !.node = h].id \in RowId
    BY <1>i
  <2>3. \A r \in {[r EXCEPT !.node = h] : r \in rows} : r.id \in RowId
    BY <2>2
  <2> QED
    BY <1>0, <2>1, <2>3, StoreAppKeeps
<1>5. CASE dispatchDatabaseReconcile
  <2>1. PICK chosen \in Login \cup {Unset} :
          /\ buildDatabasePayload(chosen) # {}
          /\ chosen # Unset => \E r \in rows : r.id = DefaultRow
          /\ logins' = IF chosen = Unset THEN logins ELSE [logins EXCEPT ![DefaultRow] = chosen]
          /\ dispatched' = buildDatabasePayload(chosen)
          /\ UNCHANGED <<app, rows>>
    BY <1>5 DEF dispatchDatabaseReconcile
  <2>2. FirstRow' = FirstRow
    BY <2>1 DEF FirstRow
  <2>3. logins' \in [RowId -> Login \cup {Unset}]
    BY <2>1 DEF SentInv
  <2>4. CASE chosen = Unset
    BY <2>1, <2>2, <2>3, <2>4 DEF SentInv, buildDatabasePayload
  <2>5. CASE chosen # Unset
    <3>1. FirstRow.id = DefaultRow
      BY <2>1, <2>5, DefaultRowIsFirst
    <3>2. logins'[FirstRow.id] = chosen
      BY <2>1, <2>5, <3>1 DEF SentInv
    <3>3. buildDatabasePayload(Unset)' = buildDatabasePayload(chosen)
      BY <2>1, <2>2, <2>5, <3>2 DEF buildDatabasePayload
    <3> QED
      BY <2>1, <2>3, <3>3 DEF SentInv
  <2> QED
    BY <2>4, <2>5
<1>6. CASE UNCHANGED appVars
  BY <1>6 DEF appVars, SentInv, buildDatabasePayload, FirstRow
<1> QED
  BY <1>1, <1>2, <1>3, <1>4, <1>5, <1>6 DEF AppPlanNext

LEMMA PlansAgree == SentInv => AppPlansAgree
<1> SUFFICES ASSUME SentInv PROVE AppPlansAgree
  OBVIOUS
<1>1. ContainerRow = FirstRow
  BY DEF ContainerRow, FirstRow
<1>2. ASSUME NEW c \in buildAppContainerPlans
      PROVE  IF rows = {} THEN c.env = Unset
             ELSE c.env \in DatabaseCandidates /\ c.env.node \in Tunnelled
  <2>1. ~CredentialMissing /\ c.env = Environment /\ Targets # {}
    BY <1>2 DEF buildAppContainerPlans
  <2>2. app.mode # "metadata-only"
    BY <2>1 DEF Targets
  <2> QED
    BY <1>1, <2>1, <2>2
    DEF Environment, CredentialMissing, DatabaseCandidates, buildDatabasePayload
<1>3. CredentialMissing \/ buildProxyPayload = {c.node : c \in buildAppContainerPlans}
  <2> SUFFICES ASSUME ~CredentialMissing
               PROVE  Targets = {c.node : c \in {[node |-> t, env |-> Environment] : t \in Targets}}
    BY DEF buildProxyPayload, buildAppContainerPlans
  <2> DEFINE plan(t) == [node |-> t, env |-> Environment]
  <2>1. \A t : plan(t).node = t
    OBVIOUS
  <2> HIDE DEF plan
  <2>2. Targets = {c.node : c \in {plan(t) : t \in Targets}}
    BY <2>1
  <2> QED
    BY <2>2 DEF plan
<1>4. app.mode = "metadata-only" \/ dispatched \subseteq DatabaseCandidates
  BY DEF SentInv, DatabaseCandidates
<1> QED
  BY <1>2, <1>3, <1>4 DEF AppPlansAgree

(* buildAppContainerPlans, buildDatabasePayload and the proxy plans:       *)
(* whatever is edited and sent in whichever order, an app connects to the  *)
(* database, with the password, that its reconciliation makes.             *)
THEOREM AppPlansAlwaysAgree == AppPlanSpec => []AppPlansAgree
BY AppInitInv, AppStepInv, PlansAgree, PTL DEF AppPlanSpec

---------------------------------------------------------------------------
(***************************************************************************)
(* The services together.  A step of the whole is a step of one service    *)
(* and leaves the variables of every other one alone, so each behaves as   *)
(* its own specification says, up to fairness, and keeps its invariant.    *)
(***************************************************************************)
LEMMA EachStepIsOneOfEach ==
  ASSUME [Next]_vars
  PROVE  /\ [StoreNext]_storeVars /\ [EnrolNext]_enrolVars /\ [RevealNext]_revealVars
         /\ [DdnsNext]_ddnsVars /\ [TablesNext]_tableVars /\ [DriftNext]_driftVars
         /\ [BackupNext]_backupVars /\ [ReleaseNext]_releaseVars
         /\ [PlanNext]_planVars /\ [AppPlanNext]_appVars
<1>1. CASE Starting
  BY <1>1 DEF Starting
<1>2. CASE Enrolling
  BY <1>2 DEF Enrolling
<1>3. CASE Revealing
  BY <1>3 DEF Revealing
<1>4. CASE Addressing
  BY <1>4 DEF Addressing
<1>5. CASE Editing
  BY <1>5 DEF Editing
<1>6. CASE Watching
  BY <1>6 DEF Watching
<1>7. CASE BackingUp
  BY <1>7 DEF BackingUp
<1>8. CASE Releasing
  BY <1>8 DEF Releasing
<1>9. CASE PlanningZones
  BY <1>9 DEF PlanningZones
<1>10. CASE PlanningApps
  BY <1>10 DEF PlanningApps
<1>11. CASE UNCHANGED vars
  BY <1>11 DEF vars
<1> QED
  BY <1>1, <1>2, <1>3, <1>4, <1>5, <1>6, <1>7, <1>8, <1>9, <1>10, <1>11 DEF Next

(* The composition implements each service's specification: what a service *)
(* promises for itself, it promises beside the others.                     *)
THEOREM ServicesAreTheirSpecs ==
  Spec => /\ StoreInit /\ [][StoreNext]_storeVars
          /\ EnrolInit /\ [][EnrolNext]_enrolVars
          /\ DdnsInit /\ [][DdnsNext]_ddnsVars
          /\ RevealSpec /\ TablesSpec /\ DriftSpec /\ BackupSpec
          /\ ReleaseSpec /\ PlanSpec /\ AppPlanSpec
<1>1. Init => /\ StoreInit /\ EnrolInit /\ RevealInit /\ DdnsInit /\ TablesInit
              /\ DriftInit /\ BackupInit /\ ReleaseInit /\ PlanInit /\ AppInit
  BY DEF Init
<1>2. [Next]_vars => /\ [StoreNext]_storeVars /\ [EnrolNext]_enrolVars
                     /\ [RevealNext]_revealVars /\ [DdnsNext]_ddnsVars
                     /\ [TablesNext]_tableVars /\ [DriftNext]_driftVars
                     /\ [BackupNext]_backupVars /\ [ReleaseNext]_releaseVars
                     /\ [PlanNext]_planVars /\ [AppPlanNext]_appVars
  BY EachStepIsOneOfEach
<1> QED
  BY <1>1, <1>2, PTL DEF Spec, RevealSpec, TablesSpec, DriftSpec, BackupSpec,
                         ReleaseSpec, PlanSpec, AppPlanSpec

(* Whichever service is at work, every promise that TLC checks of the      *)
(* services' states holds, for all constants.                              *)
THEOREM ServicesStaySafe ==
  Spec => [](/\ MigratesOnceInOrder /\ ServesItsSchema /\ LockedOutOnlyByLoss
             /\ RevealedOnce /\ OtherRecordsStay /\ AppliedIsStored /\ RefreshesBounded
             /\ LastGenerationIsKept /\ RecordedRunsAreKept /\ MailReachesPrimary
             /\ AppPlansAgree)
<1>1. StoreInv => MigratesOnceInOrder /\ ServesItsSchema
  BY OwnSchemaServed DEF StoreInv
<1>2. EnrolInv => LockedOutOnlyByLoss
  BY DEF EnrolInv
<1>3. DdnsInv => OtherRecordsStay
  BY DEF DdnsInv
<1> QED
  BY <1>1, <1>2, <1>3, ServicesAreTheirSpecs, StoreInitInv, StoreStepInv,
     EnrolInitInv, EnrolStepInv, DdnsInitInv, DdnsStepInv, PasswordsAreRevealedOnce,
     AppliesAreStored, RefreshesAreBounded, LastGenerationStays, RecordedRunsStay,
     MailAlwaysReachesPrimary, AppPlansAlwaysAgree, PTL

(* ... and the maintenance pass of the composition leaves the active       *)
(* release alone.                                                          *)
THEOREM ServicesKeepTheRelease == Spec => ActiveReleaseIsKept
BY ServicesAreTheirSpecs, ActiveReleaseStays, PTL

=============================================================================
