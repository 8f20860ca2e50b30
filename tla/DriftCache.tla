----------------------------- MODULE DriftCache -----------------------------
(***************************************************************************)
(* The resource-drift cache of the control plane's API process: a value    *)
(* served for a minute, served on while one background refresh rebuilds    *)
(* it, and dropped when a DDNS update changes a zone.  A refresh is a      *)
(* promise: it starts, reads the database, and settles later, when the     *)
(* cache may be another than the one it started from.                      *)
(***************************************************************************)
EXTENDS Naturals, FiniteSets

CONSTANTS
  Refresh,          \* names for the promises in flight
  None,
  MaxChanges,       \* bound: committed changes of what the summaries show
  MaxInvalidations  \* bound: cache invalidations in one life of the process

ASSUME DriftCacheAssumption ==
  /\ None \notin Refresh
  /\ Refresh # {}
  /\ None \notin Nat
  /\ MaxChanges \in Nat
  /\ MaxInvalidations \in Nat

VARIABLES
  changes,        \* commits so far that the summaries show: what is current
  cache,          \* resourceDriftCache; a value is the changes it shows
  reads,          \* running refreshes, and what each has read
  ddns,           \* an updateDdnsHost between its invalidation and its end
  invalidations,
  calm             \* TRUE once changes and faults have stopped

driftVars == <<changes, cache, reads, ddns, invalidations, calm>>

Undefined == [value |-> None, fresh |-> FALSE, promise |-> None]
Waiting(p) == [value |-> None, fresh |-> FALSE, promise |-> p]

Refreshing == DOMAIN reads

DriftTypeOK ==
  /\ changes \in Nat
  /\ cache \in [value : Nat \cup {None}, fresh : BOOLEAN, promise : Refresh \cup {None}]
  /\ Refreshing \subseteq Refresh
  /\ reads \in [Refreshing -> Nat \cup {None}]
  /\ ddns \in BOOLEAN
  /\ invalidations \in Nat
  /\ calm \in BOOLEAN

Started(p) == [q \in Refreshing \cup {p} |-> IF q = p THEN None ELSE reads[q]]
Ended(p) == [q \in Refreshing \ {p} |-> reads[q]]

(* createControlPlaneOperationsMethods warms the cache; the first refresh  *)
(* has any name.                                                           *)
First == CHOOSE p \in Refresh : TRUE

DriftInit ==
  /\ changes = 0
  /\ reads = [q \in {First} |-> None]
  /\ cache = Waiting(First)
  /\ ddns = FALSE
  /\ invalidations = 0
  /\ calm = FALSE

-----------------------------------------------------------------------------
(* A report, a dispatch or an edit commits.                                *)
CommitChange ==
  /\ ~ calm
  /\ changes < MaxChanges
  /\ changes' = changes + 1
  /\ UNCHANGED <<cache, reads, ddns, invalidations, calm>>

(* The cached value's minute ends.                                         *)
ExpireValue ==
  /\ cache.fresh
  /\ cache' = [cache EXCEPT !.fresh = FALSE]
  /\ UNCHANGED <<changes, reads, ddns, invalidations, calm>>

(* Fault: a load does not look for a refresh that is already running.      *)
LoadAndAlwaysRefresh ==
  /\ cache.value = None \/ ~ cache.fresh
  /\ \E p \in Refresh \ Refreshing :
       /\ reads' = Started(p)
       /\ cache' = [cache EXCEPT !.promise = p, !.fresh = cache.value # None]
  /\ UNCHANGED <<changes, ddns, invalidations, calm>>

(* A fresh value is served, and so is whatever a cached promise has or     *)
(* will have: the cache stays as it is.                                    *)
ServeCached ==
  /\ cache.promise # None \/ (cache.value # None /\ cache.fresh)
  /\ UNCHANGED driftVars

(* Otherwise a load starts a refresh; an expired value is served, and good *)
(* for another minute meanwhile.                                           *)
loadResourceDriftSummaries ==
  /\ cache.value = None \/ ~ cache.fresh
  /\ cache.promise = None
  /\ \E p \in Refresh \ Refreshing :
       /\ reads' = Started(p)
       /\ cache' = [cache EXCEPT !.promise = p, !.fresh = cache.value # None]
  /\ UNCHANGED <<changes, ddns, invalidations, calm>>

buildResourceDriftSummaries(p) ==
  /\ p \in Refreshing
  /\ reads[p] = None
  /\ reads' = [reads EXCEPT ![p] = changes]
  /\ UNCHANGED <<changes, cache, ddns, invalidations, calm>>

(* Whichever promise settles, its value replaces the whole cache.          *)
SettlePromise(p) ==
  /\ p \in Refreshing
  /\ reads[p] # None
  /\ cache' = [value |-> reads[p], fresh |-> TRUE, promise |-> None]
  /\ reads' = Ended(p)
  /\ UNCHANGED <<changes, ddns, invalidations, calm>>

(* Fault: a rejected promise is cleared only when there is no value.       *)
RejectAndKeepPromise(p) ==
  /\ ~ calm
  /\ p \in Refreshing
  /\ cache' = IF cache.value = None /\ cache.promise = p THEN Undefined ELSE cache
  /\ reads' = Ended(p)
  /\ UNCHANGED <<changes, ddns, invalidations, calm>>

(* A rejected promise leaves the value and takes whatever promise is       *)
(* cached with it; without a value it clears only itself.                  *)
RejectPromise(p) ==
  /\ ~ calm
  /\ p \in Refreshing
  /\ cache' = IF cache.value # None THEN [cache EXCEPT !.promise = None]
              ELSE IF cache.promise = p THEN Undefined
              ELSE cache
  /\ reads' = Ended(p)
  /\ UNCHANGED <<changes, ddns, invalidations, calm>>

(* updateDdnsHost drops the cache before its transaction commits.          *)
InvalidateForDdns ==
  /\ ~ calm
  /\ ~ ddns
  /\ invalidations < MaxInvalidations
  /\ cache' = Undefined
  /\ invalidations' = invalidations + 1
  /\ ddns' = TRUE
  /\ UNCHANGED <<changes, reads, calm>>

EndDdns ==
  /\ ddns
  /\ ddns' = FALSE
  /\ changes' \in {changes} \cup (IF changes < MaxChanges THEN {changes + 1} ELSE {})
  /\ UNCHANGED <<cache, reads, invalidations, calm>>

(* The process is restarted: its promises are gone, the new one warms up.  *)
RestartApi ==
  /\ ~ calm
  /\ \E p \in Refresh : /\ reads' = [q \in {p} |-> None]
                        /\ cache' = Waiting(p)
  /\ ddns' = FALSE
  /\ invalidations' = 0
  /\ UNCHANGED <<changes, calm>>

DriftCalm ==
  /\ ~ calm
  /\ ~ ddns
  /\ calm' = TRUE
  /\ UNCHANGED <<changes, cache, reads, ddns, invalidations>>

DriftNext ==
  \/ CommitChange
  \/ ExpireValue
  \/ ServeCached
  \/ loadResourceDriftSummaries
  \/ \E p \in Refresh : buildResourceDriftSummaries(p) \/ SettlePromise(p) \/ RejectPromise(p)
  \/ InvalidateForDdns
  \/ EndDdns
  \/ RestartApi
  \/ DriftCalm

DriftSpec == DriftInit /\ [][DriftNext]_driftVars

(* Time passes, dashboards keep asking, and transactions end.              *)
DriftFairSpec ==
  /\ DriftSpec
  /\ WF_driftVars(ExpireValue)
  /\ WF_driftVars(loadResourceDriftSummaries)
  /\ \A p \in Refresh : WF_driftVars(buildResourceDriftSummaries(p) \/ SettlePromise(p))

-----------------------------------------------------------------------------
(* A cached promise is one that will still settle.  One that has settled   *)
(* would be returned for ever and the drift view would never change again. *)
CachedPromiseRuns == cache.promise # None => cache.promise \in Refreshing

(* However loads, expiries, failures and invalidations fall, each          *)
(* invalidation lets at most one refresh run beside the cached one:        *)
(* dashboards cannot pile up reconciliation projections on the database.   *)
RefreshesBounded == Cardinality(Refreshing) <= invalidations + 1

(* Once nothing changes any more the drift view becomes, and stays, what a *)
(* fresh projection shows: a refresh that was overtaken by an invalidation *)
(* may put an old value back, but not for good.                            *)
DriftViewCatchesUp == <>[](calm => cache.value = changes)
=============================================================================
