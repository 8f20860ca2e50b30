---------------------------- MODULE ZoneDelivery ----------------------------
(***************************************************************************)
(* executeDnsSyncJob on the authoritative nodes of one zone.  The control  *)
(* plane sends every node the same records; the zone's primary patches its *)
(* PowerDNS through the API, every other node makes its copy a secondary   *)
(* of the primary and has it transferred.  A job passes when the node's    *)
(* zone holds what the payload names: records the payload no longer names  *)
(* stay, for nothing deletes them.  A secondary whose job runs before the  *)
(* primary's cannot pass and is sent again.  A job whose agent died cannot *)
(* be claimed until its claim has timed out; newer jobs of the node run in *)
(* the meantime, and it runs after them.                                   *)
(* Left out: TTLs, DNSSEC, the staged zone file, and an address of the     *)
(* primary that leads elsewhere (both addresses are the same server).      *)
(* Agents claim one job at a time; buffered reports are JobLifecycle's,    *)
(* and jobs that a slow transaction commits late are ControlLoop's.        *)
(***************************************************************************)
EXTENDS Integers, FiniteSetsExt

CONSTANTS Node,
          RRset, Value,      \* record sets by name and type, and what they can hold
          None,
          MaxVersion,        \* bound: edits of the zone
          MaxFailures,       \* bound: failing requests, and transfers that fail or are late
          MaxDeaths,         \* bound: agents that die with a job
          PrimaryOf,         \* per version: the zone's primary node
          RecordsOf          \* per version: what each record set should hold, or None

Version == 1..MaxVersion

ASSUME ZoneAssumption ==
    /\ MaxVersion \in Nat \ {0} /\ MaxFailures \in Nat /\ MaxDeaths \in Nat
    /\ PrimaryOf \in [Version -> Node]
    /\ RecordsOf \in [Version -> [RRset -> Value \cup {None}]]

VARIABLES desired,     \* the version the control plane holds
          pending,     \* per node: versions of dns.sync jobs without a result
          lost,        \* per node: the pending ones a dead agent holds a fresh claim on
          latest,      \* per node: version and status of the job row created last
          last,        \* per node: version and status of the newest result
          work,        \* per node: the job at work and its step
          zone,        \* per node: kind, primary and records of its PowerDNS zone
          asked,       \* nodes whose `pdns_control retrieve' has not ended yet
          failures,    \* failures so far
          deaths       \* deaths so far

table == <<pending, lost, latest, last>>
faults == <<failures, deaths>>
vars == <<desired, table, work, zone, asked, faults>>

Idle == [version |-> 0, step |-> "idle"]
Empty == [r \in RRset |-> None]
NoZone == [kind |-> "absent", primary |-> None, loaded |-> FALSE, records |-> Empty]

Init == /\ desired = 1
        /\ pending = [n \in Node |-> {}]
        /\ lost = [n \in Node |-> {}]
        /\ latest = [n \in Node |-> [version |-> 0, status |-> "none"]]
        /\ last = [n \in Node |-> [version |-> 0, status |-> "none"]]
        /\ work = [n \in Node |-> Idle]
        /\ zone = [n \in Node |-> NoZone]
        /\ asked = {}
        /\ failures = 0 /\ deaths = 0

-----------------------------------------------------------------------------
(* The control plane: an edit of the zone, the dispatch of its payload to  *)
(* a node unless the latest job row carries it and is open or applied      *)
(* (shouldDispatchQueuedJob), and a claim that has grown stale.            *)
(* The operator moves the primary only to a node that has the zone: the    *)
(* driver promotes a copy that was never transferred as it is, without an  *)
(* SOA record, and no secondary can transfer from it.                      *)
CanMoveTo(n) == n = PrimaryOf[desired] \/ zone[n].loaded

Edit == /\ desired < MaxVersion
        /\ CanMoveTo(PrimaryOf[desired + 1])
        /\ desired' = desired + 1
        /\ UNCHANGED <<table, work, zone, asked, faults>>

SendTo(n) ==
    /\ pending' = [pending EXCEPT ![n] = @ \cup {desired}]
    /\ latest' = [latest EXCEPT ![n] = [version |-> desired, status |-> "open"]]
    /\ UNCHANGED <<desired, lost, last, work, zone, asked, faults>>

(* Fault: a failed job is not sent again.                                  *)
DispatchOnce(n) == latest[n].version # desired /\ SendTo(n)

Dispatch(n) ==
    /\ latest[n].version # desired \/ latest[n].status = "failed"
    /\ SendTo(n)

ClaimTimesOut(n) ==
    /\ \E v \in lost[n] : lost' = [lost EXCEPT ![n] = @ \ {v}]
    /\ UNCHANGED <<desired, pending, latest, last, work, zone, asked, faults>>

-----------------------------------------------------------------------------
(* The agent.  A node runs the oldest job it can claim.                    *)
Claimable(n) == pending[n] \ lost[n]
NextJob(n) == Min(Claimable(n))

StartSync(n) ==
    /\ work[n] = Idle /\ Claimable(n) # {}
    /\ work' = [work EXCEPT ![n] = [version |-> NextJob(n), step |-> "ensure"]]
    /\ UNCHANGED <<desired, table, zone, asked, faults>>

At(n, step) == work[n].step = step
Primary(n) == PrimaryOf[work[n].version]
GoTo(n, step) == work' = [work EXCEPT ![n].step = step]

Fails == failures < MaxFailures /\ failures' = failures + 1 /\ UNCHANGED deaths
Dies == deaths < MaxDeaths /\ deaths' = deaths + 1 /\ UNCHANGED failures

Report(n, status) ==
    /\ last' = [last EXCEPT ![n] = [version |-> work[n].version, status |-> status]]
    /\ latest' = [latest EXCEPT ![n].status = IF latest[n].version = work[n].version
                                               THEN status ELSE @]
    /\ pending' = [pending EXCEPT ![n] = @ \ {work[n].version}]
    /\ work' = [work EXCEPT ![n] = Idle]
    /\ UNCHANGED lost

(* verifyPowerDnsZone: every record of the payload is there.               *)
Holds(n, v) ==
    /\ zone[n].loaded
    /\ \A r \in RRset : RecordsOf[v][r] # None => zone[n].records[r] = RecordsOf[v][r]

(* Fault: an existing zone keeps its kind.                                *)
ensureCreatedPrimary(n) ==
    /\ At(n, "ensure") /\ Primary(n) = n
    /\ zone' = [zone EXCEPT ![n] = IF @.kind = "absent"
                                     THEN [NoZone EXCEPT !.kind = "primary", !.loaded = TRUE]
                                     ELSE @]
    /\ GoTo(n, "patch")
    /\ UNCHANGED <<desired, table, asked, faults>>

(* Create the zone as a primary or make it one; its records stay.          *)
ensurePrimaryPowerDnsZone(n) ==
    /\ At(n, "ensure") /\ Primary(n) = n
    /\ zone' = [zone EXCEPT ![n] = IF @.kind = "absent"
                                     THEN [NoZone EXCEPT !.kind = "primary", !.loaded = TRUE]
                                     ELSE [@ EXCEPT !.kind = "primary"]]
    /\ GoTo(n, "patch")
    /\ UNCHANGED <<desired, table, asked, faults>>

(* One PATCH replaces the record sets the payload names, atomically.       *)
upsertPrimaryPowerDnsRecords(n) ==
    /\ At(n, "patch")
    /\ zone' = [zone EXCEPT ![n].records =
                  [r \in RRset |-> IF RecordsOf[work[n].version][r] # None
                                     THEN RecordsOf[work[n].version][r] ELSE @[r]]]
    /\ GoTo(n, "verify")
    /\ UNCHANGED <<desired, table, asked, faults>>

(* Fault: the addresses of an existing secondary are not updated.         *)
ensureSecondaryKindOnly(n) ==
    /\ At(n, "ensure") /\ Primary(n) # n
    /\ zone' = [zone EXCEPT ![n] = IF @.kind = "absent"
                                     THEN [NoZone EXCEPT !.kind = "secondary",
                                                         !.primary = Primary(n)]
                                     ELSE [@ EXCEPT !.kind = "secondary"]]
    /\ GoTo(n, "retrieve")
    /\ UNCHANGED <<desired, table, asked, faults>>

(* Create the zone as a secondary or make it one, then PUT the primary's   *)
(* addresses: between the two the zone may still name the old primary.     *)
ensureSecondaryPowerDnsZone(n) ==
    \/ /\ At(n, "ensure") /\ Primary(n) # n
       /\ zone' = [zone EXCEPT ![n] = IF @.kind = "absent"
                                        THEN [NoZone EXCEPT !.kind = "secondary",
                                                            !.primary = Primary(n)]
                                        ELSE [@ EXCEPT !.kind = "secondary"]]
       /\ GoTo(n, "masters")
       /\ UNCHANGED <<desired, table, asked, faults>>
    \/ /\ At(n, "masters")
       /\ zone' = [zone EXCEPT ![n].primary = Primary(n)]
       /\ GoTo(n, "retrieve")
       /\ UNCHANGED <<desired, table, asked, faults>>

retrieveSecondaryPowerDnsZone(n) ==
    /\ At(n, "retrieve")
    /\ asked' = asked \cup {n}
    /\ GoTo(n, "wait")
    /\ UNCHANGED <<desired, table, zone, faults>>

(* Polling passes as soon as the zone holds the payload, transferred or    *)
(* not, and gives up after eight seconds.                                  *)
waitForPowerDnsVerification(n) ==
    /\ At(n, "wait")
    /\ \/ /\ Holds(n, work[n].version)
          /\ GoTo(n, "verify")
          /\ UNCHANGED <<table, faults>>
       \/ /\ ~Holds(n, work[n].version)
          /\ IF n \in asked THEN Fails ELSE UNCHANGED faults
          /\ Report(n, "failed")
    /\ UNCHANGED <<desired, zone, asked>>

CompleteSync(n) ==
    /\ At(n, "verify")
    /\ Report(n, IF Holds(n, work[n].version) THEN "applied" ELSE "failed")
    /\ UNCHANGED <<desired, zone, asked, faults>>

(* A request to PowerDNS fails, or the agent dies at a step or before its  *)
(* report arrives.  dns.sync is one of the kinds that are reclaimed: the   *)
(* job can be claimed again once the dead agent's claim has timed out.     *)
SyncFails(n) ==
    /\ work[n] # Idle /\ Fails
    /\ Report(n, "failed")
    /\ UNCHANGED <<desired, zone, asked>>

Crash(n) ==
    /\ work[n] # Idle /\ Dies
    /\ work' = [work EXCEPT ![n] = Idle]
    /\ lost' = [lost EXCEPT ![n] = @ \cup {work[n].version}]
    /\ UNCHANGED <<desired, pending, latest, last, zone, asked>>

-----------------------------------------------------------------------------
(* PowerDNS: a secondary copies what its primary holds when it was asked   *)
(* to, after a NOTIFY and when the SOA's refresh time is over.  A server   *)
(* without the zone's records refuses the transfer.                        *)
PrimaryAnswers(n) == \E p \in Node : p = zone[n].primary /\ zone[p].loaded

Transfer(n) ==
    /\ zone[n].kind = "secondary" /\ PrimaryAnswers(n)
    /\ n \in asked \/ zone[n].records # zone[zone[n].primary].records \/ ~zone[n].loaded
    /\ zone' = [zone EXCEPT ![n].records = zone[zone[n].primary].records,
                            ![n].loaded = TRUE]
    /\ asked' = asked \ {n}
    /\ UNCHANGED <<desired, table, work, faults>>

TransferFails(n) ==
    /\ n \in asked
    /\ IF zone[n].kind = "secondary" /\ PrimaryAnswers(n) THEN Fails ELSE UNCHANGED faults
    /\ asked' = asked \ {n}
    /\ UNCHANGED <<desired, table, work, zone>>

-----------------------------------------------------------------------------
AgentStep(n) ==
    \/ StartSync(n) \/ ensurePrimaryPowerDnsZone(n) \/ upsertPrimaryPowerDnsRecords(n)
    \/ ensureSecondaryPowerDnsZone(n) \/ retrieveSecondaryPowerDnsZone(n)
    \/ waitForPowerDnsVerification(n) \/ CompleteSync(n)

Next == \/ Edit
        \/ \E n \in Node : \/ Dispatch(n) \/ ClaimTimesOut(n) \/ AgentStep(n)
                           \/ SyncFails(n) \/ Crash(n) \/ Transfer(n) \/ TransferFails(n)

(* The worker reconciles and the agents poll for ever, time passes, and    *)
(* PowerDNS ends the transfers it begins.                                  *)
Spec == /\ Init /\ [][Next]_vars
        /\ \A n \in Node : /\ WF_vars(Dispatch(n)) /\ WF_vars(ClaimTimesOut(n))
                           /\ WF_vars(AgentStep(n))
                           /\ WF_vars(Transfer(n)) /\ WF_vars(TransferFails(n))

-----------------------------------------------------------------------------
(* Every variable has its type.                                            *)
TypeOK ==
    /\ desired \in Version
    /\ pending \in [Node -> SUBSET Version]
    /\ \A n \in Node : lost[n] \subseteq pending[n]
    /\ latest \in [Node -> [version : 0..MaxVersion,
                            status : {"none", "open", "applied", "failed"}]]
    /\ last \in [Node -> [version : 0..MaxVersion, status : {"none", "applied", "failed"}]]
    /\ work \in [Node -> [version : 0..MaxVersion,
                          step : {"idle", "ensure", "patch", "masters", "retrieve",
                                  "wait", "verify"}]]
    /\ zone \in [Node -> [kind : {"absent", "primary", "secondary"},
                          primary : Node \cup {None}, loaded : BOOLEAN,
                          records : [RRset -> Value \cup {None}]]]
    /\ asked \subseteq Node
    /\ failures \in 0..MaxFailures
    /\ deaths \in 0..MaxDeaths

(* dns.sync on the primary: while its newest result is an applied one and  *)
(* no job is open, the node is a primary and holds what was applied, and   *)
(* no transfer from a former primary has overwritten it.                   *)
PrimaryHoldsApplied ==
    \A n \in Node : /\ last[n].status = "applied" /\ pending[n] = {}
                    /\ PrimaryOf[last[n].version] = n
                    => zone[n].kind = "primary" /\ Holds(n, last[n].version)

(* A move of the primary: once both nodes report the desired version       *)
(* applied, exactly the zone's primary node is one and every other node    *)
(* transfers from it, whichever of the two jobs ran first.                 *)
RolesMatch ==
    (\A n \in Node : /\ last[n] = [version |-> desired, status |-> "applied"]
                     /\ work[n] = Idle /\ pending[n] = {})
    => \A n \in Node : IF n = PrimaryOf[desired] THEN zone[n].kind = "primary"
                       ELSE /\ zone[n].kind = "secondary"
                            /\ zone[n].primary = PrimaryOf[desired]

(* An older job, reclaimed after its agent died, was the last to run; the  *)
(* table shows the node in sync, and nothing is sent to it any more.       *)
Overtaken(n) == /\ latest[n] = [version |-> desired, status |-> "applied"]
                /\ last[n].version < desired

(* DNS.md:60: both authoritative nodes converge.  After the last edit and  *)
(* the last fault every node reports the desired version applied and holds *)
(* it, and stays so, although a secondary's job may run before the         *)
(* primary's and dead agents' jobs after newer ones.  The one thing that   *)
(* keeps them apart is an older job that ran after the desired version had *)
(* been applied: nothing compares the two.                                 *)
ZonesConverge ==
    <>[]( \/ \E n \in Node : Overtaken(n)
          \/ \A n \in Node : /\ last[n] = [version |-> desired, status |-> "applied"]
                              /\ Holds(n, desired) )
=============================================================================
