------------------------- MODULE ZoneDelivery_proofs -------------------------
(***************************************************************************)
(* Why a node that reports a zone applied plays its part in it.  A job at  *)
(* work stays pending until its report, so a node with nothing pending has *)
(* no job; and a zone of the kind primary is written by its own job only.  *)
(* What is left is the part each job has done by each of its steps.        *)
(***************************************************************************)
EXTENDS ZoneDelivery, WellFoundedInduction, NaturalsInduction, TLAPS

(* Where a job at work is.                                                 *)
WorkInv(n) == \/ work[n] = Idle
              \/ /\ work[n].version \in Claimable(n)
                 /\ work[n].step \in {"ensure", "patch", "masters", "retrieve", "wait", "verify"}

(* The part in version v: the zone's primary, or a secondary of it.        *)
IsPart(n, v) == IF PrimaryOf[v] = n THEN zone[n].kind = "primary"
                ELSE zone[n].kind = "secondary" /\ zone[n].primary = PrimaryOf[v]

(* What the steps so far have made of the zone.                            *)
PartInv(n) == /\ At(n, "patch") => Primary(n) = n
              /\ At(n, "masters") => Primary(n) # n /\ zone[n].kind = "secondary"
              /\ At(n, "retrieve") \/ At(n, "wait") => Primary(n) # n
              /\ work[n].step \in {"patch", "retrieve", "wait", "verify"} =>
                   IsPart(n, work[n].version)

(* What a report that the job is applied leaves behind.                    *)
ReportInv(n) == last[n].status = "applied" /\ pending[n] = {} =>
                  /\ IsPart(n, last[n].version)
                  /\ PrimaryOf[last[n].version] = n => Holds(n, last[n].version)

ZoneInv == TypeOK /\ \A n \in Node : WorkInv(n) /\ PartInv(n) /\ ReportInv(n)

-----------------------------------------------------------------------------
(* The oldest job a node can claim is one of those it can claim.           *)
LEMMA NextJobPends ==
  ASSUME NEW n \in Node, pending[n] \subseteq Version, Claimable(n) # {}
  PROVE  NextJob(n) \in Claimable(n)
<1> DEFINE R == {ss \in Nat \X Nat : ss[1] < ss[2]}
<1>1. Claimable(n) \subseteq Nat
  BY ZoneAssumption DEF Version, Claimable
<1>2. OpToRel(<, Nat) = R
  BY DEF OpToRel
<1>3. IsWellFoundedOn(OpToRel(<, Nat), Nat)
  BY NatLessThanWellFounded
<1>4. PICK m \in Claimable(n) : \A x \in Claimable(n) : ~(<<x, m>> \in R)
  <2> HIDE DEF R
  <2> QED
    BY <1>1, <1>2, <1>3, WFMin, Zenon
<1>5. ASSUME NEW x \in Claimable(n) PROVE m <= x
  <2>1. <<x, m>> \in Nat \X Nat /\ ~(<<x, m>> \in R)
    BY <1>1, <1>4
  <2> QED
    BY <2>1
<1> QED
  BY <1>5 DEF NextJob, Min

(* A step that writes one node's zone, job and results leaves what holds   *)
(* of every other node.                                                    *)
LEMMA OthersKeep ==
  ASSUME ZoneInv, NEW n \in Node, NEW m \in Node, m # n,
         work'[m] = work[m], zone'[m] = zone[m], last'[m] = last[m], pending'[m] = pending[m],
         lost'[m] = lost[m]
  PROVE  WorkInv(m)' /\ PartInv(m)' /\ ReportInv(m)'
BY DEF ZoneInv, WorkInv, PartInv, ReportInv, IsPart, Holds, At, Primary, Claimable

(* An agent without a job has a version and a step.                        *)
LEMMA NoJobTyped ==
  Idle \in [version : 0..MaxVersion,
            step : {"idle", "ensure", "patch", "masters", "retrieve", "wait", "verify"}]
BY ZoneAssumption DEF Idle

(* Without edits and jobs, every part of the invariant holds.              *)
LEMMA InitZone == Init => ZoneInv
<1> SUFFICES ASSUME Init PROVE ZoneInv
  OBVIOUS
<1>1. 1 \in Version /\ 0 \in 0..MaxVersion
  BY ZoneAssumption DEF Version
<1>2. NoZone \in [kind : {"absent", "primary", "secondary"}, primary : Node \cup {None},
                  loaded : BOOLEAN, records : [RRset -> Value \cup {None}]]
  BY DEF NoZone, Empty
<1>3. TypeOK
  BY <1>1, <1>2, NoJobTyped, ZoneAssumption DEF Init, TypeOK
<1>4. \A n \in Node : WorkInv(n) /\ PartInv(n) /\ ReportInv(n)
  BY DEF Init, WorkInv, PartInv, ReportInv, At, Idle
<1> QED
  BY <1>3, <1>4 DEF ZoneInv

-----------------------------------------------------------------------------
(* What is counted of failures and deaths has its type.                    *)
LEMMA FaultsTyped ==
  ASSUME ZoneInv, Fails \/ Dies \/ UNCHANGED faults
  PROVE  failures' \in 0..MaxFailures /\ deaths' \in 0..MaxDeaths
BY ZoneAssumption DEF ZoneInv, TypeOK, Fails, Dies, faults

(* The control plane: an edit touches no node, a dispatch opens a job, and *)
(* a claim that times out leaves the job where it is.                      *)
LEMMA PlaneKeeps ==
  ASSUME ZoneInv, Edit \/ \E n \in Node : Dispatch(n) \/ ClaimTimesOut(n) \/ TransferFails(n)
  PROVE  ZoneInv'
<1>1. CASE Edit
  <2>1. desired \in 1..MaxVersion /\ desired < MaxVersion /\ MaxVersion \in Nat
    BY <1>1, ZoneAssumption DEF Edit, ZoneInv, TypeOK, Version
  <2>2. desired' \in Version
    BY <1>1, <2>1 DEF Edit, Version
  <2>3. TypeOK'
    BY <1>1, <2>2 DEF Edit, ZoneInv, TypeOK, table, faults
  <2> QED
    BY <1>1, <2>3 DEF Edit, table, ZoneInv, WorkInv, PartInv, ReportInv, IsPart, Holds, At,
                      Primary, Claimable
<1>2. ASSUME NEW n \in Node, Dispatch(n) PROVE ZoneInv'
  <2>1. desired \in Version /\ desired \in 0..MaxVersion
    BY ZoneAssumption DEF ZoneInv, TypeOK, Version
  <2>2. TypeOK'
    <3>1. /\ pending' \in [Node -> SUBSET Version]
          /\ latest' \in [Node -> [version : 0..MaxVersion,
                                   status : {"none", "open", "applied", "failed"}]]
      BY <1>2, <2>1 DEF Dispatch, SendTo, ZoneInv, TypeOK
    <3>2. \A m \in Node : lost'[m] \subseteq pending'[m]
      BY <1>2 DEF Dispatch, SendTo, ZoneInv, TypeOK
    <3> QED
      BY <1>2, <3>1, <3>2 DEF Dispatch, SendTo, ZoneInv, TypeOK, faults
  <2>3. /\ pending[n] \subseteq pending'[n] /\ pending'[n] # {}
        /\ \A m \in Node \ {n} : pending'[m] = pending[m]
        /\ UNCHANGED <<work, zone, last, lost>>
    BY <1>2 DEF Dispatch, SendTo, ZoneInv, TypeOK
  <2>4. WorkInv(n)' /\ PartInv(n)' /\ ReportInv(n)'
    BY <2>3 DEF ZoneInv, WorkInv, PartInv, ReportInv, IsPart, At, Primary, Claimable
  <2> QED
    BY <2>2, <2>3, <2>4, OthersKeep DEF ZoneInv
<1>3. ASSUME NEW n \in Node, ClaimTimesOut(n) PROVE ZoneInv'
  <2>1. TypeOK'
    BY <1>3 DEF ClaimTimesOut, ZoneInv, TypeOK, faults
  <2>2. /\ lost'[n] \subseteq lost[n] /\ \A m \in Node \ {n} : lost'[m] = lost[m]
        /\ UNCHANGED <<work, zone, last, pending>>
    BY <1>3 DEF ClaimTimesOut, ZoneInv, TypeOK
  <2>3. WorkInv(n)' /\ PartInv(n)' /\ ReportInv(n)'
    BY <2>2 DEF ZoneInv, WorkInv, PartInv, ReportInv, IsPart, Holds, At, Primary, Claimable
  <2> QED
    BY <2>1, <2>2, <2>3, OthersKeep DEF ZoneInv
<1>4. ASSUME NEW n \in Node, TransferFails(n) PROVE ZoneInv'
  <2>1. failures' \in 0..MaxFailures /\ deaths' \in 0..MaxDeaths
    BY <1>4, FaultsTyped DEF TransferFails
  <2>2. TypeOK'
    BY <1>4, <2>1 DEF TransferFails, ZoneInv, TypeOK, table
  <2> QED
    BY <1>4, <2>2 DEF TransferFails, table, ZoneInv, WorkInv, PartInv, ReportInv, IsPart, Holds,
                      At, Primary, Claimable
<1> QED
  BY <1>1, <1>2, <1>3, <1>4

(* A report: the job is pending no more, and applied only when its part is *)
(* done and the zone holds the payload.                                    *)
LEMMA ReportKeeps ==
  ASSUME ZoneInv, NEW n \in Node, NEW status \in {"applied", "failed"}, work[n] # Idle,
         status = "applied" => IsPart(n, work[n].version) /\ Holds(n, work[n].version),
         Report(n, status), UNCHANGED <<desired, zone, asked>>,
         Fails \/ UNCHANGED faults
  PROVE  ZoneInv'
<1>1. /\ work[n].version \in Version /\ work[n].version \in 0..MaxVersion
      /\ work[n].version \notin lost[n]
  BY DEF ZoneInv, TypeOK, WorkInv, Claimable
<1>2. TypeOK'
  BY <1>1, NoJobTyped, FaultsTyped DEF Report, ZoneInv, TypeOK
<1>3. /\ work'[n] = Idle /\ last'[n] = [version |-> work[n].version, status |-> status]
      /\ \A m \in Node \ {n} :
           /\ work'[m] = work[m] /\ last'[m] = last[m]
           /\ pending'[m] = pending[m] /\ lost'[m] = lost[m]
  BY DEF Report, ZoneInv, TypeOK
<1>4. WorkInv(n)' /\ PartInv(n)' /\ ReportInv(n)'
  BY <1>3 DEF WorkInv, PartInv, ReportInv, IsPart, Holds, At, Idle
<1> QED
  BY <1>2, <1>3, <1>4, OthersKeep DEF ZoneInv

(* A step of the job at work that is not its last.                         *)
LEMMA JobMoves ==
  ASSUME ZoneInv, NEW n \in Node, work[n] # Idle,
         NEW step \in {"patch", "masters", "retrieve", "wait", "verify"}, GoTo(n, step),
         UNCHANGED <<desired, table, faults>>,
         asked' \subseteq Node, zone' = zone \/ \E z : zone' = [zone EXCEPT ![n] = z],
         TypeOK => zone' \in [Node -> [kind : {"absent", "primary", "secondary"},
                                       primary : Node \cup {None}, loaded : BOOLEAN,
                                       records : [RRset -> Value \cup {None}]]],
         work'[n].step = step /\ work'[n].version = work[n].version => PartInv(n)'
  PROVE  ZoneInv'
<1>1. /\ work' \in [Node -> [version : 0..MaxVersion,
                             step : {"idle", "ensure", "patch", "masters", "retrieve",
                                     "wait", "verify"}]]
      /\ work'[n].step = step /\ work'[n].version = work[n].version
      /\ \A m \in Node \ {n} : work'[m] = work[m]
  BY DEF GoTo, ZoneInv, TypeOK
<1>2. TypeOK'
  BY <1>1 DEF ZoneInv, TypeOK, table, faults
<1>3. \A m \in Node \ {n} : zone'[m] = zone[m]
  BY DEF ZoneInv, TypeOK
<1>4. work[n].version \in Claimable(n)
  BY DEF ZoneInv, WorkInv
<1>5. WorkInv(n)' /\ ReportInv(n)'
  BY <1>1, <1>4 DEF WorkInv, ReportInv, Claimable, table
<1> QED
  BY <1>1, <1>2, <1>3, <1>5, OthersKeep DEF ZoneInv, table

(* The agent of one node.                                                  *)
LEMMA AgentKeeps ==
  ASSUME ZoneInv, NEW n \in Node, AgentStep(n)
  PROVE  ZoneInv'
<1>t. /\ work[n] \in [version : 0..MaxVersion,
                      step : {"idle", "ensure", "patch", "masters", "retrieve", "wait", "verify"}]
      /\ zone \in [Node -> [kind : {"absent", "primary", "secondary"},
                            primary : Node \cup {None}, loaded : BOOLEAN,
                            records : [RRset -> Value \cup {None}]]]
      /\ asked \subseteq Node
  BY DEF ZoneInv, TypeOK
<1>v. work[n] # Idle => /\ work[n].version \in Version /\ Primary(n) \in Node
                        /\ RecordsOf[work[n].version] \in [RRset -> Value \cup {None}]
  BY ZoneAssumption DEF ZoneInv, TypeOK, WorkInv, Primary, Claimable
<1>p. PartInv(n)
  BY DEF ZoneInv
<1>1. CASE StartSync(n)
  <2>1. NextJob(n) \in Claimable(n) /\ NextJob(n) \in Version
    BY <1>1, NextJobPends DEF StartSync, ZoneInv, TypeOK, Claimable
  <2>2. TypeOK'
    BY <1>1, <2>1 DEF StartSync, ZoneInv, TypeOK, Version, table, faults
  <2>3. /\ work'[n] = [version |-> NextJob(n), step |-> "ensure"]
        /\ \A m \in Node \ {n} : work'[m] = work[m]
        /\ UNCHANGED <<pending, lost, last, zone>>
    BY <1>1 DEF StartSync, ZoneInv, TypeOK, table
  <2>4. WorkInv(n)' /\ PartInv(n)' /\ ReportInv(n)'
    BY <2>1, <2>3 DEF WorkInv, PartInv, ReportInv, At, Claimable
  <2> QED
    BY <2>2, <2>3, <2>4, OthersKeep DEF ZoneInv
<1>2. CASE ensurePrimaryPowerDnsZone(n)
  <2> DEFINE z == IF zone[n].kind = "absent"
                    THEN [NoZone EXCEPT !.kind = "primary", !.loaded = TRUE]
                    ELSE [zone[n] EXCEPT !.kind = "primary"]
  <2>1. work[n] # Idle /\ Primary(n) = n /\ GoTo(n, "patch") /\ zone' = [zone EXCEPT ![n] = z]
        /\ UNCHANGED <<desired, table, asked, faults>>
    BY <1>2 DEF ensurePrimaryPowerDnsZone, At, Idle
  <2>2. /\ z \in [kind : {"absent", "primary", "secondary"}, primary : Node \cup {None},
                  loaded : BOOLEAN, records : [RRset -> Value \cup {None}]]
        /\ z.kind = "primary"
    BY <1>t DEF NoZone, Empty
  <2> HIDE DEF z
  <2>3. zone' \in [Node -> [kind : {"absent", "primary", "secondary"},
                            primary : Node \cup {None}, loaded : BOOLEAN,
                            records : [RRset -> Value \cup {None}]]]
        /\ zone'[n] = z
    BY <1>t, <2>1, <2>2
  <2>4. work'[n].step = "patch" /\ work'[n].version = work[n].version => PartInv(n)'
    BY <2>1, <2>2, <2>3 DEF PartInv, IsPart, At, Primary
  <2> QED
    BY <1>t, <2>1, <2>3, <2>4, JobMoves
<1>3. CASE upsertPrimaryPowerDnsRecords(n)
  <2> DEFINE z == [zone[n] EXCEPT !.records =
                     [r \in RRset |-> IF RecordsOf[work[n].version][r] # None
                                        THEN RecordsOf[work[n].version][r] ELSE @[r]]]
  <2>1. work[n] # Idle /\ work[n].step = "patch" /\ GoTo(n, "verify")
        /\ zone' = [zone EXCEPT ![n] = z]
        /\ UNCHANGED <<desired, table, asked, faults>>
    BY <1>3 DEF upsertPrimaryPowerDnsRecords, At, Idle
  <2>2. /\ z \in [kind : {"absent", "primary", "secondary"}, primary : Node \cup {None},
                  loaded : BOOLEAN, records : [RRset -> Value \cup {None}]]
        /\ z.kind = zone[n].kind /\ z.primary = zone[n].primary
    BY <1>t, <1>v, <2>1
  <2> HIDE DEF z
  <2>3. zone' \in [Node -> [kind : {"absent", "primary", "secondary"},
                            primary : Node \cup {None}, loaded : BOOLEAN,
                            records : [RRset -> Value \cup {None}]]]
        /\ zone'[n] = z
    BY <1>t, <2>1, <2>2
  <2>4. work'[n].step = "verify" /\ work'[n].version = work[n].version => PartInv(n)'
    BY <1>p, <2>1, <2>2, <2>3 DEF PartInv, IsPart, At, Primary
  <2> QED
    BY <1>t, <2>1, <2>3, <2>4, JobMoves
<1>4. CASE ensureSecondaryPowerDnsZone(n) /\ At(n, "ensure")
  <2> DEFINE z == IF zone[n].kind = "absent"
                    THEN [NoZone EXCEPT !.kind = "secondary", !.primary = Primary(n)]
                    ELSE [zone[n] EXCEPT !.kind = "secondary"]
  <2>1. work[n] # Idle /\ Primary(n) # n /\ GoTo(n, "masters") /\ zone' = [zone EXCEPT ![n] = z]
        /\ UNCHANGED <<desired, table, asked, faults>>
    BY <1>4 DEF ensureSecondaryPowerDnsZone, At, Idle
  <2>2. /\ z \in [kind : {"absent", "primary", "secondary"}, primary : Node \cup {None},
                  loaded : BOOLEAN, records : [RRset -> Value \cup {None}]]
        /\ z.kind = "secondary"
    BY <1>t, <1>v, <2>1 DEF NoZone, Empty
  <2> HIDE DEF z
  <2>3. zone' \in [Node -> [kind : {"absent", "primary", "secondary"},
                            primary : Node \cup {None}, loaded : BOOLEAN,
                            records : [RRset -> Value \cup {None}]]]
        /\ zone'[n] = z
    BY <1>t, <2>1, <2>2
  <2>4. work'[n].step = "masters" /\ work'[n].version = work[n].version => PartInv(n)'
    BY <2>1, <2>2, <2>3 DEF PartInv, IsPart, At, Primary
  <2> QED
    BY <1>t, <2>1, <2>3, <2>4, JobMoves
<1>5. CASE ensureSecondaryPowerDnsZone(n) /\ At(n, "masters")
  <2> DEFINE z == [zone[n] EXCEPT !.primary = Primary(n)]
  <2>1. work[n] # Idle /\ work[n].step = "masters" /\ GoTo(n, "retrieve")
        /\ zone' = [zone EXCEPT ![n] = z]
        /\ UNCHANGED <<desired, table, asked, faults>>
    BY <1>5 DEF ensureSecondaryPowerDnsZone, At, Idle
  <2>2. /\ z \in [kind : {"absent", "primary", "secondary"}, primary : Node \cup {None},
                  loaded : BOOLEAN, records : [RRset -> Value \cup {None}]]
        /\ z.kind = zone[n].kind /\ z.primary = Primary(n)
    BY <1>t, <1>v, <2>1
  <2> HIDE DEF z
  <2>3. zone' \in [Node -> [kind : {"absent", "primary", "secondary"},
                            primary : Node \cup {None}, loaded : BOOLEAN,
                            records : [RRset -> Value \cup {None}]]]
        /\ zone'[n] = z
    BY <1>t, <2>1, <2>2
  <2>4. work'[n].step = "retrieve" /\ work'[n].version = work[n].version => PartInv(n)'
    BY <1>p, <2>1, <2>2, <2>3 DEF PartInv, IsPart, At, Primary
  <2> QED
    BY <1>t, <2>1, <2>3, <2>4, JobMoves
<1>6. CASE retrieveSecondaryPowerDnsZone(n)
  <2>1. work[n] # Idle /\ work[n].step = "retrieve" /\ GoTo(n, "wait")
        /\ asked' \subseteq Node
        /\ UNCHANGED <<desired, table, zone, faults>>
    BY <1>6, <1>t DEF retrieveSecondaryPowerDnsZone, At, Idle
  <2>2. work'[n].step = "wait" /\ work'[n].version = work[n].version => PartInv(n)'
    BY <1>p, <2>1 DEF PartInv, IsPart, At, Primary
  <2> QED
    BY <1>t, <2>1, <2>2, JobMoves
<1>7. CASE waitForPowerDnsVerification(n)
  <2>1. work[n] # Idle /\ work[n].step = "wait" /\ UNCHANGED <<desired, zone, asked>>
    BY <1>7 DEF waitForPowerDnsVerification, At, Idle
  <2>2. CASE GoTo(n, "verify") /\ UNCHANGED <<table, faults>>
    <3>1. work'[n].step = "verify" /\ work'[n].version = work[n].version => PartInv(n)'
      BY <1>p, <2>1, <2>2 DEF PartInv, IsPart, At, Primary
    <3> QED
      BY <1>t, <2>1, <2>2, <3>1, JobMoves
  <2>3. CASE Report(n, "failed") /\ (Fails \/ UNCHANGED faults)
    BY <2>1, <2>3, ReportKeeps
  <2> QED
    BY <1>7, <2>2, <2>3 DEF waitForPowerDnsVerification
<1>8. CASE CompleteSync(n)
  <2>1. work[n] # Idle /\ work[n].step = "verify" /\ UNCHANGED <<desired, zone, asked, faults>>
    BY <1>8 DEF CompleteSync, At, Idle
  <2>2. IsPart(n, work[n].version)
    BY <1>p, <2>1 DEF PartInv
  <2> QED
    BY <1>8, <2>1, <2>2, ReportKeeps DEF CompleteSync
<1>9. ensureSecondaryPowerDnsZone(n) => At(n, "ensure") \/ At(n, "masters")
  BY DEF ensureSecondaryPowerDnsZone
<1> QED
  BY <1>1, <1>2, <1>3, <1>4, <1>5, <1>6, <1>7, <1>8, <1>9 DEF AgentStep

(* A job that fails is reported, one of a dead agent stays pending.        *)
LEMMA FaultKeeps ==
  ASSUME ZoneInv, NEW n \in Node, SyncFails(n) \/ Crash(n)
  PROVE  ZoneInv'
<1>1. CASE SyncFails(n)
  BY <1>1, ReportKeeps DEF SyncFails
<1>2. CASE Crash(n)
  <2>1. failures' \in 0..MaxFailures /\ deaths' \in 0..MaxDeaths
    BY <1>2, FaultsTyped DEF Crash
  <2>2. work[n].version \in pending[n] /\ pending[n] \subseteq Version
    BY <1>2 DEF Crash, ZoneInv, TypeOK, WorkInv, Claimable
  <2>3. TypeOK' /\ work'[n] = Idle
        /\ \A m \in Node \ {n} : work'[m] = work[m] /\ lost'[m] = lost[m]
    BY <1>2, <2>1, <2>2, NoJobTyped DEF Crash, ZoneInv, TypeOK
  <2>4. UNCHANGED <<pending, last, zone>>
    BY <1>2 DEF Crash
  <2>5. WorkInv(n)' /\ PartInv(n)' /\ ReportInv(n)'
    BY <2>3, <2>4 DEF ZoneInv, WorkInv, PartInv, ReportInv, IsPart, Holds, At, Idle
  <2> QED
    BY <2>3, <2>4, <2>5, OthersKeep DEF ZoneInv
<1> QED
  BY <1>1, <1>2

(* PowerDNS writes the records of a secondary only, and no other part.     *)
LEMMA TransferKeeps ==
  ASSUME ZoneInv, NEW n \in Node, Transfer(n)
  PROVE  ZoneInv'
<1>1. PICK p \in Node : p = zone[n].primary
  BY DEF Transfer, PrimaryAnswers
<1>2. zone[n].kind = "secondary" /\ UNCHANGED <<desired, table, work, faults>>
  BY DEF Transfer
<1>3. /\ zone' \in [Node -> [kind : {"absent", "primary", "secondary"},
                             primary : Node \cup {None}, loaded : BOOLEAN,
                             records : [RRset -> Value \cup {None}]]]
      /\ zone'[n].kind = zone[n].kind /\ zone'[n].primary = zone[n].primary
      /\ \A m \in Node \ {n} : zone'[m] = zone[m]
  <2> DEFINE z == [zone[n] EXCEPT !.records = zone[p].records, !.loaded = TRUE]
  <2>1. zone \in [Node -> [kind : {"absent", "primary", "secondary"},
                           primary : Node \cup {None}, loaded : BOOLEAN,
                           records : [RRset -> Value \cup {None}]]]
    BY DEF ZoneInv, TypeOK
  <2>2. /\ z \in [kind : {"absent", "primary", "secondary"}, primary : Node \cup {None},
                  loaded : BOOLEAN, records : [RRset -> Value \cup {None}]]
        /\ z.kind = zone[n].kind /\ z.primary = zone[n].primary
    BY <2>1
  <2>3. zone' = [zone EXCEPT ![n] = z]
    BY <1>1, <2>1 DEF Transfer
  <2> HIDE DEF z
  <2> QED
    BY <2>1, <2>2, <2>3
<1>4. TypeOK'
  BY <1>2, <1>3 DEF Transfer, ZoneInv, TypeOK, table, faults
<1>5. WorkInv(n)' /\ PartInv(n)' /\ ReportInv(n)'
  BY <1>2, <1>3 DEF ZoneInv, WorkInv, PartInv, ReportInv, IsPart, At, Primary, Claimable, table
<1> QED
  BY <1>2, <1>3, <1>4, <1>5, OthersKeep DEF ZoneInv, table

(* The inductive invariant of a zone's delivery, types included.           *)
THEOREM ZoneKept == Spec => []ZoneInv
<1>1. ASSUME ZoneInv, [Next]_vars PROVE ZoneInv'
  <2>1. CASE UNCHANGED vars
    BY <1>1, <2>1
    DEF vars, table, faults, ZoneInv, TypeOK, WorkInv, PartInv, ReportInv, IsPart, Holds, At,
        Primary, Claimable
  <2> QED
    BY <1>1, <2>1, PlaneKeeps, AgentKeeps, FaultKeeps, TransferKeeps DEF Next
<1> QED
  BY <1>1, InitZone, PTL DEF Spec

(* dns.sync: what the zone's primary reported applied it is a primary of   *)
(* and holds, until the next job; no transfer overwrites it.               *)
THEOREM PrimariesHold == Spec => []PrimaryHoldsApplied
<1>1. ZoneInv => PrimaryHoldsApplied
  BY DEF ZoneInv, ReportInv, IsPart, PrimaryHoldsApplied
<1> QED
  BY <1>1, ZoneKept, PTL

(* A move of the primary: once all nodes report the desired version, the   *)
(* zone's primary is the only one and the others copy from it.             *)
THEOREM RolesAlwaysMatch == Spec => []RolesMatch
<1>1. ZoneInv => RolesMatch
  BY DEF ZoneInv, ReportInv, IsPart, RolesMatch
<1> QED
  BY <1>1, ZoneKept, PTL
=============================================================================
