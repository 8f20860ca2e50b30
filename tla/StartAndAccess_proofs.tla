-------------------------- MODULE StartAndAccess_proofs -------------------
(***************************************************************************)
(* The proofs about the services whose clients, nodes and operators meet   *)
(* at the control database, one section per module of the model.           *)
(***************************************************************************)
EXTENDS StoreStart, NodeEnrollment, MailboxReveals, DdnsRecords, TLAPS

---------------------------------------------------------------------------
(***************************************************************************)
(* MigratesOnceInOrder and ServesItsSchema for any number of processes and *)
(* any sequence of releases.  A process may work on rows it read long ago: *)
(* the invariant says that what it read is still so, because rows are only *)
(* added, and that everything before its next version is applied as its    *)
(* release has it.                                                         *)
(***************************************************************************)

Ready == {"plan", "migrate", "admin", "serving"}
Done == {"admin", "serving"}
ProcType == [step : {"down", "read", "plan", "migrate", "admin", "serving"},
             release : DOMAIN Migrations,
             seen : [Versions -> Checksum \cup {NotApplied}],
             next : Nat \ {0}, found : BOOLEAN]

ProcInv(p) ==
    /\ proc[p].step \in {"down", "read"} => proc[p].next = 1
    /\ \A v \in Versions : proc[p].step \in Ready /\ proc[p].seen[v] # NotApplied =>
                              applied[v] = proc[p].seen[v]
    /\ \A v \in 1..Len(Files(p)) : v < proc[p].next => applied[v] = Files(p)[v]
    /\ proc[p].step = "migrate" => proc[p].next <= Len(Files(p))
    /\ proc[p].step \in Done => proc[p].next > Len(Files(p))
    /\ proc[p].step = "serving" \/ proc[p].found => admins = 1

AdminInv == admins \in {0, 1}

StoreInv == /\ StoreTypeOK /\ AdminInv /\ MigratesOnceInOrder
            /\ \A p \in Process : ProcInv(p)

LEMMA MigrationFacts ==
  ASSUME NEW r \in DOMAIN Migrations
  PROVE  /\ Migrations[r] \in Seq(Checksum) /\ Len(Migrations[r]) \in Nat
         /\ \A v \in 1..Len(Migrations[r]) :
               v \in Versions /\ Migrations[r][v] \in Checksum
<1>1. Migrations[r] \in Seq(Checksum)
  BY StoreAssumption
<1>2. \A v \in 1..Len(Migrations[r]) : v \in Versions
  BY <1>1 DEF Versions
<1> QED
  BY <1>1, <1>2

LEMMA DownFits == Down \in ProcType /\ Down.step = "down" /\ Down.next = 1 /\ ~Down.found
  <1>1. 1 \in DOMAIN Migrations
    BY StoreAssumption
  <1> QED
    BY <1>1 DEF Down, ProcType

LEMMA StoreInitInv == StoreInit => StoreInv
<1> SUFFICES ASSUME StoreInit PROVE StoreInv
  OBVIOUS
<1>1. StoreTypeOK
  <2>1. 1 \in DOMAIN Migrations
    BY StoreAssumption
  <2>2. proc \in [Process -> ProcType]
    BY DownFits DEF StoreInit
  <2>3. ran \in [Versions -> Seq(Checksum)]
    <3>1. <<>> \in Seq(Checksum)
      OBVIOUS
    <3> QED
      BY <3>1 DEF StoreInit
  <2>4. applied \in [Versions -> Checksum \cup {NotApplied}]
    BY DEF StoreInit
  <2> QED
    BY <2>1, <2>2, <2>3, <2>4 DEF StoreInit, StoreTypeOK, ProcType
<1>2. MigratesOnceInOrder
  BY DEF StoreInit, MigratesOnceInOrder
<1>3. ASSUME NEW p \in Process PROVE ProcInv(p)
  <2>1. proc[p] = Down
    BY DEF StoreInit
  <2> QED
    BY <2>1, DownFits DEF ProcInv, Ready, Done
<1> QED
  BY <1>1, <1>2, <1>3 DEF StoreInv, AdminInv, StoreInit

(* A process that moves on alone, with the database as it is.              *)
LEMMA OneProcessMoves ==
  ASSUME StoreInv, UNCHANGED <<applied, ran, admins>>,
         release' \in DOMAIN Migrations, steady' \in BOOLEAN,
         NEW p \in Process, NEW r \in ProcType, proc' = [proc EXCEPT ![p] = r],
         ProcInv(p)'
  PROVE  StoreInv'
<1>1. proc \in [Process -> ProcType]
  BY DEF StoreInv, StoreTypeOK, ProcType
<1>2. proc' \in [Process -> ProcType] /\ \A q \in Process \ {p} : proc'[q] = proc[q]
  BY <1>1
<1>3. StoreTypeOK'
  BY <1>2 DEF StoreInv, StoreTypeOK, ProcType
<1>4. \A q \in Process \ {p} : ProcInv(q)'
  BY <1>2 DEF StoreInv, ProcInv, Files
<1> QED
  BY <1>3, <1>4 DEF StoreInv, AdminInv, MigratesOnceInOrder

LEMMA ExitKeeps ==
  ASSUME StoreInv, NEW p \in Process, Exit(p),
         UNCHANGED <<release, applied, ran, admins, steady>>
  PROVE  StoreInv'
<1>1. ProcInv(p)'
  <2>1. proc'[p] = Down
    BY DEF Exit, StoreInv, StoreTypeOK
  <2> QED
    BY <2>1, DownFits DEF ProcInv, Ready, Done
<1> QED
  BY <1>1, DownFits, OneProcessMoves DEF Exit, StoreInv, StoreTypeOK

LEMMA LaunchKeeps ==
  ASSUME StoreInv, NEW p \in Process, Launch(p)
  PROVE  StoreInv'
<1> DEFINE r == [proc[p] EXCEPT !.step = "read", !.release = release]
<1>1. /\ proc[p].step = "down" /\ proc[p] \in ProcType
      /\ UNCHANGED <<release, applied, ran, admins, steady>>
  BY DEF Launch, StoreInv, StoreTypeOK, ProcType
<1>2. proc' = [proc EXCEPT ![p] = r]
  BY DEF Launch
<1>3. /\ r \in ProcType /\ r.step = "read" /\ r.next = proc[p].next
      /\ r.found = proc[p].found
  BY <1>1 DEF ProcType, StoreInv, StoreTypeOK
<1> HIDE DEF r
<1>4. proc'[p] = r
  BY <1>2 DEF StoreInv, StoreTypeOK
<1>5. ProcInv(p)'
  <2>1. r.next = 1 /\ (r.found => admins = 1)
    BY <1>1, <1>3 DEF StoreInv, ProcInv
  <2> QED
    BY <1>1, <1>3, <1>4, <2>1 DEF ProcInv, Ready, Done
<1> QED
  BY <1>1, <1>2, <1>3, <1>5, OneProcessMoves DEF StoreInv, StoreTypeOK

LEMMA ReadAppliedKeeps ==
  ASSUME StoreInv, NEW p \in Process, ReadApplied(p)
  PROVE  StoreInv'
<1> DEFINE r == [proc[p] EXCEPT !.step = "plan", !.seen = applied]
<1>1. /\ proc[p].step = "read" /\ proc[p] \in ProcType
      /\ UNCHANGED <<release, applied, ran, admins, steady>>
  BY DEF ReadApplied, StoreInv, StoreTypeOK, ProcType
<1>2. proc' = [proc EXCEPT ![p] = r]
  BY DEF ReadApplied
<1>3. /\ r \in ProcType /\ r.step = "plan" /\ r.next = proc[p].next
      /\ r.found = proc[p].found /\ r.seen = applied /\ r.release = proc[p].release
  BY <1>1 DEF ProcType, StoreInv, StoreTypeOK
<1> HIDE DEF r
<1>4. proc'[p] = r
  BY <1>2 DEF StoreInv, StoreTypeOK
<1>5. ProcInv(p)'
  <2>1. r.next = 1 /\ (r.found => admins = 1)
    BY <1>1, <1>3 DEF StoreInv, ProcInv
  <2> QED
    BY <1>1, <1>3, <1>4, <2>1 DEF ProcInv, Ready, Done
<1> QED
  BY <1>1, <1>2, <1>3, <1>5, OneProcessMoves DEF StoreInv, StoreTypeOK

(* A migration that was read as applied is still applied as it was read.   *)
LEMMA SkipAppliedKeeps ==
  ASSUME StoreInv, NEW p \in Process, SkipApplied(p)
  PROVE  StoreInv'
<1> DEFINE n == proc[p].next
           r == [proc[p] EXCEPT !.next = n + 1]
<1>1. /\ proc[p].step = "plan" /\ n <= Len(Files(p)) /\ proc[p].seen[n] # NotApplied
      /\ proc[p] \in ProcType /\ UNCHANGED <<release, applied, ran, admins, steady>>
  BY DEF SkipApplied, More, Seen, StoreInv, StoreTypeOK, ProcType
<1>2. CASE proc[p].seen[n] = Files(p)[n]
  <2>1. proc' = [proc EXCEPT ![p] = r]
    BY <1>2 DEF SkipApplied, Seen
  <2>2. /\ r \in ProcType /\ r.next = n + 1 /\ r.step = "plan" /\ n \in Nat \ {0}
        /\ r.release = proc[p].release /\ r.seen = proc[p].seen /\ r.found = proc[p].found
    BY <1>1 DEF ProcType
  <2> HIDE DEF r
  <2>3. proc'[p] = r /\ Files(p)' = Files(p)
    BY <2>1, <2>2 DEF StoreInv, StoreTypeOK, Files
  <2>4. Len(Files(p)) \in Nat /\ n \in Versions
    BY <1>1, <2>2, MigrationFacts DEF ProcType, Files
  <2>5. applied[n] = Files(p)[n]
    BY <1>1, <1>2, <2>4 DEF StoreInv, ProcInv, Ready
  <2>6. \A v \in 1..Len(Files(p)) : v < n + 1 => applied[v] = Files(p)[v]
    <3> SUFFICES ASSUME NEW v \in 1..Len(Files(p)), v < n + 1 PROVE applied[v] = Files(p)[v]
      OBVIOUS
    <3>1. v < n \/ v = n
      BY <2>2, <2>4
    <3> QED
      BY <2>5, <3>1 DEF StoreInv, ProcInv
  <2>7. ProcInv(p)'
    BY <1>1, <2>2, <2>3, <2>6 DEF StoreInv, ProcInv, Ready, Done
  <2> QED
    BY <1>1, <2>1, <2>2, <2>7, OneProcessMoves DEF StoreInv, StoreTypeOK
<1>3. CASE proc[p].seen[n] # Files(p)[n]
  BY <1>1, <1>3, ExitKeeps DEF SkipApplied, Seen
<1> QED
  BY <1>2, <1>3

LEMMA BeginMigrationKeeps ==
  ASSUME StoreInv, NEW p \in Process, BeginMigration(p)
  PROVE  StoreInv'
<1> DEFINE r == [proc[p] EXCEPT !.step = "migrate"]
<1>1. /\ proc[p].step = "plan" /\ proc[p].next <= Len(Files(p)) /\ proc[p] \in ProcType
      /\ UNCHANGED <<release, applied, ran, admins, steady>>
  BY DEF BeginMigration, More, StoreInv, StoreTypeOK, ProcType
<1>2. proc' = [proc EXCEPT ![p] = r]
  BY DEF BeginMigration, Goes
<1>3. /\ r \in ProcType /\ r.step = "migrate" /\ r.next = proc[p].next
      /\ r.release = proc[p].release /\ r.seen = proc[p].seen /\ r.found = proc[p].found
  BY <1>1 DEF ProcType
<1> HIDE DEF r
<1>4. proc'[p] = r /\ Files(p)' = Files(p)
  BY <1>2, <1>3 DEF StoreInv, StoreTypeOK, Files
<1>5. ProcInv(p)'
  BY <1>1, <1>3, <1>4 DEF StoreInv, ProcInv, Ready, Done
<1> QED
  BY <1>1, <1>2, <1>3, <1>5, OneProcessMoves DEF StoreInv, StoreTypeOK

LEMMA FindAdminKeeps ==
  ASSUME StoreInv, NEW p \in Process, FindAdmin(p)
  PROVE  StoreInv'
<1>0. PICK b \in BOOLEAN : b = (admins > 0) /\ (b => admins = 1)
  <2>1. CASE admins = 0
    <3>1. (admins > 0) = FALSE
      BY <2>1
    <3> QED
      BY <2>1, <3>1
  <2>2. CASE admins = 1
    <3>1. (admins > 0) = TRUE
      BY <2>2
    <3> QED
      BY <2>2, <3>1
  <2> QED
    BY <2>1, <2>2 DEF StoreInv, AdminInv
<1> DEFINE r == [proc[p] EXCEPT !.step = "admin", !.found = b]
<1>1. /\ proc[p].step = "plan" /\ ~(proc[p].next <= Len(Files(p))) /\ proc[p] \in ProcType
      /\ UNCHANGED <<release, applied, ran, admins, steady>>
  BY DEF FindAdmin, More, StoreInv, StoreTypeOK, ProcType
<1>2. proc' = [proc EXCEPT ![p] = r]
  BY <1>0 DEF FindAdmin
<1>3. /\ r \in ProcType /\ r.step = "admin" /\ r.next = proc[p].next
      /\ r.release = proc[p].release /\ r.seen = proc[p].seen /\ r.found = b
  BY <1>1 DEF ProcType
<1> HIDE DEF r
<1>4. proc'[p] = r /\ Files(p)' = Files(p)
  BY <1>2, <1>3 DEF StoreInv, StoreTypeOK, Files
<1>5. Len(Files(p)) \in Nat /\ proc[p].next \in Nat
  BY <1>1, MigrationFacts DEF ProcType, Files
<1>6. r.found => admins = 1
  BY <1>0, <1>3
<1>7. ProcInv(p)'
  BY <1>1, <1>3, <1>4, <1>5, <1>6 DEF StoreInv, ProcInv, Ready, Done
<1> QED
  BY <1>1, <1>2, <1>3, <1>7, OneProcessMoves DEF StoreInv, StoreTypeOK

(* The SQL and its row: only where there was none, after all before it.    *)
LEMMA CommitMigrationKeeps ==
  ASSUME StoreInv, NEW p \in Process, CommitMigration(p)
  PROVE  StoreInv'
<1> DEFINE n == proc[p].next
           sum == Files(p)[n]
<1>1. /\ proc[p].step = "migrate" /\ proc[p] \in ProcType
      /\ UNCHANGED <<release, admins, steady>>
  BY DEF CommitMigration, StoreInv, StoreTypeOK, ProcType
<1>2. /\ Len(Files(p)) \in Nat /\ n \in 1..Len(Files(p)) /\ n \in Versions
      /\ \A v \in 1..Len(Files(p)) : v \in Versions /\ Files(p)[v] \in Checksum
  <2>1. proc[p].release \in DOMAIN Migrations /\ n \in Nat \ {0} /\ n <= Len(Files(p))
    BY <1>1 DEF ProcType, StoreInv, ProcInv
  <2> QED
    BY <2>1, MigrationFacts DEF Files
<1>3. CASE applied[n] = NotApplied
  <2>0. PICK m \in Nat \ {0} : m = n + 1
    BY <1>2
  <2> DEFINE r == [proc[p] EXCEPT !.step = "plan", !.next = m]
  <2>1. /\ applied' = [applied EXCEPT ![n] = sum]
        /\ ran' = [ran EXCEPT ![n] = Append(@, sum)]
        /\ proc' = [proc EXCEPT ![p] = r]
    BY <1>3, <2>0 DEF CommitMigration
  <2>2. /\ r \in ProcType /\ r.step = "plan" /\ r.next = m
        /\ r.release = proc[p].release /\ r.seen = proc[p].seen /\ r.found = proc[p].found
    BY <1>1 DEF ProcType
  <2>3. ran[n] = <<>> /\ sum \in Checksum /\ sum # NotApplied
    BY <1>2, <1>3, StoreAssumption DEF StoreInv, MigratesOnceInOrder
  <2> HIDE DEF r, sum
  <2>4. /\ applied'[n] = sum /\ ran'[n] = <<sum>>
        /\ \A v \in Versions \ {n} : applied'[v] = applied[v] /\ ran'[v] = ran[v]
    BY <1>2, <2>1, <2>3 DEF StoreInv, StoreTypeOK
  <2>5. /\ proc'[p] = r /\ \A q \in Process \ {p} : proc'[q] = proc[q]
        /\ \A q \in Process : Files(q)' = Files(q)
    BY <2>1, <2>2 DEF StoreInv, StoreTypeOK, Files
  <2>6. StoreTypeOK'
    <3>1. proc' \in [Process -> ProcType]
      BY <2>1, <2>2 DEF StoreInv, StoreTypeOK, ProcType
    <3>2. applied' \in [Versions -> Checksum \cup {NotApplied}]
      BY <1>2, <2>1, <2>3 DEF StoreInv, StoreTypeOK
    <3>3. ran' \in [Versions -> Seq(Checksum)]
      <4>1. Append(ran[n], sum) \in Seq(Checksum)
        BY <1>2, <2>3 DEF StoreInv, StoreTypeOK
      <4> QED
        BY <1>2, <2>1, <4>1 DEF StoreInv, StoreTypeOK
    <3> QED
      BY <1>1, <3>1, <3>2, <3>3 DEF StoreInv, StoreTypeOK, ProcType
  <2>7. \A q \in Process : \A v \in 1..Len(Files(q)) : v \in Versions /\ Files(q)[v] \in Checksum
    BY MigrationFacts DEF Files, StoreInv, StoreTypeOK
  <2>8. MigratesOnceInOrder'
    <3> SUFFICES ASSUME NEW v \in Versions
                 PROVE  /\ ran'[v] = IF applied'[v] = NotApplied THEN <<>> ELSE <<applied'[v]>>
                        /\ v > 1 /\ applied'[v] # NotApplied => applied'[v - 1] # NotApplied
      BY DEF MigratesOnceInOrder
    <3>1. CASE v = n
      <4>1. n > 1 => n - 1 \in 1..Len(Files(p)) /\ n - 1 < n /\ n - 1 # n
        BY <1>2
      <4>2. n > 1 => applied[n - 1] \in Checksum /\ n - 1 \in Versions \ {n}
        BY <1>2, <4>1 DEF StoreInv, ProcInv
      <4>3. n > 1 => applied'[n - 1] # NotApplied
        BY <2>4, <4>2, StoreAssumption
      <4> QED
        BY <2>3, <2>4, <3>1, <4>3
    <3>2. CASE v # n
      <4>1. /\ ran[v] = IF applied[v] = NotApplied THEN <<>> ELSE <<applied[v]>>
            /\ v > 1 /\ applied[v] # NotApplied => applied[v - 1] # NotApplied
        BY DEF StoreInv, MigratesOnceInOrder
      <4>2. v > 1 => v - 1 \in Versions
        <5>1. PICK s \in DOMAIN Migrations : v \in DOMAIN Migrations[s]
          BY DEF Versions
        <5> QED
          BY <5>1, MigrationFacts
      <4>3. v > 1 /\ applied[v - 1] # NotApplied => applied'[v - 1] # NotApplied
        BY <2>3, <2>4, <4>2
      <4> QED
        BY <2>4, <3>2, <4>1, <4>3
    <3> QED
      BY <3>1, <3>2
  <2>9. ASSUME NEW q \in Process PROVE ProcInv(q)'
    <3>1. \A v \in Versions : applied[v] # NotApplied => applied'[v] = applied[v]
      BY <1>3, <2>4
    <3>2. /\ \A v \in Versions : proc[q].step \in Ready /\ proc[q].seen[v] # NotApplied =>
                                    applied'[v] = proc[q].seen[v]
          /\ \A v \in 1..Len(Files(q)) : v < proc[q].next => applied'[v] = Files(q)[v]
      <4>1. /\ \A v \in Versions : proc[q].step \in Ready /\ proc[q].seen[v] # NotApplied =>
                                      applied[v] = proc[q].seen[v]
            /\ \A v \in 1..Len(Files(q)) : v < proc[q].next => applied[v] = Files(q)[v]
        BY DEF StoreInv, ProcInv
      <4> QED
        BY <2>7, <3>1, <4>1, StoreAssumption
    <3>3. CASE q # p
      BY <1>1, <2>5, <3>2, <3>3 DEF StoreInv, ProcInv
    <3>4. CASE q = p
      <4>1. \A v \in 1..Len(Files(p)) : v < n + 1 => applied'[v] = Files(p)[v]
        <5> SUFFICES ASSUME NEW v \in 1..Len(Files(p)), v < n + 1
                     PROVE  applied'[v] = Files(p)[v]
          OBVIOUS
        <5>1. v < n \/ v = n
          BY <1>2
        <5> QED
          BY <2>4, <3>2, <3>4, <5>1 DEF sum
      <4>2. \A v \in Versions : proc[p].seen[v] # NotApplied => applied'[v] = proc[p].seen[v]
        BY <1>1, <3>2, <3>4 DEF Ready
      <4> QED
        BY <1>1, <2>0, <2>2, <2>5, <3>4, <4>1, <4>2 DEF StoreInv, ProcInv, Ready, Done
    <3> QED
      BY <3>3, <3>4
  <2> QED
    BY <1>1, <2>6, <2>8, <2>9 DEF StoreInv, AdminInv
<1>4. CASE applied[n] # NotApplied
  BY <1>1, <1>4, ExitKeeps DEF CommitMigration
<1> QED
  BY <1>3, <1>4

LEMMA EnsureAdminKeeps ==
  ASSUME StoreInv, NEW p \in Process, EnsureAdmin(p)
  PROVE  StoreInv'
<1> DEFINE r == [proc[p] EXCEPT !.step = "serving"]
<1>1. /\ proc[p].step = "admin" /\ proc[p] \in ProcType
      /\ UNCHANGED <<release, applied, ran, steady>>
  BY DEF EnsureAdmin, StoreInv, StoreTypeOK, ProcType
<1>2. CASE proc[p].found \/ admins = 0
  <2>1. proc' = [proc EXCEPT ![p] = r] /\ admins' = 1
    <3>1. proc[p].found => admins = 1
      BY DEF StoreInv, ProcInv
    <3> QED
      BY <1>2, <3>1 DEF EnsureAdmin, Goes
  <2>2. /\ r \in ProcType /\ r.step = "serving" /\ r.next = proc[p].next
        /\ r.release = proc[p].release /\ r.seen = proc[p].seen /\ r.found = proc[p].found
    BY <1>1 DEF ProcType
  <2> HIDE DEF r
  <2>3. /\ proc'[p] = r /\ \A q \in Process \ {p} : proc'[q] = proc[q]
        /\ \A q \in Process : Files(q)' = Files(q)
    BY <2>1, <2>2 DEF StoreInv, StoreTypeOK, Files
  <2>4. StoreTypeOK'
    <3>1. proc' \in [Process -> ProcType]
      BY <2>1, <2>2 DEF StoreInv, StoreTypeOK, ProcType
    <3> QED
      BY <1>1, <2>1, <3>1 DEF StoreInv, StoreTypeOK, ProcType
  <2>5. \A q \in Process : ProcInv(q)'
    BY <1>1, <2>1, <2>2, <2>3 DEF StoreInv, ProcInv, Ready, Done
  <2> QED
    BY <1>1, <2>1, <2>4, <2>5 DEF StoreInv, AdminInv, MigratesOnceInOrder
<1>3. CASE ~proc[p].found /\ admins # 0
  BY <1>1, <1>3, ExitKeeps DEF EnsureAdmin
<1> QED
  BY <1>2, <1>3

(* Deployments and the end of them touch neither rows nor processes.       *)
LEMMA ElsewhereKeeps ==
  ASSUME StoreInv, UNCHANGED <<applied, ran, admins, proc>>,
         release' \in DOMAIN Migrations, steady' \in BOOLEAN
  PROVE  StoreInv'
<1>1. StoreTypeOK' /\ AdminInv' /\ MigratesOnceInOrder'
  BY DEF StoreInv, StoreTypeOK, AdminInv, MigratesOnceInOrder
<1>2. \A p \in Process : ProcInv(p)'
  BY DEF StoreInv, ProcInv, Files
<1> QED
  BY <1>1, <1>2 DEF StoreInv

LEMMA StoreStepInv == StoreInv /\ [StoreNext]_storeVars => StoreInv'
<1> SUFFICES ASSUME StoreInv, [StoreNext]_storeVars PROVE StoreInv'
  OBVIOUS
<1>1. CASE \E p \in Process : StartStep(p)
  BY <1>1, LaunchKeeps, ReadAppliedKeeps, SkipAppliedKeeps, BeginMigrationKeeps,
     CommitMigrationKeeps, FindAdminKeeps, EnsureAdminKeeps DEF StartStep
<1>2. CASE \E p \in Process : ProcessDies(p) \/ RestartForRelease(p)
  BY <1>2, ExitKeeps DEF ProcessDies, RestartForRelease
<1>3. CASE StoreSteady \/ \E r \in DOMAIN Migrations : Deploy(r)
  BY <1>3, ElsewhereKeeps DEF StoreSteady, Deploy, StoreInv, StoreTypeOK
<1>4. CASE UNCHANGED storeVars
  BY <1>4, ElsewhereKeeps DEF storeVars, StoreInv, StoreTypeOK
<1> QED
  BY <1>1, <1>2, <1>3, <1>4 DEF StoreNext

(* runControlDatabaseMigrations: however many processes start at once, the *)
(* SQL of a version commits once, with its row, after those before it.     *)
THEOREM SchemaMigratesOnceInOrder == StoreSpec => []MigratesOnceInOrder
<1>1. StoreInv => MigratesOnceInOrder
  BY DEF StoreInv
<1> QED
  BY StoreInitInv, StoreStepInv, <1>1, PTL DEF StoreSpec

(* A process serves after its last migration, and what it went past is     *)
(* applied as its own release has it.                                      *)
LEMMA OwnSchemaServed == StoreInv => ServesItsSchema
<1> SUFFICES ASSUME StoreInv, NEW p \in Process, proc[p].step = "serving"
             PROVE  (\A v \in 1..Len(Files(p)) : ran[v] = <<Files(p)[v]>>) /\ admins = 1
  BY DEF ServesItsSchema
<1>1. ASSUME NEW v \in 1..Len(Files(p)) PROVE ran[v] = <<Files(p)[v]>>
  <2>1. /\ Len(Files(p)) \in Nat /\ v \in Versions /\ Files(p)[v] \in Checksum
        /\ proc[p].next \in Nat
    BY MigrationFacts DEF Files, StoreInv, StoreTypeOK
  <2>2. v < proc[p].next
    BY <2>1 DEF StoreInv, ProcInv, Done
  <2>3. applied[v] = Files(p)[v]
    BY <2>2 DEF StoreInv, ProcInv
  <2>4. applied[v] # NotApplied
    BY <2>1, <2>3, StoreAssumption
  <2> QED
    BY <2>1, <2>3, <2>4 DEF StoreInv, MigratesOnceInOrder
<1> QED
  BY <1>1 DEF StoreInv, ProcInv

(* createPostgresControlPlaneStore: who serves has every migration of its  *)
(* own release, with that release's contents, and one administrator.       *)
THEOREM ServesOnlyItsSchema == StoreSpec => []ServesItsSchema
BY StoreInitInv, StoreStepInv, OwnSchemaServed, PTL DEF StoreSpec

---------------------------------------------------------------------------
(***************************************************************************)
(* LockedOutOnlyByLoss for any number of tokens and overlapping calls.  It *)
(* is strengthened by where a token may be on its way: only in the answer  *)
(* of the agent's own call or in the cycle that is about to save it.  Any  *)
(* other token that is issued is lost at that moment.                      *)
(***************************************************************************)

TokenOrNone == Token \cup {NoToken}

CallType == [step : {"free", "sent", "issue", "accepted", "refused"},
             presents : Token \cup {Bootstrap, NoToken}, reply : TokenOrNone]

(* The agent has a call exactly while it registers, with the token that    *)
(* was in its file when the cycle began.                                   *)
AgentInv ==
    /\ agent.call # NoCall <=> agent.step = "register"
    /\ agent.step = "register" => agent.token = identity

(* Only the answer of an issued token carries one.                         *)
ReplyInv ==
    \A c \in Call : call[c].step # "accepted" => call[c].reply = NoToken

(* Without a loss, a token on its way is the stored one.                   *)
OnItsWay ==
    ~lost => /\ agent.step = "register" /\ Answer.reply # NoToken => Answer.reply = credential
             /\ agent.step = "save" => agent.token \in {identity, credential}

EnrolInv == EnrolTypeOK /\ AgentInv /\ ReplyInv /\ OnItsWay /\ LockedOutOnlyByLoss

(* What of a call an agent that ends without it leaves to the server.      *)
LEMMA Abandons ==
  ASSUME EnrolInv, NEW d \in Call \cup {NoCall}, call' = Abandon(d)
  PROVE  /\ call' \in [Call -> CallType]
         /\ \A c \in Call : call'[c].step # "accepted" => call'[c].reply = NoToken
  BY DEF EnrolInv, EnrolTypeOK, ReplyInv, Abandon, CallType, TokenOrNone, Free

LEMMA EnrolInitInv == EnrolInit => EnrolInv
<1> SUFFICES ASSUME EnrolInit PROVE EnrolInv
  OBVIOUS
<1> USE EnrollmentAssumption
<1>1. agent.step = "down" /\ agent.call = NoCall /\ credential = NoToken
  BY DEF EnrolInit, Stopped
<1>2. EnrolTypeOK
  BY DEF EnrolInit, EnrolTypeOK, Stopped, Free
<1>3. AgentInv /\ ReplyInv /\ OnItsWay
  BY <1>1 DEF EnrolInit, AgentInv, ReplyInv, OnItsWay, Free
<1> QED
  BY <1>1, <1>2, <1>3 DEF EnrolInv, LockedOutOnlyByLoss

LEMMA StartCycleKeeps ==
  ASSUME EnrolInv, StartCycle
  PROVE  EnrolInv'
<1> USE EnrollmentAssumption
<1>1. /\ agent.step = "idle" /\ agent.call = NoCall /\ identity' = identity
      /\ UNCHANGED <<credential, issued, lost, quiet>>
  BY DEF StartCycle, BeginCycle, EnrolInv, AgentInv
<1>2. CASE ~MustRegister
  <2>1. agent' = [agent EXCEPT !.step = "save", !.token = identity] /\ call' = call
    BY <1>2 DEF StartCycle, BeginCycle
  <2> QED
    BY <1>1, <2>1 DEF EnrolInv, EnrolTypeOK, AgentInv, ReplyInv, OnItsWay,
                      LockedOutOnlyByLoss
<1>3. CASE MustRegister
  <2>1. PICK c \in Call :
          /\ call[c] = Free
          /\ call' = [call EXCEPT ![c].step = "sent",
                                  ![c].presents = IF identity = NoToken
                                                    THEN Bootstrap ELSE identity]
          /\ agent' = [step |-> "register", token |-> identity, call |-> c, due |-> FALSE]
    BY <1>3 DEF StartCycle, BeginCycle
  <2>2. /\ call'[c].step = "sent" /\ call'[c].reply = NoToken
        /\ \A d \in Call \ {c} : call'[d] = call[d]
    BY <2>1 DEF EnrolInv, EnrolTypeOK, Free
  <2>3. EnrolTypeOK'
    BY <1>1, <2>1 DEF EnrolInv, EnrolTypeOK, Free
  <2>4. AgentInv' /\ ReplyInv' /\ OnItsWay'
    BY <1>1, <2>1, <2>2 DEF EnrolInv, AgentInv, ReplyInv, OnItsWay, Answer
  <2>5. LockedOutOnlyByLoss'
    BY <1>1 DEF EnrolInv, LockedOutOnlyByLoss
  <2> QED
    BY <2>3, <2>4, <2>5 DEF EnrolInv
<1> QED
  BY <1>2, <1>3

(* The answer of the agent's own call: a token goes into the cycle.        *)
LEMMA RegisteredKeeps ==
  ASSUME EnrolInv, Registered
  PROVE  EnrolInv'
<1> USE EnrollmentAssumption
<1>1. /\ agent.step = "register" /\ agent.call \in Call /\ agent.token = identity
      /\ Answer.step = "accepted"
      /\ UNCHANGED <<credential, issued, identity, lost, quiet>>
  BY DEF Registered, EnrolInv, EnrolTypeOK, AgentInv
<1>2. agent' = [agent EXCEPT !.step = "save", !.call = NoCall,
                             !.token = IF Answer.reply # NoToken THEN Answer.reply ELSE @]
  BY DEF Registered
<1>3. call' = [call EXCEPT ![agent.call] = Free]
  BY DEF Registered
<1>4. EnrolTypeOK'
  BY <1>1, <1>2, <1>3 DEF EnrolInv, EnrolTypeOK, Free, Answer
<1>5. AgentInv' /\ ReplyInv'
  BY <1>1, <1>2, <1>3 DEF EnrolInv, EnrolTypeOK, AgentInv, ReplyInv, Free
<1>6. /\ agent'.step = "save" /\ agent'.call = NoCall
      /\ agent'.token = IF Answer.reply # NoToken THEN Answer.reply ELSE identity
  BY <1>1, <1>2 DEF EnrolInv, EnrolTypeOK
<1>7. OnItsWay'
  BY <1>1, <1>6 DEF EnrolInv, OnItsWay
<1>8. LockedOutOnlyByLoss'
  BY <1>1, <1>6 DEF EnrolInv, LockedOutOnlyByLoss, OnItsWay, AgentInv
<1> QED
  BY <1>4, <1>5, <1>7, <1>8 DEF EnrolInv

LEMMA RejectedKeeps ==
  ASSUME EnrolInv, Rejected
  PROVE  EnrolInv'
<1> USE EnrollmentAssumption
<1>1. /\ agent.step = "register" /\ agent.call \in Call /\ Answer.step = "refused"
      /\ agent' = [agent EXCEPT !.step = "idle", !.call = NoCall]
      /\ call' = [call EXCEPT ![agent.call] = Free]
      /\ UNCHANGED <<credential, issued, identity, lost, quiet>>
  BY DEF Rejected, EnrolInv, EnrolTypeOK, AgentInv
<1> QED
  BY <1>1 DEF EnrolInv, EnrolTypeOK, AgentInv, ReplyInv, OnItsWay, LockedOutOnlyByLoss, Free

LEMMA SaveIdentityKeeps ==
  ASSUME EnrolInv, SaveIdentity
  PROVE  EnrolInv'
<1>1. /\ agent.step = "save" /\ agent.call = NoCall
      /\ UNCHANGED <<credential, issued, call, lost, quiet>>
      /\ agent' = [agent EXCEPT !.step = IF agent.token = NoToken THEN "idle" ELSE "claim"]
      /\ identity' = IF agent.token = NoToken THEN identity ELSE agent.token
  BY DEF SaveIdentity, EnrolInv, AgentInv
<1>2. agent'.step \in {"idle", "claim"} /\ agent'.call = NoCall
  BY <1>1 DEF EnrolInv, EnrolTypeOK
<1> QED
  BY <1>1, <1>2 DEF EnrolInv, EnrolTypeOK, AgentInv, ReplyInv, OnItsWay, LockedOutOnlyByLoss

(* Claiming, a new snapshot, a start: nothing that a token is in changes.  *)
LEMMA QuietStepsKeep ==
  ASSUME EnrolInv, Claim \/ SnapshotGetsOld \/ AgentStarts \/ EnrolQuiet
  PROVE  EnrolInv'
<1> USE EnrollmentAssumption
<1>1. CASE Claim \/ SnapshotGetsOld \/ AgentStarts
  <2>1. UNCHANGED <<credential, issued, identity, call, lost, quiet>>
    BY <1>1 DEF Claim, SnapshotGetsOld, AgentStarts
  <2>2. agent.step \in {"claim", "idle", "down"} /\ agent'.step = "idle"
    BY <1>1 DEF Claim, SnapshotGetsOld, AgentStarts, Stopped, EnrolInv, EnrolTypeOK
  <2>3. agent'.call = NoCall
    BY <1>1, <2>2 DEF Claim, SnapshotGetsOld, AgentStarts, Stopped, EnrolInv, EnrolTypeOK,
                      AgentInv
  <2>4. EnrolTypeOK'
    BY <1>1, <2>1 DEF Claim, SnapshotGetsOld, AgentStarts, Stopped, EnrolInv, EnrolTypeOK
  <2> QED
    BY <2>1, <2>2, <2>3, <2>4 DEF EnrolInv, AgentInv, ReplyInv, OnItsWay, LockedOutOnlyByLoss
<1>2. CASE EnrolQuiet
  BY <1>2 DEF EnrolQuiet, EnrolInv, EnrolTypeOK, AgentInv, ReplyInv, OnItsWay,
              LockedOutOnlyByLoss, Answer
<1> QED
  BY <1>1, <1>2

(* An agent that gives a call up or dies loses the token it had and not    *)
(* yet saved.                                                              *)
LEMMA GivingUpKeeps ==
  ASSUME EnrolInv, ConnectionBreaks \/ AgentDies
  PROVE  EnrolInv'
<1> USE EnrollmentAssumption
<1>1. /\ lost' = (lost \/ HoldsNewToken) /\ call' = Abandon(agent.call)
      /\ UNCHANGED <<credential, issued, identity, quiet>>
  BY DEF ConnectionBreaks, AgentDies
<1>2. agent'.step \in {"idle", "down"} /\ agent'.call = NoCall
  <2>1. CASE ConnectionBreaks
    BY <2>1 DEF ConnectionBreaks, EnrolInv, EnrolTypeOK
  <2>2. CASE AgentDies
    BY <2>2 DEF AgentDies, Stopped
  <2> QED
    BY <2>1, <2>2
<1>3. /\ call' \in [Call -> CallType]
      /\ \A c \in Call : call'[c].step # "accepted" => call'[c].reply = NoToken
  BY <1>1, Abandons DEF EnrolInv, EnrolTypeOK
<1>4. lost' \in BOOLEAN
  BY <1>1 DEF EnrolInv, EnrolTypeOK
<1>5. EnrolTypeOK'
  <2>1. agent' \in [step : {"down", "idle", "register", "save", "claim"},
                    token : Token \cup {NoToken}, call : Call \cup {NoCall}, due : BOOLEAN]
    <3>1. CASE ConnectionBreaks
      BY <3>1 DEF ConnectionBreaks, EnrolInv, EnrolTypeOK
    <3>2. CASE AgentDies
      BY <3>2 DEF AgentDies, Stopped
    <3> QED
      BY <3>1, <3>2
  <2> QED
    BY <1>1, <1>3, <1>4, <2>1 DEF EnrolInv, EnrolTypeOK, CallType, TokenOrNone
<1>6. AgentInv' /\ ReplyInv' /\ OnItsWay'
  BY <1>2, <1>3 DEF AgentInv, ReplyInv, OnItsWay
<1>7. LockedOutOnlyByLoss'
  BY <1>1 DEF EnrolInv, AgentInv, LockedOutOnlyByLoss, HoldsNewToken
<1> QED
  BY <1>5, <1>6, <1>7 DEF EnrolInv

LEMMA ReadCredentialKeeps ==
  ASSUME EnrolInv, NEW c \in Call, ReadCredential(c)
  PROVE  EnrolInv'
<1>1. /\ call[c].step = "sent" /\ UNCHANGED <<credential, issued, identity, agent, lost, quiet>>
      /\ \E step \in {"accepted", "refused", "issue"} :
            call' = [call EXCEPT ![c].step = step]
  BY DEF ReadCredential
<1>2. call[c].reply = NoToken
  BY <1>1 DEF EnrolInv, ReplyInv
<1>3. /\ EnrolTypeOK'
      /\ \A d \in Call : call'[d].reply = call[d].reply
      /\ \A d \in Call \ {c} : call'[d] = call[d]
  BY <1>1 DEF EnrolInv, EnrolTypeOK
<1>4. AgentInv' /\ ReplyInv'
  BY <1>1, <1>2, <1>3 DEF EnrolInv, AgentInv, ReplyInv
<1>5. OnItsWay'
  BY <1>1, <1>3 DEF EnrolInv, EnrolTypeOK, AgentInv, OnItsWay, Answer
<1>6. LockedOutOnlyByLoss'
  BY <1>1, <1>3 DEF EnrolInv, EnrolTypeOK, LockedOutOnlyByLoss, Answer
<1> QED
  BY <1>3, <1>4, <1>5, <1>6 DEF EnrolInv

(* A token issued to the agent's own call is in its answer; one issued to  *)
(* a call that nobody waits for is lost.                                   *)
LEMMA IssueTokenKeeps ==
  ASSUME EnrolInv, NEW c \in Call, IssueToken(c)
  PROVE  EnrolInv'
<1> USE EnrollmentAssumption
<1>1. PICK t \in Token :
        /\ credential' = t /\ issued' = issued \cup {t}
        /\ IF c = agent.call
             THEN /\ call' = [call EXCEPT ![c].step = "accepted", ![c].reply = t]
                  /\ lost' = lost
             ELSE call' = [call EXCEPT ![c] = Free] /\ lost' = TRUE
  BY DEF IssueToken
<1>2. UNCHANGED <<identity, agent, quiet>>
  BY DEF IssueToken
<1>3. CASE c = agent.call
  <2>1. agent.step = "register"
    BY <1>3 DEF EnrolInv, AgentInv
  <2>2. /\ call'[c].step = "accepted" /\ call'[c].reply = t
        /\ \A d \in Call \ {c} : call'[d] = call[d]
    <3>1. call' = [call EXCEPT ![c].step = "accepted", ![c].reply = t]
      BY <1>1, <1>3
    <3>2. call \in [Call -> [step : {"free", "sent", "issue", "accepted", "refused"},
                             presents : Token \cup {Bootstrap, NoToken},
                             reply : TokenOrNone]]
      BY DEF EnrolInv, EnrolTypeOK, TokenOrNone
    <3> QED
      BY <3>1, <3>2
  <2>3. EnrolTypeOK'
    BY <1>1, <1>2, <1>3 DEF EnrolInv, EnrolTypeOK
  <2>4. AgentInv' /\ ReplyInv'
    BY <1>2, <1>3, <2>2 DEF EnrolInv, AgentInv, ReplyInv
  <2>5. OnItsWay'
    BY <1>1, <1>2, <1>3, <2>1, <2>2 DEF OnItsWay, Answer
  <2>6. LockedOutOnlyByLoss'
    BY <1>1, <1>2, <1>3, <2>2 DEF LockedOutOnlyByLoss, Answer
  <2> QED
    BY <2>3, <2>4, <2>5, <2>6 DEF EnrolInv
<1>4. CASE c # agent.call
  <2>1. EnrolTypeOK' /\ AgentInv' /\ ReplyInv'
    BY <1>1, <1>2, <1>4 DEF EnrolInv, EnrolTypeOK, AgentInv, ReplyInv, Free
  <2> QED
    BY <1>1, <1>4, <2>1 DEF EnrolInv, OnItsWay, LockedOutOnlyByLoss
<1> QED
  BY <1>3, <1>4

LEMMA EndOfCallKeeps ==
  ASSUME EnrolInv, NEW c \in Call, RegistrationFails(c) \/ DropAnswer(c)
  PROVE  EnrolInv'
<1> USE EnrollmentAssumption
<1>1. UNCHANGED <<credential, issued, identity, agent, lost, quiet>>
  BY DEF RegistrationFails, DropAnswer
<1>2. /\ call' \in [Call -> CallType]
      /\ \A d \in Call \ {c} : call'[d] = call[d]
      /\ call'[c].reply = NoToken
      /\ c = agent.call => call[c].step # "accepted"
  BY DEF RegistrationFails, DropAnswer, EnrolInv, EnrolTypeOK, ReplyInv, CallType,
         TokenOrNone, Free
<1>3. EnrolTypeOK'
  BY <1>1, <1>2 DEF EnrolInv, EnrolTypeOK, CallType, TokenOrNone
<1>4. AgentInv' /\ ReplyInv' /\ OnItsWay'
  BY <1>1, <1>2 DEF EnrolInv, EnrolTypeOK, AgentInv, ReplyInv, OnItsWay, Answer
<1>5. LockedOutOnlyByLoss'
  BY <1>1, <1>2 DEF EnrolInv, EnrolTypeOK, AgentInv, LockedOutOnlyByLoss, Answer
<1> QED
  BY <1>3, <1>4, <1>5 DEF EnrolInv

LEMMA EnrolStepInv == EnrolInv /\ [EnrolNext]_enrolVars => EnrolInv'
<1> SUFFICES ASSUME EnrolInv, [EnrolNext]_enrolVars PROVE EnrolInv'
  OBVIOUS
<1>1. CASE AgentCycle
  BY <1>1, StartCycleKeeps, RegisteredKeeps, RejectedKeeps, SaveIdentityKeeps, QuietStepsKeep
  DEF AgentCycle
<1>2. CASE SnapshotGetsOld \/ EnrolQuiet
  BY <1>2, QuietStepsKeep
<1>3. CASE ConnectionBreaks \/ AgentDies
  BY <1>3, GivingUpKeeps
<1>4. CASE \E c \in Call : ServeCall(c) \/ RegistrationFails(c)
  BY <1>4, ReadCredentialKeeps, IssueTokenKeeps, EndOfCallKeeps DEF ServeCall
<1>5. CASE UNCHANGED enrolVars
  BY <1>5 DEF enrolVars, EnrolInv, EnrolTypeOK, AgentInv, ReplyInv, OnItsWay,
              LockedOutOnlyByLoss, Answer
<1> QED
  BY <1>1, <1>2, <1>3, <1>4, <1>5 DEF EnrolNext

(* registerNode and runManagerAgentCycle: only the loss of a reply that    *)
(* carried a token locks a node out.                                       *)
THEOREM NodesAreLockedOutOnlyByLoss == EnrolSpec => []LockedOutOnlyByLoss
<1>1. EnrolInv => LockedOutOnlyByLoss
  BY DEF EnrolInv
<1> QED
  BY EnrolInitInv, EnrolStepInv, <1>1, PTL DEF EnrolSpec

---------------------------------------------------------------------------
(***************************************************************************)
(* RevealedOnce for any number of operators, reveals and requests.  That a *)
(* password was shown at most once is not inductive: it rests on the row   *)
(* lock of a consuming transaction, on the consumed mark that it leaves,   *)
(* and on a row that is used never being given out again.                  *)
(***************************************************************************)

RowType == [owner : Operator \cup {"nobody"}, there : BOOLEAN,
            consumed : BOOLEAN, expired : BOOLEAN]
Busy == [step : {"begun", "consumed", "reply"}, operator : Operator,
         reveal : Reveal, live : BOOLEAN]
RequestType == {Unused} \cup [step : {"rotate"}, operator : Operator] \cup Busy

Types == /\ reveals \in [Reveal -> RowType]
         /\ request \in [Request -> RequestType]
         /\ shown \in [Reveal -> Seq(Operator)]

Working(q) == request[q].step \in {"consumed", "reply"}
Row(q) == reveals[request[q].reveal]

(* A transaction that consumes holds a row of its operator that nobody has *)
(* consumed; a reply follows its commit; either way nothing was shown yet. *)
WorkingInv ==
    \A q \in Request : Working(q) =>
        /\ Row(q).owner = request[q].operator
        /\ Row(q) # Absent
        /\ Row(q).consumed <=> request[q].step = "reply"
        /\ shown[request[q].reveal] = <<>>

(* One request at a time is between the lock of a row and its reply.       *)
OneWorks ==
    \A q, r \in Request :
        Working(q) /\ Working(r) /\ request[q].reveal = request[r].reveal => q = r

(* What was shown was consumed, once, by its owner.                        *)
ShownInv ==
    \A v \in Reveal :
        shown[v] # <<>> => reveals[v].consumed /\ shown[v] = <<reveals[v].owner>>

RevealInv == Types /\ WorkingInv /\ OneWorks /\ ShownInv

LEMMA UnusedIsFree == Unused.step = "free" /\ Unused \in RequestType
  BY DEF Unused, RequestType

LEMMA StepsOfTypes ==
  ASSUME Types, NEW q \in Request
  PROVE  /\ request[q].step \in {"begun", "consumed", "reply"} => request[q] \in Busy
         /\ request[q].step = "rotate" => request[q].operator \in Operator
         /\ request[q] = Unused \/ request[q].step \in {"rotate", "begun", "consumed", "reply"}
  BY DEF Types, RequestType, Busy, Unused

LEMMA RevealInitInv == RevealInit => RevealInv
  BY UnusedIsFree DEF RevealInit, RevealInv, Types, RowType, RequestType, Absent, Unused,
     WorkingInv, Working, OneWorks, ShownInv

(* A step that touches only requests, none of which begins to work.        *)
LEMMA NobodyBeginsToWork ==
  ASSUME RevealInv, UNCHANGED <<reveals, shown>>, request' \in [Request -> RequestType],
         \A q \in Request : Working(q)' => request'[q] = request[q]
  PROVE  RevealInv'
  BY DEF RevealInv, Types, WorkingInv, Working, Row, OneWorks, ShownInv

LEMMA StartRotationKeeps ==
  ASSUME RevealInv, NEW q \in Request, NEW o \in Operator, StartRotation(q, o)
  PROVE  RevealInv'
<1>1. request' \in [Request -> RequestType]
  BY DEF StartRotation, RevealInv, Types, RequestType
<1>2. \A r \in Request : Working(r)' => request'[r] = request[r]
  BY DEF StartRotation, RevealInv, Types, Working
<1> QED
  BY <1>1, <1>2, NobodyBeginsToWork DEF StartRotation

LEMMA OpenPageKeeps ==
  ASSUME RevealInv, NEW q \in Request, NEW o \in Operator, NEW v \in Reveal, OpenPage(q, o, v)
  PROVE  RevealInv'
<1>1. request' \in [Request -> RequestType]
  BY DEF OpenPage, RevealInv, Types, RequestType, Busy, RowType
<1>2. \A r \in Request : Working(r)' => request'[r] = request[r]
  BY DEF OpenPage, RevealInv, Types, Working
<1> QED
  BY <1>1, <1>2, NobodyBeginsToWork DEF OpenPage

LEMMA RequestFailsKeeps ==
  ASSUME RevealInv, NEW q \in Request, RequestFails(q)
  PROVE  RevealInv'
<1>1. request' \in [Request -> RequestType]
  BY UnusedIsFree DEF RequestFails, Nothing, RevealInv, Types
<1>2. \A r \in Request : Working(r)' => request'[r] = request[r]
  BY UnusedIsFree DEF RequestFails, Nothing, RevealInv, Types, Working
<1> QED
  BY <1>1, <1>2, NobodyBeginsToWork DEF RequestFails

(* A row that goes out is unused: nobody works on it and it never was      *)
(* shown.                                                                  *)
LEMMA CommitRotationKeeps ==
  ASSUME RevealInv, NEW q \in Request, CommitRotation(q)
  PROVE  RevealInv'
<1>1. PICK v \in Reveal :
        /\ reveals[v] = Absent
        /\ reveals' = [reveals EXCEPT ![v] = [Absent EXCEPT !.owner = request[q].operator,
                                                            !.there = TRUE]]
  BY DEF CommitRotation, Unissued
<1>2. request' = [request EXCEPT ![q] = Unused] /\ shown' = shown
  BY DEF CommitRotation
<1>3. Types'
  <2>1. request[q].operator \in Operator
    BY StepsOfTypes DEF CommitRotation, RevealInv
  <2>2. reveals'[v] \in RowType
    BY <1>1, <2>1 DEF RevealInv, Types, RowType, Absent
  <2> QED
    BY <1>1, <1>2, <2>2, UnusedIsFree DEF RevealInv, Types
<1>4. \A r \in Request : Working(r)' =>
        /\ r # q /\ request'[r] = request[r] /\ Working(r)
        /\ request[r].reveal # v /\ request[r].reveal \in Reveal
  <2> SUFFICES ASSUME NEW r \in Request, Working(r)'
               PROVE  /\ r # q /\ request'[r] = request[r] /\ Working(r)
                      /\ request[r].reveal # v /\ request[r].reveal \in Reveal
    OBVIOUS
  <2>1. r # q /\ request'[r] = request[r] /\ Working(r)
    BY <1>2, UnusedIsFree DEF RevealInv, Types, Working
  <2>2. request[r] \in Busy
    BY <2>1, StepsOfTypes DEF RevealInv, Working
  <2> QED
    BY <1>1, <2>1, <2>2 DEF RevealInv, WorkingInv, Row, Busy
<1>5. WorkingInv'
  BY <1>1, <1>2, <1>4 DEF RevealInv, WorkingInv, Row, Working, Types
<1>6. OneWorks'
  BY <1>4 DEF RevealInv, OneWorks
<1>7. ShownInv'
  BY <1>1, <1>2 DEF RevealInv, ShownInv, Types, Absent
<1> QED
  BY <1>3, <1>5, <1>6, <1>7 DEF RevealInv

(* A deletion waits for the rows that are locked, and leaves the consumed  *)
(* marks as they are.                                                      *)
LEMMA DeleteMailboxKeeps ==
  ASSUME RevealInv, DeleteMailbox
  PROVE  RevealInv'
<1>1. \A v \in Reveal : /\ reveals'[v] \in RowType
                        /\ reveals'[v].owner = reveals[v].owner
                        /\ reveals'[v].consumed = reveals[v].consumed
  BY DEF DeleteMailbox, RevealInv, Types, RowType
<1>2. UNCHANGED <<request, shown>> /\ Types'
  BY <1>1 DEF DeleteMailbox, RevealInv, Types
<1>3. \A q \in Request : Working(q) => request[q].step = "reply" /\ request[q].reveal \in Reveal
  BY StepsOfTypes DEF DeleteMailbox, Locked, Working, RevealInv, Busy
<1>4. WorkingInv'
  BY <1>1, <1>2, <1>3 DEF RevealInv, WorkingInv, Row, Working, Absent
<1>5. OneWorks' /\ ShownInv'
  BY <1>1, <1>2 DEF RevealInv, OneWorks, Working, ShownInv
<1> QED
  BY <1>2, <1>4, <1>5 DEF RevealInv

LEMMA ExpireKeeps ==
  ASSUME RevealInv, NEW v \in Reveal, Expire(v)
  PROVE  RevealInv'
<1>1. \A w \in Reveal : /\ reveals'[w] \in RowType
                        /\ reveals'[w].owner = reveals[w].owner
                        /\ reveals'[w].consumed = reveals[w].consumed
                        /\ reveals'[w].there = reveals[w].there
                        /\ reveals'[w] = Absent => reveals[w] = Absent
  BY DEF Expire, RevealInv, Types, RowType, Absent
<1>2. UNCHANGED <<request, shown>> /\ Types'
  BY <1>1 DEF Expire, RevealInv, Types
<1>3. \A q \in Request : Working(q) => request[q].reveal \in Reveal
  BY StepsOfTypes DEF Working, RevealInv, Busy
<1>4. WorkingInv'
  BY <1>1, <1>2, <1>3 DEF RevealInv, WorkingInv, Row, Working
<1>5. OneWorks' /\ ShownInv'
  BY <1>1, <1>2 DEF RevealInv, OneWorks, Working, ShownInv
<1> QED
  BY <1>2, <1>4, <1>5 DEF RevealInv

(* The UPDATE finds the row unlocked and unconsumed, hence never shown.    *)
LEMMA ConsumeRevealKeeps ==
  ASSUME RevealInv, NEW q \in Request, ConsumeReveal(q)
  PROVE  RevealInv'
<1>1. UNCHANGED <<reveals, shown>> /\ request[q] \in Busy
  BY StepsOfTypes DEF ConsumeReveal, RevealInv
<1>2. CASE ~Consumable(q)
  <2>1. request' \in [Request -> RequestType]
    BY <1>2, UnusedIsFree DEF ConsumeReveal, Nothing, RevealInv, Types
  <2>2. \A r \in Request : Working(r)' => request'[r] = request[r]
    BY <1>2, UnusedIsFree DEF ConsumeReveal, Nothing, RevealInv, Types, Working
  <2> QED
    BY <1>1, <2>1, <2>2, NobodyBeginsToWork
<1>3. CASE Consumable(q)
  <2> DEFINE v == request[q].reveal
  <2>1. /\ request' = [request EXCEPT ![q].step = "consumed"]
        /\ v \in Reveal /\ ~Locked(v)
        /\ reveals[v].there /\ reveals[v].owner = request[q].operator /\ ~reveals[v].consumed
    BY <1>1, <1>3 DEF ConsumeReveal, Advance, Consumable, Busy
  <2>2. /\ request'[q] \in Busy /\ request'[q].step = "consumed"
        /\ request'[q].reveal = v /\ request'[q].operator = request[q].operator
        /\ \A r \in Request \ {q} : request'[r] = request[r]
    BY <1>1, <2>1 DEF Busy, RevealInv, Types
  <2>3. Types'
    BY <1>1, <2>1, <2>2 DEF RevealInv, Types, RequestType
  <2>4. shown[v] = <<>> /\ reveals[v] # Absent
    BY <2>1 DEF RevealInv, ShownInv, Absent
  <2>5. WorkingInv'
    BY <1>1, <2>1, <2>2, <2>4 DEF RevealInv, WorkingInv, Row, Working
  <2>6. \A r \in Request \ {q} : Working(r) => request[r].reveal # v
    BY <1>1, <2>1 DEF RevealInv, WorkingInv, Row, Working, Locked
  <2>7. OneWorks'
    BY <1>1, <2>2, <2>6 DEF RevealInv, OneWorks, Working
  <2>8. ShownInv'
    BY <1>1 DEF RevealInv, ShownInv
  <2> QED
    BY <2>3, <2>5, <2>7, <2>8 DEF RevealInv
<1> QED
  BY <1>2, <1>3

LEMMA CommitConsumptionKeeps ==
  ASSUME RevealInv, NEW q \in Request, CommitConsumption(q)
  PROVE  RevealInv'
<1> DEFINE v == request[q].reveal
<1>1. request[q] \in Busy /\ v \in Reveal /\ Working(q)
  BY StepsOfTypes DEF CommitConsumption, RevealInv, Busy, Working
<1>2. /\ reveals' = [reveals EXCEPT ![v].consumed = TRUE]
      /\ request' = [request EXCEPT ![q].step = "reply"]
      /\ shown' = shown
  BY DEF CommitConsumption, Advance
<1>3. /\ request'[q] \in Busy /\ request'[q].step = "reply"
      /\ request'[q].reveal = v /\ request'[q].operator = request[q].operator
      /\ \A r \in Request \ {q} : request'[r] = request[r]
  BY <1>1, <1>2 DEF Busy, RevealInv, Types
<1>4. /\ reveals'[v] \in RowType /\ reveals'[v].consumed
      /\ reveals'[v].owner = reveals[v].owner
      /\ reveals'[v] # Absent
      /\ \A w \in Reveal \ {v} : reveals'[w] = reveals[w]
  BY <1>1, <1>2 DEF RevealInv, Types, RowType, Absent
<1>5. Types'
  BY <1>2, <1>3, <1>4 DEF RevealInv, Types, RequestType
<1>6. \A r \in Request \ {q} : Working(r) => request[r].reveal # v
  BY <1>1 DEF RevealInv, OneWorks
<1>7. \A r \in Request \ {q} : Working(r) => request[r].reveal \in Reveal
  BY StepsOfTypes DEF Working, RevealInv, Busy
<1>8. WorkingInv'
  BY <1>1, <1>2, <1>3, <1>4, <1>6, <1>7 DEF RevealInv, WorkingInv, Row, Working
<1>9. OneWorks'
  BY <1>1, <1>3, <1>6 DEF RevealInv, OneWorks, Working
<1>10. ShownInv'
  BY <1>2, <1>4 DEF RevealInv, ShownInv
<1> QED
  BY <1>5, <1>8, <1>9, <1>10 DEF RevealInv

LEMMA ShowPasswordKeeps ==
  ASSUME RevealInv, NEW q \in Request, ShowPassword(q)
  PROVE  RevealInv'
<1> DEFINE v == request[q].reveal
           o == request[q].operator
<1>1. request[q] \in Busy /\ v \in Reveal /\ o \in Operator /\ Working(q)
  BY StepsOfTypes DEF ShowPassword, RevealInv, Busy, Working
<1>2. /\ reveals[v].owner = o /\ reveals[v].consumed /\ shown[v] = <<>>
  BY <1>1 DEF RevealInv, WorkingInv, Row, ShowPassword
<1>3. /\ shown' = [shown EXCEPT ![v] = Append(@, o)] /\ reveals' = reveals
      /\ request' = [request EXCEPT ![q] = Unused]
  BY DEF ShowPassword, Nothing
<1>4. shown'[v] = <<o>> /\ \A w \in Reveal \ {v} : shown'[w] = shown[w]
  BY <1>1, <1>2, <1>3 DEF RevealInv, Types
<1>5. Types'
  BY <1>1, <1>3, <1>4, UnusedIsFree DEF RevealInv, Types
<1>6. \A r \in Request : Working(r)' =>
        r # q /\ request'[r] = request[r] /\ Working(r) /\ request[r].reveal \in Reveal \ {v}
  <2> SUFFICES ASSUME NEW r \in Request, Working(r)'
               PROVE  r # q /\ request'[r] = request[r] /\ Working(r)
                      /\ request[r].reveal \in Reveal \ {v}
    OBVIOUS
  <2>1. r # q /\ request'[r] = request[r] /\ Working(r)
    BY <1>3, UnusedIsFree DEF RevealInv, Types, Working
  <2>2. request[r].reveal \in Reveal
    BY <2>1, StepsOfTypes DEF Working, RevealInv, Busy
  <2> QED
    BY <1>1, <2>1, <2>2 DEF RevealInv, OneWorks
<1>7. WorkingInv'
  BY <1>3, <1>4, <1>6 DEF RevealInv, WorkingInv, Row, Working
<1>8. OneWorks'
  BY <1>6 DEF RevealInv, OneWorks
<1>9. ShownInv'
  BY <1>2, <1>3, <1>4 DEF RevealInv, ShownInv
<1> QED
  BY <1>5, <1>7, <1>8, <1>9 DEF RevealInv

LEMMA RevealStepInv == RevealInv /\ [RevealNext]_revealVars => RevealInv'
<1> SUFFICES ASSUME RevealInv, [RevealNext]_revealVars PROVE RevealInv'
  OBVIOUS
<1>1. CASE DeleteMailbox
  BY <1>1, DeleteMailboxKeeps
<1>2. CASE \E v \in Reveal : Expire(v)
  BY <1>2, ExpireKeeps
<1>3. CASE \E q \in Request : CommitRotation(q) \/ ConsumeReveal(q) \/ CommitConsumption(q)
  BY <1>3, CommitRotationKeeps, ConsumeRevealKeeps, CommitConsumptionKeeps
<1>4. CASE \E q \in Request : ShowPassword(q) \/ RequestFails(q)
  BY <1>4, ShowPasswordKeeps, RequestFailsKeeps
<1>5. CASE \E q \in Request, o \in Operator :
             StartRotation(q, o) \/ \E v \in Reveal : OpenPage(q, o, v)
  BY <1>5, StartRotationKeeps, OpenPageKeeps
<1>6. CASE UNCHANGED revealVars
  BY <1>6 DEF revealVars, RevealInv, Types, WorkingInv, Working, Row, OneWorks, ShownInv
<1> QED
  BY <1>1, <1>2, <1>3, <1>4, <1>5, <1>6 DEF RevealNext

(* consumeMailboxCredentialReveal: whatever requests race and fail, a      *)
(* generated password is shown once at most, to the one who asked for it.  *)
THEOREM PasswordsAreRevealedOnce == RevealSpec => []RevealedOnce
<1>1. RevealInv => RevealedOnce
  <2> SUFFICES ASSUME RevealInv, NEW v \in Reveal
               PROVE  /\ Len(shown[v]) <= 1
                      /\ \A i \in DOMAIN shown[v] : shown[v][i] = reveals[v].owner
    BY DEF RevealedOnce
  <2>1. CASE shown[v] = <<>>
    BY <2>1
  <2>2. CASE shown[v] # <<>>
    <3>1. PICK o : o = reveals[v].owner
      OBVIOUS
    <3>2. shown[v] = <<o>>
      BY <2>2, <3>1 DEF RevealInv, ShownInv
    <3> QED
      BY <3>1, <3>2
  <2> QED
    BY <2>1, <2>2
<1> QED
  BY RevealInitInv, RevealStepInv, <1>1, PTL DEF RevealSpec

---------------------------------------------------------------------------
(***************************************************************************)
(* OtherRecordsStay for any number of DDNS calls beside one operator.  A   *)
(* call touches addresses only; the operator's DELETE was given every      *)
(* other record there was, and nobody adds one while it waits, so its      *)
(* INSERT finds none left.                                                 *)
(***************************************************************************)

Records == Address \cup OtherRecord
WriteType == [step : {"free", "sent", "changed", "read", "deleting", "insert"},
              rows : SUBSET Records, doomed : SUBSET Records, deleted : SUBSET Records]

(* A DDNS call inserts and deletes addresses only.                         *)
UpdateInv ==
    \A u \in Update : writer[u].rows \cup writer[u].doomed \cup writer[u].deleted \subseteq Address

(* The operator's DELETE covers every other record: none appears while it  *)
(* waits or until it commits.                                              *)
CoverInv ==
    /\ AtStep("operator", "deleting") => zoneRows \ Address \subseteq writer["operator"].doomed
    /\ AtStep("operator", "insert") => zoneRows \ Address \subseteq writer["operator"].deleted

DdnsInv == DdnsTypeOK /\ UpdateInv /\ CoverInv /\ OtherRecordsStay

LEMMA DdnsInitInv == DdnsInit => DdnsInv
<1> USE DdnsAssumption
<1>1. (CHOOSE a \in Address : TRUE) \in Address
  OBVIOUS
<1>2. NoWrite \in WriteType
  BY DEF NoWrite, WriteType
<1>3. ASSUME DdnsInit PROVE DdnsInv
  <2>1. /\ \A w \in Writer : writer[w] = NoWrite
        /\ writer \in [Writer -> WriteType]
        /\ zoneRows = OtherRecord /\ asked = OtherRecord
    BY <1>2, <1>3 DEF DdnsInit
  <2>2. DdnsTypeOK
    BY <1>1, <1>3, <2>1 DEF DdnsInit, DdnsTypeOK, WriteType, Records
  <2>3. UpdateInv
    BY <2>1 DEF UpdateInv, NoWrite, Writer
  <2>4. CoverInv /\ OtherRecordsStay
    BY <2>1 DEF CoverInv, OtherRecordsStay, AtStep, NoWrite, Writer
  <2> QED
    BY <2>2, <2>3, <2>4 DEF DdnsInv
<1> QED
  BY <1>3

(* A step that leaves the records alone and changes one transaction.       *)
LEMMA WriterStepKeeps ==
  ASSUME DdnsInv, NEW w \in Writer, NEW new \in WriteType,
         writer' = [writer EXCEPT ![w] = new],
         UNCHANGED <<zoneRows, asked>>, enabled' \in BOOLEAN, address' \in Address,
         settled' \in BOOLEAN,
         w # "operator" => new.rows \cup new.doomed \cup new.deleted \subseteq Address,
         w = "operator" /\ new.step = "deleting" => zoneRows \ Address \subseteq new.doomed,
         w = "operator" /\ new.step = "insert" => zoneRows \ Address \subseteq new.deleted
  PROVE  DdnsInv'
<1>1. DdnsTypeOK'
  BY DEF DdnsInv, DdnsTypeOK, WriteType, Records
<1>2. writer'[w] = new /\ \A v \in Writer \ {w} : writer'[v] = writer[v]
  BY DEF DdnsInv, DdnsTypeOK
<1>3. UpdateInv'
  BY <1>2, DdnsAssumption DEF DdnsInv, UpdateInv, Writer
<1>4. CoverInv'
  BY <1>2 DEF DdnsInv, CoverInv, AtStep, Writer
<1> QED
  BY <1>1, <1>3, <1>4 DEF DdnsInv, OtherRecordsStay

LEMMA CommitKeeps ==
  ASSUME DdnsInv, NEW w \in Writer, AtStep(w, "insert"), CommitRows(w),
         asked' = IF w = "operator" THEN writer[w].rows \ Address ELSE asked,
         UNCHANGED <<enabled, address, settled>>
  PROVE  DdnsInv'
<1>1. writer[w] \in WriteType /\ NoWrite \in WriteType
  BY DEF DdnsInv, DdnsTypeOK, WriteType, Records, NoWrite
<1>2. /\ writer'[w] = NoWrite
      /\ \A v \in Writer \ {w} :
            writer'[v] = [writer[v] EXCEPT !.doomed = @ \ writer[w].deleted]
  BY DEF CommitRows
<1>3. \A v \in Writer \ {w} :
         /\ writer'[v] \in WriteType /\ writer'[v].step = writer[v].step
         /\ writer'[v].rows = writer[v].rows /\ writer'[v].deleted = writer[v].deleted
         /\ writer'[v].doomed = writer[v].doomed \ writer[w].deleted
  <2> TAKE v \in Writer \ {w}
  <2>1. writer[v] \in WriteType
    BY DEF DdnsInv, DdnsTypeOK, WriteType, Records
  <2>2. writer[v].doomed \ writer[w].deleted \in SUBSET Records
    BY <2>1 DEF WriteType
  <2>3. writer'[v] = [writer[v] EXCEPT !.doomed = writer[v].doomed \ writer[w].deleted]
    BY <1>2, <2>1
  <2> QED
    BY <2>1, <2>2, <2>3 DEF WriteType
<1>4. zoneRows' = (zoneRows \ writer[w].deleted) \cup writer[w].rows
  BY DEF CommitRows
<1>5. DdnsTypeOK'
  <2>1. writer' \in [Writer -> WriteType]
    BY <1>1, <1>2, <1>3 DEF CommitRows
  <2>2. zoneRows' \subseteq Records /\ asked' \subseteq OtherRecord
    BY <1>1, <1>4 DEF WriteType, DdnsInv, DdnsTypeOK, Records
  <2> QED
    BY <2>1, <2>2 DEF DdnsInv, DdnsTypeOK, WriteType, Records
<1>6. UpdateInv'
  BY <1>2, <1>3 DEF DdnsInv, UpdateInv, NoWrite, Writer
<1>7. OtherRecordsStay'
  <2>1. CASE w = "operator"
    BY <2>1, <1>4 DEF DdnsInv, CoverInv, OtherRecordsStay
  <2>2. CASE w # "operator"
    BY <2>2, <1>4 DEF DdnsInv, UpdateInv, OtherRecordsStay, Writer
  <2> QED
    BY <2>1, <2>2
<1>8. CoverInv'
  <2>1. CASE w = "operator"
    BY <2>1, <1>2 DEF CoverInv, AtStep, NoWrite
  <2>2. CASE w # "operator"
    <3>1. zoneRows' \ Address = zoneRows \ Address
      BY <2>2, <1>4 DEF DdnsInv, UpdateInv, Writer
    <3>2. "operator" \in Writer \ {w} /\ writer[w].deleted \subseteq Address
      BY <2>2 DEF DdnsInv, UpdateInv, Writer
    <3> QED
      BY <3>1, <3>2, <1>3 DEF DdnsInv, CoverInv, AtStep
  <2> QED
    BY <2>1, <2>2
<1> QED
  BY <1>5, <1>6, <1>7, <1>8 DEF DdnsInv

LEMMA WritersStay ==
  ASSUME DdnsInv, UNCHANGED <<zoneRows, writer, asked>>, enabled' \in BOOLEAN,
         address' \in Address, settled' \in BOOLEAN
  PROVE  DdnsInv'
  BY DEF DdnsInv, DdnsTypeOK, UpdateInv, CoverInv, AtStep, OtherRecordsStay

LEMMA DdnsStepInv == DdnsInv /\ [DdnsNext]_ddnsVars => DdnsInv'
<1> SUFFICES ASSUME DdnsInv, [DdnsNext]_ddnsVars PROVE DdnsInv'
  OBVIOUS
<1> USE DEF Writer
<1>t. /\ \A w \in Writer : writer[w] \in WriteType
      /\ writer \in [Writer -> WriteType]
      /\ zoneRows \subseteq Records /\ asked \subseteq OtherRecord
      /\ enabled \in BOOLEAN /\ address \in Address /\ settled \in BOOLEAN
      /\ NoWrite \in WriteType /\ NoWrite.step = "free"
      /\ NoWrite.rows \cup NoWrite.doomed \cup NoWrite.deleted = {}
  BY DEF DdnsInv, DdnsTypeOK, WriteType, Records, NoWrite
<1>e. ASSUME NEW w \in Writer, End(w), UNCHANGED <<zoneRows, asked, enabled, address, settled>>
      PROVE  DdnsInv'
  BY <1>e, <1>t, WriterStepKeeps DEF End
<1>1. ASSUME NEW u \in Update, CallUpdate(u) PROVE DdnsInv'
  <2> DEFINE new == [writer[u] EXCEPT !.step = "sent", !.rows = {address}]
  <2>1. new \in WriteType /\ new.rows = {address} /\ new.step = "sent"
        /\ new.doomed = {} /\ new.deleted = {}
    BY <1>1, <1>t DEF CallUpdate, WriteType, NoWrite, Records
  <2>2. writer' = [writer EXCEPT ![u] = new]
    BY <1>1, <1>t DEF CallUpdate
  <2> HIDE DEF new
  <2>3. /\ UNCHANGED <<zoneRows, asked, enabled, address, settled>>
        /\ u # "operator" /\ u \in Writer
        /\ new.rows \cup new.doomed \cup new.deleted \subseteq Address
    BY <1>1, <1>t, <2>1, DdnsAssumption DEF CallUpdate
  <2> QED
    BY <1>t, <2>1, <2>2, <2>3, WriterStepKeeps
<1>2. ASSUME NEW u \in Update, CompareRecords(u) PROVE DdnsInv'
  <2> DEFINE new == [writer[u] EXCEPT !.step = "changed"]
  <2>1. new \in WriteType /\ new.rows = writer[u].rows /\ new.step = "changed"
        /\ new.doomed = writer[u].doomed /\ new.deleted = writer[u].deleted
    BY <1>t DEF WriteType
  <2>2. CASE Step(u, "changed")
    <3>1. writer' = [writer EXCEPT ![u] = new]
      BY <2>2, <1>t DEF Step
    <3> HIDE DEF new
    <3> QED
      BY <1>2, <1>t, <2>1, <3>1, WriterStepKeeps, DdnsAssumption
      DEF CompareRecords, DdnsInv, UpdateInv
  <2> QED
    BY <1>2, <1>e, <2>2 DEF CompareRecords
<1>3. ASSUME NEW u \in Update, DeleteHostRows(u) PROVE DdnsInv'
  <2> DEFINE new == [writer[u] EXCEPT !.step = "deleting", !.doomed = HostRows]
  <2>1. new \in WriteType /\ new.rows = writer[u].rows /\ new.step = "deleting"
        /\ new.doomed = HostRows /\ new.deleted = writer[u].deleted /\ HostRows \subseteq Address
    BY <1>t DEF WriteType, HostRows, Records
  <2>2. writer' = [writer EXCEPT ![u] = new]
    BY <1>3, <1>t DEF DeleteHostRows, BeginDelete
  <2> HIDE DEF new
  <2> QED
    BY <1>3, <1>t, <2>1, <2>2, WriterStepKeeps, DdnsAssumption
    DEF DeleteHostRows, BeginDelete, DdnsInv, UpdateInv
<1>4. ASSUME NEW w \in Writer, FinishDelete(w) PROVE DdnsInv'
  <2> DEFINE new == [writer[w] EXCEPT !.step = "insert", !.deleted = writer[w].doomed,
                                      !.doomed = {}]
  <2>1. new \in WriteType /\ new.rows = writer[w].rows /\ new.step = "insert"
        /\ new.doomed = {} /\ new.deleted = writer[w].doomed
    BY <1>t DEF WriteType
  <2>2. writer' = [writer EXCEPT ![w] = new]
    BY <1>4, <1>t DEF FinishDelete
  <2>3. w # "operator" => writer[w].rows \cup writer[w].doomed \subseteq Address
    BY DEF DdnsInv, UpdateInv
  <2>4. w = "operator" => zoneRows \ Address \subseteq writer[w].doomed
    BY <1>4 DEF DdnsInv, CoverInv, FinishDelete
  <2> HIDE DEF new
  <2> QED
    <3>1. /\ UNCHANGED <<zoneRows, asked, enabled, address, settled>>
          /\ w # "operator" => new.rows \cup new.doomed \cup new.deleted \subseteq Address
      BY <1>4, <2>1, <2>3 DEF FinishDelete
    <3> QED
      BY <1>t, <2>1, <2>2, <2>4, <3>1, WriterStepKeeps
<1>5. ASSUME NEW u \in Update, InsertAddress(u) PROVE DdnsInv'
  BY <1>5, <1>e, CommitKeeps, DdnsAssumption DEF InsertAddress
<1>6. ASSUME ReadSpec PROVE DdnsInv'
  <2>1. PICK other \in Edits(zoneRows \ Address) :
           writer' = [writer EXCEPT !["operator"].step = "read",
                                    !["operator"].rows = HostRows \cup other]
    BY <1>6 DEF ReadSpec
  <2> DEFINE new == [writer["operator"] EXCEPT !.step = "read", !.rows = HostRows \cup other]
  <2>2. other \subseteq Records
    BY <1>t DEF Edits, Records
  <2>3. new \in WriteType /\ new.step = "read"
    BY <1>t, <2>2 DEF WriteType, HostRows
  <2>4. writer' = [writer EXCEPT !["operator"] = new]
    BY <2>1, <1>t
  <2> HIDE DEF new
  <2> QED
    BY <1>6, <1>t, <2>3, <2>4, WriterStepKeeps DEF ReadSpec
<1>7. ASSUME DeleteRecords PROVE DdnsInv'
  <2> DEFINE new == [writer["operator"] EXCEPT !.step = "deleting", !.doomed = zoneRows]
  <2>1. new \in WriteType /\ new.step = "deleting" /\ new.doomed = zoneRows
    BY <1>t DEF WriteType
  <2>2. writer' = [writer EXCEPT !["operator"] = new]
    BY <1>7, <1>t DEF DeleteRecords, BeginDelete
  <2> HIDE DEF new
  <2> QED
    BY <1>7, <1>t, <2>1, <2>2, WriterStepKeeps DEF DeleteRecords, BeginDelete
<1>8. ASSUME InsertRecords PROVE DdnsInv'
  BY <1>8, CommitKeeps DEF InsertRecords
<1>9. CASE AdministerHost \/ Move \/ SettleDown \/ UNCHANGED ddnsVars
  BY <1>9, <1>t, WritersStay DEF AdministerHost, Move, SettleDown, ddnsVars
<1>10. ASSUME NEW w \in Writer, WriteFails(w) PROVE DdnsInv'
  BY <1>10, <1>e DEF WriteFails
<1> QED
  BY <1>1, <1>2, <1>3, <1>4, <1>5, <1>6, <1>7, <1>8, <1>9, <1>10
  DEF DdnsNext, UpdateStep, ApplyStep

(* updateDdnsHost beside applyDesiredStateSpec.                            *)
THEOREM OtherRecordsAreKept == DdnsSpec => []OtherRecordsStay
<1>1. DdnsInv => OtherRecordsStay
  BY DEF DdnsInv
<1> QED
  BY <1>1, DdnsInitInv, DdnsStepInv, PTL DEF DdnsSpec

=============================================================================
