----------------------------- MODULE DdnsRecords -----------------------------
(***************************************************************************)
(* updateDdnsHost and the desired-state apply on the record rows of one    *)
(* zone, statement by statement under READ COMMITTED.  A DELETE sees the   *)
(* rows committed when it began and waits for the transactions that hold   *)
(* one of them; rows committed meanwhile stay, so two writers can leave    *)
(* both addresses, or the older one.  A client that keeps calling repairs  *)
(* what such a race left.                                                  *)
(* Left out: TTLs, passwords and address types, and the job an update      *)
(* sends (ControlLoop has it).                                             *)
(***************************************************************************)
EXTENDS Naturals

CONSTANTS Address,        \* what the host's record can hold
          OtherRecord,    \* the zone's other records
          Update          \* calls of the client at the API at once (a bound)

ASSUME DdnsAssumption == /\ Address \cap OtherRecord = {} /\ Address # {}
                         /\ "operator" \notin Update

Writer == Update \cup {"operator"}

VARIABLES zoneRows,   \* record rows of the zone, committed
          enabled,    \* the host has its row in control_plane_ddns_hosts, enabled
          address,    \* where the client is
          writer,     \* per transaction: step, rows to insert, to delete, and deleted
          asked,      \* other records as the operator's last edit wanted them
          settled     \* edits, moves and failures have stopped

ddnsVars == <<zoneRows, enabled, address, writer, asked, settled>>

NoWrite == [step |-> "free", rows |-> {}, doomed |-> {}, deleted |-> {}]

DdnsInit == /\ zoneRows = OtherRecord
            /\ enabled = FALSE
            /\ address = CHOOSE a \in Address : TRUE    \* Move leads to the others
            /\ writer = [w \in Writer |-> NoWrite]
            /\ asked = OtherRecord
            /\ settled = FALSE

HostRows == zoneRows \cap Address
AtStep(w, step) == writer[w].step = step
Step(w, step) == writer' = [writer EXCEPT ![w].step = step]
End(w) == writer' = [writer EXCEPT ![w] = NoWrite]

-----------------------------------------------------------------------------
(* PostgreSQL.  A transaction holds the rows it deleted until it ends; its *)
(* last statements and its commit are one step, for they hold nothing that *)
(* another one could wait for longer.                                      *)
Held(w) == UNION {writer[v].deleted : v \in Writer \ {w}}

BeginDelete(w, from, rows) ==
    /\ AtStep(w, from)
    /\ writer' = [writer EXCEPT ![w].step = "deleting", ![w].doomed = rows]
    /\ UNCHANGED <<zoneRows, enabled, address, asked, settled>>

FinishDelete(w) ==
    /\ AtStep(w, "deleting") /\ writer[w].doomed \cap Held(w) = {}
    /\ writer' = [writer EXCEPT ![w].step = "insert", ![w].deleted = writer[w].doomed,
                                ![w].doomed = {}]
    /\ UNCHANGED <<zoneRows, enabled, address, asked, settled>>

(* What others deleted is gone from a DELETE that still waits.             *)
CommitRows(w) ==
    /\ zoneRows' = (zoneRows \ writer[w].deleted) \cup writer[w].rows
    /\ writer' = [v \in Writer |->
                    IF v = w THEN NoWrite
                    ELSE [writer[v] EXCEPT !.doomed = @ \ writer[w].deleted]]

(* A deadlock, a lost connection or a dying process rolls back.            *)
WriteFails(w) ==
    /\ ~settled /\ writer[w] # NoWrite /\ End(w)
    /\ UNCHANGED <<zoneRows, enabled, address, asked, settled>>

-----------------------------------------------------------------------------
(* updateDdnsHost.  The call carries the address of the moment it is sent. *)
CallUpdate(u) ==
    /\ writer[u] = NoWrite
    /\ writer' = [writer EXCEPT ![u].step = "sent", ![u].rows = {address}]
    /\ UNCHANGED <<zoneRows, enabled, address, asked, settled>>

(* Fault: an address among several counts as unchanged.                    *)
CompareAnyRecord(u) ==
    /\ AtStep(u, "sent")
    /\ IF ~enabled \/ writer[u].rows \subseteq HostRows THEN End(u) ELSE Step(u, "changed")
    /\ UNCHANGED <<zoneRows, enabled, address, asked, settled>>

(* nohost, nochg, or go on.                                                *)
CompareRecords(u) ==
    /\ AtStep(u, "sent")
    /\ IF ~enabled \/ HostRows = writer[u].rows THEN End(u) ELSE Step(u, "changed")
    /\ UNCHANGED <<zoneRows, enabled, address, asked, settled>>

(* Fault: the DELETE names the zone only.                                  *)
DeleteZoneRows(u) == BeginDelete(u, "changed", zoneRows)

DeleteHostRows(u) == BeginDelete(u, "changed", HostRows)

(* A row of the same value that it did not delete is a unique violation.   *)
InsertAddress(u) ==
    /\ AtStep(u, "insert") /\ writer[u].rows \cap Held(u) = {}
    /\ IF writer[u].rows \cap (zoneRows \ writer[u].deleted) # {}
         THEN End(u) /\ UNCHANGED zoneRows ELSE CommitRows(u)
    /\ UNCHANGED <<enabled, address, asked, settled>>

-----------------------------------------------------------------------------
(* An edit of the desired state, of this zone's other records or of        *)
(* something else, by a workspace or in one API transaction: read all ...  *)
Edits(other) ==
    {other} \cup {other \cup {r} : r \in OtherRecord} \cup {other \ {r} : r \in OtherRecord}

ReadSpec ==
    /\ ~settled /\ writer["operator"] = NoWrite
    /\ \E other \in Edits(zoneRows \ Address) :
          writer' = [writer EXCEPT !["operator"].step = "read",
                                   !["operator"].rows = HostRows \cup other]
    /\ UNCHANGED <<zoneRows, enabled, address, asked, settled>>

(* ... and write all back (applyDesiredStateSpec).                         *)
DeleteRecords == BeginDelete("operator", "read", zoneRows)

(* ON CONFLICT DO UPDATE: a row somebody else put there is kept.           *)
InsertRecords ==
    /\ AtStep("operator", "insert")
    /\ writer["operator"].rows \cap Held("operator") = {}
    /\ CommitRows("operator")
    /\ asked' = writer["operator"].rows \ Address
    /\ UNCHANGED <<enabled, address, settled>>

(* upsertDdnsHost and deleteDdnsHost leave the records alone.              *)
AdministerHost ==
    /\ ~settled /\ enabled' = ~enabled
    /\ UNCHANGED <<zoneRows, address, writer, asked, settled>>

Move == /\ ~settled
        /\ address' \in Address \ {address}
        /\ UNCHANGED <<zoneRows, enabled, writer, asked, settled>>

SettleDown == /\ ~settled /\ settled' = TRUE
              /\ UNCHANGED <<zoneRows, enabled, address, writer, asked>>

-----------------------------------------------------------------------------
UpdateStep(u) == CompareRecords(u) \/ DeleteHostRows(u) \/ FinishDelete(u) \/ InsertAddress(u)

ApplyStep == DeleteRecords \/ FinishDelete("operator") \/ InsertRecords

DdnsNext == \/ \E u \in Update : CallUpdate(u) \/ UpdateStep(u)
            \/ ReadSpec \/ ApplyStep \/ AdministerHost \/ Move \/ SettleDown
            \/ \E w \in Writer : WriteFails(w)

(* A DDNS client calls again and again (nochg is the usual answer), and    *)
(* transactions end.                                                       *)
DdnsFairness == /\ WF_ddnsVars(ApplyStep)
                /\ \A u \in Update : WF_ddnsVars(CallUpdate(u)) /\ WF_ddnsVars(UpdateStep(u))

DdnsSpec == DdnsInit /\ [][DdnsNext]_ddnsVars /\ DdnsFairness

-----------------------------------------------------------------------------
(* Every variable has its type.                                            *)
DdnsTypeOK ==
    /\ zoneRows \subseteq Address \cup OtherRecord
    /\ enabled \in BOOLEAN
    /\ address \in Address
    /\ writer \in [Writer -> [step : {"free", "sent", "changed", "read", "deleting", "insert"},
                              rows : SUBSET (Address \cup OtherRecord),
                              doomed : SUBSET (Address \cup OtherRecord),
                              deleted : SUBSET (Address \cup OtherRecord)]]
    /\ asked \subseteq OtherRecord
    /\ settled \in BOOLEAN

(* updateDdnsHost beside applyDesiredStateSpec: the zone's other records   *)
(* are those of the last edit that committed, whatever updates overlap it. *)
OtherRecordsStay == zoneRows \ Address = asked

(* DNS.md:60: the zone converges to the client's address.  Overlapping     *)
(* updates and applies may leave an old address, two, or none; once edits, *)
(* moves and failures stop, the records become and stay the client's own.  *)
AddressConverges == <>[](settled /\ enabled => HostRows = {address})
=============================================================================
