--------------------------- MODULE MailboxReveals ---------------------------
(***************************************************************************)
(* The single-use reveals of generated mailbox passwords.  A rotation      *)
(* stores the new password and a reveal row for its actor in one           *)
(* transaction and sends the browser to a page that consumes the row: one  *)
(* UPDATE, whose row lock makes a second request wait and look again.      *)
(* Left out: the password itself (DesiredState has the credential), roles  *)
(* and sessions, and a payload that cannot be decrypted, which is consumed *)
(* and not shown.                                                          *)
(***************************************************************************)
EXTENDS Naturals, Sequences

CONSTANTS Operator,     \* users who may rotate and reveal
          Reveal,       \* reveal ids (a bound)
          Request       \* requests at the API at once (a bound)

VARIABLES mailbox,      \* the mailbox's row exists
          reveals,      \* reveal rows: owner, still there, consumed, expired
          request,      \* per request: step, operator, reveal, whether it was live at BEGIN
          shown         \* operators a reveal's password was shown to, in order

revealVars == <<mailbox, reveals, request, shown>>

Absent == [owner |-> "nobody", there |-> FALSE, consumed |-> FALSE, expired |-> FALSE]
Unused == [step |-> "free"]

RevealInit ==
    /\ mailbox = TRUE
    /\ reveals = [v \in Reveal |-> Absent]
    /\ request = [q \in Request |-> Unused]
    /\ shown = [v \in Reveal |-> <<>>]

Advance(q, step) == request' = [request EXCEPT ![q].step = step]
Unissued == {v \in Reveal : reveals[v] = Absent}

(* Row locks: a consuming transaction holds its row until it ends.         *)
Locked(v) == \E q \in Request : request[q].step = "consumed" /\ request[q].reveal = v

-----------------------------------------------------------------------------
(* rotateMailboxCredential and an upsert that generates: read the spec ... *)
StartRotation(q, o) ==
    /\ request[q] = Unused /\ mailbox
    /\ request' = [request EXCEPT ![q] = [step |-> "rotate", operator |-> o]]
    /\ UNCHANGED <<mailbox, reveals, shown>>

(* ... and write it back, with the mailbox if it was deleted meanwhile.    *)
CommitRotation(q) ==
    /\ request[q].step = "rotate"
    /\ \E v \in Unissued :
          reveals' = [reveals EXCEPT ![v] = [Absent EXCEPT !.owner = request[q].operator,
                                                        !.there = TRUE]]
    /\ mailbox' = TRUE
    /\ request' = [request EXCEPT ![q] = Unused]
    /\ shown' = shown

(* A desired state without the mailbox: its reveals go with it (cascade).  *)
DeleteMailbox ==
    /\ mailbox /\ \A v \in Reveal : ~Locked(v)
    /\ mailbox' = FALSE
    /\ reveals' = [v \in Reveal |-> [reveals[v] EXCEPT !.there = FALSE]]
    /\ UNCHANGED <<request, shown>>

(* Fifteen minutes after the rotation.                                     *)
Expire(v) ==
    /\ reveals[v].there /\ ~reveals[v].expired
    /\ reveals' = [reveals EXCEPT ![v].expired = TRUE]
    /\ UNCHANGED <<mailbox, request, shown>>

-----------------------------------------------------------------------------
(* The dashboard page of a URL with a reveal id, whoever opens it.  NOW()  *)
(* is the time the transaction began.                                      *)
OpenPage(q, o, v) ==
    /\ request[q] = Unused
    /\ request' = [request EXCEPT ![q] = [step |-> "begun", operator |-> o, reveal |-> v,
                                          live |-> ~reveals[v].expired]]
    /\ UNCHANGED <<mailbox, reveals, shown>>

Consumable(q) ==
    LET row == reveals[request[q].reveal]
    IN row.there /\ row.owner = request[q].operator /\ ~row.consumed /\ request[q].live

Nothing(q) == request' = [request EXCEPT ![q] = Unused]

(* Fault: a SELECT that takes no lock, with the UPDATE after it.          *)
SelectReveal(q) ==
    /\ request[q].step = "begun"
    /\ IF Consumable(q) THEN Advance(q, "consumed") ELSE Nothing(q)
    /\ UNCHANGED <<mailbox, reveals, shown>>

ConsumeReveal(q) ==
    /\ request[q].step = "begun" /\ ~Locked(request[q].reveal)
    /\ IF Consumable(q) THEN Advance(q, "consumed") ELSE Nothing(q)
    /\ UNCHANGED <<mailbox, reveals, shown>>

CommitConsumption(q) ==
    /\ request[q].step = "consumed"
    /\ reveals' = [reveals EXCEPT ![request[q].reveal].consumed = TRUE]
    /\ Advance(q, "reply")
    /\ UNCHANGED <<mailbox, shown>>

ShowPassword(q) ==
    /\ request[q].step = "reply"
    /\ shown' = [shown EXCEPT ![request[q].reveal] = Append(@, request[q].operator)]
    /\ Nothing(q)
    /\ UNCHANGED <<mailbox, reveals>>

(* The process dies or the database fails: an open transaction is rolled   *)
(* back, a reply is lost.                                                  *)
RequestFails(q) ==
    /\ request[q] # Unused /\ Nothing(q)
    /\ UNCHANGED <<mailbox, reveals, shown>>

RevealNext ==
    \/ DeleteMailbox \/ \E v \in Reveal : Expire(v)
    \/ \E q \in Request :
          \/ CommitRotation(q) \/ ConsumeReveal(q) \/ CommitConsumption(q)
          \/ ShowPassword(q) \/ RequestFails(q)
          \/ \E o \in Operator : StartRotation(q, o) \/ \E v \in Reveal : OpenPage(q, o, v)

RevealSpec == RevealInit /\ [][RevealNext]_revealVars

-----------------------------------------------------------------------------
(* Every variable has its type.                                            *)
RevealTypeOK ==
    /\ mailbox \in BOOLEAN
    /\ reveals \in [Reveal -> [owner : Operator \cup {"nobody"}, there : BOOLEAN,
                               consumed : BOOLEAN, expired : BOOLEAN]]
    /\ request \in [Request -> {Unused} \cup [step : {"rotate"}, operator : Operator]
                       \cup [step : {"begun", "consumed", "reply"}, operator : Operator,
                             reveal : Reveal, live : BOOLEAN]]
    /\ shown \in [Reveal -> Seq(Operator)]

(* consumeMailboxCredentialReveal: however many requests race for a reveal *)
(* and whatever fails, its password is shown at most once, and to nobody   *)
(* but the operator whose rotation created it.                             *)
RevealedOnce ==
    \A v \in Reveal :
        /\ Len(shown[v]) <= 1
        /\ \A i \in DOMAIN shown[v] : shown[v][i] = reveals[v].owner
=============================================================================
