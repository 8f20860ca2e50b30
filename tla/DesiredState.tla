---------------------------- MODULE DesiredState ----------------------------
(***************************************************************************)
(* The desired state in the control database and the operators who edit    *)
(* it.  Every edit, of one mailbox or of one zone, reads the whole         *)
(* specification, changes it in memory, and writes the whole back:         *)
(* rows are inserted or updated, and whatever the written specification    *)
(* does not list is deleted.                                               *)
(*                                                                         *)
(* A mail operation of the API reads and writes in one READ COMMITTED      *)
(* transaction; the web workspaces read an export in one request and apply *)
(* it in a second.  The writes of two transactions do not interleave: both *)
(* begin by updating the rows of every tenant and node, and the second     *)
(* waits for the first to end.                                             *)
(***************************************************************************)
EXTENDS Naturals

CONSTANTS
  Domain, Mailbox, Alias,   \* mail domains, mailbox and alias addresses
  DomainOf,                 \* the domain part of each address
  Secret, NoSecret,         \* mailbox passwords; none
  Size,                     \* quota sizes
  Value,                    \* contents of the tenants, nodes, zones and apps
  Operator,                 \* clients of the API's mail operations
  Editor                    \* clients of the web workspaces

ASSUME DesiredStateAssumption ==
  /\ DomainOf \in [Mailbox \cup Alias -> Domain]
  /\ NoSecret \notin Secret

VARIABLES
  db,        \* the committed desired state
  tx,        \* each client's edit in progress
  typed,     \* passwords generated or entered so far (never the same twice)
  replaced   \* passwords that were stored once and then were not

vars == <<db, tx, typed, replaced>>

CredentialState == {"missing", "configured", "reset_required"}
Credential == [state : CredentialState, secret : Secret \cup {NoSecret}]
PartialFunction(S, T) == UNION {[X -> T] : X \in SUBSET S}

Spec == [value     : Value,
         domains   : SUBSET Domain,
         mailboxes : PartialFunction(Mailbox, Credential),
         aliases   : SUBSET Alias,
         quotas    : PartialFunction(Mailbox, Size)]

(* What an edit is about: the parts of the desired state it may change.    *)
Item == {"value"} \X {0} \cup {"domain"} \X Domain \cup {"mailbox"} \X Mailbox
        \cup {"alias"} \X Alias \cup {"quota"} \X Mailbox

(* "built": the new specification is ready; "resolved": the transaction    *)
(* that applies it has read the stored credentials as well.                *)
NoTx == [step |-> "idle"]
Tx == [step     : {"built", "resolved"},
       next     : Spec,
       about    : SUBSET Item,
       existing : PartialFunction(Mailbox, Secret \cup {NoSecret})]

TypeOK ==
  /\ db \in Spec
  /\ tx \in [Operator \cup Editor -> Tx \cup {NoTx}]
  /\ typed \in SUBSET Secret
  /\ replaced \in SUBSET Secret

Empty == [x \in {} |-> NoSecret]

Without(f, S) == [x \in DOMAIN f \ S |-> f[x]]
With(f, x, y) == [z \in DOMAIN f \cup {x} |-> IF z = x THEN y ELSE f[z]]

Init ==
  /\ db \in {[value |-> x, domains |-> Domain, mailboxes |-> Empty,
              aliases |-> {}, quotas |-> Empty] : x \in Value}
  /\ tx = [d \in Operator \cup Editor |-> NoTx]
  /\ typed = {}
  /\ replaced = {}

-----------------------------------------------------------------------------
(* A specification that may be stored.  Topology, DNS and size rules, and  *)
(* the ban on alias loops, concern one request's own data: requests that   *)
(* break them are refused like these.                                      *)
validateDesiredStateSpec(s) ==
  /\ \A m \in DOMAIN s.mailboxes : DomainOf[m] \in s.domains
  /\ \A a \in s.aliases : DomainOf[a] \in s.domains
  /\ DOMAIN s.quotas \subseteq DOMAIN s.mailboxes

(* Fault: an inner join, only mailboxes with a password are read.          *)
buildFromConfiguredMailboxes ==
  LET joined == {m \in DOMAIN db.mailboxes : db.mailboxes[m].state = "configured"}
  IN  [db EXCEPT !.mailboxes = [m \in joined |-> db.mailboxes[m]],
                 !.quotas = [m \in joined \cap DOMAIN db.quotas |-> db.quotas[m]]]

(* Stored passwords are read with the rows; an export leaves them out.     *)
buildDesiredStateSpecFromDatabase ==
  [db EXCEPT !.mailboxes =
     [m \in DOMAIN db.mailboxes |->
        IF db.mailboxes[m].state = "configured" THEN db.mailboxes[m]
        ELSE [db.mailboxes[m] EXCEPT !.secret = NoSecret]]]

sanitizeDesiredStateSpecForExport(s) ==
  [s EXCEPT !.mailboxes = [m \in DOMAIN s.mailboxes |-> [s.mailboxes[m] EXCEPT !.secret = NoSecret]]]

(* Fault: a password is kept whatever the new state of the credential.     *)
SecretOfAnyState(entry, m, existing) ==
  IF entry.secret # NoSecret THEN entry.secret
  ELSE IF m \in DOMAIN existing THEN existing[m]
  ELSE NoSecret

(* The password an entry of the written specification leaves stored.       *)
SecretToStore(entry, m, existing) ==
  IF entry.state # "configured" THEN NoSecret
  ELSE IF entry.secret # NoSecret THEN entry.secret
  ELSE IF m \in DOMAIN existing THEN existing[m]
  ELSE NoSecret

(* Fault: aliases are upserted and never deleted.                          *)
WrittenWithoutAliasDeletes(s, existing) ==
  [s EXCEPT
     !.mailboxes = [m \in DOMAIN s.mailboxes |->
                      [s.mailboxes[m] EXCEPT
                         !.secret = SecretToStore(s.mailboxes[m], m, existing)]],
     !.aliases = @ \cup {a \in db.aliases : DomainOf[a] \in s.domains}]

(* The tables after the upserts and the deletes.  A quota row goes with    *)
(* its mailbox only.                                                       *)
Written(s, existing) ==
  [s EXCEPT
     !.mailboxes = [m \in DOMAIN s.mailboxes |->
                      [s.mailboxes[m] EXCEPT
                         !.secret = SecretToStore(s.mailboxes[m], m, existing)]],
     !.quotas = [m \in DOMAIN s.quotas \cup (DOMAIN db.quotas \cap DOMAIN s.mailboxes) |->
                   IF m \in DOMAIN s.quotas THEN s.quotas[m] ELSE db.quotas[m]]]

StoredSecrets == {db.mailboxes[m].secret : m \in DOMAIN db.mailboxes} \ {NoSecret}

-----------------------------------------------------------------------------
(* Building an edit.                                                       *)

Build(d, next, about) ==
  /\ tx[d] = NoTx
  /\ tx' = [tx EXCEPT ![d] = [step |-> "built", next |-> next, about |-> about,
                              existing |-> Empty]]
  /\ UNCHANGED <<db, replaced>>

Current == buildDesiredStateSpecFromDatabase

upsertMailDomain(d, x) ==
  /\ Build(d, [Current EXCEPT !.domains = @ \cup {x}], {<<"domain", x>>})
  /\ UNCHANGED typed

deleteMailDomain(d, x) ==
  LET gone == {a \in Mailbox \cup Alias : DomainOf[a] = x}
  IN  /\ Build(d,
               [Current EXCEPT !.domains = @ \ {x},
                               !.mailboxes = Without(@, gone),
                               !.aliases = @ \ gone,
                               !.quotas = Without(@, gone)],
               {<<"domain", x>>} \cup
                 {"mailbox", "quota"} \X (gone \cap Mailbox) \cup {"alias"} \X (gone \cap Alias))
      /\ UNCHANGED typed

(* The request names a password, asks for a generated one, clears the      *)
(* credential, or leaves it as it is.                                      *)
upsertMailbox(d, m, wish) ==
  LET old == IF m \in DOMAIN Current.mailboxes THEN Current.mailboxes[m]
             ELSE [state |-> "missing", secret |-> NoSecret]
      Entry(p) == CASE wish = "set"     -> [state |-> "configured", secret |-> p]
                    [] wish = "missing" -> [state |-> "missing", secret |-> NoSecret]
                    [] wish = "keep"    -> old
  IN  \E p \in (IF wish = "set" THEN Secret \ typed ELSE {NoSecret}) :
        /\ Build(d, [Current EXCEPT !.mailboxes = With(@, m, Entry(p))], {<<"mailbox", m>>})
        /\ typed' = typed \cup ({p} \ {NoSecret})

resetMailboxCredential(d, m) ==
  /\ m \in DOMAIN db.mailboxes
  /\ Build(d,
           [Current EXCEPT !.mailboxes =
              With(@, m, [state |-> "reset_required", secret |-> NoSecret])],
           {<<"mailbox", m>>})
  /\ UNCHANGED typed

rotateMailboxCredential(d, m) ==
  /\ m \in DOMAIN db.mailboxes
  /\ \E p \in Secret \ typed :
       /\ Build(d,
                [Current EXCEPT !.mailboxes =
                   With(@, m, [state |-> "configured", secret |-> p])],
                {<<"mailbox", m>>})
       /\ typed' = typed \cup {p}

deleteMailbox(d, m) ==
  /\ Build(d,
           [Current EXCEPT !.mailboxes = Without(@, {m}), !.quotas = Without(@, {m})],
           {<<"mailbox", m>>, <<"quota", m>>})
  /\ UNCHANGED typed

upsertMailAlias(d, a) ==
  /\ Build(d, [Current EXCEPT !.aliases = @ \cup {a}], {<<"alias", a>>})
  /\ UNCHANGED typed

deleteMailAlias(d, a) ==
  /\ Build(d, [Current EXCEPT !.aliases = @ \ {a}], {<<"alias", a>>})
  /\ UNCHANGED typed

upsertMailboxQuota(d, m, size) ==
  /\ Build(d, [Current EXCEPT !.quotas = With(@, m, size)], {<<"quota", m>>})
  /\ UNCHANGED typed

deleteMailboxQuota(d, m) ==
  /\ Build(d, [Current EXCEPT !.quotas = Without(@, {m})], {<<"quota", m>>})
  /\ UNCHANGED typed

(* A web workspace loads the export and changes one resource of it.        *)
mutateDesiredState(d, x) ==
  /\ Build(d,
           [sanitizeDesiredStateSpecForExport(Current) EXCEPT !.value = x],
           {<<"value", 0>>})
  /\ UNCHANGED typed

-----------------------------------------------------------------------------
(* applyDesiredStateSpec, its credential query and its writes.             *)

(* Fault: the edit is applied without being validated.                     *)
ResolveUnvalidated(d) ==
  /\ tx[d].step = "built"
  /\ tx' = [tx EXCEPT ![d].step = "resolved",
                      ![d].existing = [m \in DOMAIN db.mailboxes |-> db.mailboxes[m].secret]]
  /\ UNCHANGED <<db, typed, replaced>>

queryExistingMailboxCredentialRows(d) ==
  /\ tx[d].step = "built"
  /\ validateDesiredStateSpec(tx[d].next)
  /\ tx' = [tx EXCEPT ![d].step = "resolved",
                      ![d].existing = [m \in DOMAIN db.mailboxes |-> db.mailboxes[m].secret]]
  /\ UNCHANGED <<db, typed, replaced>>

applyDesiredStateSpec(d) ==
  /\ tx[d].step = "resolved"
  /\ db' = Written(tx[d].next, tx[d].existing)
  /\ tx' = [tx EXCEPT ![d] = NoTx]
  /\ replaced' = replaced \cup (StoredSecrets \ StoredSecrets')
  /\ UNCHANGED typed

(* Validation refuses the edit, the client goes away, or the database      *)
(* fails: the transaction rolls back.                                      *)
Abandon(d) ==
  /\ tx[d] # NoTx
  /\ tx' = [tx EXCEPT ![d] = NoTx]
  /\ UNCHANGED <<db, typed, replaced>>

-----------------------------------------------------------------------------
MailEdit(d) ==
  \/ \E x \in Domain : upsertMailDomain(d, x) \/ deleteMailDomain(d, x)
  \/ \E m \in Mailbox :
       \/ \E wish \in {"set", "missing", "keep"} : upsertMailbox(d, m, wish)
       \/ resetMailboxCredential(d, m)
       \/ rotateMailboxCredential(d, m)
       \/ deleteMailbox(d, m)
       \/ \E size \in Size : upsertMailboxQuota(d, m, size)
       \/ deleteMailboxQuota(d, m)
  \/ \E a \in Alias : upsertMailAlias(d, a) \/ deleteMailAlias(d, a)

Next ==
  \/ \E d \in Operator : MailEdit(d)
  \/ \E d \in Editor, x \in Value : mutateDesiredState(d, x)
  \/ \E d \in Operator \cup Editor :
       \/ queryExistingMailboxCredentialRows(d)
       \/ applyDesiredStateSpec(d)
       \/ Abandon(d)

EditSpec == Init /\ [][Next]_vars

-----------------------------------------------------------------------------
(* Whatever edits interleave, the stored desired state is one that the     *)
(* validation accepts, so a later edit is never refused for the state it   *)
(* finds.                                                                  *)
SpecStaysValid == validateDesiredStateSpec(db)

(* A mailbox shown as configured has a password to render, and any other   *)
(* mailbox has none.                                                       *)
ConfiguredHasSecret ==
  \A m \in DOMAIN db.mailboxes :
    db.mailboxes[m].state = "configured" <=> db.mailboxes[m].secret # NoSecret

(* A password that was rotated, reset or cleared away does not come back.  *)
RotationReplaces == StoredSecrets \cap replaced = {}

(* An edit that is answered with success is in the tables.                 *)
EditTakesEffect ==
  [][\A d \in Operator \cup Editor : applyDesiredStateSpec(d) =>
       LET next == tx[d].next
       IN  /\ <<db'.value, db'.domains, db'.aliases>> = <<next.value, next.domains, next.aliases>>
           /\ DOMAIN db'.mailboxes = DOMAIN next.mailboxes
           /\ db'.quotas = next.quotas]_vars

(* An edit changes only what it is about.                                  *)
View(s, i) ==
  LET x == i[2]
  IN  CASE i[1] = "value"   -> s.value
        [] i[1] = "domain"  -> x \in s.domains
        [] i[1] = "mailbox" -> IF x \in DOMAIN s.mailboxes THEN {s.mailboxes[x]} ELSE {}
        [] i[1] = "alias"   -> x \in s.aliases
        [] i[1] = "quota"   -> IF x \in DOMAIN s.quotas THEN {s.quotas[x]} ELSE {}

OnlyWhatWasAsked ==
  [][\A d \in Operator \cup Editor : applyDesiredStateSpec(d) =>
       \A i \in Item \ tx[d].about : View(db, i)' = View(db, i)]_vars
=============================================================================
