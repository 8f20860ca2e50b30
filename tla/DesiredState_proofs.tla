------------------------- MODULE DesiredState_proofs -------------------------
(***************************************************************************)
(* Theorems about DesiredState, for any number of domains, mailboxes and   *)
(* clients: what the whole-specification edits cannot break however they   *)
(* interleave, and what the API's own edits cannot break.                  *)
(***************************************************************************)
EXTENDS DesiredState, TLAPS

Client == Operator \cup Editor

-----------------------------------------------------------------------------
(* Partial functions.                                                      *)

LEMMA PartialFunctionIs ==
  ASSUME NEW S, NEW T, NEW f
  PROVE  f \in PartialFunction(S, T) <=> DOMAIN f \subseteq S /\ f \in [DOMAIN f -> T]
  BY DEF PartialFunction

LEMMA EmptyType ==
  ASSUME NEW S, NEW T
  PROVE  Empty \in PartialFunction(S, T) /\ DOMAIN Empty = {}
  <1>1. Empty \in [{} -> T] /\ DOMAIN Empty = {}
    BY DEF Empty
  <1> QED BY <1>1, PartialFunctionIs

LEMMA WithoutType ==
  ASSUME NEW S, NEW T, NEW f \in PartialFunction(S, T), NEW X
  PROVE  /\ Without(f, X) \in PartialFunction(S, T)
         /\ DOMAIN Without(f, X) = DOMAIN f \ X
         /\ \A x \in DOMAIN f \ X : Without(f, X)[x] = f[x]
  BY PartialFunctionIs DEF Without

LEMMA WithType ==
  ASSUME NEW S, NEW T, NEW f \in PartialFunction(S, T), NEW x \in S, NEW y \in T
  PROVE  /\ With(f, x, y) \in PartialFunction(S, T)
         /\ DOMAIN With(f, x, y) = DOMAIN f \cup {x}
         /\ With(f, x, y)[x] = y
         /\ \A z \in DOMAIN f \ {x} : With(f, x, y)[z] = f[z]
  BY PartialFunctionIs DEF With

-----------------------------------------------------------------------------
(* Reading and writing the whole specification.                            *)

LEMMA CurrentType ==
  ASSUME TypeOK
  PROVE  /\ Current \in Spec
         /\ DOMAIN Current.mailboxes = DOMAIN db.mailboxes
         /\ \A m \in DOMAIN db.mailboxes :
              /\ Current.mailboxes[m].state = db.mailboxes[m].state
              /\ Current.mailboxes[m].secret =
                   IF db.mailboxes[m].state = "configured" THEN db.mailboxes[m].secret
                   ELSE NoSecret
  <1> DEFINE read == [m \in DOMAIN db.mailboxes |->
                        IF db.mailboxes[m].state = "configured" THEN db.mailboxes[m]
                        ELSE [db.mailboxes[m] EXCEPT !.secret = NoSecret]]
  <1>1. db.mailboxes \in [DOMAIN db.mailboxes -> Credential] /\ DOMAIN db.mailboxes \subseteq Mailbox
    BY PartialFunctionIs DEF TypeOK, Spec
  <1>2. \A m \in DOMAIN db.mailboxes : read[m] \in Credential
    BY <1>1 DEF Credential
  <1>3. read \in PartialFunction(Mailbox, Credential)
    BY <1>1, <1>2, PartialFunctionIs
  <1>4. Current = [db EXCEPT !.mailboxes = read]
    BY DEF Current, buildDesiredStateSpecFromDatabase
  <1>5. Current.mailboxes = read
    BY <1>4 DEF TypeOK, Spec
  <1>6. Current \in Spec
    BY <1>3, <1>4 DEF TypeOK, Spec
  <1> QED BY <1>1, <1>5, <1>6 DEF Credential

LEMMA CurrentFields ==
  ASSUME TypeOK
  PROVE  /\ Current.value = db.value
         /\ Current.domains = db.domains
         /\ Current.aliases = db.aliases
         /\ Current.quotas = db.quotas
  BY DEF TypeOK, Spec, Current, buildDesiredStateSpecFromDatabase

LEMMA ExportType ==
  ASSUME NEW s \in Spec, NEW x \in Value
  PROVE  LET next == [sanitizeDesiredStateSpecForExport(s) EXCEPT !.value = x]
         IN  /\ next \in Spec
             /\ next.domains = s.domains /\ next.aliases = s.aliases /\ next.quotas = s.quotas
             /\ DOMAIN next.mailboxes = DOMAIN s.mailboxes
             /\ \A m \in DOMAIN s.mailboxes :
                  /\ next.mailboxes[m].state = s.mailboxes[m].state
                  /\ next.mailboxes[m].secret = NoSecret
  <1> DEFINE bare == [m \in DOMAIN s.mailboxes |-> [s.mailboxes[m] EXCEPT !.secret = NoSecret]]
  <1>1. s.mailboxes \in [DOMAIN s.mailboxes -> Credential] /\ DOMAIN s.mailboxes \subseteq Mailbox
    BY PartialFunctionIs DEF Spec
  <1>2. bare \in PartialFunction(Mailbox, Credential)
    <2>1. \A m \in DOMAIN s.mailboxes : bare[m] \in Credential
      BY <1>1 DEF Credential
    <2> QED BY <1>1, <2>1, PartialFunctionIs
  <1>3. sanitizeDesiredStateSpecForExport(s) = [s EXCEPT !.mailboxes = bare]
    BY DEF sanitizeDesiredStateSpecForExport
  <1>4. /\ DOMAIN bare = DOMAIN s.mailboxes
        /\ \A m \in DOMAIN s.mailboxes :
             bare[m].state = s.mailboxes[m].state /\ bare[m].secret = NoSecret
    BY <1>1 DEF Credential
  <1> HIDE DEF bare
  <1>5. LET next == [sanitizeDesiredStateSpecForExport(s) EXCEPT !.value = x]
        IN  /\ next \in Spec /\ next.mailboxes = bare
            /\ next.domains = s.domains /\ next.aliases = s.aliases /\ next.quotas = s.quotas
    BY <1>2, <1>3 DEF Spec
  <1> QED BY <1>4, <1>5

-----------------------------------------------------------------------------
(* Building an edit.  Every operation turns a well-typed specification     *)
(* into a well-typed one, and those of the API keep credentials agreeing   *)
(* with their state.                                                       *)

Agrees(s) == \A m \in DOMAIN s.mailboxes :
               s.mailboxes[m].state = "configured" <=> s.mailboxes[m].secret # NoSecret

(* Outside what it is about, a specification built by an edit says what    *)
(* the tables say, except that a password may be left out.                 *)
SameMailbox(s, m) ==
  /\ m \in DOMAIN s.mailboxes <=> m \in DOMAIN db.mailboxes
  /\ m \in DOMAIN s.mailboxes =>
       /\ s.mailboxes[m].state = db.mailboxes[m].state
       /\ s.mailboxes[m].secret \in {NoSecret, db.mailboxes[m].secret}

SameQuota(s, m) ==
  /\ m \in DOMAIN s.quotas <=> m \in DOMAIN db.quotas
  /\ m \in DOMAIN s.quotas => s.quotas[m] = db.quotas[m]

Touches(s, about) ==
  /\ <<"value", 0>> \notin about => s.value = db.value
  /\ \A x \in Domain : <<"domain", x>> \notin about => (x \in s.domains <=> x \in db.domains)
  /\ \A a \in Alias : <<"alias", a>> \notin about => (a \in s.aliases <=> a \in db.aliases)
  /\ \A m \in Mailbox : <<"mailbox", m>> \notin about => SameMailbox(s, m)
  /\ \A m \in Mailbox : <<"quota", m>> \notin about => SameQuota(s, m)

LEMMA CurrentIsSame ==
  ASSUME TypeOK, NEW s,
         s.mailboxes = Current.mailboxes
  PROVE  \A m \in Mailbox : SameMailbox(s, m)
  BY CurrentType DEF SameMailbox

LEMMA CurrentQuotasAreSame ==
  ASSUME TypeOK, NEW s, s.quotas = Current.quotas
  PROVE  \A m \in Mailbox : SameQuota(s, m)
  BY CurrentFields DEF SameQuota

Edit(d, next, about) ==
  /\ Build(d, next, about)
  /\ Touches(next, about)
  /\ next \in Spec
  /\ about \in SUBSET Item
  /\ typed' \in SUBSET Secret
  /\ Agrees(db) => Agrees(next)

LEMMA CurrentAgrees ==
  ASSUME TypeOK, Agrees(db)
  PROVE  Agrees(Current)
  BY CurrentType DEF Agrees

(* The mailboxes of the specification replaced by f, the rest kept.        *)
LEMMA MailboxesReplaced ==
  ASSUME TypeOK, NEW f \in PartialFunction(Mailbox, Credential)
  PROVE  LET next == [Current EXCEPT !.mailboxes = f]
         IN  /\ next \in Spec
             /\ next.mailboxes = f
             /\ next.value = Current.value /\ next.domains = Current.domains
             /\ next.aliases = Current.aliases /\ next.quotas = Current.quotas
  BY CurrentType DEF Spec

(* One credential stored, with a password exactly when it is configured.   *)
LEMMA CredentialStored ==
  ASSUME TypeOK, NEW m \in Mailbox, NEW c \in Credential
  PROVE  LET next == [Current EXCEPT !.mailboxes = With(@, m, c)]
         IN  /\ next \in Spec
             /\ Agrees(db) /\ (c.state = "configured" <=> c.secret # NoSecret) => Agrees(next)
             /\ Touches(next, {<<"mailbox", m>>})
  <1> DEFINE f == With(Current.mailboxes, m, c)
             next == [Current EXCEPT !.mailboxes = f]
  <1>1. Current.mailboxes \in PartialFunction(Mailbox, Credential)
    BY CurrentType DEF Spec
  <1>2. /\ f \in PartialFunction(Mailbox, Credential)
        /\ DOMAIN f = DOMAIN Current.mailboxes \cup {m}
        /\ f[m] = c
        /\ \A z \in DOMAIN Current.mailboxes \ {m} : f[z] = Current.mailboxes[z]
    <2>1. \A g \in PartialFunction(Mailbox, Credential) :
            /\ With(g, m, c) \in PartialFunction(Mailbox, Credential)
            /\ DOMAIN With(g, m, c) = DOMAIN g \cup {m}
            /\ With(g, m, c)[m] = c
            /\ \A z \in DOMAIN g \ {m} : With(g, m, c)[z] = g[z]
      BY WithType
    <2> QED BY <1>1, <2>1
  <1> HIDE DEF f
  <1>3. next \in Spec /\ next.mailboxes = f
    BY <1>2, MailboxesReplaced
  <1>4. ASSUME Agrees(db), c.state = "configured" <=> c.secret # NoSecret
        PROVE  Agrees(next)
    BY <1>2, <1>3, <1>4, CurrentAgrees DEF Agrees
  <1>5. next = [Current EXCEPT !.mailboxes = With(@, m, c)]
    BY DEF f
  <1>6. Touches(next, {<<"mailbox", m>>})
    <2>1. /\ next.value = db.value /\ next.domains = db.domains
          /\ next.aliases = db.aliases /\ next.quotas = Current.quotas
      BY <1>2, MailboxesReplaced, CurrentFields
    <2>2. \A z \in Mailbox \ {m} : SameMailbox(next, z)
      BY <1>2, <1>3, CurrentType DEF SameMailbox
    <2> HIDE DEF next
    <2>3. \A z \in Mailbox : SameQuota(next, z)
      BY <2>1, CurrentQuotasAreSame
    <2> QED BY <2>1, <2>2, <2>3 DEF Touches
  <1> QED BY <1>3, <1>4, <1>5, <1>6

(* Mailboxes removed, with domains, aliases and quotas along.              *)
LEMMA MailboxesRemoved ==
  ASSUME TypeOK, NEW G, NEW D \in SUBSET Domain, NEW A \in SUBSET Alias
  PROVE  LET next == [Current EXCEPT !.domains = D, !.aliases = A,
                                     !.mailboxes = Without(@, G), !.quotas = Without(@, G)]
         IN  /\ next \in Spec /\ (Agrees(db) => Agrees(next))
             /\ \A about :
                  /\ \A x \in Domain : <<"domain", x>> \notin about =>
                                         (x \in D <=> x \in Current.domains)
                  /\ \A a \in Alias : <<"alias", a>> \notin about =>
                                        (a \in A <=> a \in Current.aliases)
                  /\ \A m \in G \cap Mailbox :
                       <<"mailbox", m>> \in about /\ <<"quota", m>> \in about
                  => Touches(next, about)
  <1> DEFINE f == Without(Current.mailboxes, G)
             q == Without(Current.quotas, G)
             next == [Current EXCEPT !.domains = D, !.aliases = A, !.mailboxes = f, !.quotas = q]
  <1>1. /\ Current.mailboxes \in PartialFunction(Mailbox, Credential)
        /\ Current.quotas \in PartialFunction(Mailbox, Size)
    BY CurrentType DEF Spec
  <1>2. /\ f \in PartialFunction(Mailbox, Credential)
        /\ DOMAIN f = DOMAIN Current.mailboxes \ G
        /\ \A z \in DOMAIN Current.mailboxes \ G : f[z] = Current.mailboxes[z]
    <2>1. \A g \in PartialFunction(Mailbox, Credential) :
            /\ Without(g, G) \in PartialFunction(Mailbox, Credential)
            /\ DOMAIN Without(g, G) = DOMAIN g \ G
            /\ \A z \in DOMAIN g \ G : Without(g, G)[z] = g[z]
      BY PartialFunctionIs DEF Without
    <2> QED BY <1>1, <2>1
  <1>6. /\ q \in PartialFunction(Mailbox, Size)
        /\ DOMAIN q = DOMAIN Current.quotas \ G
        /\ \A z \in DOMAIN Current.quotas \ G : q[z] = Current.quotas[z]
    <2>1. \A g \in PartialFunction(Mailbox, Size) :
            /\ Without(g, G) \in PartialFunction(Mailbox, Size)
            /\ DOMAIN Without(g, G) = DOMAIN g \ G
            /\ \A z \in DOMAIN g \ G : Without(g, G)[z] = g[z]
      BY PartialFunctionIs DEF Without
    <2> QED BY <1>1, <2>1
  <1> HIDE DEF f, q
  <1>3. /\ next \in Spec /\ next.mailboxes = f /\ next.quotas = q
        /\ next.value = Current.value /\ next.domains = D /\ next.aliases = A
    BY <1>2, <1>6, CurrentType DEF Spec
  <1>4. ASSUME Agrees(db) PROVE Agrees(next)
    BY <1>2, <1>3, <1>4, CurrentAgrees DEF Agrees
  <1>5. next = [Current EXCEPT !.domains = D, !.aliases = A,
                               !.mailboxes = Without(@, G), !.quotas = Without(@, G)]
    BY DEF f, q
  <1>7. \A m \in Mailbox \ G : SameMailbox(next, m) /\ SameQuota(next, m)
    BY <1>2, <1>3, <1>6, CurrentType, CurrentFields DEF SameMailbox, SameQuota
  <1>8. next.value = db.value /\ next.domains = D /\ next.aliases = A
    BY <1>3, CurrentFields
  <1> HIDE DEF next
  <1>9. ASSUME NEW about,
               \A x \in Domain : <<"domain", x>> \notin about => (x \in D <=> x \in Current.domains),
               \A a \in Alias : <<"alias", a>> \notin about => (a \in A <=> a \in Current.aliases),
               \A m \in G \cap Mailbox : <<"mailbox", m>> \in about /\ <<"quota", m>> \in about
        PROVE  Touches(next, about)
    BY <1>7, <1>8, <1>9, CurrentFields DEF Touches
  <1> QED BY <1>3, <1>4, <1>5, <1>9

-----------------------------------------------------------------------------
(* One lemma per operation.                                                *)

LEMMA ItemIs ==
  /\ \A x \in Domain : <<"domain", x>> \in Item
  /\ \A m \in Mailbox : <<"mailbox", m>> \in Item /\ <<"quota", m>> \in Item
  /\ \A a \in Alias : <<"alias", a>> \in Item
  /\ <<"value", 0>> \in Item
  BY DEF Item

LEMMA upsertMailDomainEdits ==
  ASSUME TypeOK, NEW d, NEW x \in Domain, upsertMailDomain(d, x)
  PROVE  \E next, about : Edit(d, next, about)
  <1> DEFINE next == [Current EXCEPT !.domains = @ \cup {x}]
  <1>1. next \in Spec /\ next.mailboxes = Current.mailboxes
    BY CurrentType DEF Spec
  <1>5. Touches(next, {<<"domain", x>>})
    <2>1. /\ next.quotas = Current.quotas /\ next.value = db.value
          /\ next.domains = db.domains \cup {x} /\ next.aliases = db.aliases
      BY CurrentType, CurrentFields DEF Spec
    <2>2. \A z \in Mailbox : SameMailbox(next, z) /\ SameQuota(next, z)
      <3> HIDE DEF next
      <3> QED BY <1>1, <2>1, CurrentIsSame, CurrentQuotasAreSame
    <2> HIDE DEF next
    <2> QED BY <2>1, <2>2 DEF Touches
  <1>2. Agrees(db) => Agrees(next)
    BY <1>1, CurrentAgrees DEF Agrees
  <1>3. Build(d, next, {<<"domain", x>>}) /\ typed' \in SUBSET Secret
    BY DEF upsertMailDomain, TypeOK
  <1>4. {<<"domain", x>>} \in SUBSET Item
    BY ItemIs
  <1> HIDE DEF next
  <1> QED BY <1>1, <1>2, <1>3, <1>4, <1>5 DEF Edit

LEMMA deleteMailDomainEdits ==
  ASSUME TypeOK, NEW d, NEW x \in Domain, deleteMailDomain(d, x)
  PROVE  \E next, about : Edit(d, next, about)
  <1> DEFINE gone == {a \in Mailbox \cup Alias : DomainOf[a] = x}
             D == Current.domains \ {x}
             A == Current.aliases \ gone
             next == [Current EXCEPT !.domains = D, !.aliases = A,
                                     !.mailboxes = Without(@, gone), !.quotas = Without(@, gone)]
             about == {<<"domain", x>>} \cup
                        {"mailbox", "quota"} \X (gone \cap Mailbox) \cup {"alias"} \X (gone \cap Alias)
  <1>1. D \in SUBSET Domain /\ A \in SUBSET Alias
    BY CurrentType DEF Spec
  <1>2. next \in Spec /\ (Agrees(db) => Agrees(next)) /\ Touches(next, about)
    <2>1. /\ \A z \in Domain : <<"domain", z>> \notin about => (z \in D <=> z \in Current.domains)
          /\ \A a \in Alias : <<"alias", a>> \notin about => (a \in A <=> a \in Current.aliases)
          /\ \A m \in gone \cap Mailbox : <<"mailbox", m>> \in about /\ <<"quota", m>> \in about
      <3> HIDE DEF gone
      <3>1. \A z \in Domain : <<"domain", z>> \notin about => z # x
        OBVIOUS
      <3>2. \A a \in Alias : <<"alias", a>> \notin about => a \notin gone
        OBVIOUS
      <3>3. \A m \in gone \cap Mailbox : <<"mailbox", m>> \in about /\ <<"quota", m>> \in about
        OBVIOUS
      <3> HIDE DEF about
      <3> QED BY <3>1, <3>2, <3>3
    <2> HIDE DEF gone, D, A, about
    <2> QED BY <1>1, <2>1, MailboxesRemoved
  <1>3. Build(d, next, about) /\ typed' \in SUBSET Secret
    <2>1. next = [Current EXCEPT !.domains = @ \ {x},
                                 !.mailboxes = Without(@, gone),
                                 !.aliases = @ \ gone,
                                 !.quotas = Without(@, gone)]
      BY CurrentType DEF Spec
    <2> QED BY <2>1 DEF deleteMailDomain, TypeOK
  <1>4. about \in SUBSET Item
    BY DEF Item
  <1> HIDE DEF next, about
  <1> QED BY <1>2, <1>3, <1>4 DEF Edit

LEMMA deleteMailboxEdits ==
  ASSUME TypeOK, NEW d, NEW m \in Mailbox, deleteMailbox(d, m)
  PROVE  \E next, about : Edit(d, next, about)
  <1> DEFINE D == Current.domains
             A == Current.aliases
             next == [Current EXCEPT !.domains = D, !.aliases = A,
                                     !.mailboxes = Without(@, {m}), !.quotas = Without(@, {m})]
             about == {<<"mailbox", m>>, <<"quota", m>>}
  <1>1. D \in SUBSET Domain /\ A \in SUBSET Alias
    BY CurrentType DEF Spec
  <1>2. next \in Spec /\ (Agrees(db) => Agrees(next)) /\ Touches(next, about)
    <2>1. \A z \in {m} \cap Mailbox : <<"mailbox", z>> \in about /\ <<"quota", z>> \in about
      OBVIOUS
    <2>2. /\ \A z \in Domain : <<"domain", z>> \notin about => (z \in D <=> z \in Current.domains)
          /\ \A a \in Alias : <<"alias", a>> \notin about => (a \in A <=> a \in Current.aliases)
      OBVIOUS
    <2> HIDE DEF D, A, about
    <2> QED BY <1>1, <2>1, <2>2, MailboxesRemoved
  <1>3. Build(d, next, about) /\ typed' \in SUBSET Secret
    <2>1. next = [Current EXCEPT !.mailboxes = Without(@, {m}), !.quotas = Without(@, {m})]
      BY CurrentType DEF Spec
    <2> QED BY <2>1 DEF deleteMailbox, TypeOK
  <1>4. about \in SUBSET Item
    BY ItemIs
  <1> HIDE DEF next, about
  <1> QED BY <1>2, <1>3, <1>4 DEF Edit

LEMMA upsertMailboxEdits ==
  ASSUME TypeOK, NEW d, NEW m \in Mailbox, NEW wish \in {"set", "missing", "keep"},
         upsertMailbox(d, m, wish)
  PROVE  \E next, about : Edit(d, next, about)
  <1> DEFINE old == IF m \in DOMAIN Current.mailboxes THEN Current.mailboxes[m]
                    ELSE [state |-> "missing", secret |-> NoSecret]
             Entry(p) == CASE wish = "set"     -> [state |-> "configured", secret |-> p]
                           [] wish = "missing" -> [state |-> "missing", secret |-> NoSecret]
                           [] wish = "keep"    -> old
  <1>1. PICK p \in (IF wish = "set" THEN Secret \ typed ELSE {NoSecret}) :
          /\ Build(d, [Current EXCEPT !.mailboxes = With(@, m, Entry(p))], {<<"mailbox", m>>})
          /\ typed' = typed \cup ({p} \ {NoSecret})
    BY DEF upsertMailbox
  <1> DEFINE next == [Current EXCEPT !.mailboxes = With(@, m, Entry(p))]
  <1>2. old \in Credential
    <2>1. m \in DOMAIN Current.mailboxes => Current.mailboxes[m] \in Credential
      BY CurrentType, PartialFunctionIs DEF Spec
    <2> QED BY <2>1 DEF Credential, CredentialState
  <1>3. Agrees(db) => (old.state = "configured" <=> old.secret # NoSecret)
    BY CurrentAgrees DEF Agrees
  <1> HIDE DEF old
  <1>4. /\ Entry(p) \in Credential
        /\ Agrees(db) => (Entry(p).state = "configured" <=> Entry(p).secret # NoSecret)
    BY <1>2, <1>3, DesiredStateAssumption DEF Credential, CredentialState
  <1> HIDE DEF Entry
  <1>5. next \in Spec /\ (Agrees(db) => Agrees(next)) /\ Touches(next, {<<"mailbox", m>>})
    BY <1>4, CredentialStored
  <1>6. typed' \in SUBSET Secret
    BY <1>1 DEF TypeOK
  <1>7. {<<"mailbox", m>>} \in SUBSET Item
    BY ItemIs
  <1> HIDE DEF next
  <1>8. Build(d, next, {<<"mailbox", m>>})
    BY <1>1 DEF next
  <1> QED BY <1>5, <1>6, <1>7, <1>8 DEF Edit

LEMMA resetMailboxCredentialEdits ==
  ASSUME TypeOK, NEW d, NEW m \in Mailbox, resetMailboxCredential(d, m)
  PROVE  \E next, about : Edit(d, next, about)
  <1> DEFINE c == [state |-> "reset_required", secret |-> NoSecret]
             next == [Current EXCEPT !.mailboxes = With(@, m, c)]
  <1>1. c \in Credential /\ (c.state = "configured" <=> c.secret # NoSecret)
    BY DEF Credential, CredentialState
  <1>2. next \in Spec /\ (Agrees(db) => Agrees(next)) /\ Touches(next, {<<"mailbox", m>>})
    <2> HIDE DEF c
    <2> QED BY <1>1, CredentialStored
  <1>3. Build(d, next, {<<"mailbox", m>>}) /\ typed' \in SUBSET Secret
    BY DEF resetMailboxCredential, TypeOK
  <1>4. {<<"mailbox", m>>} \in SUBSET Item
    BY ItemIs
  <1> HIDE DEF next
  <1> QED BY <1>2, <1>3, <1>4 DEF Edit

LEMMA rotateMailboxCredentialEdits ==
  ASSUME TypeOK, NEW d, NEW m \in Mailbox, rotateMailboxCredential(d, m)
  PROVE  \E next, about : Edit(d, next, about)
  <1>1. PICK p \in Secret \ typed :
          /\ Build(d, [Current EXCEPT !.mailboxes =
                         With(@, m, [state |-> "configured", secret |-> p])], {<<"mailbox", m>>})
          /\ typed' = typed \cup {p}
    BY DEF rotateMailboxCredential
  <1> DEFINE c == [state |-> "configured", secret |-> p]
             next == [Current EXCEPT !.mailboxes = With(@, m, c)]
  <1>2. c \in Credential /\ (c.state = "configured" <=> c.secret # NoSecret)
    BY DesiredStateAssumption DEF Credential, CredentialState
  <1>3. next \in Spec /\ (Agrees(db) => Agrees(next)) /\ Touches(next, {<<"mailbox", m>>})
    <2> HIDE DEF c
    <2> QED BY <1>2, CredentialStored
  <1>4. typed' \in SUBSET Secret
    BY <1>1 DEF TypeOK
  <1>5. {<<"mailbox", m>>} \in SUBSET Item
    BY ItemIs
  <1>6. Build(d, next, {<<"mailbox", m>>})
    BY <1>1
  <1> HIDE DEF next
  <1> QED BY <1>3, <1>4, <1>5, <1>6 DEF Edit

LEMMA upsertMailAliasEdits ==
  ASSUME TypeOK, NEW d, NEW a \in Alias, upsertMailAlias(d, a)
  PROVE  \E next, about : Edit(d, next, about)
  <1> DEFINE next == [Current EXCEPT !.aliases = @ \cup {a}]
  <1>1. next \in Spec /\ next.mailboxes = Current.mailboxes
    BY CurrentType DEF Spec
  <1>5. Touches(next, {<<"alias", a>>})
    <2>1. /\ next.quotas = Current.quotas /\ next.value = db.value
          /\ next.domains = db.domains /\ next.aliases = db.aliases \cup {a}
      BY CurrentType, CurrentFields DEF Spec
    <2>2. \A z \in Mailbox : SameMailbox(next, z) /\ SameQuota(next, z)
      <3> HIDE DEF next
      <3> QED BY <1>1, <2>1, CurrentIsSame, CurrentQuotasAreSame
    <2> HIDE DEF next
    <2> QED BY <2>1, <2>2 DEF Touches
  <1>2. Agrees(db) => Agrees(next)
    BY <1>1, CurrentAgrees DEF Agrees
  <1>3. Build(d, next, {<<"alias", a>>}) /\ typed' \in SUBSET Secret
    BY DEF upsertMailAlias, TypeOK
  <1>4. {<<"alias", a>>} \in SUBSET Item
    BY ItemIs
  <1> HIDE DEF next
  <1> QED BY <1>1, <1>2, <1>3, <1>4, <1>5 DEF Edit

LEMMA deleteMailAliasEdits ==
  ASSUME TypeOK, NEW d, NEW a \in Alias, deleteMailAlias(d, a)
  PROVE  \E next, about : Edit(d, next, about)
  <1> DEFINE next == [Current EXCEPT !.aliases = @ \ {a}]
  <1>1. next \in Spec /\ next.mailboxes = Current.mailboxes
    BY CurrentType DEF Spec
  <1>5. Touches(next, {<<"alias", a>>})
    <2>1. /\ next.quotas = Current.quotas /\ next.value = db.value
          /\ next.domains = db.domains /\ next.aliases = db.aliases \ {a}
      BY CurrentType, CurrentFields DEF Spec
    <2>2. \A z \in Mailbox : SameMailbox(next, z) /\ SameQuota(next, z)
      <3> HIDE DEF next
      <3> QED BY <1>1, <2>1, CurrentIsSame, CurrentQuotasAreSame
    <2> HIDE DEF next
    <2> QED BY <2>1, <2>2 DEF Touches
  <1>2. Agrees(db) => Agrees(next)
    BY <1>1, CurrentAgrees DEF Agrees
  <1>3. Build(d, next, {<<"alias", a>>}) /\ typed' \in SUBSET Secret
    BY DEF deleteMailAlias, TypeOK
  <1>4. {<<"alias", a>>} \in SUBSET Item
    BY ItemIs
  <1> HIDE DEF next
  <1> QED BY <1>1, <1>2, <1>3, <1>4, <1>5 DEF Edit

LEMMA QuotasReplaced ==
  ASSUME TypeOK, NEW m \in Mailbox, NEW q \in PartialFunction(Mailbox, Size),
         DOMAIN q \ {m} = DOMAIN Current.quotas \ {m},
         \A z \in DOMAIN q \ {m} : q[z] = Current.quotas[z]
  PROVE  LET next == [Current EXCEPT !.quotas = q]
         IN  /\ next \in Spec /\ (Agrees(db) => Agrees(next))
             /\ Touches(next, {<<"quota", m>>})
  <1> DEFINE next == [Current EXCEPT !.quotas = q]
  <1>1. next \in Spec
    BY CurrentType DEF Spec
  <1>2. next.mailboxes = Current.mailboxes
    BY CurrentType DEF Spec
  <1>3. Agrees(db) => Agrees(next)
    BY <1>1, <1>2, CurrentAgrees DEF Agrees
  <1>4. Touches(next, {<<"quota", m>>})
    <2>1. /\ next.value = db.value /\ next.domains = db.domains
          /\ next.aliases = db.aliases /\ next.quotas = q
      BY CurrentType, CurrentFields DEF Spec
    <2> HIDE DEF next
    <2>2. \A z \in Mailbox : SameMailbox(next, z)
      BY <1>2, CurrentIsSame
    <2>3. \A z \in Mailbox \ {m} : SameQuota(next, z)
      BY <2>1, CurrentFields DEF SameQuota
    <2> QED BY <2>1, <2>2, <2>3 DEF Touches
  <1> QED BY <1>1, <1>3, <1>4

LEMMA upsertMailboxQuotaEdits ==
  ASSUME TypeOK, NEW d, NEW m \in Mailbox, NEW size \in Size, upsertMailboxQuota(d, m, size)
  PROVE  \E next, about : Edit(d, next, about)
  <1> DEFINE q == With(Current.quotas, m, size)
             next == [Current EXCEPT !.quotas = q]
  <1>1. \A g \in PartialFunction(Mailbox, Size) :
          /\ With(g, m, size) \in PartialFunction(Mailbox, Size)
          /\ DOMAIN With(g, m, size) = DOMAIN g \cup {m}
          /\ \A z \in DOMAIN g \ {m} : With(g, m, size)[z] = g[z]
    BY PartialFunctionIs DEF With
  <1>2. /\ q \in PartialFunction(Mailbox, Size)
        /\ DOMAIN q = DOMAIN Current.quotas \cup {m}
        /\ \A z \in DOMAIN Current.quotas \ {m} : q[z] = Current.quotas[z]
    BY <1>1, CurrentType DEF Spec
  <1>3. Build(d, next, {<<"quota", m>>}) /\ typed' \in SUBSET Secret
    BY DEF upsertMailboxQuota, TypeOK
  <1> HIDE DEF q
  <1>4. next \in Spec /\ (Agrees(db) => Agrees(next)) /\ Touches(next, {<<"quota", m>>})
    BY <1>2, QuotasReplaced
  <1>5. {<<"quota", m>>} \in SUBSET Item
    BY ItemIs
  <1> HIDE DEF next
  <1> QED BY <1>3, <1>4, <1>5 DEF Edit

LEMMA deleteMailboxQuotaEdits ==
  ASSUME TypeOK, NEW d, NEW m \in Mailbox, deleteMailboxQuota(d, m)
  PROVE  \E next, about : Edit(d, next, about)
  <1> DEFINE q == Without(Current.quotas, {m})
             next == [Current EXCEPT !.quotas = q]
  <1>1. \A g \in PartialFunction(Mailbox, Size) :
          /\ Without(g, {m}) \in PartialFunction(Mailbox, Size)
          /\ DOMAIN Without(g, {m}) = DOMAIN g \ {m}
          /\ \A z \in DOMAIN g \ {m} : Without(g, {m})[z] = g[z]
    BY PartialFunctionIs DEF Without
  <1>2. /\ q \in PartialFunction(Mailbox, Size)
        /\ DOMAIN q = DOMAIN Current.quotas \ {m}
        /\ \A z \in DOMAIN Current.quotas \ {m} : q[z] = Current.quotas[z]
    BY <1>1, CurrentType DEF Spec
  <1>3. Build(d, next, {<<"quota", m>>}) /\ typed' \in SUBSET Secret
    BY DEF deleteMailboxQuota, TypeOK
  <1> HIDE DEF q
  <1>4. next \in Spec /\ (Agrees(db) => Agrees(next)) /\ Touches(next, {<<"quota", m>>})
    BY <1>2, QuotasReplaced
  <1>5. {<<"quota", m>>} \in SUBSET Item
    BY ItemIs
  <1> HIDE DEF next
  <1> QED BY <1>3, <1>4, <1>5 DEF Edit

(* Whatever the API's clients ask for is such an edit.                     *)
LEMMA MailEditEdits ==
  ASSUME TypeOK, NEW d, MailEdit(d)
  PROVE  \E next, about : Edit(d, next, about)
  <1>1. CASE \E x \in Domain : upsertMailDomain(d, x) \/ deleteMailDomain(d, x)
    BY <1>1, upsertMailDomainEdits, deleteMailDomainEdits
  <1>2. CASE \E m \in Mailbox, wish \in {"set", "missing", "keep"} : upsertMailbox(d, m, wish)
    BY <1>2, upsertMailboxEdits
  <1>3. CASE \E m \in Mailbox : \/ resetMailboxCredential(d, m)
                                \/ rotateMailboxCredential(d, m)
                                \/ deleteMailbox(d, m)
    BY <1>3, resetMailboxCredentialEdits, rotateMailboxCredentialEdits, deleteMailboxEdits
  <1>4. CASE \E m \in Mailbox : \/ \E size \in Size : upsertMailboxQuota(d, m, size)
                                \/ deleteMailboxQuota(d, m)
    BY <1>4, upsertMailboxQuotaEdits, deleteMailboxQuotaEdits
  <1>5. CASE \E a \in Alias : upsertMailAlias(d, a) \/ deleteMailAlias(d, a)
    BY <1>5, upsertMailAliasEdits, deleteMailAliasEdits
  <1> QED BY <1>1, <1>2, <1>3, <1>4, <1>5 DEF MailEdit

(* A web edit is well-typed too, though its credentials have no passwords. *)
LEMMA WebEdit ==
  ASSUME TypeOK, NEW d, NEW x \in Value, mutateDesiredState(d, x)
  PROVE  \E next \in Spec, about \in SUBSET Item :
           Build(d, next, about) /\ Touches(next, about) /\ typed' \in SUBSET Secret
  <1> DEFINE next == [sanitizeDesiredStateSpecForExport(Current) EXCEPT !.value = x]
  <1>1. next \in Spec
    BY CurrentType, ExportType
  <1>2. Build(d, next, {<<"value", 0>>}) /\ typed' \in SUBSET Secret
    BY DEF mutateDesiredState, TypeOK
  <1>3. {<<"value", 0>>} \in SUBSET Item
    BY ItemIs
  <1>4. Touches(next, {<<"value", 0>>})
    <2>1. /\ next.domains = db.domains /\ next.aliases = db.aliases
          /\ next.quotas = Current.quotas
      BY CurrentType, CurrentFields, ExportType
    <2>2. /\ DOMAIN next.mailboxes = DOMAIN Current.mailboxes
          /\ \A m \in DOMAIN Current.mailboxes :
               /\ next.mailboxes[m].state = Current.mailboxes[m].state
               /\ next.mailboxes[m].secret = NoSecret
      BY CurrentType, ExportType
    <2> HIDE DEF next
    <2>3. \A m \in Mailbox : SameMailbox(next, m) /\ SameQuota(next, m)
      BY <2>1, <2>2, CurrentType, CurrentQuotasAreSame DEF SameMailbox
    <2> QED BY <2>1, <2>3 DEF Touches
  <1> HIDE DEF next
  <1> QED BY <1>1, <1>2, <1>3, <1>4

-----------------------------------------------------------------------------
(* Applying an edit.                                                       *)

LEMMA WrittenEffect ==
  ASSUME TypeOK, NEW s \in Spec,
         NEW existing \in PartialFunction(Mailbox, Secret \cup {NoSecret})
  PROVE  /\ Written(s, existing) \in Spec
         /\ validateDesiredStateSpec(s) => validateDesiredStateSpec(Written(s, existing))
         /\ Agrees(s) => Agrees(Written(s, existing))
  <1> DEFINE f == [m \in DOMAIN s.mailboxes |->
                     [s.mailboxes[m] EXCEPT !.secret = SecretToStore(s.mailboxes[m], m, existing)]]
             q == [m \in DOMAIN s.quotas \cup (DOMAIN db.quotas \cap DOMAIN s.mailboxes) |->
                     IF m \in DOMAIN s.quotas THEN s.quotas[m] ELSE db.quotas[m]]
             after == [s EXCEPT !.mailboxes = f, !.quotas = q]
  <1>1. /\ s.mailboxes \in [DOMAIN s.mailboxes -> Credential] /\ DOMAIN s.mailboxes \subseteq Mailbox
        /\ s.quotas \in [DOMAIN s.quotas -> Size] /\ DOMAIN s.quotas \subseteq Mailbox
    BY PartialFunctionIs DEF Spec
  <1>2. db.quotas \in [DOMAIN db.quotas -> Size] /\ DOMAIN db.quotas \subseteq Mailbox
    BY PartialFunctionIs DEF TypeOK, Spec
  <1>3. \A m \in DOMAIN s.mailboxes :
          SecretToStore(s.mailboxes[m], m, existing) \in Secret \cup {NoSecret}
    BY <1>1, PartialFunctionIs DEF SecretToStore, Credential
  <1>4. \A m \in DOMAIN s.mailboxes :
          /\ f[m] \in Credential
          /\ f[m].state = s.mailboxes[m].state
          /\ f[m].secret = SecretToStore(s.mailboxes[m], m, existing)
    <2> HIDE DEF f
    <2>1. \A c \in Credential, p \in Secret \cup {NoSecret} :
            /\ [c EXCEPT !.secret = p] \in Credential
            /\ [c EXCEPT !.secret = p].state = c.state
            /\ [c EXCEPT !.secret = p].secret = p
      BY DEF Credential
    <2>2. \A m \in DOMAIN s.mailboxes :
            f[m] = [s.mailboxes[m] EXCEPT !.secret = SecretToStore(s.mailboxes[m], m, existing)]
      BY DEF f
    <2>3. TAKE m \in DOMAIN s.mailboxes
    <2>4. s.mailboxes[m] \in Credential
      BY <1>1
    <2>5. SecretToStore(s.mailboxes[m], m, existing) \in Secret \cup {NoSecret}
      BY <1>3
    <2>6. f[m] = [s.mailboxes[m] EXCEPT !.secret = SecretToStore(s.mailboxes[m], m, existing)]
      BY <2>2
    <2> DEFINE c == s.mailboxes[m]
               p == SecretToStore(s.mailboxes[m], m, existing)
    <2>7. c \in Credential /\ p \in Secret \cup {NoSecret} /\ f[m] = [c EXCEPT !.secret = p]
      BY <2>4, <2>5, <2>6
    <2> HIDE DEF c, p
    <2>8. f[m] \in Credential /\ f[m].state = c.state /\ f[m].secret = p
      BY <2>1, <2>7
    <2> QED BY <2>8 DEF c, p
  <1>5. f \in PartialFunction(Mailbox, Credential)
    BY <1>1, <1>4, PartialFunctionIs
  <1>6. /\ q \in PartialFunction(Mailbox, Size)
        /\ DOMAIN q = DOMAIN s.quotas \cup (DOMAIN db.quotas \cap DOMAIN s.mailboxes)
    BY <1>1, <1>2, PartialFunctionIs
  <1>7. Written(s, existing) = after
    BY DEF Written
  <1>8. DOMAIN f = DOMAIN s.mailboxes
    OBVIOUS
  <1> HIDE DEF f, q
  <1>9. /\ after \in Spec
        /\ after.domains = s.domains
        /\ after.aliases = s.aliases
        /\ after.mailboxes = f
        /\ after.quotas = q
    BY <1>5, <1>6 DEF Spec
  <1> HIDE DEF after
  <1>10. validateDesiredStateSpec(s) => validateDesiredStateSpec(after)
    BY <1>6, <1>8, <1>9 DEF validateDesiredStateSpec
  <1>11. Agrees(s) => Agrees(after)
    BY <1>4, <1>8, <1>9 DEF Agrees, SecretToStore
  <1> QED BY <1>7, <1>9, <1>10, <1>11

-----------------------------------------------------------------------------
(* The inductive invariant.  A transaction that is about to write has been *)
(* validated, and what is stored was.                                      *)

TxValid == \A d \in Client :
             tx[d].step = "resolved" => validateDesiredStateSpec(tx[d].next)

DInv == TypeOK /\ SpecStaysValid /\ TxValid

(* With no web editor about, every edit's credentials agree with their     *)
(* state, and so do the stored ones.                                       *)
TxAgrees == \A d \in Client : tx[d] # NoTx => Agrees(tx[d].next)

AInv == ConfiguredHasSecret /\ TxAgrees

LEMMA TxIs ==
  ASSUME TypeOK, NEW d \in Client
  PROVE  /\ tx \in [Client -> Tx \cup {NoTx}]
         /\ tx[d] # NoTx => tx[d] \in Tx
         /\ tx[d].step # "idle" => tx[d] \in Tx /\ tx[d] # NoTx
  BY DEF TypeOK, Client, NoTx

LEMMA StoredMailbox ==
  ASSUME TypeOK
  PROVE  /\ DOMAIN db.mailboxes \subseteq Mailbox
         /\ \A m \in DOMAIN db.mailboxes : db.mailboxes[m] \in Credential
  <1>1. db.mailboxes \in PartialFunction(Mailbox, Credential)
    BY DEF TypeOK, Spec
  <1> QED BY <1>1, PartialFunctionIs

LEMMA StoredPasswords ==
  ASSUME TypeOK
  PROVE  [m \in DOMAIN db.mailboxes |-> db.mailboxes[m].secret]
           \in PartialFunction(Mailbox, Secret \cup {NoSecret})
  <1>1. \A m \in DOMAIN db.mailboxes : db.mailboxes[m].secret \in Secret \cup {NoSecret}
    BY StoredMailbox DEF Credential
  <1>2. DOMAIN db.mailboxes \subseteq Mailbox
    BY StoredMailbox
  <1> DEFINE stored == [m \in DOMAIN db.mailboxes |-> db.mailboxes[m].secret]
  <1>3. stored \in [DOMAIN stored -> Secret \cup {NoSecret}] /\ DOMAIN stored \subseteq Mailbox
    BY <1>1, <1>2
  <1> HIDE DEF stored
  <1>4. stored \in PartialFunction(Mailbox, Secret \cup {NoSecret})
    BY <1>3, PartialFunctionIs
  <1> QED BY <1>4 DEF stored

LEMMA StoredSecretsType ==
  ASSUME TypeOK
  PROVE  StoredSecrets \in SUBSET Secret
  BY StoredMailbox DEF StoredSecrets, Credential

LEMMA InitDInv == Init => DInv /\ ConfiguredHasSecret /\ TxAgrees
  <1> SUFFICES ASSUME Init PROVE DInv /\ ConfiguredHasSecret /\ TxAgrees
    OBVIOUS
  <1>1. PICK x \in Value : db = [value |-> x, domains |-> Domain, mailboxes |-> Empty,
                                 aliases |-> {}, quotas |-> Empty]
    BY DEF Init
  <1>2. /\ DOMAIN db.mailboxes = {} /\ DOMAIN db.quotas = {} /\ db.aliases = {}
        /\ db.mailboxes = Empty /\ db.quotas = Empty
    BY <1>1, EmptyType
  <1>3. Empty \in PartialFunction(Mailbox, Credential) /\ Empty \in PartialFunction(Mailbox, Size)
    BY EmptyType
  <1>4. TypeOK
    BY <1>1, <1>3 DEF Init, TypeOK, Spec
  <1>5. SpecStaysValid /\ ConfiguredHasSecret
    BY <1>2 DEF SpecStaysValid, ConfiguredHasSecret, validateDesiredStateSpec
  <1>6. TxValid /\ TxAgrees
    BY DEF Init, TxValid, TxAgrees, Client, NoTx
  <1> QED BY <1>4, <1>5, <1>6 DEF DInv

LEMMA BuildStep ==
  ASSUME DInv, NEW d \in Client, NEW next \in Spec, NEW about \in SUBSET Item,
         Build(d, next, about), typed' \in SUBSET Secret
  PROVE  /\ DInv'
         /\ Agrees(next) /\ AInv => AInv'
  <1> DEFINE t == [step |-> "built", next |-> next, about |-> about, existing |-> Empty]
  <1>1. db' = db /\ replaced' = replaced /\ tx' = [tx EXCEPT ![d] = t]
    BY DEF Build
  <1>2. t \in Tx /\ t.step = "built" /\ t.next = next
    <2>1. Empty \in PartialFunction(Mailbox, Secret \cup {NoSecret})
      BY EmptyType
    <2> QED BY <2>1 DEF Tx
  <1> HIDE DEF t
  <1>3. tx \in [Client -> Tx \cup {NoTx}]
    BY DEF DInv, TypeOK, Client
  <1>4. tx' \in [Client -> Tx \cup {NoTx}] /\ tx'[d] = t
        /\ \A c \in Client \ {d} : tx'[c] = tx[c]
    BY <1>1, <1>2, <1>3
  <1>5. TypeOK'
    BY <1>1, <1>4 DEF DInv, TypeOK, Client
  <1>6. SpecStaysValid'
    BY <1>1 DEF DInv, SpecStaysValid, validateDesiredStateSpec
  <1>7. TxValid'
    BY <1>2, <1>4 DEF DInv, TxValid, validateDesiredStateSpec
  <1>8. ASSUME Agrees(next), AInv PROVE AInv'
    BY <1>1, <1>2, <1>4, <1>8 DEF AInv, ConfiguredHasSecret, TxAgrees, Agrees
  <1> QED BY <1>5, <1>6, <1>7, <1>8 DEF DInv

LEMMA ResolveStep ==
  ASSUME DInv, NEW d \in Client, queryExistingMailboxCredentialRows(d)
  PROVE  DInv' /\ (AInv => AInv')
  <1> DEFINE stored == [m \in DOMAIN db.mailboxes |-> db.mailboxes[m].secret]
  <1>1. /\ db' = db /\ replaced' = replaced /\ typed' = typed
        /\ tx' = [tx EXCEPT ![d].step = "resolved", ![d].existing = stored]
        /\ tx[d].step = "built" /\ validateDesiredStateSpec(tx[d].next)
    BY DEF queryExistingMailboxCredentialRows
  <1>2. stored \in PartialFunction(Mailbox, Secret \cup {NoSecret})
    BY StoredPasswords DEF DInv
  <1> HIDE DEF stored
  <1>3. tx \in [Client -> Tx \cup {NoTx}] /\ tx[d] \in Tx /\ tx[d] # NoTx
    BY <1>1, TxIs DEF DInv
  <1>4. tx'[d] \in Tx /\ tx'[d].next = tx[d].next /\ tx'[d].step = "resolved"
    BY <1>1, <1>2, <1>3 DEF Tx
  <1>5. tx' \in [Client -> Tx \cup {NoTx}] /\ \A c \in Client \ {d} : tx'[c] = tx[c]
    BY <1>1, <1>3, <1>4
  <1>6. TypeOK'
    BY <1>1, <1>5 DEF DInv, TypeOK, Client
  <1>7. SpecStaysValid'
    BY <1>1 DEF DInv, SpecStaysValid, validateDesiredStateSpec
  <1>8. TxValid'
    BY <1>1, <1>4, <1>5 DEF DInv, TxValid, validateDesiredStateSpec
  <1>9. ASSUME AInv PROVE AInv'
    BY <1>1, <1>3, <1>4, <1>5, <1>9 DEF AInv, ConfiguredHasSecret, TxAgrees, Agrees
  <1> QED BY <1>6, <1>7, <1>8, <1>9 DEF DInv

LEMMA AbandonStep ==
  ASSUME DInv, NEW d \in Client, Abandon(d)
  PROVE  DInv' /\ (AInv => AInv')
  <1>1. /\ db' = db /\ replaced' = replaced /\ typed' = typed
        /\ tx' = [tx EXCEPT ![d] = NoTx]
    BY DEF Abandon
  <1>2. tx \in [Client -> Tx \cup {NoTx}]
    BY DEF DInv, TypeOK, Client
  <1>3. tx' \in [Client -> Tx \cup {NoTx}] /\ tx'[d] = NoTx
        /\ \A c \in Client \ {d} : tx'[c] = tx[c]
    BY <1>1, <1>2
  <1>4. TypeOK'
    BY <1>1, <1>3 DEF DInv, TypeOK, Client
  <1>5. SpecStaysValid'
    BY <1>1 DEF DInv, SpecStaysValid, validateDesiredStateSpec
  <1>6. TxValid'
    BY <1>3 DEF DInv, TxValid, validateDesiredStateSpec, NoTx
  <1>7. ASSUME AInv PROVE AInv'
    BY <1>1, <1>3, <1>7 DEF AInv, ConfiguredHasSecret, TxAgrees, Agrees
  <1> QED BY <1>4, <1>5, <1>6, <1>7 DEF DInv

LEMMA ApplyStep ==
  ASSUME DInv, NEW d \in Client, applyDesiredStateSpec(d)
  PROVE  DInv' /\ (AInv => AInv')
  <1>1. /\ db' = Written(tx[d].next, tx[d].existing)
        /\ tx' = [tx EXCEPT ![d] = NoTx]
        /\ typed' = typed
        /\ replaced' = replaced \cup (StoredSecrets \ StoredSecrets')
        /\ tx[d].step = "resolved"
    BY DEF applyDesiredStateSpec
  <1>2. tx \in [Client -> Tx \cup {NoTx}] /\ tx[d] \in Tx /\ tx[d] # NoTx
    BY <1>1, TxIs DEF DInv
  <1>3. /\ tx[d].next \in Spec
        /\ tx[d].existing \in PartialFunction(Mailbox, Secret \cup {NoSecret})
    BY <1>2 DEF Tx
  <1>4. /\ db' \in Spec
        /\ validateDesiredStateSpec(tx[d].next) =>
             validateDesiredStateSpec(Written(tx[d].next, tx[d].existing))
        /\ Agrees(tx[d].next) => Agrees(Written(tx[d].next, tx[d].existing))
    BY <1>1, <1>3, WrittenEffect DEF DInv
  <1>5. tx' \in [Client -> Tx \cup {NoTx}] /\ tx'[d] = NoTx
        /\ \A c \in Client \ {d} : tx'[c] = tx[c]
    BY <1>1, <1>2
  <1>6. TypeOK'
    BY <1>1, <1>4, <1>5, StoredSecretsType DEF DInv, TypeOK, Client
  <1>7. SpecStaysValid'
    BY <1>1, <1>2, <1>4 DEF DInv, TxValid, SpecStaysValid, validateDesiredStateSpec
  <1>8. TxValid'
    BY <1>5 DEF DInv, TxValid, validateDesiredStateSpec, NoTx
  <1>9. ASSUME AInv PROVE AInv'
    <2>1. Agrees(Written(tx[d].next, tx[d].existing))
      BY <1>2, <1>4, <1>9 DEF AInv, TxAgrees
    <2>2. ConfiguredHasSecret'
      BY <1>1, <2>1 DEF Agrees, ConfiguredHasSecret
    <2>3. TxAgrees'
      BY <1>5, <1>9 DEF AInv, TxAgrees, Agrees
    <2> QED BY <2>2, <2>3 DEF AInv
  <1> QED BY <1>6, <1>7, <1>8, <1>9 DEF DInv

(* Every step keeps the invariant; one that no web editor takes keeps the  *)
(* agreement of credentials as well.                                       *)
LEMMA NextDInv ==
  ASSUME DInv, [Next]_vars
  PROVE  DInv' /\ (Editor = {} /\ AInv => AInv')
  <1>1. ASSUME NEW d \in Operator, MailEdit(d)
        PROVE  DInv' /\ (AInv => AInv')
    <2>1. PICK next, about : Edit(d, next, about)
      BY <1>1, MailEditEdits DEF DInv
    <2>2. AInv => Agrees(db)
      BY DEF AInv, ConfiguredHasSecret, Agrees
    <2> QED BY <2>1, <2>2, BuildStep DEF Edit, Client
  <1>2. ASSUME NEW d \in Editor, NEW x \in Value, mutateDesiredState(d, x)
        PROVE  DInv'
    BY <1>2, WebEdit, BuildStep DEF DInv, Client
  <1>3. ASSUME NEW d \in Client,
               \/ queryExistingMailboxCredentialRows(d)
               \/ applyDesiredStateSpec(d)
               \/ Abandon(d)
        PROVE  DInv' /\ (AInv => AInv')
    BY <1>3, ResolveStep, ApplyStep, AbandonStep
  <1>4. CASE UNCHANGED vars
    BY <1>4 DEF vars, DInv, AInv, TypeOK, SpecStaysValid, TxValid, ConfiguredHasSecret,
                TxAgrees, validateDesiredStateSpec, Agrees
  <1> QED BY <1>1, <1>2, <1>3, <1>4 DEF Next, Client

-----------------------------------------------------------------------------
(* Every table and every edit in progress has its type.                    *)
THEOREM DesiredStateTypeCorrect == EditSpec => []TypeOK
  <1>1. Init => DInv
    BY InitDInv
  <1>2. DInv /\ [Next]_vars => DInv'
    BY NextDInv
  <1>3. DInv => TypeOK
    BY DEF DInv
  <1> QED BY <1>1, <1>2, <1>3, PTL DEF EditSpec

(* However API operators and web editors overwrite each other's edits,     *)
(* what is stored always passes validateDesiredStateSpec.                  *)
THEOREM StoredSpecIsValid == EditSpec => []SpecStaysValid
  <1>1. Init => DInv
    BY InitDInv
  <1>2. DInv /\ [Next]_vars => DInv'
    BY NextDInv
  <1>3. DInv => SpecStaysValid
    BY DEF DInv
  <1> QED BY <1>1, <1>2, <1>3, PTL DEF EditSpec

(* Without web editors, whose exports carry no passwords, any number of    *)
(* operators keep credential states and passwords in agreement, lost       *)
(* updates included.                                                       *)
THEOREM ApiKeepsCredentialsWhole ==
  ASSUME Editor = {}
  PROVE  EditSpec => []ConfiguredHasSecret
  <1>1. Init => DInv /\ AInv
    BY InitDInv DEF AInv
  <1>2. DInv /\ AInv /\ [Next]_vars => (DInv /\ AInv)'
    BY NextDInv
  <1>3. AInv => ConfiguredHasSecret
    BY DEF AInv
  <1> QED BY <1>1, <1>2, <1>3, PTL DEF EditSpec

-----------------------------------------------------------------------------
(* What an answered edit left in the tables.                               *)

(* The fields the full write of a specification leaves.  Quota rows of     *)
(* mailboxes that stay are not deleted.                                    *)
LEMMA WrittenIs ==
  ASSUME TypeOK, NEW s \in Spec,
         NEW existing \in PartialFunction(Mailbox, Secret \cup {NoSecret})
  PROVE  LET after == Written(s, existing)
         IN  /\ after.value = s.value /\ after.domains = s.domains /\ after.aliases = s.aliases
             /\ DOMAIN after.mailboxes = DOMAIN s.mailboxes
             /\ \A m \in DOMAIN s.mailboxes :
                  /\ after.mailboxes[m] \in Credential
                  /\ after.mailboxes[m].state = s.mailboxes[m].state
                  /\ after.mailboxes[m].secret = SecretToStore(s.mailboxes[m], m, existing)
             /\ DOMAIN after.quotas =
                  DOMAIN s.quotas \cup (DOMAIN db.quotas \cap DOMAIN s.mailboxes)
             /\ \A m \in DOMAIN after.quotas :
                  after.quotas[m] = IF m \in DOMAIN s.quotas THEN s.quotas[m] ELSE db.quotas[m]
  <1> DEFINE f == [m \in DOMAIN s.mailboxes |->
                     [s.mailboxes[m] EXCEPT !.secret = SecretToStore(s.mailboxes[m], m, existing)]]
             q == [m \in DOMAIN s.quotas \cup (DOMAIN db.quotas \cap DOMAIN s.mailboxes) |->
                     IF m \in DOMAIN s.quotas THEN s.quotas[m] ELSE db.quotas[m]]
  <1>1. Written(s, existing) = [s EXCEPT !.mailboxes = f, !.quotas = q]
    BY DEF Written
  <1>2. ASSUME NEW m \in DOMAIN s.mailboxes
        PROVE  /\ f[m].state = s.mailboxes[m].state
               /\ f[m].secret = SecretToStore(s.mailboxes[m], m, existing)
               /\ f[m] \in Credential
    <2> DEFINE p == SecretToStore(s.mailboxes[m], m, existing)
    <2>1. s.mailboxes[m] \in Credential /\ m \in Mailbox
      BY PartialFunctionIs DEF Spec
    <2>2. p \in Secret \cup {NoSecret}
      BY <2>1, PartialFunctionIs DEF SecretToStore, Credential
    <2>3. f[m] = [s.mailboxes[m] EXCEPT !.secret = p]
      OBVIOUS
    <2> HIDE DEF p, f
    <2>4. f[m] \in Credential /\ f[m].state = s.mailboxes[m].state /\ f[m].secret = p
      BY <2>1, <2>2, <2>3 DEF Credential
    <2> QED BY <2>4 DEF p
  <1>3. /\ DOMAIN f = DOMAIN s.mailboxes
        /\ DOMAIN q = DOMAIN s.quotas \cup (DOMAIN db.quotas \cap DOMAIN s.mailboxes)
        /\ \A m \in DOMAIN q : q[m] = IF m \in DOMAIN s.quotas THEN s.quotas[m] ELSE db.quotas[m]
    OBVIOUS
  <1> HIDE DEF f, q
  <1>4. LET after == Written(s, existing)
        IN  /\ after.value = s.value /\ after.domains = s.domains /\ after.aliases = s.aliases
            /\ after.mailboxes = f /\ after.quotas = q
    BY <1>1 DEF Spec
  <1> QED BY <1>2, <1>3, <1>4

(* Every mailbox that is not configured is stored without a password.      *)
Tidy == \A m \in DOMAIN db.mailboxes :
          db.mailboxes[m].state # "configured" => db.mailboxes[m].secret = NoSecret

StoredNow == [m \in DOMAIN db.mailboxes |-> db.mailboxes[m].secret]

(* With one client, what it read is still what is stored when it writes.   *)
TxCurrent == \A d \in Client :
               tx[d] # NoTx =>
                 /\ Touches(tx[d].next, tx[d].about)
                 /\ tx[d].step = "resolved" => tx[d].existing = StoredNow

OInv == Tidy /\ TxCurrent

LEMMA ViewIs ==
  ASSUME NEW s
  PROVE  /\ View(s, <<"value", 0>>) = s.value
         /\ \A x : View(s, <<"domain", x>>) = (x \in s.domains)
         /\ \A x : View(s, <<"alias", x>>) = (x \in s.aliases)
  <1>1. View(s, <<"value", 0>>) = s.value
    BY DEF View
  <1>2. ASSUME NEW x PROVE View(s, <<"domain", x>>) = (x \in s.domains)
    BY DEF View
  <1>3. ASSUME NEW x PROVE View(s, <<"alias", x>>) = (x \in s.aliases)
    BY DEF View
  <1> QED BY <1>1, <1>2, <1>3

(* Passwords an edit left out are filled in from what was stored, so the   *)
(* write changes nothing outside what the edit is about.                   *)
LEMMA WrittenKeeps ==
  ASSUME TypeOK, Tidy, NEW s \in Spec, NEW about, Touches(s, about),
         NEW i \in Item \ about
  PROVE  View(Written(s, StoredNow), i) = View(db, i)
  <1> DEFINE after == Written(s, StoredNow)
  <1>1. StoredNow \in PartialFunction(Mailbox, Secret \cup {NoSecret})
    BY StoredPasswords DEF StoredNow
  <1>2. /\ after.value = s.value /\ after.domains = s.domains /\ after.aliases = s.aliases
        /\ DOMAIN after.mailboxes = DOMAIN s.mailboxes
        /\ \A m \in DOMAIN s.mailboxes :
             /\ after.mailboxes[m] \in Credential
             /\ after.mailboxes[m].state = s.mailboxes[m].state
             /\ after.mailboxes[m].secret = SecretToStore(s.mailboxes[m], m, StoredNow)
        /\ DOMAIN after.quotas = DOMAIN s.quotas \cup (DOMAIN db.quotas \cap DOMAIN s.mailboxes)
        /\ \A m \in DOMAIN after.quotas :
             after.quotas[m] = IF m \in DOMAIN s.quotas THEN s.quotas[m] ELSE db.quotas[m]
    BY <1>1, WrittenIs
  <1> HIDE DEF after
  <1>3. ASSUME NEW m \in Mailbox, i = <<"mailbox", m>>
        PROVE  View(after, i) = View(db, i)
    <2>1. SameMailbox(s, m)
      BY <1>3 DEF Touches
    <2>2. CASE m \notin DOMAIN db.mailboxes
      BY <1>2, <1>3, <2>1, <2>2 DEF View, SameMailbox
    <2>3. CASE m \in DOMAIN db.mailboxes
      <3>1. m \in DOMAIN s.mailboxes /\ m \in DOMAIN after.mailboxes
        BY <1>2, <2>1, <2>3 DEF SameMailbox
      <3>2. StoredNow[m] = db.mailboxes[m].secret /\ m \in DOMAIN StoredNow
        BY <2>3 DEF StoredNow
      <3>3. SecretToStore(s.mailboxes[m], m, StoredNow) = db.mailboxes[m].secret
        BY <2>1, <2>3, <3>1, <3>2 DEF SameMailbox, SecretToStore, Tidy
      <3>4. /\ after.mailboxes[m] \in Credential /\ db.mailboxes[m] \in Credential
            /\ after.mailboxes[m].state = db.mailboxes[m].state
            /\ after.mailboxes[m].secret = db.mailboxes[m].secret
        BY <1>2, <2>1, <2>3, <3>1, <3>3, StoredMailbox DEF SameMailbox
      <3>5. after.mailboxes[m] = db.mailboxes[m]
        BY <3>4 DEF Credential
      <3> QED BY <1>3, <2>3, <3>1, <3>5 DEF View
    <2> QED BY <2>2, <2>3
  <1>4. ASSUME NEW m \in Mailbox, i = <<"quota", m>>
        PROVE  View(after, i) = View(db, i)
    <2>1. SameQuota(s, m)
      BY <1>4 DEF Touches
    <2>2. m \in DOMAIN after.quotas <=> m \in DOMAIN db.quotas
      BY <1>2, <2>1 DEF SameQuota
    <2>3. m \in DOMAIN after.quotas => after.quotas[m] = db.quotas[m]
      BY <1>2, <2>1 DEF SameQuota
    <2> QED BY <1>4, <2>2, <2>3 DEF View
  <1>5. ASSUME NEW x \in Domain, i = <<"domain", x>>
        PROVE  View(after, i) = View(db, i)
    <2>1. x \in after.domains <=> x \in db.domains
      BY <1>2, <1>5 DEF Touches
    <2>2. View(after, i) = (x \in after.domains) /\ View(db, i) = (x \in db.domains)
      BY <1>5, ViewIs
    <2> QED BY <2>1, <2>2
  <1>6. ASSUME NEW a \in Alias, i = <<"alias", a>>
        PROVE  View(after, i) = View(db, i)
    <2>1. a \in after.aliases <=> a \in db.aliases
      BY <1>2, <1>6 DEF Touches
    <2>2. View(after, i) = (a \in after.aliases) /\ View(db, i) = (a \in db.aliases)
      BY <1>6, ViewIs
    <2> QED BY <2>1, <2>2
  <1>7. ASSUME i = <<"value", 0>>
        PROVE  View(after, i) = View(db, i)
    <2>1. after.value = db.value
      BY <1>2, <1>7 DEF Touches
    <2> QED BY <1>7, <2>1, ViewIs
  <1>8. \/ i = <<"value", 0>>
        \/ \E x \in Domain : i = <<"domain", x>>
        \/ \E a \in Alias : i = <<"alias", a>>
        \/ \E m \in Mailbox : i = <<"mailbox", m>> \/ i = <<"quota", m>>
    BY DEF Item
  <1> QED BY <1>3, <1>4, <1>5, <1>6, <1>7, <1>8 DEF after

LEMMA ApplyIs ==
  ASSUME DInv, NEW d \in Client, applyDesiredStateSpec(d)
  PROVE  /\ db' = Written(tx[d].next, tx[d].existing)
         /\ tx' = [tx EXCEPT ![d] = NoTx]
         /\ tx \in [Client -> Tx \cup {NoTx}]
         /\ tx[d] # NoTx /\ tx[d].step = "resolved"
         /\ tx[d].next \in Spec
         /\ tx[d].existing \in PartialFunction(Mailbox, Secret \cup {NoSecret})
  <1>1. /\ db' = Written(tx[d].next, tx[d].existing)
        /\ tx' = [tx EXCEPT ![d] = NoTx]
        /\ tx[d].step = "resolved"
    BY DEF applyDesiredStateSpec
  <1>2. tx \in [Client -> Tx \cup {NoTx}] /\ tx[d] \in Tx /\ tx[d] # NoTx
    BY <1>1, TxIs DEF DInv
  <1> QED BY <1>1, <1>2 DEF Tx

LEMMA InitOInv == Init => OInv
  <1> SUFFICES ASSUME Init PROVE OInv
    OBVIOUS
  <1>1. DOMAIN db.mailboxes = {}
    BY EmptyType DEF Init
  <1>2. Tidy
    BY <1>1 DEF Tidy
  <1>3. TxCurrent
    BY DEF Init, TxCurrent, Client
  <1> QED BY <1>2, <1>3 DEF OInv

LEMMA NextOInv ==
  ASSUME \A c, d \in Client : c = d,
         DInv, OInv, [Next]_vars
  PROVE  OInv'
  <1>1. tx \in [Client -> Tx \cup {NoTx}]
    BY DEF DInv, TypeOK, Client
  <1>2. ASSUME NEW d \in Client, NEW next, NEW about, Build(d, next, about), Touches(next, about)
        PROVE  OInv'
    <2> DEFINE t == [step |-> "built", next |-> next, about |-> about, existing |-> Empty]
    <2>1. db' = db /\ tx' = [tx EXCEPT ![d] = t]
      BY <1>2 DEF Build
    <2>2. t.next = next /\ t.about = about /\ t.step = "built"
      OBVIOUS
    <2> HIDE DEF t
    <2>3. tx'[d] = t /\ \A c \in Client : c = d
      BY <1>1, <2>1
    <2>4. Touches(next, about)'
      BY <1>2, <2>1 DEF Touches, SameMailbox, SameQuota
    <2>5. TxCurrent'
      BY <2>2, <2>3, <2>4 DEF TxCurrent
    <2>6. Tidy'
      BY <2>1 DEF OInv, Tidy
    <2> QED BY <2>5, <2>6 DEF OInv
  <1>3. ASSUME NEW d \in Operator, MailEdit(d) PROVE OInv'
    BY <1>2, <1>3, MailEditEdits DEF DInv, Edit, Client
  <1>4. ASSUME NEW d \in Editor, NEW x \in Value, mutateDesiredState(d, x) PROVE OInv'
    BY <1>2, <1>4, WebEdit DEF DInv, Client
  <1>5. ASSUME NEW d \in Client, queryExistingMailboxCredentialRows(d) PROVE OInv'
    <2>1. /\ db' = db /\ tx[d].step = "built"
          /\ tx' = [tx EXCEPT ![d].step = "resolved", ![d].existing = StoredNow]
      BY <1>5 DEF queryExistingMailboxCredentialRows, StoredNow
    <2>2. tx[d] \in Tx /\ tx[d] # NoTx
      BY <2>1, TxIs DEF DInv
    <2>3. tx'[d].next = tx[d].next /\ tx'[d].about = tx[d].about /\ tx'[d].existing = StoredNow
      BY <1>1, <2>1, <2>2 DEF Tx
    <2>4. StoredNow' = StoredNow
      BY <2>1 DEF StoredNow
    <2>5. Touches(tx[d].next, tx[d].about)
      BY <2>2 DEF OInv, TxCurrent
    <2>6. Touches(tx[d].next, tx[d].about)'
      BY <2>1, <2>3, <2>5 DEF Touches, SameMailbox, SameQuota
    <2>7. TxCurrent'
      BY <2>3, <2>4, <2>6 DEF TxCurrent
    <2>8. Tidy'
      BY <2>1 DEF OInv, Tidy
    <2> QED BY <2>7, <2>8 DEF OInv
  <1>6. ASSUME NEW d \in Client, applyDesiredStateSpec(d) PROVE OInv'
    <2>1. tx'[d] = NoTx /\ \A c \in Client : c = d
      BY <1>1, <1>6, ApplyIs
    <2>2. TxCurrent'
      BY <2>1 DEF TxCurrent
    <2>3. Tidy'
      <3>1. TypeOK
        BY DEF DInv
      <3>2. /\ tx[d].next \in Spec
            /\ tx[d].existing \in PartialFunction(Mailbox, Secret \cup {NoSecret})
            /\ db' = Written(tx[d].next, tx[d].existing)
        BY <1>6, ApplyIs
      <3>3. \A m \in DOMAIN db'.mailboxes :
              /\ m \in DOMAIN tx[d].next.mailboxes
              /\ db'.mailboxes[m].state = tx[d].next.mailboxes[m].state
              /\ db'.mailboxes[m].secret =
                   SecretToStore(tx[d].next.mailboxes[m], m, tx[d].existing)
        <4> DEFINE n == tx[d].next
                   e == tx[d].existing
        <4>1. n \in Spec /\ e \in PartialFunction(Mailbox, Secret \cup {NoSecret})
              /\ db' = Written(n, e)
          BY <3>2
        <4> HIDE DEF n, e
        <4> DEFINE after == Written(n, e)
        <4>2. /\ after.value = n.value /\ after.domains = n.domains /\ after.aliases = n.aliases
              /\ DOMAIN after.mailboxes = DOMAIN n.mailboxes
              /\ \A m \in DOMAIN n.mailboxes :
                   /\ after.mailboxes[m] \in Credential
                   /\ after.mailboxes[m].state = n.mailboxes[m].state
                   /\ after.mailboxes[m].secret = SecretToStore(n.mailboxes[m], m, e)
              /\ DOMAIN after.quotas = DOMAIN n.quotas \cup (DOMAIN db.quotas \cap DOMAIN n.mailboxes)
              /\ \A m \in DOMAIN after.quotas :
                   after.quotas[m] = IF m \in DOMAIN n.quotas THEN n.quotas[m] ELSE db.quotas[m]
          BY <3>1, <4>1, WrittenIs
        <4>3. \A m \in DOMAIN db'.mailboxes :
                /\ m \in DOMAIN n.mailboxes
                /\ db'.mailboxes[m].state = n.mailboxes[m].state
                /\ db'.mailboxes[m].secret = SecretToStore(n.mailboxes[m], m, e)
          BY <4>1, <4>2
        <4> QED BY <4>3 DEF n, e
      <3> QED BY <3>3 DEF Tidy, SecretToStore
    <2> QED BY <2>2, <2>3 DEF OInv
  <1>7. ASSUME NEW d \in Client, Abandon(d) PROVE OInv'
    <2>1. db' = db /\ tx' = [tx EXCEPT ![d] = NoTx]
      BY <1>7 DEF Abandon
    <2>2. tx'[d] = NoTx /\ \A c \in Client : c = d
      BY <1>1, <2>1
    <2> QED BY <2>1, <2>2 DEF OInv, Tidy, TxCurrent
  <1>8. CASE UNCHANGED vars
    BY <1>8 DEF vars, OInv, Tidy, TxCurrent, StoredNow, Touches, SameMailbox, SameQuota
  <1> QED BY <1>3, <1>4, <1>5, <1>6, <1>7, <1>8 DEF Next, Client

(* A client that edits alone, through the API or through a workspace,      *)
(* changes what its request is about and nothing else, although every      *)
(* edit rewrites every row and an export carries no passwords.             *)
THEOREM LoneEditKeepsTheRest ==
  ASSUME \A c, d \in Client : c = d
  PROVE  EditSpec => OnlyWhatWasAsked
  <1>1. Init => DInv /\ OInv
    BY InitDInv, InitOInv
  <1>2. DInv /\ OInv /\ [Next]_vars => (DInv /\ OInv)'
    BY NextDInv, NextOInv
  <1>3. ASSUME DInv, OInv, NEW d \in Client, applyDesiredStateSpec(d), NEW i \in Item \ tx[d].about
        PROVE  View(db, i)' = View(db, i)
    <2>1. tx[d].existing = StoredNow /\ Touches(tx[d].next, tx[d].about)
      BY <1>3, ApplyIs DEF OInv, TxCurrent
    <2>2. View(Written(tx[d].next, StoredNow), i) = View(db, i)
      BY <1>3, <2>1, ApplyIs, WrittenKeeps DEF DInv, OInv
    <2>3. View(db, i)' = View(db', i)
      BY DEF View
    <2> QED BY <1>3, <2>1, <2>2, <2>3, ApplyIs
  <1>4. DInv /\ OInv =>
          [\A d \in Operator \cup Editor : applyDesiredStateSpec(d) =>
             \A i \in Item \ tx[d].about : View(db, i)' = View(db, i)]_vars
    BY <1>3 DEF Client
  <1> QED BY <1>1, <1>2, <1>4, PTL DEF EditSpec, OnlyWhatWasAsked

(* What the write of d's edit leaves in the tables.                        *)
AsWritten(d) ==
  LET next == tx[d].next
  IN  /\ <<db'.value, db'.domains, db'.aliases>> = <<next.value, next.domains, next.aliases>>
      /\ DOMAIN db'.mailboxes = DOMAIN next.mailboxes
      /\ \A m \in DOMAIN next.mailboxes : db'.mailboxes[m].state = next.mailboxes[m].state
      /\ DOMAIN db'.quotas = DOMAIN next.quotas \cup (DOMAIN db.quotas \cap DOMAIN next.mailboxes)
      /\ \A m \in DOMAIN next.quotas : db'.quotas[m] = next.quotas[m]

LEMMA ApplyWrites ==
  ASSUME DInv, NEW d \in Client, applyDesiredStateSpec(d)
  PROVE  AsWritten(d) /\ db' \in Spec /\ tx[d].next \in Spec
  <1> DEFINE n == tx[d].next
             e == tx[d].existing
             after == Written(n, e)
  <1>1. TypeOK
    BY DEF DInv
  <1>2. n \in Spec /\ e \in PartialFunction(Mailbox, Secret \cup {NoSecret}) /\ db' = Written(n, e)
    BY ApplyIs
  <1> HIDE DEF n, e
  <1>3. /\ after.value = n.value /\ after.domains = n.domains /\ after.aliases = n.aliases
        /\ DOMAIN after.mailboxes = DOMAIN n.mailboxes
        /\ \A m \in DOMAIN n.mailboxes :
             /\ after.mailboxes[m] \in Credential
             /\ after.mailboxes[m].state = n.mailboxes[m].state
             /\ after.mailboxes[m].secret = SecretToStore(n.mailboxes[m], m, e)
        /\ DOMAIN after.quotas = DOMAIN n.quotas \cup (DOMAIN db.quotas \cap DOMAIN n.mailboxes)
        /\ \A m \in DOMAIN after.quotas :
             after.quotas[m] = IF m \in DOMAIN n.quotas THEN n.quotas[m] ELSE db.quotas[m]
    BY <1>1, <1>2, WrittenIs
  <1>4. after \in Spec
    BY <1>1, <1>2, WrittenEffect
  <1> HIDE DEF after
  <1>5. db' = after
    BY <1>2 DEF after
  <1>6. AsWritten(d)
    BY <1>3, <1>5 DEF AsWritten, n
  <1> QED BY <1>2, <1>4, <1>5, <1>6 DEF n

(* An edit that is answered with success is in the tables, whoever else    *)
(* edits: its contents, domains, aliases, mailboxes with their credential  *)
(* states, and the quotas it lists.  Other quota rows stay with their      *)
(* mailboxes, so of a deleted quota this says that it is still there.      *)
THEOREM EditIsWritten ==
  EditSpec => [][\A d \in Client : applyDesiredStateSpec(d) => AsWritten(d)]_vars
  <1>1. Init => DInv
    BY InitDInv
  <1>2. DInv /\ [Next]_vars => DInv'
    BY NextDInv
  <1>3. DInv => [\A d \in Client : applyDesiredStateSpec(d) => AsWritten(d)]_vars
    BY ApplyWrites
  <1> QED BY <1>1, <1>2, <1>3, PTL DEF EditSpec

(* Where nobody sets quotas, the whole of an answered edit is stored.      *)
THEOREM AnsweredEditIsStored ==
  ASSUME Size = {}
  PROVE  EditSpec => EditTakesEffect
  <1>1. Init => DInv
    BY InitDInv
  <1>2. DInv /\ [Next]_vars => DInv'
    BY NextDInv
  <1>3. ASSUME NEW f \in PartialFunction(Mailbox, Size) PROVE f \in [{} -> {}]
    <2>1. f \in [DOMAIN f -> {}]
      BY PartialFunctionIs
    <2>2. ASSUME NEW x \in DOMAIN f PROVE FALSE
      <3>1. f[x] \in {}
        BY <2>1
      <3> QED BY <3>1
    <2>3. DOMAIN f = {}
      BY <2>2
    <2> QED BY <2>1, <2>3
  <1>4. \A f, g \in [{} -> {}] : f = g
    OBVIOUS
  <1>5. ASSUME DInv, NEW d \in Client, applyDesiredStateSpec(d)
        PROVE  AsWritten(d) /\ db'.quotas = tx[d].next.quotas
    <2>1. db'.quotas \in [{} -> {}] /\ tx[d].next.quotas \in [{} -> {}]
      BY <1>3, <1>5, ApplyWrites DEF Spec
    <2> QED BY <1>4, <1>5, <2>1, ApplyWrites
  <1>6. DInv =>
          [\A d \in Operator \cup Editor : applyDesiredStateSpec(d) =>
             LET next == tx[d].next
             IN  /\ <<db'.value, db'.domains, db'.aliases>> = <<next.value, next.domains, next.aliases>>
                 /\ DOMAIN db'.mailboxes = DOMAIN next.mailboxes
                 /\ db'.quotas = next.quotas]_vars
    BY <1>5 DEF Client, AsWritten
  <1> QED BY <1>1, <1>2, <1>6, PTL DEF EditSpec, EditTakesEffect
==============================================================================
