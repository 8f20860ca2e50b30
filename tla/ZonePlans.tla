------------------------------ MODULE ZonePlans ------------------------------
(***************************************************************************)
(* What the control plane plans for a zone with a mail domain: the records *)
(* its nodes are to publish, which are the operator's and those derived    *)
(* from the sites and the mail domain; the role each node's mail.sync      *)
(* gives it; the vhosts for webmail and the MTA-STS policy.  Each comes    *)
(* from its own query over rows that edits, DDNS clients and results of    *)
(* jobs change one at a time; here they are functions of those rows.       *)
(* Left out: TTLs, serials, nameservers and the wording of TXT values (a   *)
(* TXT record is of the purpose its text begins with); mailboxes, aliases  *)
(* and policy, which a plan copies; the other domains of a node.           *)
(***************************************************************************)
EXTENDS Naturals, FiniteSets

CONSTANTS Machine,         \* the nodes, each known by its public address
          Site,            \* names below the zone that sites claim
          OutsideName,     \* names that are not, as an alias may be
          MailHost,        \* names below the zone a mail host may have
          ExplicitRecord,  \* records an operator may enter
          DynamicRecord,   \* address records a DDNS client may set
          KeyOf,           \* the DKIM key of each node
          NullHost,        \* the target of the MX record "0 ."
          Nobody           \* no mail domain, no standby, no key

Rr(name, type, value) == [name |-> name, type |-> type, value |-> value]

(* buildZoneDnsPlans refuses a zone with fewer than two nameservers; a DDNS *)
(* client sets addresses only.                                             *)
ASSUME ZonePlansAssumption ==
    /\ IsFiniteSet(Machine) /\ Cardinality(Machine) >= 2
    /\ Nobody \notin Machine
    /\ Site \cap OutsideName = {}
    /\ \A r \in ExplicitRecord \cup DynamicRecord : r = Rr(r.name, r.type, r.value)
    /\ \A r \in DynamicRecord : r.type \in {"A", "AAAA"}

VARIABLES zonePrimary,   \* control_plane_dns_zones.primary_node_id
          zoneRecords,   \* control_plane_dns_records
          claims,        \* the names of the zone's sites, aliases included
          mailDomain,    \* [host, primary, standby], or Nobody
          reported       \* the key in each node's latest applied mail.sync

planVars == <<zonePrimary, zoneRecords, claims, mailDomain, reported>>

PlanInit == /\ zonePrimary = CHOOSE m \in Machine : TRUE
            /\ zoneRecords = {} /\ claims = {} /\ mailDomain = Nobody
            /\ reported = [m \in Machine |-> Nobody]

-----------------------------------------------------------------------------
(* Records of one class at one name override each other.                   *)
Class(type) == IF type \in {"A", "AAAA", "CNAME"} THEN "address" ELSE type

SameSlot(r, s) == r.name = s.name /\ Class(r.type) = Class(s.type)

mergeDerivedDnsRecords(explicit, derived) ==
    explicit \cup {d \in derived : \A e \in explicit : ~SameSlot(d, e)}

(* Every name of every site has the address of the zone's primary.         *)
buildZoneRecords == {Rr(name, "A", zonePrimary) : name \in claims}

MailNames == {mailDomain.host, "webmail", "mta-sts"}

dkimRuntimeRecords == {reported[mailDomain.primary]}

buildMailZoneRecords ==
    IF mailDomain = Nobody THEN {}
    ELSE {Rr(name, "A", mailDomain.primary) : name \in MailNames}
           \cup {Rr("@", "MX", mailDomain.host), Rr("@", "SPF", "mx"),
                 Rr("_dmarc", "DMARC", "quarantine"), Rr("_smtp._tls", "TLSRPT", "report"),
                 Rr("_mta-sts", "STS", mailDomain.host)}
           \cup {Rr("dkim._domainkey", "DKIM", key) : key \in dkimRuntimeRecords \ {Nobody}}

(* A name outside the zone makes the build throw, for every resource.      *)
Planned == claims \cap OutsideName = {}

PublishedRecords ==
    mergeDerivedDnsRecords(zoneRecords, buildZoneRecords \cup buildMailZoneRecords)

buildZoneDnsPlans ==
    {[node |-> m, role |-> IF m = zonePrimary THEN "primary" ELSE "secondary",
      records |-> PublishedRecords] : m \in Machine}

(* The nodes a mail domain is on.                                          *)
MailTargets == IF mailDomain = Nobody THEN {}
               ELSE {mailDomain.primary, mailDomain.standby} \ {Nobody}

buildMailSyncPlans ==
    {[node |-> m, role |-> IF m = mailDomain.primary THEN "primary" ELSE "standby"] :
     m \in MailTargets}

buildMailProxyPlans == [node : MailTargets, serverName : {"webmail", "mta-sts"}]

-----------------------------------------------------------------------------
(* Fault: MX records are not compared with the mail host.                  *)
ValidNodesOnly(domain, records) == domain # Nobody => domain.standby # domain.primary

validateMailDomain(domain, records) ==
    domain # Nobody =>
        /\ domain.standby # domain.primary
        /\ \A r \in records : r.name = "@" /\ r.type = "MX" => r.value \in {domain.host, NullHost}

(* The zone form: the primary, and a line of the records more or less.     *)
SaveZone == \E primary \in Machine, line \in ExplicitRecord :
    \E records \in {zoneRecords \cup {line}, zoneRecords \ {line}} :
      /\ validateMailDomain(mailDomain, records)
      /\ zonePrimary' = primary /\ zoneRecords' = records
      /\ UNCHANGED <<claims, mailDomain, reported>>

(* The app form: no check compares a site's names with the zone.           *)
SaveSite == \E names \in SUBSET (Site \cup OutsideName) :
    /\ claims' = names
    /\ UNCHANGED <<zonePrimary, zoneRecords, mailDomain, reported>>

UpsertMailDomain ==
    \E domain \in [host : MailHost, primary : Machine, standby : Machine \cup {Nobody}] :
      /\ validateMailDomain(domain, zoneRecords)
      /\ mailDomain' = domain
      /\ UNCHANGED <<zonePrimary, zoneRecords, claims, reported>>

DeleteMailDomain == /\ mailDomain # Nobody
                    /\ mailDomain' = Nobody
                    /\ UNCHANGED <<zonePrimary, zoneRecords, claims, reported>>

(* updateDdnsHost replaces the address of its name, and validates nothing. *)
SetAddress == \E d \in DynamicRecord :
    /\ zoneRecords' = {r \in zoneRecords : ~(r.name = d.name /\ r.type = d.type)} \cup {d}
    /\ UNCHANGED <<zonePrimary, claims, mailDomain, reported>>

(* A node's mail.sync is applied: its details have the domain's key, or    *)
(* none when the domain is not on the node or its key is unavailable.      *)
ReportMail == \E m \in Machine :
    \E key \in {Nobody} \cup (IF m \in MailTargets THEN {KeyOf[m]} ELSE {}) :
      /\ reported' = [reported EXCEPT ![m] = key]
      /\ UNCHANGED <<zonePrimary, zoneRecords, claims, mailDomain>>

PlanNext == SaveZone \/ SaveSite \/ UpsertMailDomain \/ DeleteMailDomain
            \/ SetAddress \/ ReportMail

PlanSpec == PlanInit /\ [][PlanNext]_planVars

-----------------------------------------------------------------------------
ValuesAt(name, type) == {r.value : r \in {s \in PublishedRecords : s.name = name /\ s.type = type}}

(* An operator, a DDNS client or a site has named it for itself.           *)
Taken(name) == \/ name \in claims
               \/ \E r \in zoneRecords : r.name = name /\ Class(r.type) = "address"

(* Whatever was edited in whichever order, the plans of a zone agree: mail *)
(* for the domain is sent to its mail host, or by an operator's null MX to *)
(* nobody; the names of its services that nobody has taken have one        *)
(* address, of the one node whose mail.sync makes it the primary and which *)
(* has their vhosts; the key that receivers verify with is the operator's  *)
(* or the one that node signs with.                                        *)
MailReachesPrimary ==
    Planned /\ mailDomain # Nobody =>
        LET primaries == {p.node : p \in {q \in buildMailSyncPlans : q.role = "primary"}}
        IN  /\ ValuesAt("@", "MX") \subseteq {mailDomain.host, NullHost}
            /\ ValuesAt("@", "MX") # {}
            /\ \A name \in MailNames : ~Taken(name) => ValuesAt(name, "A") = primaries
            /\ Cardinality(primaries) = 1
            /\ \A m \in primaries :
                 /\ \A s \in {"webmail", "mta-sts"} :
                       [node |-> m, serverName |-> s] \in buildMailProxyPlans
                 /\ \A key \in ValuesAt("dkim._domainkey", "DKIM") :
                       key = KeyOf[m] \/ Rr("dkim._domainkey", "DKIM", key) \in zoneRecords
=============================================================================
