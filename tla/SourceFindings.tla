--------------------------- MODULE SourceFindings ---------------------------
(***************************************************************************)
(* What the connectors make of an answer: the entities and relationships   *)
(* of a Finding (src/osint/connectors).  An entity is known by its type    *)
(* and canonical value, as its id is; of its attributes and tags only the  *)
(* labels below are kept.  A name listed in a certificate is the name and  *)
(* whether it had a "*." in front of it; Junk stands for an item, a field  *)
(* or a payload of another JSON type than the connector looks for.         *)
(***************************************************************************)
EXTENDS Naturals, Sequences, FiniteSets, FiniteSetsExt

CONSTANTS
    Under,      \* Under[s]: the names that are s or a dotted child of s
    IPv6,       \* the addresses of version 6
    Junk,
    JsonTrue,   \* the JSON value true, which is an int in Python; false and Junk are dropped alike
    Null        \* None

Node(type, value) == [type |-> type, value |-> value]

Entity(type, value, labels) == [node |-> Node(type, value), labels |-> labels]

Relationship(type, src, dst) == [type |-> type, src |-> src, dst |-> dst]

Finding(entities, relationships) == [entities |-> entities, relationships |-> relationships]

-----------------------------------------------------------------------------
(* domains.py *)

UnderSeed(name, seed) == name \in Under[seed]

DomainEntity(name, seed, isWildcard) ==
    Entity("Domain", name,
           (IF UnderSeed(name, seed) THEN {} ELSE {"co-san"})
           \cup (IF isWildcard THEN {"wildcard"} ELSE {}))

\* A dict keyed by id keeps the entity built last for a name: here, of the listings
\* at the positions I of names.
LastListed(names, I, name) == names[Max({i \in I : names[i].name = name})].wildcard

Subdomains(listed, seed) ==
    {Relationship("HAS_SUBDOMAIN", Node("Domain", seed), Node("Domain", n)) :
        n \in {m \in listed \ {seed} : UnderSeed(m, seed)}}

NamesIn(names) == {names[i].name : i \in DOMAIN names}

-----------------------------------------------------------------------------
(* crtsh.py.  A record has a key, which stands for its serial, issuer,     *)
(* subject and dates, and the names of its name_value.                     *)

ListOf(value) == IF value = Junk THEN <<>> ELSE value

\* _extract_names keeps the first of equal listings.
FirstListings(names) == {i \in DOMAIN names : \A j \in 1..(i - 1) : names[j] # names[i]}

\* The seed is the root of the finding whether the certificate lists it or not.
CrtShFinding(record, seed) ==
    LET names == ListOf(record.names)
        listed == NamesIn(names)
        certificate == Node("Certificate", <<record.key, listed>>)
    IN Finding(
        {[node |-> certificate, labels |-> {}], DomainEntity(seed, seed, FALSE)}
            \cup {DomainEntity(n, seed, LastListed(names, FirstListings(names), n)) :
                     n \in listed \ {seed}},
        {Relationship("SECURES", certificate, Node("Domain", n)) : n \in listed \cup {seed}}
            \cup Subdomains(listed, seed))

\* A payload that is no list has no records.
CrtShFindings(records, seed) ==
    {CrtShFinding(records[i], seed) : i \in {j \in DOMAIN ListOf(records) : records[j] # Junk}}

-----------------------------------------------------------------------------
(* certspotter.py: _issuance_to_finding.  The root is built first, so a    *)
(* listing of the seed itself takes its place.                             *)

IssuanceFinding(issuance, seed) ==
    LET names == ListOf(issuance.names)
        listed == NamesIn(names)
    IN Finding(
        {DomainEntity(n, seed, IF n \in listed THEN LastListed(names, DOMAIN names, n) ELSE FALSE) :
            n \in listed \cup {seed}},
        Subdomains(listed, seed))

-----------------------------------------------------------------------------
(* wayback.py.  The first row is the header; a row without a host is Junk. *)

Hosts(rows) == {rows[i] : i \in 2..Len(rows)} \ {Junk}

WaybackFindings(rows, seed) ==
    IF rows = Junk THEN {}
    ELSE LET hosts == {n \in Hosts(rows) : UnderSeed(n, seed)}
         IN {Finding({DomainEntity(n, seed, FALSE) : n \in hosts \cup {seed}},
                     Subdomains(hosts, seed))}

-----------------------------------------------------------------------------
(* dns.py: the A and AAAA answers; a lookup that fails gives none.         *)

DnsFindings(addresses, seed) ==
    LET found == addresses \ {Junk}
    IN IF found = {} THEN {}
       ELSE {Finding({Entity("IPAddress", a, {}) : a \in found},
                     {Relationship("RESOLVES_TO", Node("Domain", seed), Node("IPAddress", a)) :
                         a \in found})}

-----------------------------------------------------------------------------
(* internetdb.py *)

MaxPort == 65535

\* Fault: one item that is no string costs the list.
StringsIfAll(value) == IF value = Junk \/ Junk \in value THEN {} ELSE value

\* _string_list: nothing of what is no list, and the strings of one.
Strings(value) == IF value = Junk THEN {} ELSE value \ {Junk}

\* How an int compares: true is 1, but is written "True".
Number(item) == IF item = JsonTrue THEN 1 ELSE item

\* A Python set holds the first of two that are equal, as 1 and true are.
Ports(list) ==
    LET I == {i \in DOMAIN list : list[i] # Junk /\ 0 < Number(list[i]) /\ Number(list[i]) <= MaxPort}
    IN {list[i] : i \in {j \in I : \A k \in I : k < j => Number(list[k]) # Number(list[j])}}

\* The ids in the vulns list start with CVE-; Junk does not.
InternetDbFindings(payload, address) ==
    IF payload = Junk THEN {}
    ELSE LET ip == Node("IPAddress", address)
             services == {<<address, p>> : p \in Ports(ListOf(payload.ports))}
             cves == Strings(payload.vulns)
         IN {Finding(
                {Entity("IPAddress", address, Strings(payload.tags))}
                    \cup {Entity("Service", s, {}) : s \in services}
                    \cup {Entity("Vulnerability", v, {}) : v \in cves},
                {Relationship("HOSTS", ip, Node("Service", s)) : s \in services}
                    \cup {Relationship("HAS_VULNERABILITY", ip, Node("Vulnerability", v)) :
                             v \in cves})}

-----------------------------------------------------------------------------
(* cvedb.py.  A payload may name the CVE itself; scores are in tenths.     *)

Severity(cvss) ==
    CASE cvss = Null -> {}
      [] cvss # Null /\ cvss >= 90 -> {"critical"}
      [] cvss # Null /\ cvss \in 70..89 -> {"high"}
      [] cvss # Null /\ cvss \in 40..69 -> {"medium"}
      [] OTHER -> {"low"}

CveDbFindings(payload, cve) ==
    IF payload = Junk THEN {}
    ELSE {Finding({Entity("Vulnerability",
                          IF payload.cve = Null THEN cve ELSE payload.cve,
                          Severity(payload.cvss))},
                  {})}

-----------------------------------------------------------------------------
(* asn.py.  An origin record is an ASN and a prefix, or Junk; a            *)
(* description is the name of an ASN, or Null when the lookup failed or    *)
(* said nothing.                                                           *)

\* Fault: the prefix announces the ASN.
RecordFindingReversed(record, description, address) ==
    LET asn == Node("ASN", record.asn)
        netblock == Node("Netblock", record.prefix)
    IN Finding(
        {Entity("ASN", record.asn, {description} \ {Null}), Entity("Netblock", record.prefix, {})},
        {Relationship("CONTAINS", netblock, Node("IPAddress", address)),
         Relationship("ANNOUNCES", netblock, asn)})

RecordFinding(record, description, address) ==
    LET asn == Node("ASN", record.asn)
        netblock == Node("Netblock", record.prefix)
    IN Finding(
        {Entity("ASN", record.asn, {description} \ {Null}), Entity("Netblock", record.prefix, {})},
        {Relationship("CONTAINS", netblock, Node("IPAddress", address)),
         Relationship("ANNOUNCES", asn, netblock)})
=============================================================================
