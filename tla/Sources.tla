------------------------------ MODULE Sources ------------------------------
(***************************************************************************)
(* A collection about one seed by one of the connectors that ask public    *)
(* sources (src/osint/connectors): what it asks, what may come back, and   *)
(* the findings it yields.  Cert Spotter's paging is module CertSpotter;   *)
(* crt.sh, the Wayback Machine, InternetDB and CVEDB are one question; DNS *)
(* is one lookup in a thread, and Team Cymru one for the origins of an     *)
(* address and one for each origin, in turn.  The semaphores around the    *)
(* lookups are left out: the engine runs one task of a connector at a      *)
(* time, so there is always a permit.                                      *)
(***************************************************************************)
EXTENDS Integers, CertSpotter, SourceFindings, Selection

CONSTANTS
    SeedsOf,    \* [connectors -> the seeds they are asked about]
    AnswersOf,  \* [connectors -> the payloads an answer may carry]
    Descriptions    \* what a lookup of an ASN may come to

Asked == {"crtsh", "wayback", "dns", "internetdb", "cvedb"}

\* The names of a certificate: no list at all, or a list of names.
NamesAreListed(names) ==
    \/ names = Junk
    \/ /\ IsList(names)
       /\ \A i \in DOMAIN names : names[i] \in [name : DOMAIN Under, wildcard : BOOLEAN]

ASSUME SourcesAssumption ==
    /\ DOMAIN SeedsOf = Asked \cup {"certspotter", "asn"}
    /\ DOMAIN AnswersOf = Asked \cup {"asn"}
    /\ Null \in Descriptions
    /\ \A c \in DOMAIN AnswersOf : \A payload \in AnswersOf[c] : payload # Null
    /\ \A issuance \in Readable : NamesAreListed(issuance.names)
    /\ \A records \in AnswersOf["crtsh"] \ {Junk} :
          \A i \in DOMAIN records : records[i] # Junk => NamesAreListed(records[i].names)
    /\ \A payload \in AnswersOf["internetdb"] \ {Junk} :
          payload.ports # Junk => /\ IsList(payload.ports)
                                  /\ \A i \in DOMAIN payload.ports :
                                        payload.ports[i] \in Int \cup {Junk, JsonTrue}
    /\ \A payload \in AnswersOf["cvedb"] \ {Junk} : payload.cvss \in Int \cup {Null}
    /\ Null \notin Int
    /\ \A records \in AnswersOf["asn"] : IsList(records)

VARIABLES
    connector, seed,
    answer,     \* history: the payload that came back, or Null
    described,  \* what the lookups of the ASNs came to, in turn
    findings,   \* those yielded; Cert Spotter's follow from what it has read
    phase       \* "asking", "describing" or "ended"

oneShot == <<answer, described, findings, phase>>
vars == <<pagingVars, connector, seed, oneShot>>

Init ==
    /\ PagingInit
    /\ connector \in DOMAIN SeedsOf
    /\ seed \in SeedsOf[connector]
    /\ answer = Null
    /\ described = <<>>
    /\ findings = {}
    /\ phase = "asking"

CollectPages ==
    /\ connector = "certspotter"
    /\ Paging
    /\ UNCHANGED <<connector, seed, oneShot>>

FindingsOf(payload) ==
    CASE connector = "crtsh" -> CrtShFindings(payload, seed)
      [] connector = "wayback" -> WaybackFindings(payload, seed)
      [] connector = "dns" -> DnsFindings(payload, seed)
      [] connector = "internetdb" -> InternetDbFindings(payload, seed)
      [] connector = "cvedb" -> CveDbFindings(payload, seed)

\* InternetDB is not asked about an IPv6 address.
Skips == connector = "internetdb" /\ seed \in IPv6

Answer ==
    /\ phase = "asking"
    /\ connector \in Asked
    /\ ~Skips
    /\ answer' \in AnswersOf[connector]
    /\ findings' = FindingsOf(answer')
    /\ phase' = "ended"
    /\ UNCHANGED <<pagingVars, connector, seed, described>>

\* A 404, a status that is an error, a failed request or lookup, or no JSON; or nothing
\* is asked.
GiveUp ==
    /\ phase = "asking"
    /\ connector # "certspotter"
    /\ phase' = "ended"
    /\ UNCHANGED <<pagingVars, connector, seed, answer, described, findings>>

\* The origin records of the address; those that do not parse are dropped.
Origins == Selected(answer, {i \in DOMAIN answer : answer[i] # Junk})

AnswerOrigins ==
    /\ phase = "asking"
    /\ connector = "asn"
    /\ answer' \in AnswersOf[connector]
    /\ phase' = IF Origins' = <<>> THEN "ended" ELSE "describing"
    /\ UNCHANGED <<pagingVars, connector, seed, described, findings>>

Merged(F) ==
    Finding(UNION {f.entities : f \in F}, UNION {f.relationships : f \in F})

\* Fault: an origin whose ASN has no description is left out.
OriginFindingsDescribed(descriptions) ==
    {RecordFinding(Origins[i], descriptions[i], seed) :
        i \in {j \in DOMAIN descriptions : descriptions[j] # Null}}

OriginFindings(descriptions) ==
    {RecordFinding(Origins[i], descriptions[i], seed) : i \in DOMAIN descriptions}

\* _asn_description, for the next origin; a failure is a description without a name.
\* The one finding is yielded when all are there.
Describe ==
    /\ phase = "describing"
    /\ \E d \in Descriptions : described' = Append(described, d)
    /\ IF Len(described') = Len(Origins)
       THEN findings' = {Merged(OriginFindings(described'))} /\ phase' = "ended"
       ELSE UNCHANGED <<findings, phase>>
    /\ UNCHANGED <<pagingVars, connector, seed, answer>>

Next == CollectPages \/ Answer \/ GiveUp \/ AnswerOrigins \/ Describe

Spec == Init /\ [][Next]_vars

-----------------------------------------------------------------------------
(* What has been reported. *)

Yielded ==
    IF connector = "certspotter"
    THEN {IssuanceFinding(log[i], seed) : i \in yielded}
    ELSE findings

Entities == UNION {f.entities : f \in Yielded}
Relationships == UNION {f.relationships : f \in Yielded}

Pairs(type) ==
    {<<r.src.value, r.dst.value>> : r \in {q \in Relationships : q.type = type}}

\* Reference: what the answers say.
RecordsRead ==
    CASE connector = "certspotter" -> {log[i] : i \in yielded}
      [] connector = "crtsh" /\ answer \notin {Null, Junk} -> {answer[i] : i \in DOMAIN answer} \ {Junk}
      [] OTHER -> {}

Listings ==
    IF connector = "wayback" /\ answer \notin {Null, Junk}
    THEN {[name |-> h, wildcard |-> FALSE] : h \in Hosts(answer) \cap Under[seed]}
    ELSE UNION {{r.names[i] : i \in DOMAIN r.names} : r \in {q \in RecordsRead : q.names # Junk}}

HasAnswered(name) == connector = name /\ answer \notin {Null, Junk}

\* The items of InternetDB's port list that are port numbers, and its CVE ids.
ListedPorts ==
    IF HasAnswered("internetdb") /\ answer.ports # Junk
    THEN {p \in {answer.ports[i] : i \in DOMAIN answer.ports} : p # Junk /\ Number(p) \in 1..MaxPort}
    ELSE {}

ListedCves == IF HasAnswered("internetdb") /\ answer.vulns # Junk THEN answer.vulns \ {Junk} ELSE {}

\* The score each band starts at; below them all it is low.
Floor == [critical |-> 90, high |-> 70, medium |-> 40]

-----------------------------------------------------------------------------
(* Properties. *)

EntityTypes == {"Domain", "IPAddress", "Certificate", "Service", "Vulnerability", "ASN", "Netblock"}

Ends(type) ==
    CASE type = "HAS_SUBDOMAIN" -> <<"Domain", "Domain">>
      [] type = "RESOLVES_TO" -> <<"Domain", "IPAddress">>
      [] type = "SECURES" -> <<"Certificate", "Domain">>
      [] type = "ANNOUNCES" -> <<"ASN", "Netblock">>
      [] type = "CONTAINS" -> <<"Netblock", "IPAddress">>
      [] type = "HOSTS" -> <<"IPAddress", "Service">>
      [] type = "HAS_VULNERABILITY" -> <<"IPAddress", "Vulnerability">>

TypeOK ==
    /\ PagingTypeOK
    /\ connector \in DOMAIN SeedsOf /\ seed \in SeedsOf[connector]
    /\ phase \in {"asking", "describing", "ended"}
    /\ described \in Seq(Descriptions)
    /\ \A e \in Entities : e.node.type \in EntityTypes
    /\ \A r \in Relationships : <<r.src.type, r.dst.type>> = Ends(r.type)

\* Every name listed is reported; co-san means not under the seed; and what is reported
\* was listed as it is marked, with a wildcard or without, or is the seed without.
NamesSupported ==
    connector \in {"crtsh", "certspotter", "wayback"} =>
        LET names == {e \in Entities : e.node.type = "Domain"}
        IN /\ {l.name : l \in Listings} \subseteq {e.node.value : e \in names}
           /\ \A e \in names :
                /\ "co-san" \in e.labels <=> e.node.value \notin Under[seed]
                /\ \/ [name |-> e.node.value, wildcard |-> "wildcard" \in e.labels] \in Listings
                   \/ e.node.value = seed /\ "wildcard" \notin e.labels

\* An end of a relationship is reported with it, or is the seed, which only DNS and Team
\* Cymru do not report themselves.
HangsTogether ==
    \A f \in Yielded : \A r \in f.relationships : \A end \in {r.src, r.dst} :
        \/ end \in {e.node : e \in f.entities}
        \/ connector \in {"dns", "asn"} /\ end.value = seed

\* The subdomains are the names listed strictly under the seed, the addresses those the
\* resolver gave, the open ports the port numbers listed, each once, and the
\* vulnerabilities the CVE ids listed.
RelationshipsSupported ==
    /\ Pairs("HAS_SUBDOMAIN") =
          {<<seed, l.name>> : l \in {k \in Listings : k.name # seed /\ k.name \in Under[seed]}}
    /\ Pairs("RESOLVES_TO") =
          IF connector = "dns" /\ answer # Null THEN {<<seed, a>> : a \in answer \ {Junk}} ELSE {}
    /\ Pairs("HOSTS") \subseteq {<<seed, <<seed, p>>>> : p \in ListedPorts}
    /\ \A p \in ListedPorts : \E q \in ListedPorts :
          Number(q) = Number(p) /\ <<seed, <<seed, q>>>> \in Pairs("HOSTS")
    /\ \A p, q \in ListedPorts :
          {<<seed, <<seed, p>>>>, <<seed, <<seed, q>>>>} \subseteq Pairs("HOSTS") /\ Number(p) = Number(q)
              => p = q
    /\ Pairs("HAS_VULNERABILITY") = {<<seed, v>> : v \in ListedCves}

\* InternetDB's address has the tags listed; CVEDB gives one vulnerability, named by the
\* payload if it has a name, whose severity is the highest band the score reaches.
LabelsSupported ==
    /\ HasAnswered("internetdb") =>
          {e.labels : e \in {g \in Entities : g.node.type = "IPAddress"}} =
              {IF answer.tags = Junk THEN {} ELSE answer.tags \ {Junk}}
    /\ HasAnswered("cvedb") =>
          /\ \E e \in Entities : Entities = {e}
          /\ \A e \in Entities :
                /\ e.node = Node("Vulnerability", IF answer.cve = Null THEN seed ELSE answer.cve)
                /\ answer.cvss = Null => e.labels = {}
                /\ answer.cvss # Null =>
                      \/ /\ e.labels = {"low"}
                         /\ \A b \in DOMAIN Floor : answer.cvss < Floor[b]
                      \/ \E b \in DOMAIN Floor :
                            /\ e.labels = {b} /\ answer.cvss >= Floor[b]
                            /\ \A c \in DOMAIN Floor : Floor[c] > Floor[b] => answer.cvss < Floor[c]

\* Whatever is garbled in an answer costs only itself, and nothing is made up.  The names
\* and their labels, the subdomains, the addresses, the ports, the vulnerabilities, the
\* tags and the severity reported are exactly those of the readable rest of the pages,
\* records and fields, and a relationship never points at something its finding does not
\* hold, the seed aside (domains.py:8-48, crtsh.py:60-145, certspotter.py:70-157,
\* wayback.py:60-127, dns.py:49-92, internetdb.py:77-182, cvedb.py:55-137).  What a
\* certificate secures is SecuresWhatItLists' subject, what an ASN announces OriginsSurvive's.
FindingsSupported == NamesSupported /\ HangsTogether /\ RelationshipsSupported /\ LabelsSupported

\* A lookup that fails costs only what it would have told: however many descriptions
\* fail, every origin of the address is reported, with its prefix announced by its own
\* ASN, and an ASN has the names of the lookups that did not fail (asn.py:75-106).
OriginsSurvive ==
    connector = "asn" /\ phase = "ended" /\ answer # Null =>
        LET origins == {Origins[i] : i \in DOMAIN Origins}
        IN /\ Pairs("ANNOUNCES") = {<<o.asn, o.prefix>> : o \in origins}
           /\ Pairs("CONTAINS") = {<<o.prefix, seed>> : o \in origins}
           /\ \A o \in origins :
                UNION {e.labels : e \in {f \in Entities : f.node = Node("ASN", o.asn)}}
                    = {described[i] : i \in {j \in DOMAIN Origins : Origins[j].asn = o.asn}} \ {Null}

\* DESIGN.md:115 "`SECURES` | Certificate -> Domain | Cert SAN/CN covers this domain":
\* what a certificate with names secures is one of them, or lies under one.
SecuresWhatItLists ==
    \A r \in Relationships :
        r.type = "SECURES" /\ r.src.value[2] # {} =>
            \E n \in r.src.value[2] : r.dst.value \in Under[n]
=============================================================================
