----------------------------- MODULE MCSources -----------------------------
(***************************************************************************)
(* Instances of Sources: the company domain and its www, three other names *)
(* in certificates, two addresses and two vulnerabilities, with garbled    *)
(* items, fields and payloads among the answers.                           *)
(***************************************************************************)
EXTENDS Sources

CONSTANTS first, second     \* the keys of two certificates

Plain(n) == [name |-> n, wildcard |-> FALSE]
Wildcard(n) == [name |-> n, wildcard |-> TRUE]

\* A name, a dotted child, a child of that, and a name on another domain.
MCUnder ==
    [s \in {"example.com", "www.example.com", "a.www.example.com", "other.org"} |->
        CASE s = "example.com" -> {"example.com", "www.example.com", "a.www.example.com"}
          [] s = "www.example.com" -> {"www.example.com", "a.www.example.com"}
          [] OTHER -> {s}]

\* What certificates list: the wildcard of the company alone, the same and www in
\* either order, children, a name twice over, or nothing readable.
NameLists ==
    {Junk,
     <<Wildcard("example.com")>>,
     <<Plain("www.example.com"), Wildcard("www.example.com"), Plain("www.example.com")>>,
     <<Wildcard("www.example.com"), Plain("example.com"), Plain("other.org")>>,
     <<Plain("a.www.example.com"), Plain("other.org")>>}

MCIssuance ==
    {Junk,
     [id |-> TRUE, names |-> <<Wildcard("www.example.com"), Plain("example.com"), Plain("other.org")>>],
     [id |-> TRUE, names |-> <<Plain("a.www.example.com"), Wildcard("www.example.com"),
                               Plain("www.example.com")>>],
     [id |-> FALSE, names |-> Junk]}
MCReadable == MCIssuance \ {Junk}
MCWithId == {x \in MCReadable : x.id}

SeqsUpTo(S, n) == UNION {[1..k -> S] : k \in 0..n}

MCSeedsOf ==
    [c \in Asked \cup {"certspotter", "asn"} |->
        CASE c \in {"crtsh", "wayback", "dns"} -> {"example.com", "www.example.com"}
          [] c = "certspotter" -> {"www.example.com"}
          [] c = "cvedb" -> {"CVE-1"}
          [] OTHER -> {"192.0.2.1", "2001:db8::1"}]

MCAnswersOf ==
    [c \in Asked \cup {"asn"} |->
        CASE c = "crtsh" ->
                {Junk} \cup SeqsUpTo({Junk} \cup [key : {first, second}, names : NameLists], 2)
          [] c = "wayback" -> {Junk} \cup SeqsUpTo({Junk} \cup DOMAIN MCUnder, 3)
          [] c = "dns" -> SUBSET {Junk, "192.0.2.1", "2001:db8::1"}
          [] c = "internetdb" ->
                {Junk} \cup [ports : {Junk} \cup SeqsUpTo({Junk, JsonTrue, 0, 1, 443, 65535, 65536}, 2),
                             vulns : {Junk} \cup SUBSET {Junk, "CVE-1", "CVE-2"},
                             tags : {Junk, {Junk, "cdn"}, {"cdn", "vpn"}}]
          [] c = "cvedb" ->
                {Junk} \cup [cve : {Null, "CVE-1", "CVE-2"}, cvss : {Null, 0, 39, 40, 69, 70, 89, 90}]
          [] c = "asn" ->
                SeqsUpTo({Junk, [asn |-> "AS1", prefix |-> "192.0.2.0/24"],
                          [asn |-> "AS1", prefix |-> "192.0.0.0/16"],
                          [asn |-> "AS2", prefix |-> "192.0.2.0/24"]}, 3)]
=============================================================================
