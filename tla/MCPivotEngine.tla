--------------------------- MODULE MCPivotEngine ---------------------------
(***************************************************************************)
(* Small worlds for PivotEngine; a cfg picks the registry, the seeds and   *)
(* the budgets.  apex owns www, www owns api, and other is a name on       *)
(* another domain that shares a certificate; ours is an address that an    *)
(* authorization may cover and cdn one it does not.                        *)
(***************************************************************************)
EXTENDS PivotCrawl

Domains == {"apex", "www", "api", "other"}
Addresses == {"ours", "cdn"}

MCEntity == Domains \cup Addresses \cup {"alice", "cve", "port"}

MCTypeOf ==
    [e \in MCEntity |->
        CASE e \in Domains -> "Domain"
          [] e \in Addresses -> "IPAddress"
          [] e = "alice" -> "Username"
          [] e = "cve" -> "Vulnerability"
          [] e = "port" -> "Other"]

MCUnder ==
    [e \in MCEntity |->
        CASE e = "apex" -> {"apex", "www", "api"}
          [] e = "www" -> {"www", "api"}
          [] OTHER -> {e}]

\* Of the names only api is covered; the network holds ours.
MCSpans ==
    [t \in Target |-> CASE t = "api" -> {"api"} [] t = "192.0.2.0/24" -> {"ours"}]

MCRank ==
    LET order == <<"www", "cve", "ours", "apex", "cdn", "api", "port", "other", "alice">>
    IN [e \in MCEntity |-> CHOOSE i \in 1..Len(order) : order[i] = e]

MCAccepts ==
    [c \in Connector |->
        CASE c \in {"crtsh", "dns"} -> {"Domain"}
          [] c = "probe" -> {"Domain", "IPAddress"}
          [] c \in {"asn", "internetdb"} -> {"IPAddress"}
          [] c = "cvedb" -> {"Vulnerability"}
          [] c = "usernames" -> {"Username"}]

MCClass ==
    [c \in Connector |-> IF c \in {"asn", "cvedb"} THEN "IDENTIFICATION" ELSE "EXPOSURE"]

MCMode == [c \in Connector |-> IF c = "probe" THEN "ACTIVE" ELSE "PASSIVE"]

MCPosition ==
    LET order == <<"crtsh", "dns", "probe", "asn", "internetdb", "cvedb", "usernames">>
    IN [c \in Connector |-> CHOOSE i \in 1..Len(order) : order[i] = c]

MCWorld ==
    [c \in Connector |-> [e \in MCEntity |->
        CASE c = "crtsh" /\ e = "apex" -> {"www", "api", "other"}
          [] c = "crtsh" /\ e = "www" -> {"api", "apex"}
          [] c = "dns" /\ e \in {"apex", "api"} -> {"ours"}
          [] c = "dns" /\ e = "www" -> {"cdn", "ours"}
          [] c = "internetdb" /\ e \in Addresses -> {e, "port", "cve"}
          [] c = "cvedb" /\ e = "cve" -> {"cve"}
          [] c \in {"asn", "probe"} /\ e \in Addresses -> {"port"}
          [] c = "usernames" /\ e = "alice" -> {"port"}
          [] OTHER -> {}]]

\* The hypothesis under which the order of the deque is proved to cost no depth.
ASSUME LayersAssumption == ProducedInLayers
=============================================================================
