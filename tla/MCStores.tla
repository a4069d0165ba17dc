--------------------------- MODULE MCStores --------------------------------
(***************************************************************************)
(* crt.sh, and Cert Spotter in two pages, report a domain and a subdomain  *)
(* with their edge; DNS an address and the edge to it from the seed, which *)
(* DNS itself does not report; CVEDB rates a vulnerability.  The two first *)
(* disagree on is_wildcard, and the rating changes from run to run.        *)
(***************************************************************************)
EXTENDS Stores

Reported(id, source, prov, tags, value) ==
    [id |-> id, source |-> source, provs |-> {prov}, tags |-> tags,
     attrs |-> [f \in Field |-> value]]

MCEnds ==
    [id \in Id |-> CASE id = "apex-www" -> {"apex", "www"}
                     [] id = "apex-ip" -> {"apex", "ip"}
                     [] OTHER -> {}]

MCConfOf ==
    [s \in Source |-> CASE s = "crt.sh" -> 7 [] s \in {"dns", "cvedb"} -> 9 [] OTHER -> 6]

Rating == <<"first", "second", "third">>

\* In the third run only crt.sh and CVEDB are within reach.
Batches(n, t) ==
    CASE n = 3 /\ t \notin {"crtsh", "cvedb"} -> <<>>
      [] t = "crtsh" ->
            << <<Reported("apex", "crt.sh", "row1", {}, "no"),
                 Reported("www", "crt.sh", "row1", {"wildcard"}, "yes"),
                 Reported("apex-www", "crt.sh", "row1", {}, Null)>> >>
      [] n < 3 /\ t = "certspotter" ->
            << <<Reported("apex", "certspotter", "page1", {}, "no")>>,
               <<Reported("apex", "certspotter", "page2", {}, "no"),
                 Reported("www", "certspotter", "page2", {}, "no"),
                 Reported("apex-www", "certspotter", "page2", {}, Null)>> >>
      [] n < 3 /\ t = "dns" ->
            << <<Reported("ip", "dns", "A", {}, Null),
                 Reported("apex-ip", "dns", "A", {}, Null)>> >>
      [] t = "cvedb" ->
            << <<Reported("cve", "cvedb", "rating", {}, Rating[n])>> >>

MCReports ==
    UNION {UNION {Range(batch) : batch \in Range(Batches(n, t))} : n \in 1..MaxRuns, t \in Task}

MCAnswers == [n \in 1..MaxRuns |-> [t \in Task |-> Batches(n, t)]]
=============================================================================
