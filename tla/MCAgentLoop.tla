--------------------------- MODULE MCAgentLoop ---------------------------
(***************************************************************************)
(* An address that hosts a service, a service with an edge to an entity    *)
(* the graph lacks, and a username; what the model may say of them, right, *)
(* wrong, misplaced, malformed or made up.                                 *)
(***************************************************************************)
EXTENDS AgentLoop

CONSTANTS ip, service, user, gone, hosts, dangling, profileOf,
          ipName, serviceName, userName, open, closed, tagSet, tagList

MCEntity == {ip, service, user}
MCRelationship == {hosts, dangling, profileOf}

MCTypeOf ==
    [e \in MCEntity |-> CASE e = ip -> "IPAddress" [] e = user -> "Username" [] OTHER -> "Other"]

MCNameOf ==
    [e \in MCEntity |-> CASE e = ip -> ipName [] e = user -> userName [] OTHER -> serviceName]

MCFacts == [e \in MCEntity |-> [port |-> IF e = service THEN open ELSE closed, tags |-> tagSet]]

MCJson == [v \in {open, closed, tagSet, tagList} |-> IF v = tagSet THEN tagList ELSE v]

MCEdge ==
    [r \in MCRelationship |->
        CASE r = hosts -> [src |-> ip, dst |-> service, type |-> "HOSTS"]
          [] r = dangling -> [src |-> service, dst |-> gone, type |-> "HOSTS"]
          [] OTHER -> [src |-> user, dst |-> service, type |-> "ASSOCIATED_WITH"]]

MCMatching == [q \in {"ip"} |-> {ip}]

Search(t, q) == [name |-> "search_entities", arguments |-> [entity_type |-> t, query |-> q]]
GetEntity(e) == [name |-> "get_entity", arguments |-> [entity_id |-> e]]
GetNeighbors(e, r, d) ==
    [name |-> "get_neighbors", arguments |-> [entity_id |-> e, rel_type |-> r, direction |-> d]]
Plain(n) == [name |-> n, arguments |-> [any |-> None]]
BadArguments == [name |-> "get_entity", arguments |-> Junk]

Called(id, call) == [id |-> id, name |-> call.name, arguments |-> call.arguments]
Given(k, call) == Called(<<"call", k>>, call)

MCCallLists ==
    { <<>>,
      <<Called(None, Search(None, None))>>,
      <<Given(1, Search("IPAddress", "ip")), Given(2, Search(Junk, None))>>,
      <<Given(1, GetEntity(gone)), Given(2, GetEntity(ip))>>,
      <<Given(1, GetNeighbors(service, None, "both")), Given(2, Plain("no_such_tool")),
        Given(3, GetEntity(hosts))>>,
      <<Called(None, Plain("no_such_tool")), Called(None, GetNeighbors(user, "ASSOCIATED_WITH", "in")),
        Called(None, GetNeighbors(ip, None, Junk))>>,
      <<Given(1, Plain("graph_summary")), Given(2, Plain("list_unenriched_ips"))>>,
      <<Given(1, Plain("no_such_tool")), Given(2, BadArguments)>> }

Check(e, a, v) == [entity |-> e, attribute |-> a, expected |-> v]

MCChecks ==
    { {}, {Junk}, {Check(service, "port", open)}, {Check(ip, "port", open)},
      {Check(ip, "port", closed), Junk}, {Check(ip, "tags", tagList)}, {Check(ip, "owner", None)},
      {Check(gone, "port", open)}, {Check(ip, "port", closed), Check(service, "port", closed)} }

RawFinding(c, e, i, r, k) ==
    [claim |-> c, rationale |-> "because", supporting_entity_ids |-> e, entity_id |-> i,
     supporting_relationship_ids |-> r, checks |-> k]

Findings ==
    {RawFinding("claim", e, i, r, k) :
        e \in {{}, {Junk}, {ip}, {ip, service, Junk}, {service, gone}, {hosts}},
        i \in {None, ip, gone},
        r \in {{}, {hosts}, {hosts, gone}},
        k \in MCChecks}

FewFindings ==
    { Junk,
      RawFinding(Junk, {ip}, None, {}, {}),
      RawFinding("claim", {ip}, None, {}, {Check(ip, "port", open)}),
      RawFinding("claim", {}, service, {hosts}, {}),
      RawFinding("claim", {gone}, None, {}, {}) }

RawAction(w, t, l, m, x, a) ==
    [action |-> "do", rationale |-> None, words |-> w, target |-> t, target_entity_ids |-> l,
     mentioned |-> m, ids_elsewhere |-> x \cup ({t} \cap {ip, gone}), authorization |-> a]

Actions ==
    {RawAction(w, t, l, m, {}, a) :
        w \in {{}, {"active"}, {"lookup"}, {"profile"}},
        t \in {None, ip, gone, serviceName, Junk},
        l \in {{}, {ip}, {ip, gone, Junk}},
        m \in {{}, {service}},
        a \in {"missing", "none", "false", "Authorize the range"}}

FewActions ==
    { Junk,
      [RawAction({}, ip, {}, {}, {}, "missing") EXCEPT !.rationale = Junk],
      RawAction({"profile"}, userName, {}, {}, {}, "missing"),
      RawAction({"lookup"}, gone, {}, {}, {service}, "n/a") }

Pairs(S) == {<<x, y>> : x \in S, y \in S}
Say(findings, actions) == [findings |-> findings, actions |-> actions]

MCTexts ==
    {Junk, Say(<<>>, <<>>)}
    \cup {Say(<<f>>, <<>>) : f \in Findings} \cup {Say(<<>>, <<a>>) : a \in Actions}
    \cup {Say(p, q) : p \in Pairs(FewFindings), q \in Pairs(FewActions)}
    \cup {Say(<<f>> \o p, <<>>) : f \in FewFindings, p \in Pairs(FewFindings)}
=============================================================================
