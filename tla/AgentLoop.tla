----------------------------- MODULE AgentLoop -----------------------------
(***************************************************************************)
(* The triage agent: AgentRunner.run with its provider clients, which      *)
(* parse what the language model answers (src/osint/agent/llm.py), the     *)
(* read-only tools (tools.py) over a GraphView (graph_view.py), and the    *)
(* grounding validator that decides what of the answer reaches the report  *)
(* (validator.py).                                                         *)
(*                                                                         *)
(* The language model is the environment: it may answer anything in        *)
(* CallLists and Texts at any turn.  An id is a value of its own, lists of *)
(* ids are sets, and Junk is any JSON value of the wrong type; a field     *)
(* found under one of its alternative names counts as present.  Between    *)
(* two awaits of complete the runner does not yield, so a turn is a step.  *)
(***************************************************************************)
EXTENDS Naturals, Sequences, SequencesExt, Selection

CONSTANTS
    Entity,            \* ids of the entities in the graph
    Relationship,      \* ids of its relationships
    TypeOf,            \* [Entity -> EntityType]
    Facts,             \* Facts[e]: the attributes and fields of e
    Json,              \* what dumping to JSON makes of a value
    Edge,              \* Edge[r]: its source, destination and type
    Matching,          \* Matching[q]: the entities a search for q matches
    NameOf,            \* NameOf[e]: the value of e
    CallLists,         \* the lists of tool calls the model may ask for
    Texts,             \* the final texts it may give, Junk if not a JSON object
    MaxToolIterations,
    Junk, None

EntityType == {"IPAddress", "Username", "Other"}
Providers == {"anthropic", "openai_compatible"}
ToolName ==
    {"search_entities", "get_entity", "get_neighbors", "list_unenriched_ips", "graph_summary"}

ASSUME AgentAssumption ==
    /\ TypeOf \in [Entity -> EntityType]
    /\ Entity \cap Relationship = {}
    /\ MaxToolIterations \in Nat
    /\ \A raws \in CallLists : IsList(raws)
    /\ None \notin Texts
    /\ \A text \in Texts \ {Junk} : IsList(text.findings) /\ IsList(text.actions)

VARIABLES
    provider,   \* which client create_llm_client has built
    turn,       \* completions that asked for tools so far
    messages,   \* the exchange after the system and the user message
    status,     \* "asking", "done" (returned) or "raised"
    answer,     \* history: the final JSON object of the model, None without one
    result      \* the ValidationResult returned

vars == <<provider, turn, messages, status, answer, result>>

-----------------------------------------------------------------------------
(* GraphView and execute_tool.  A result is what it shows of the graph;    *)
(* the counts of graph_summary name nothing that can be cited.             *)

\* In JSON a set is a list and a date a string.
ShownEntity(e) == [id |-> e, facts |-> [a \in DOMAIN Facts[e] |-> Json[Facts[e][a]]]]
ShownRelationship(r) == [id |-> r, edge |-> Edge[r]]

Get(id) ==
    {ShownEntity(e) : e \in Entity \cap {id}}
        \cup {ShownRelationship(r) : r \in Relationship \cap {id}}

\* An edge whose other end is not in the graph is not shown.
Neighbors(id, type, direction) ==
    LET typed == {r \in Relationship : type = None \/ Edge[r].type = type}
        outward == {r \in typed : direction # "in" /\ Edge[r].src = id /\ Edge[r].dst \in Entity}
        inward == {r \in typed : direction # "out" /\ Edge[r].dst = id /\ Edge[r].src \in Entity}
    IN {ShownRelationship(r) : r \in outward \cup inward}
       \cup {ShownEntity(Edge[r].dst) : r \in outward}
       \cup {ShownEntity(Edge[r].src) : r \in inward}

UnenrichedIps ==
    {e \in Entity : TypeOf[e] = "IPAddress"
        /\ \A r \in Relationship : Edge[r].src = e => Edge[r].type # "HOSTS"}

ToolFailed == [error |-> TRUE, shown |-> {}]
Showing(items) == [error |-> FALSE, shown |-> items]

SearchEntities(type, query) ==
    IF type \notin EntityType \cup {None} \/ query = Junk
    THEN ToolFailed
    ELSE Showing({ShownEntity(e) : e \in {f \in Entity :
            /\ type # None => TypeOf[f] = type
            /\ query # None => f \in Matching[query]}})

\* Whatever is wrong with the arguments, a ValueError or another exception, the
\* runner makes an error result of it.
ExecuteTool(call) ==
    LET args == call.arguments
    IN CASE call.name = "search_entities" -> SearchEntities(args.entity_type, args.query)
         [] call.name = "get_entity" ->
              IF Get(args.entity_id) = {} THEN ToolFailed ELSE Showing(Get(args.entity_id))
         [] call.name = "get_neighbors" ->
              IF Get(args.entity_id) = {} \/ args.rel_type = Junk \/ args.direction = Junk
              THEN ToolFailed
              ELSE Showing(Neighbors(args.entity_id, args.rel_type, args.direction))
         [] call.name = "list_unenriched_ips" ->
              Showing({ShownEntity(e) : e \in UnenrichedIps})
         [] OTHER -> Showing({})

\* Fault: a call that failed gets no result.
ToolResultsOfSuccess(calls) ==
    LET results == [k \in DOMAIN calls |-> [id |-> calls[k].id, result |-> ExecuteTool(calls[k])]]
    IN Selected(results, {k \in DOMAIN calls : ~results[k].result.error})

ToolResults(calls) ==
    [k \in DOMAIN calls |-> [id |-> calls[k].id, result |-> ExecuteTool(calls[k])]]

-----------------------------------------------------------------------------
(* Reading the answer: which tool calls are kept, and under which id.      *)

KeptCalls(raws) ==
    LET kept == Selected(raws,
            {k \in DOMAIN raws : raws[k].name \in ToolName /\ raws[k].arguments # Junk})
    IN [k \in DOMAIN kept |->
            [kept[k] EXCEPT !.id = IF @ = None THEN <<"tool", k - 1>> ELSE @]]

(* The coercion of the final JSON: what is beyond repair is skipped, the   *)
(* rest is brought into the shape of the schema.  nr is the place of a     *)
(* finding or an action in the answer.                                     *)

Strings(list) == list \ {Junk}
Numbered(raws) == [i \in DOMAIN raws |-> [nr |-> i, raw |-> raws[i]]]

\* Fault: the alternative entity_id is overlooked.
SupportingIdsListed(raw) == Strings(raw.supporting_entity_ids)

SupportingIds(raw) ==
    IF Strings(raw.supporting_entity_ids) # {}
    THEN Strings(raw.supporting_entity_ids)
    ELSE {raw.entity_id} \ {None, Junk}

Checks(raw) == raw.checks \ {Junk}

ParsableFinding(raw) == raw # Junk /\ raw.claim # Junk /\ raw.rationale # Junk

CoerceFinding(item) ==
    [nr |-> item.nr,
     entities |-> SupportingIds(item.raw),
     relationships |-> Strings(item.raw.supporting_relationship_ids),
     checks |-> Checks(item.raw)]

\* A target that is missing is made up from the ids mentioned in the text of the
\* action; ids elsewhere are those in the texts of the target and the rationale.
Target(raw) ==
    IF raw.target = None /\ raw.mentioned # {} THEN <<"ids", raw.mentioned>> ELSE raw.target

TargetEntityIds(raw) ==
    Strings(raw.target_entity_ids) \cup raw.mentioned \cup raw.ids_elsewhere

\* None and the strings that mean it become None; any other value becomes a string,
\* false too.
AuthorizationValue(raw) ==
    CASE raw.authorization \in {"none", "n/a"} -> "missing"
      [] raw.authorization = "false" -> "False"
      [] OTHER -> raw.authorization

RequiresAuthorization(words) == "active" \in words

ParsableAction(raw) ==
    /\ raw # Junk
    /\ raw.action # Junk /\ raw.rationale # Junk
    /\ Target(raw) \notin {None, Junk}

CoerceAction(item) ==
    LET stated == AuthorizationValue(item.raw)
    IN [nr |-> item.nr,
        words |-> item.raw.words,
        target |-> Target(item.raw),
        targets |-> TargetEntityIds(item.raw),
        authorization |-> IF stated = "missing" /\ RequiresAuthorization(item.raw.words)
                          THEN "inferred" ELSE stated]

ParsedFindings(raws) ==
    LET usable == Selected(Numbered(raws), {i \in DOMAIN raws : ParsableFinding(raws[i])})
    IN [k \in DOMAIN usable |-> CoerceFinding(usable[k])]

ParsedActions(raws) ==
    LET usable == Selected(Numbered(raws), {i \in DOMAIN raws : ParsableAction(raws[i])})
    IN [k \in DOMAIN usable |-> CoerceAction(usable[k])]

-----------------------------------------------------------------------------
(* The validator. *)

Fact(e, attribute) ==
    IF attribute \in DOMAIN Facts[e] THEN Facts[e][attribute] ELSE None

CheckReasons(f, c) ==
    CASE c.entity \notin Entity -> {"check references missing entity"}
      [] c.entity \in Entity \ f.entities -> {"check entity is not cited"}
      [] OTHER -> IF Fact(c.entity, c.attribute) # c.expected THEN {"check mismatch"} ELSE {}

\* Fault: a relationship id is looked up nowhere.
RejectionReasonsOfEntities(f) ==
    (IF f.entities = {} /\ f.relationships = {} THEN {"no supporting graph IDs"} ELSE {})
    \cup {"missing supporting entity" : e \in f.entities \ Entity}
    \cup UNION {CheckReasons(f, c) : c \in f.checks}

RejectionReasons(f) ==
    (IF f.entities = {} /\ f.relationships = {} THEN {"no supporting graph IDs"} ELSE {})
    \cup {"missing supporting entity" : e \in f.entities \ Entity}
    \cup {"missing supporting relationship" : r \in f.relationships \ Relationship}
    \cup UNION {CheckReasons(f, c) : c \in f.checks}

ViolatesUsernamePolicy(a) ==
    "profile" \in a.words /\ \E e \in Entity : TypeOf[e] = "Username"

\* Fault: one real target hides the others.
WarnedIfAllMissing(a) ==
    IF a.targets # {} THEN a.targets \cap Entity = {}
    ELSE a.target \notin Entity /\ \A e \in Entity : NameOf[e] # a.target

Warned(a) ==
    IF a.targets # {} THEN ~(a.targets \subseteq Entity)
    ELSE a.target \notin Entity /\ \A e \in Entity : NameOf[e] # a.target

\* Fault: the word "lookup" is not among the keywords.
NeedsAuthorizationActive(words) == RequiresAuthorization(words)

\* The keywords of the coercion, and "lookup".
NeedsAuthorization(words) == RequiresAuthorization(words) \/ "lookup" \in words

ValidatedAction(a) ==
    [nr |-> a.nr,
     action |-> [a EXCEPT !.authorization =
                    IF @ = "missing" /\ NeedsAuthorization(a.words) THEN "inferred" ELSE @],
     warned |-> Warned(a)]

\* Fault: a finding whose only flaw is a failed check is left out of the appendix.
RejectedUncited(findings) ==
    Selected(findings,
        {k \in DOMAIN findings : RejectionReasons(findings[k]) \notin {{}, {"check mismatch"}}})

Rejected(findings) ==
    Selected(findings, {k \in DOMAIN findings : RejectionReasons(findings[k]) # {}})

ValidateAgentOutput(findings, actions) ==
    LET allowed == Selected(actions,
            {k \in DOMAIN actions : ~ViolatesUsernamePolicy(actions[k])})
    IN [findings |-> Selected(findings,
            {k \in DOMAIN findings : RejectionReasons(findings[k]) = {}}),
        rejected |-> Rejected(findings),
        actions |-> [k \in DOMAIN allowed |-> ValidatedAction(allowed[k])]]

-----------------------------------------------------------------------------
(* AgentRunner.run. *)

NoResult == ValidateAgentOutput(<<>>, <<>>)

Init ==
    /\ provider \in Providers
    /\ turn = 0
    /\ messages = <<>>
    /\ status = "asking"
    /\ answer = None
    /\ result = NoResult

\* Fault: one completion too many.
OutOfTurnsLate == turn > MaxToolIterations

\* The completion under way is the last of the max_tool_iterations + 1.
OutOfTurns == turn = MaxToolIterations

\* The Anthropic API gives every call an id.
Possible(raws) == provider = "anthropic" => \A k \in DOMAIN raws : raws[k].id # None

\* When the last completion asks for tools, they are run, and run returns empty-handed.
UseTools(raws) ==
    LET calls == KeptCalls(raws)
    IN /\ status = "asking"
       /\ Possible(raws)
       /\ calls # <<>>
       /\ messages' = messages \o <<[role |-> "assistant", calls |-> calls],
                                    [role |-> "tool", results |-> ToolResults(calls)]>>
       /\ turn' = turn + 1
       /\ status' = IF OutOfTurns THEN "done" ELSE "asking"
       /\ UNCHANGED <<provider, answer, result>>

\* The text counts only when no call is kept, be it that all were skipped; one that
\* cannot be read ends the loop as an answer without content does.
Conclude(raws) ==
    /\ status = "asking"
    /\ Possible(raws)
    /\ KeptCalls(raws) = <<>>
    /\ status' = "done"
    /\ \E text \in Texts :
        IF text = Junk
        THEN UNCHANGED <<answer, result>>
        ELSE /\ answer' = text
             /\ result' = ValidateAgentOutput(ParsedFindings(text.findings),
                                             ParsedActions(text.actions))
    /\ UNCHANGED <<provider, turn, messages>>

\* An exception of the request is an LLMResponse without content.
RequestFails ==
    /\ status = "asking"
    /\ status' = "done"
    /\ UNCHANGED <<provider, turn, messages, answer, result>>

\* What is outside the try of the OpenAI client raises: a body that is JSON but not
\* an object, a function name that cannot be hashed.
Escape ==
    /\ status = "asking"
    /\ provider = "openai_compatible"
    /\ status' = "raised"
    /\ UNCHANGED <<provider, turn, messages, answer, result>>

Ended == status \in {"done", "raised"} /\ UNCHANGED vars

Next ==
    \/ \E raws \in CallLists : UseTools(raws) \/ Conclude(raws)
    \/ RequestFails
    \/ Escape
    \/ Ended

Spec == Init /\ [][Next]_vars
-----------------------------------------------------------------------------
(* Properties. *)

TypeOK ==
    /\ provider \in Providers
    /\ turn \in 0..(MaxToolIterations + 1)
    /\ Len(messages) = 2 * turn
    /\ status \in {"asking", "done", "raised"}
    /\ status = "asking" => turn <= MaxToolIterations
    /\ answer # None => status = "done"
    /\ DOMAIN result = {"findings", "rejected", "actions"}

\* A finding of the report cites something, cites nothing that is not in the graph,
\* and no check the model wrote out contradicts the graph, whatever shape the answer
\* had (DESIGN.md:244; llm.py:466-504, validator.py:51-86).
ReportIsGrounded ==
    \A k \in DOMAIN result.findings :
        LET raw == answer.findings[result.findings[k].nr]
        IN /\ raw.supporting_entity_ids \subseteq Entity \cup {Junk}
           /\ raw.supporting_relationship_ids \subseteq Relationship \cup {Junk}
           /\ \/ raw.entity_id \in Entity
              \/ (raw.supporting_entity_ids \cup raw.supporting_relationship_ids) \ {Junk} # {}
           /\ \A c \in raw.checks \ {Junk} :
                c.entity \in Entity /\ Fact(c.entity, c.attribute) = c.expected

Increasing(seq) == \A j, k \in DOMAIN seq : j < k => seq[j].nr < seq[k].nr

Numbers(seq) == {seq[k].nr : k \in DOMAIN seq}

\* Nothing the model says is lost on the way: each finding of its answer is, once and
\* in order, in the body of the report or in its appendix, unless its claim or rationale
\* could not be read; each readable action is recommended unless it breaks the username
\* policy (DESIGN.md:246; llm.py:425-463, validator.py:28-48).
AnswerAccountedFor ==
    answer # None =>
        LET readable == {i \in DOMAIN answer.findings : ParsableFinding(answer.findings[i])}
        IN /\ Numbers(result.findings) \cup Numbers(result.rejected) = readable
           /\ Numbers(result.findings) \cap Numbers(result.rejected) = {}
           /\ Increasing(result.findings) /\ Increasing(result.rejected)
           /\ Increasing(result.actions)
           /\ \A i \in DOMAIN answer.actions :
                LET raw == answer.actions[i]
                IN i \in Numbers(result.actions)
                   <=> ParsableAction(raw) /\ ~ViolatesUsernamePolicy(raw)

\* Everything the tools have shown in the exchange.
Shown ==
    UNION {UNION {messages[i].results[k].result.shown : k \in DOMAIN messages[i].results} :
             i \in {j \in DOMAIN messages : messages[j].role = "tool"}}

ShownIds == {s.id : s \in Shown}

\* The entities a finding cites under either of the two names.
CitedEntities(raw) ==
    IF Strings(raw.supporting_entity_ids) # {} THEN Strings(raw.supporting_entity_ids)
    ELSE {raw.entity_id} \ {None, Junk}

\* Every id, and every attribute checked, was seen through the tools.
Honest(raw) ==
    /\ ParsableFinding(raw)
    /\ CitedEntities(raw) \cup Strings(raw.supporting_relationship_ids) # {}
    /\ CitedEntities(raw) \subseteq ShownIds \cap Entity
    /\ Strings(raw.supporting_relationship_ids) \subseteq ShownIds \cap Relationship
    /\ \A c \in Checks(raw) :
        /\ c.entity \in CitedEntities(raw)
        /\ \E s \in Shown :
            /\ s.id = c.entity
            /\ c.attribute \in DOMAIN s.facts
            /\ s.facts[c.attribute] = c.expected
        /\ Json[Facts[c.entity][c.attribute]] = Facts[c.entity][c.attribute]

\* A finding that cites only what the tools have shown, and checks only what they have
\* shown of it, is never rejected: tools, parser and validator agree on the graph.  Not
\* so for the fields JSON shows in another form, such as tags or first_seen: a check
\* that repeats what was shown of one is a mismatch (llm.py:115-140, tools.py:57-124,
\* validator.py:51-86).
HonestFindingsKept ==
    answer # None =>
        \A i \in DOMAIN answer.findings :
            Honest(answer.findings[i]) => i \in Numbers(result.findings)

\* The messages as the two APIs get them: the OpenAI one has a message per result.
OpenAiMessages ==
    FlattenSeq([i \in DOMAIN messages |->
        IF messages[i].role = "tool"
        THEN [k \in DOMAIN messages[i].results |->
                [role |-> "tool", ids |-> <<messages[i].results[k].id>>]]
        ELSE <<[role |-> "assistant",
                ids |-> [k \in DOMAIN messages[i].calls |-> messages[i].calls[k].id]]>>])

AnthropicMessages ==
    [i \in DOMAIN messages |->
        IF messages[i].role = "tool"
        THEN [role |-> "user",
              ids |-> [k \in DOMAIN messages[i].results |-> messages[i].results[k].id]]
        ELSE [role |-> "assistant",
              ids |-> [k \in DOMAIN messages[i].calls |-> messages[i].calls[k].id]]]

\* Both APIs refuse a conversation in which a tool call is not answered before the next
\* turn of the assistant: calls that were skipped, failed or raised leave no gap, and
\* the results come in the order of the calls (llm.py:121-138,288-362).
EveryCallAnswered ==
    IF provider = "anthropic"
    THEN \A i \in DOMAIN AnthropicMessages :
            AnthropicMessages[i].role = "assistant" =>
                /\ i + 1 \in DOMAIN AnthropicMessages
                /\ AnthropicMessages[i + 1] = [AnthropicMessages[i] EXCEPT !.role = "user"]
    ELSE \A i \in DOMAIN OpenAiMessages :
            LET m == OpenAiMessages[i]
            IN m.role = "assistant" =>
                /\ \A k \in DOMAIN m.ids :
                    /\ i + k \in DOMAIN OpenAiMessages
                    /\ OpenAiMessages[i + k] = [role |-> "tool", ids |-> <<m.ids[k]>>]
                /\ i + Len(m.ids) + 1 \in DOMAIN OpenAiMessages =>
                        OpenAiMessages[i + Len(m.ids) + 1].role = "assistant"

\* The requirement of an action is the one the model stated, in its own words; active
\* work for which it left the requirement open has the inferred one, be it that the
\* coercion infers it or the validator, which look for different words; and none is
\* inferred for other work (llm.py:532-537, 638-646, validator.py:100-102).  One answer is
\* left out: where the model says false, DESIGN.md:244 "active work must surface its
\* authorization requirement" does not hold, since false becomes the text "False", which
\* passes for a requirement.
RequirementStatedOrInferred ==
    \A k \in DOMAIN result.actions :
        LET raw == answer.actions[result.actions[k].nr]
            unstated == raw.authorization \in {"missing", "none", "n/a"}
            active == raw.words \cap {"active", "lookup"} # {}
            requirement == result.actions[k].action.authorization
        IN raw.authorization # "false" =>
            /\ ~unstated => requirement = raw.authorization
            /\ unstated /\ active => requirement = "inferred"
            /\ unstated /\ ~active => requirement = "missing"

\* A recommendation without a warning is about entities of the graph: every id the
\* answer names for it, in a list, in its target or in its text, is one, or its target
\* is (DESIGN.md:244; llm.py:522-527, validator.py:89-98).
UnwarnedActionsAreReal ==
    \A k \in DOMAIN result.actions :
        LET raw == answer.actions[result.actions[k].nr]
        IN ~result.actions[k].warned =>
            /\ Strings(raw.target_entity_ids) \cup raw.mentioned \cup raw.ids_elsewhere \subseteq Entity
            /\ \/ Strings(raw.target_entity_ids) \cup raw.mentioned \cup raw.ids_elsewhere # {}
               \/ raw.target \in {NameOf[e] : e \in Entity} \cup Entity
=============================================================================
