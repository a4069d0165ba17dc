---------------------------- MODULE PivotEngine ----------------------------
(***************************************************************************)
(* The frontier loop of Engine.run (src/osint/orchestrator/engine.py) with *)
(* its permission gate, its pivot policy and the collection tasks that     *)
(* asyncio.gather runs concurrently for one seed.                          *)
(*                                                                         *)
(* An entity stands for its id.  What a connector may report about a seed  *)
(* is the constant World; which part of it an answer carries is a choice   *)
(* of the environment, the empty answer being a source that failed and     *)
(* whose connector gave up quietly.  Timestamps are left out, so the audit *)
(* log is the set of its entries.                                          *)
(***************************************************************************)
EXTENDS Naturals, Sequences, FiniteSets

CONSTANTS
    Entity,      \* ids of the entities that exist in the world
    TypeOf,      \* [Entity -> EntityType]
    Under,       \* Under[s]: the names that are s or a dotted child of s
    Target,      \* in_scope_targets of the run's Authorization
    Network,     \* those that parse as a network, or as an address; the others are names
    Spans,       \* Spans[t]: the addresses in a network, the names at or under a name
    Rank,        \* the order of the ids as strings
    Connector,   \* the registered connectors
    Accepts,     \* [Connector -> SUBSET EntityType]
    Class,       \* enrichment_class of each connector
    Mode,        \* mode of each connector
    Position,    \* place of each connector in the registry
    Dns,         \* the connectors named "dns"
    Http,        \* the connectors that ask through ctx.http
    Paged,       \* the connectors that yield findings between awaits
    Raising,     \* the connectors whose task may end in an uncaught error
    World,       \* World[c][s]: the entities c may report about s
    Seeds,       \* the entities a run may be started from
    MaxDepth, MaxSeeds, MaxCalls

EntityType == {"Domain", "IPAddress", "Vulnerability", "Username", "Other"}

ASSUME WorldAssumption ==
    /\ IsFiniteSet(Entity)
    /\ TypeOf \in [Entity -> EntityType]
    /\ Rank \in [Entity -> Nat]
    /\ \A e, f \in Entity : Rank[e] = Rank[f] => e = f
    /\ Seeds \subseteq Entity
    /\ Network \subseteq Target
    /\ Spans \in [Target -> SUBSET Entity]

\* "x endswith .s, or x is s" is reflexive and transitive on domain names; what is
\* not a name has nothing under it.
ASSUME UnderAssumption ==
    /\ Under \in [Entity -> SUBSET Entity]
    /\ \A e \in Entity : e \in Under[e]
    /\ \A e, f, g \in Entity : f \in Under[e] /\ g \in Under[f] => g \in Under[e]
    /\ \A e \in Entity : TypeOf[e] # "Domain" => Under[e] = {e}

ASSUME ConnectorAssumption ==
    /\ IsFiniteSet(Connector)
    /\ Accepts \in [Connector -> SUBSET EntityType]
    /\ Class \in [Connector -> {"IDENTIFICATION", "EXPOSURE"}]
    /\ Mode \in [Connector -> {"PASSIVE", "ACTIVE"}]
    /\ Position \in [Connector -> Nat]
    /\ \A c, d \in Connector : Position[c] = Position[d] => c = d
    /\ Dns \subseteq Connector
    /\ Http \subseteq Connector
    /\ Paged \subseteq Connector
    /\ Raising \subseteq Connector
    /\ World \in [Connector -> [Entity -> SUBSET Entity]]

\* What the connectors declare in accepts and produces: an address is reported about a
\* name, or about itself, and a vulnerability about an address or another vulnerability.
ProducedInLayers ==
    \A s, e \in Entity : \A c \in {k \in Connector : TypeOf[s] \in Accepts[k]} :
        e \in World[c][s] =>
            /\ TypeOf[e] = "IPAddress" => TypeOf[s] = "Domain" \/ e = s
            /\ TypeOf[e] = "Vulnerability" => TypeOf[s] \in {"IPAddress", "Vulnerability"}

ASSUME BudgetAssumption == MaxDepth \in Nat /\ MaxSeeds \in Nat /\ MaxCalls \in Nat

VARIABLES
    status,          \* "loop", "gather", "done" (returned) or "raised"
    root,            \* the seed the run was started from
    frontier,        \* the deque of seeds still to process, with their depths
    visited,         \* the ids taken from the frontier and processed
    seedsProcessed,  \* len of that, as the code counts it
    connectorCalls,  \* connectors awaited so far
    current,         \* current_seed and its depth
    task,            \* the collection task of each connector
    found,           \* what each task of this gather has discovered
    store,           \* the entities upserted into the store
    audit,           \* the entries of audit_log
    asked,           \* history: the questions connectors put to their sources
    dispatched,      \* history: the (connector, seed) pairs ever dispatched
    reached,         \* history: the items taken from the frontier and processed
    answers          \* history: every report, as the item asked about and the entity

vars == <<status, root, frontier, visited, seedsProcessed, connectorCalls, current,
          task, found, store, audit, asked, dispatched, reached, answers>>

budget == <<seedsProcessed, connectorCalls>>
history == <<asked, dispatched, reached, answers>>

Item(e, d) == [id |-> e, depth |-> d]
Live == {"ready", "waiting"}

-----------------------------------------------------------------------------
(* The audit log. *)

Query(c, e) == [event |-> "query", connector |-> c, seed |-> e]
Refusal(kind, c, e) == [event |-> kind, connector |-> c, seed |-> e]
BudgetStop(reason) == [event |-> "budget_stop", reason |-> reason]

-----------------------------------------------------------------------------
(* The authorization.  A network covers no name and a name no address.  *)

TargetCoversSeed(t, e) ==
    \/ TypeOf[e] = "Domain" /\ t \notin Network /\ e \in Spans[t]
    \/ TypeOf[e] = "IPAddress" /\ t \in Network /\ e \in Spans[t]

Covered == {e \in Entity : \E t \in Target : TargetCoversSeed(t, e)}

-----------------------------------------------------------------------------
(* The gate: _permitted_connectors. *)

Eligible(e) == {c \in Connector : TypeOf[e] \in Accepts[c]}

SkipsDns(c) == MaxDepth = 0 /\ c \in Dns

ExposureRefused(c, e) ==
    /\ TypeOf[e] \in {"IPAddress", "Vulnerability"}
    /\ Class[c] # "IDENTIFICATION"
    /\ e \notin Covered

ActiveRefused(c, e) ==
    /\ ~ExposureRefused(c, e)
    /\ Mode[c] = "ACTIVE"
    /\ e \notin Covered

Permitted(e) ==
    {c \in Eligible(e) : ~SkipsDns(c) /\ ~ExposureRefused(c, e) /\ ~ActiveRefused(c, e)}

\* Fault: only one of the two refusals is recorded.
RefusalsHalfLogged(e) ==
    {Refusal("exposure_connector_refused", c, e) :
        c \in {k \in Eligible(e) : ~SkipsDns(k) /\ ExposureRefused(k, e)}}

Refusals(e) ==
    LET considered == {c \in Eligible(e) : ~SkipsDns(c)}
    IN {Refusal("exposure_connector_refused", c, e) :
            c \in {k \in considered : ExposureRefused(k, e)}}
       \cup {Refusal("active_connector_refused", c, e) :
            c \in {k \in considered : ActiveRefused(k, e)}}

-----------------------------------------------------------------------------
(* The pivot policy: is_pivot_eligible and _can_enqueue_entity, for an     *)
(* entity reported about seed s.                                           *)

\* The under_seed attribute build_domain_entity gives a Domain: relative to the seed
\* the connector asked about, which need not be the root of the run.
UnderSeed(e, s) == e \in Under[s]

HasIdentification(e) == \E c \in Eligible(e) : Class[c] = "IDENTIFICATION"

\* Fault: names are pivoted on whatever their under_seed attribute.
PivotEligibleAnyName(e, s) ==
    TypeOf[e] = "Domain" \/ (TypeOf[e] \in {"IPAddress", "Vulnerability"} /\ HasIdentification(e))

PivotEligible(e, s) ==
    CASE TypeOf[e] = "Domain" -> UnderSeed(e, s)
      [] TypeOf[e] = "IPAddress" -> e \in Covered \/ HasIdentification(e)
      [] TypeOf[e] = "Vulnerability" -> HasIdentification(e)
      [] OTHER -> FALSE

CanEnqueue(e, s) ==
    /\ TypeOf[e] \notin {"IPAddress", "Vulnerability"} => Eligible(e) # {}
    /\ PivotEligible(e, s)

-----------------------------------------------------------------------------
(* sorted(discovered, key=id).  A discovery is a pair <<connector, id>>:   *)
(* the sort is stable, so equal ids keep the order of the gathered results.*)

Before(p, q) ==
    \/ Rank[p[2]] < Rank[q[2]]
    \/ p[2] = q[2] /\ Position[p[1]] < Position[q[1]]

Sorted(S) ==
    [i \in 1..Cardinality(S) |->
        CHOOSE p \in S : Cardinality({q \in S : Before(q, p)}) = i - 1]

Ascending(S, d) == [i \in 1..Cardinality(S) |-> Item(Sorted(S)[i][2], d)]

Descending(S, d) ==
    [i \in 1..Cardinality(S) |-> Item(Sorted(S)[Cardinality(S) + 1 - i][2], d)]

\* What the discoveries become on the deque: IP addresses are pushed on its left
\* one after the other, the rest appended on its right.  What one connector reports
\* several times is taken once; the code may queue it twice, and skips what is visited.
Discovered == {p \in Connector \X Entity : p[2] \in found[p[1]]}

\* Fault: only the results of the last task that found anything are kept.
EnqueueableLastResult ==
    {p \in Discovered :
        /\ p[2] \notin visited
        /\ CanEnqueue(p[2], current.id)
        /\ \A d \in Connector : found[d] # {} => Position[d] <= Position[p[1]]}

Enqueueable ==
    {p \in Discovered : p[2] \notin visited /\ CanEnqueue(p[2], current.id)}
ToTheLeft == {p \in Enqueueable : TypeOf[p[2]] = "IPAddress"}

\* Fault: everything goes to the left of the deque.
ExtendedDepthFirst ==
    IF current.depth < MaxDepth
    THEN Descending(Enqueueable, current.depth + 1) \o frontier
    ELSE frontier

\* Fault: the depth limit is off by one.
ExtendedTooDeep ==
    IF current.depth <= MaxDepth
    THEN Descending(ToTheLeft, current.depth + 1)
         \o frontier
         \o Ascending(Enqueueable \ ToTheLeft, current.depth + 1)
    ELSE frontier

Extended ==
    IF current.depth < MaxDepth
    THEN Descending(ToTheLeft, current.depth + 1)
         \o frontier
         \o Ascending(Enqueueable \ ToTheLeft, current.depth + 1)
    ELSE frontier

-----------------------------------------------------------------------------
(* The loop. *)

Init ==
    /\ root \in Seeds
    /\ status = "loop"
    /\ frontier = <<Item(root, 0)>>
    /\ visited = {}
    /\ seedsProcessed = 0
    /\ connectorCalls = 0
    /\ current = Item(root, 0)
    /\ task = [c \in Connector |-> "idle"]
    /\ found = [c \in Connector |-> {}]
    /\ store = {}
    /\ audit = {}
    /\ asked = {}
    /\ dispatched = {}
    /\ reached = {}
    /\ answers = {}

\* Fault: the exhausted seed budget is reported one seed late.
ReturnSilently(rest, processed, log) ==
    /\ status' = "done"
    /\ audit' = log \cup (IF rest # <<>> /\ processed > MaxSeeds
                          THEN {BudgetStop("max_seeds")} ELSE {})

\* The lines after the loop: a non-empty frontier with the seed budget spent is
\* reported, then run returns.
Return(rest, processed, log) ==
    /\ status' = "done"
    /\ audit' = log \cup (IF rest # <<>> /\ processed >= MaxSeeds
                          THEN {BudgetStop("max_seeds")} ELSE {})

LoopCondition == status = "loop" /\ frontier # <<>> /\ seedsProcessed < MaxSeeds

LeaveLoop ==
    /\ status = "loop"
    /\ ~LoopCondition
    /\ Return(frontier, seedsProcessed, audit)
    /\ UNCHANGED <<root, frontier, visited, budget, current, task, found, store, history>>

AlreadyVisited(e) == e \in visited

\* Fault: the head of the deque is looked at and not popped.
SkipVisitedUnpopped ==
    /\ LoopCondition
    /\ AlreadyVisited(Head(frontier).id)
    /\ UNCHANGED vars

SkipVisited ==
    /\ LoopCondition
    /\ AlreadyVisited(Head(frontier).id)
    /\ frontier' = Tail(frontier)
    /\ UNCHANGED <<status, root, visited, budget, current, task, found, store, audit, history>>

\* Fault: the calls about to be made are not counted.
OverCallBudgetLate(n) == connectorCalls > MaxCalls

OverCallBudget(n) == connectorCalls + n > MaxCalls

\* visited.add and seeds_processed += 1, then the gate and its refusals.
Take(e) ==
    /\ ~AlreadyVisited(e)
    /\ frontier' = Tail(frontier)
    /\ visited' = visited \cup {e}
    /\ seedsProcessed' = seedsProcessed + 1
    /\ current' = Head(frontier)
    /\ reached' = reached \cup {Head(frontier)}

Dispatch ==
    LET s == Head(frontier).id
    IN /\ LoopCondition
       /\ ~OverCallBudget(Cardinality(Permitted(s)))
       /\ Take(s)
       /\ audit' = audit \cup Refusals(s)
       /\ task' = [c \in Connector |-> IF c \in Permitted(s) THEN "ready" ELSE "idle"]
       /\ status' = "gather"
       /\ dispatched' = dispatched \cup {<<c, s>> : c \in Permitted(s)}
       /\ UNCHANGED <<root, connectorCalls, found, store, asked, answers>>

\* The seed is marked visited and counted, but its connectors are not run.
StopOnCalls ==
    LET s == Head(frontier).id
    IN /\ LoopCondition
       /\ OverCallBudget(Cardinality(Permitted(s)))
       /\ Take(s)
       /\ Return(frontier', seedsProcessed',
                 audit \cup Refusals(s) \cup {BudgetStop("max_calls")})
       /\ UNCHANGED <<root, connectorCalls, task, found, store, asked, dispatched, answers>>

Gathered ==
    /\ status = "gather"
    /\ \A c \in Connector : task[c] \in {"idle", "done"}
    /\ connectorCalls' = connectorCalls + Cardinality({c \in Connector : task[c] = "done"})
    /\ frontier' = Extended
    /\ task' = [c \in Connector |-> "idle"]
    /\ found' = [c \in Connector |-> {}]
    /\ status' = "loop"
    /\ UNCHANGED <<root, visited, seedsProcessed, current, store, audit, history>>

-----------------------------------------------------------------------------
(* _collect_into_store, one task per permitted connector.  The tasks still *)
(* live when another one has raised are not cancelled by gather: they run  *)
(* on until the event loop is closed.                                      *)

Ask(c) ==
    /\ task[c] = "ready"
    /\ task' = [task EXCEPT ![c] = "waiting"]
    /\ asked' = asked \cup {<<c, current.id>>}
    /\ audit' = IF c \in Http THEN audit \cup {Query(c, current.id)} ELSE audit
    /\ UNCHANGED <<status, root, frontier, visited, budget, current, found, store,
                   dispatched, reached, answers>>

\* The entities of the answer's findings: upserted, then appended to discovered.
Record(c, batch) ==
    /\ store' = store \cup batch
    /\ found' = [found EXCEPT ![c] = @ \cup batch]
    /\ answers' = answers \cup {<<current, e>> : e \in batch}

\* An answer followed by a further question.
Page(c, batch) ==
    /\ task[c] = "waiting"
    /\ c \in Paged
    /\ batch # {}
    /\ Record(c, batch)
    /\ UNCHANGED <<status, root, frontier, visited, budget, current, task, audit, asked, dispatched, reached>>

Answer(c, batch) ==
    /\ task[c] = "waiting"
    /\ Record(c, batch)
    /\ task' = [task EXCEPT ![c] = "done"]
    /\ UNCHANGED <<status, root, frontier, visited, budget, current, audit, asked, dispatched, reached>>

\* An exception the connector does not catch: the part of the answer upserted so
\* far stays in the store, gather re-raises it and run is left.
Raise(c, batch) ==
    /\ task[c] = "waiting"
    /\ c \in Raising
    /\ Record(c, batch)
    /\ task' = [task EXCEPT ![c] = "failed"]
    /\ status' = "raised"
    /\ UNCHANGED <<root, frontier, visited, budget, current, audit, asked, dispatched, reached>>

\* asyncio.run, closing the loop after the error, cancels the tasks still live.
Cancel(c) ==
    /\ status = "raised"
    /\ task[c] \in Live
    /\ task' = [task EXCEPT ![c] = "cancelled"]
    /\ UNCHANGED <<status, root, frontier, visited, budget, current, found, store,
                   audit, history>>

TaskStep(c) ==
    \/ Ask(c)
    \/ \E batch \in SUBSET World[c][current.id] :
            Page(c, batch) \/ Answer(c, batch) \/ Raise(c, batch)
    \/ Cancel(c)

LoopStep == LeaveLoop \/ SkipVisited \/ Dispatch \/ StopOnCalls \/ Gathered

\* run has returned or raised, and no task of it is left.
Ended ==
    /\ status \in {"done", "raised"}
    /\ \A c \in Connector : task[c] \notin Live
    /\ UNCHANGED vars

Next == LoopStep \/ (\E c \in Connector : TaskStep(c)) \/ Ended

Spec == Init /\ [][Next]_vars

\* The event loop runs a task that can run, and every awaited request ends: it has
\* a timeout, and the number of pages and sites a connector asks for is finite.
Fairness ==
    /\ WF_vars(LoopStep)
    /\ \A c \in Connector :
        /\ WF_vars(Ask(c))
        /\ WF_vars(\E batch \in SUBSET World[c][current.id] : Answer(c, batch))

FairSpec == Spec /\ Fairness
-----------------------------------------------------------------------------
(* Properties. *)

TypeOK ==
    /\ status \in {"loop", "gather", "done", "raised"}
    /\ root \in Seeds
    /\ frontier \in Seq([id : Entity, depth : 0..MaxDepth])
    /\ visited \subseteq Entity
    /\ seedsProcessed \in Nat
    /\ connectorCalls \in Nat
    /\ current \in [id : Entity, depth : 0..MaxDepth]
    /\ task \in [Connector -> {"idle", "ready", "waiting", "done", "failed", "cancelled"}]
    /\ found \in [Connector -> SUBSET Entity]
    /\ store \subseteq Entity
    /\ asked \subseteq Connector \X Entity
    /\ dispatched \subseteq Connector \X Entity
    /\ reached \subseteq [id : Entity, depth : 0..MaxDepth]
    /\ answers \subseteq [id : Entity, depth : 0..MaxDepth] \X Entity

\* The leads a report gives: eligible, and reported above the depth limit.
Offers ==
    {Item(root, 0)} \cup
    {Item(a[2], a[1].depth + 1) :
        a \in {b \in answers : b[1].depth < MaxDepth /\ CanEnqueue(b[2], b[1].id)}}

\* Whatever chain of discoveries leads to it, a question is asked only about a name
\* at or under the root of the run, although under_seed is computed against the seed
\* of the hop; an exposure source only about a covered address, an active connector
\* only about a covered target (engine.py:147-216, pivot.py:7-19).
QuestionsInScope ==
    \A q \in asked :
        LET c == q[1]
            e == q[2]
        IN /\ TypeOf[e] = "Domain" => e \in Under[root]
           /\ TypeOf[e] \in {"IPAddress", "Vulnerability"} /\ Class[c] = "EXPOSURE" => e \in Covered
           /\ Mode[c] = "ACTIVE" => e \in Covered

\* The call budget is about connectors dispatched, those in flight included: no
\* (connector, seed) pair is dispatched twice or left uncounted, and the total never
\* exceeds max_calls, nor the seeds max_seeds (engine.py:81-116).
BudgetsRespected ==
    /\ status \in {"loop", "done"} => connectorCalls = Cardinality(dispatched)
    /\ status = "gather" =>
          connectorCalls + Cardinality({c \in Connector : task[c] # "idle"})
            = Cardinality(dispatched)
    /\ Cardinality(dispatched) <= MaxCalls
    /\ seedsProcessed = Cardinality(visited)
    /\ seedsProcessed <= MaxSeeds

\* A run that returns with a lead it never processed says so: a budget stop is in
\* its audit log (engine.py:96-108,131-140).
CompleteOrReported ==
    status = "done" =>
        \/ \A o \in Offers : o.id \in visited
        \/ \E reason \in {"max_calls", "max_seeds"} : BudgetStop(reason) \in audit

\* Every connector that accepts a processed seed was either dispatched on it or its
\* refusal is in the audit log, never both; only the seed at which the call budget
\* ran out has neither (engine.py:147-204).
DispatchedOrRefused ==
    \A e \in visited : \A c \in {k \in Eligible(e) : ~SkipsDns(k)} :
        LET refused ==
                \/ Refusal("exposure_connector_refused", c, e) \in audit
                \/ Refusal("active_connector_refused", c, e) \in audit
        IN \/ (<<c, e>> \in dispatched) # refused
           \/ BudgetStop("max_calls") \in audit /\ e = current.id

\* A seed is processed at the smallest depth at which it is ever reported, so that
\* the depth limit never cuts off what a shorter chain reaches: pushing addresses on
\* the left of the deque does not disturb it, as long as an address leads to no further
\* addresses (engine.py:118-130).
ShallowestFirst ==
    \A r \in reached, o \in Offers : r.id = o.id => r.depth <= o.depth

\* Reference: the seeds within d hops of the root.
Within[d \in 0..MaxDepth] ==
    IF d = 0 THEN {root}
    ELSE Within[d - 1] \cup
         {e \in Entity : \E s \in Within[d - 1] : \E c \in Permitted(s) :
                            e \in World[c][s] /\ CanEnqueue(e, s)}

FullyAnswered ==
    \A p \in dispatched : \A e \in World[p[1]][p[2]] :
        \E a \in answers : a[1].id = p[2] /\ a[2] = e

\* When no source fails and no budget stops it, a run visits exactly the seeds within
\* max_depth hops and stores exactly what they report, in whatever order the tasks
\* of each gather answer (engine.py:60-145).
ExactClosure ==
    (status = "done" /\ FullyAnswered /\ \A a \in audit : a.event # "budget_stop") =>
        /\ visited = Within[MaxDepth]
        /\ store = UNION {UNION {World[c][s] : c \in Permitted(s)} : s \in Within[MaxDepth]}

\* A run ends: it returns or raises (engine.py:81-145).
Termination == <>(status \in {"done", "raised"})
=============================================================================
