---------------------------- MODULE EntityStore ----------------------------
(***************************************************************************)
(* An EntityStore (src/osint/store/base.py) and the collection tasks that  *)
(* fill it (_collect_into_store): a task records a batch of reports, the   *)
(* findings of one answer, without giving way to another task, then waits  *)
(* for its next answer.  A run may be repeated: what comes back then, from *)
(* the sources or from the HTTP cache, are reports of a later date.        *)
(*                                                                         *)
(* This is what the two stores promise.  The one in memory is empty when a *)
(* run starts and stores every relationship; a durable one, a Neo4j        *)
(* database, survives the run and holds no relationship without its two    *)
(* entities.  Module Stores shows that both keep the promise.              *)
(***************************************************************************)
EXTENDS StoreMerge, Sequences

CONSTANTS
    Id,         \* ids of entities and relationships
    Ends,       \* [Id -> SUBSET Id]: src_id and dst_id; {} for an entity
    Task,
    Reports,    \* the reports connectors make
    Answers,    \* Answers[n][t]: the batches of them task t records in run n
    Durabilities,   \* the kinds of store there are: TRUE for a durable one
    MaxRuns     \* bound: runs in a behaviour

ASSUME StoreAssumption ==
    /\ Ends \in [Id -> SUBSET Id]
    /\ "none" \notin Task
    /\ MaxRuns \in Nat \ {0}
    /\ \A r \in Reports : r.id \in Id /\ r.source \in Source
    /\ Answers \in [1..MaxRuns -> [Task -> Seq(Seq(Reports) \ {<<>>})]]
    /\ Durabilities \subseteq BOOLEAN

VARIABLES
    durable,    \* the store the runs use
    graph,      \* the record kept for each id the store has
    todo,       \* the batches each task has still to record
    turn,       \* the task whose batch is being recorded, or "none"
    run,        \* the run, and the time its reports are dated
    recorded,   \* history: the reports the store has kept
    reported    \* history: the reports it was given

vars == <<durable, graph, todo, turn, run, recorded, reported>>

Keeps(id) == durable => Ends[id] \subseteq DOMAIN graph

\* The entry for an id is written: added, or put in place of the one there.
Put(records, id, rec) ==
    [i \in DOMAIN records \cup {id} |-> IF i = id THEN rec ELSE records[i]]

\* upsert_entity and upsert_relationship.
Upsert(r) ==
    LET new == IF r.id \in DOMAIN graph THEN Merged(graph[r.id], r) ELSE FirstRecord(r)
    IN graph' = Put(graph, r.id, new)

Init ==
    /\ durable \in Durabilities
    /\ graph = [id \in {} |-> {}]
    /\ todo = Answers[1]
    /\ turn = "none"
    /\ run = 1
    /\ recorded = {}
    /\ reported = {}

\* The next report of the batch under way, or of the batch task t starts.
Report(t) == Dated(Head(Head(todo[t])), run)

\* It is done with: the rest of its batch comes next, then another task's.
Handled(t) ==
    /\ reported' = reported \cup {Report(t)}
    /\ IF Len(Head(todo[t])) = 1
       THEN todo' = [todo EXCEPT ![t] = Tail(@)] /\ turn' = "none"
       ELSE todo' = [todo EXCEPT ![t] = <<Tail(Head(@))>> \o Tail(@)] /\ turn' = t

Record(t) ==
    /\ turn \in {"none", t}
    /\ todo[t] # <<>>
    /\ IF Keeps(Report(t).id)
       THEN Upsert(Report(t)) /\ recorded' = recorded \cup {Report(t)}
       ELSE UNCHANGED <<graph, recorded>>
    /\ Handled(t)
    /\ UNCHANGED <<durable, run>>

\* The run is over, or was killed; the next one starts.
Rerun ==
    /\ run < MaxRuns
    /\ run' = run + 1
    /\ todo' = Answers[run + 1]
    /\ turn' = "none"
    /\ IF durable
       THEN UNCHANGED <<graph, recorded, reported>>
       ELSE graph' = [id \in {} |-> {}] /\ recorded' = {} /\ reported' = {}
    /\ UNCHANGED durable

Next == (\E t \in Task : Record(t)) \/ Rerun

Spec == Init /\ [][Next]_vars

-----------------------------------------------------------------------------
(* Properties. *)

About(id) == {r \in recorded : r.id = id}

TypeOK ==
    /\ durable \in Durabilities
    /\ DOMAIN graph \subseteq Id
    /\ \A id \in DOMAIN graph :
          /\ graph[id].conf \in [Source -> 0..9]
          /\ graph[id].confidence \in 0..Scale
          /\ 1 <= graph[id].first /\ graph[id].first <= graph[id].last /\ graph[id].last <= run
          /\ DOMAIN graph[id].attributes = Field
    /\ turn \in Task \cup {"none"}
    /\ run \in 1..MaxRuns

\* In whatever order the tasks answer, and however often, a record is what its reports
\* say together: every provenance and tag, the earliest and latest date, and one
\* noisy-or over the distinct sources, capped at 0.99 (merge.py:10-40, memory.py:25-44).
RecordsAddUp ==
    \A id \in Id : About(id) # {} =>
        LET all == Union(About(id))
        IN /\ id \in DOMAIN graph
           /\ graph[id].sources = all.sources
           /\ graph[id].tags = all.tags
           /\ graph[id].first = all.first
           /\ graph[id].last = all.last
           /\ graph[id].confidence = Smaller(99 * (Scale \div 100), Scale - all.doubt)

\* The order of the answers decides which value of an attribute is the value, but no
\* value is lost: the others are recorded as conflicts with it (merge.py:43-76).  Inside
\* a dict it is lost at the second conflict (merge.py:65).
NoValueLost ==
    \A r \in recorded, f \in Field \ Nested :
        r.attrs[f] # Null =>
            \/ graph[r.id].attributes[f].value = r.attrs[f]
            \/ <<graph[r.id].attributes[f].value, r.attrs[f]>>
                    \in graph[r.id].attributes[f].conflicts

Undated(r) == [r EXCEPT !.provs = {}, !.seen = 0]
Repeats(r) == \E q \in recorded : Undated(q) = Undated(r)

\* To hear the same again teaches nothing: a report that differs only in provenance
\* from one recorded earlier changes no attribute, no conflict and no confidence
\* (merge.py:17-30,52-75), conflicts inside a dict aside.
RepeatsTeachNothing ==
    [][\A r \in recorded' \ recorded : Repeats(r) =>
          /\ \A f \in Field \ Nested : graph'[r.id].attributes[f] = graph[r.id].attributes[f]
          /\ graph'[r.id].conf = graph[r.id].conf
          /\ graph'[r.id].confidence = graph[r.id].confidence]_vars

\* DESIGN.md:222 "Every discovered entity and relationship is stored with provenance":
\* once all tasks are done, every report is in the graph.
EverythingStored ==
    (\A t \in Task : todo[t] = <<>>) =>
        \A r \in reported : r.id \in DOMAIN graph /\ r.provs \subseteq graph[r.id].sources

\* The in-memory store does keep that promise, whichever task answers first
\* (memory.py:25-64, engine.py:225-239).
MemoryStoresEverything == ~durable => EverythingStored
=============================================================================
