------------------------------- MODULE Stores -------------------------------
(***************************************************************************)
(* The two stores a run may use (--store).  MemoryEntityStore records a    *)
(* report at once.  Neo4jEntityStore does it in a transaction of two       *)
(* statements: the first reads the record, the second, after the merge in  *)
(* Python, writes all of it.  The driver runs a transaction again after a  *)
(* transient error.  There is one transaction at a time, for the calls are *)
(* synchronous, and one process at a time on the same database.            *)
(***************************************************************************)
EXTENDS EntityStore

VARIABLE tx     \* the transaction under way: its task, and what it has read

storesVars == <<vars, tx>>

\* A record of the database, or none, as a set.
Found(id) == IF id \in DOMAIN graph THEN {graph[id]} ELSE {}

NoTx == [task |-> "none", found |-> {}]

StoresInit == Init /\ tx = NoTx

InMemory(t) ==
    /\ ~durable
    /\ Record(t)
    /\ UNCHANGED tx

\* The first statement of the transaction for the next report of task t.
Read(t) ==
    /\ durable
    /\ tx = NoTx
    /\ turn \in {"none", t}
    /\ todo[t] # <<>>
    /\ tx' = [task |-> t, found |-> Found(Report(t).id)]
    /\ UNCHANGED vars

\* Fault: the write adds to a record only when the read has found none.
ToWriteCreateOnly(found, r) ==
    IF found = {} THEN FirstRecord(r) ELSE CHOOSE rec \in found : TRUE

\* What the transaction writes, from what it has read.
ToWrite(found, r) ==
    IF found = {} THEN FirstRecord(r) ELSE Merged(CHOOSE rec \in found : TRUE, r)

\* The second statement, and the commit: MERGE finds or creates the node and SET puts
\* the properties on it; for a relationship, nothing is written, and no error raised,
\* unless MATCH finds both of its entities.
Commit ==
    LET r == Report(tx.task)
    IN /\ tx # NoTx
       /\ IF Ends[r.id] \subseteq DOMAIN graph
          THEN /\ graph' = Put(graph, r.id, ToWrite(tx.found, r))
               /\ recorded' = recorded \cup {r}
          ELSE UNCHANGED <<graph, recorded>>
       /\ Handled(tx.task)
       /\ tx' = NoTx
       /\ UNCHANGED <<durable, run>>

\* A transient error: the transaction is rolled back, and run again.
Restart ==
    /\ tx # NoTx
    /\ tx' = NoTx
    /\ UNCHANGED vars

\* The process ends, or is killed, with or without a transaction open, and is started
\* again.
NextRun == Rerun /\ tx' = NoTx

StoresNext ==
    \/ \E t \in Task : InMemory(t) \/ Read(t)
    \/ Commit \/ Restart \/ NextRun

StoresSpec == StoresInit /\ [][StoresNext]_storesVars

-----------------------------------------------------------------------------
(* Properties. *)

\* The two statements, the retries and the kills between them do not show: either
\* store implements EntityStore (memory.py:25-64, neo4j_store.py:45-54,137-218).
ImplementsStore == Spec
=============================================================================
