------------------------- MODULE PivotEngineProofs -------------------------
(***************************************************************************)
(* Proofs about PivotEngine, for every registry, world, authorization and  *)
(* budget that its assumptions allow.                                      *)
(***************************************************************************)
EXTENDS PivotCrawl, SequenceLemmas, Integers, FiniteSetTheorems, FunctionTheorems,
        SequenceTheorems, TLAPS

Discoveries == Connector \X Entity

-----------------------------------------------------------------------------
(* Sorting discoveries by id lists each of them and nothing else.          *)

\* Ids and registry positions order discoveries totally (engine.py:122).
LEMMA BeforeIsTotalOrder ==
    /\ \A p \in Discoveries : ~Before(p, p)
    /\ \A p, q, r \in Discoveries : Before(p, q) /\ Before(q, r) => Before(p, r)
    /\ \A p, q \in Discoveries : p = q \/ Before(p, q) \/ Before(q, p)
<1>1. \A p \in Discoveries :
         /\ p = <<p[1], p[2]>>
         /\ Rank[p[2]] \in Nat
         /\ Position[p[1]] \in Nat
  BY WorldAssumption, ConnectorAssumption DEF Discoveries
<1>2. \A p, q \in Discoveries :
         /\ Rank[p[2]] = Rank[q[2]] => p[2] = q[2]
         /\ Position[p[1]] = Position[q[1]] => p[1] = q[1]
  BY WorldAssumption, ConnectorAssumption DEF Discoveries
<1>3. \A p \in Discoveries : ~Before(p, p)
  BY <1>1 DEF Before
<1>4. \A p, q, r \in Discoveries : Before(p, q) /\ Before(q, r) => Before(p, r)
  BY <1>1 DEF Before
<1>5. \A p, q \in Discoveries : p = q \/ Before(p, q) \/ Before(q, p)
  <2> TAKE p, q \in Discoveries
  <2>1. \/ Rank[p[2]] < Rank[q[2]] \/ Rank[q[2]] < Rank[p[2]]
        \/ Rank[p[2]] = Rank[q[2]]
    BY <1>1
  <2>2. \/ Position[p[1]] < Position[q[1]] \/ Position[q[1]] < Position[p[1]]
        \/ Position[p[1]] = Position[q[1]]
    BY <1>1
  <2>3. p = <<p[1], p[2]>> /\ q = <<q[1], q[2]>>
    BY <1>1
  <2> QED
    BY <1>2, <2>1, <2>2, <2>3 DEF Before
<1> QED
  BY <1>3, <1>4, <1>5

\* What sorted() returns: every position holds a discovery, every discovery has a
\* position (engine.py:119-122).
LEMMA SortedLists ==
    ASSUME NEW S \in SUBSET Discoveries
    PROVE  /\ IsFiniteSet(S)
           /\ Cardinality(S) \in Nat
           /\ \A i \in 1..Cardinality(S) : Sorted(S)[i] \in S
           /\ \A p \in S : \E i \in 1..Cardinality(S) : Sorted(S)[i] = p
<1> DEFINE n == Cardinality(S)
           Lower(p) == {q \in S : Before(q, p)}
           low == [p \in S |-> Cardinality(Lower(p))]
<1>1. IsFiniteSet(S) /\ n \in Nat
  <2>1. IsFiniteSet(Discoveries)
    BY FS_Product, WorldAssumption, ConnectorAssumption DEF Discoveries
  <2>2. IsFiniteSet(S)
    BY <2>1, FS_Subset
  <2> QED
    BY <2>2, FS_CardinalityType
<1>2. ASSUME NEW p \in S
      PROVE  /\ IsFiniteSet(Lower(p))
             /\ Cardinality(Lower(p)) \in 0..(n - 1)
  <2>1. Lower(p) \in SUBSET (S \ {p})
    BY BeforeIsTotalOrder
  <2>2. IsFiniteSet(S \ {p}) /\ Cardinality(S \ {p}) = n - 1
    BY <1>1, FS_RemoveElement
  <2>3. IsFiniteSet(Lower(p)) /\ Cardinality(Lower(p)) <= n - 1
    BY <2>1, <2>2, FS_Subset
  <2>4. Cardinality(Lower(p)) \in Nat
    BY <2>3, FS_CardinalityType
  <2> QED
    BY <1>1, <2>3, <2>4
<1>3. ASSUME NEW p \in S, NEW q \in S, Before(p, q)
      PROVE  Cardinality(Lower(p)) # Cardinality(Lower(q))
  <2>1. Lower(p) \in SUBSET Lower(q)
    BY <1>3, BeforeIsTotalOrder
  <2>2. p \in Lower(q) /\ p \notin Lower(p)
    BY <1>3, BeforeIsTotalOrder
  <2>3. Lower(p) # Lower(q)
    BY <2>2
  <2>4. IsFiniteSet(Lower(q))
    BY <1>2
  <2> HIDE DEF Lower
  <2> QED
    BY <2>1, <2>3, <2>4, FS_Subset
<1>4. low \in [S -> 0..(n - 1)]
  BY <1>2
<1>5. \A p, q \in S : low[p] = low[q] => p = q
  BY <1>3, BeforeIsTotalOrder
<1>6. low \in Injection(S, 0..(n - 1))
  BY <1>4, <1>5, Fun_IsInj
<1>7. IsFiniteSet(0..(n - 1)) /\ Cardinality(0..(n - 1)) = n
  BY <1>1, FS_Interval
<1>8. low \in Surjection(S, 0..(n - 1))
  BY <1>6, <1>7, FS_Injection
<1>9. \A p \in S : low[p] = Cardinality(Lower(p))
  OBVIOUS
<1>10. \A k \in 0..(n - 1) : \E p \in S : low[p] = k
  BY <1>8 DEF Surjection
<1>11. \A i \in 1..n : Sorted(S)[i] = CHOOSE p \in S : Cardinality(Lower(p)) = i - 1
  BY DEF Sorted
<1> HIDE DEF n, Lower, low
<1>12. ASSUME NEW i \in 1..n
       PROVE  Sorted(S)[i] \in S /\ low[Sorted(S)[i]] = i - 1
  <2>1. i - 1 \in 0..(n - 1)
    BY <1>1
  <2>2. \E p \in S : Cardinality(Lower(p)) = i - 1
    BY <1>9, <1>10, <2>1
  <2>3. Sorted(S)[i] \in S /\ Cardinality(Lower(Sorted(S)[i])) = i - 1
    BY <1>11, <2>2
  <2> QED
    BY <1>9, <2>3
<1>13. ASSUME NEW p \in S
       PROVE  \E i \in 1..n : Sorted(S)[i] = p
  <2>1. low[p] + 1 \in 1..n /\ (low[p] + 1) - 1 = low[p]
    BY <1>1, <1>4
  <2>2. Sorted(S)[low[p] + 1] \in S /\ low[Sorted(S)[low[p] + 1]] = low[p]
    BY <1>12, <2>1
  <2>3. Sorted(S)[low[p] + 1] = p
    BY <1>5, <2>2
  <2> QED
    BY <2>1, <2>3
<1>14. /\ \A i \in 1..n : Sorted(S)[i] \in S
       /\ \A p \in S : \E i \in 1..n : Sorted(S)[i] = p
  BY <1>12, <1>13
<1> QED
  BY <1>1, <1>14 DEF n

Items == [id : Entity, depth : 0..MaxDepth]

\* The two ends of the deque receive exactly the discoveries given to them
\* (engine.py:122-130).
LEMMA AscendingLists ==
    ASSUME NEW S \in SUBSET Discoveries, NEW d \in 0..MaxDepth
    PROVE  /\ Ascending(S, d) \in Seq(Items)
           /\ Range(Ascending(S, d)) = {Item(p[2], d) : p \in S}
<1> DEFINE n == Cardinality(S)
<1>1. n \in Nat
  BY SortedLists
<1>2. \A i \in 1..n : Sorted(S)[i] \in S
  BY SortedLists
<1>3. \A p \in S : \E i \in 1..n : Sorted(S)[i] = p
  BY SortedLists
<1>4. \A p \in S : Item(p[2], d) \in Items
  BY DEF Items, Item, Discoveries
<1>5. Ascending(S, d) = [i \in 1..n |-> Item(Sorted(S)[i][2], d)]
  BY DEF Ascending
<1> HIDE DEF n
<1>6. Ascending(S, d) \in [1..n -> Items]
  BY <1>2, <1>4, <1>5
<1>7. Range(Ascending(S, d)) = {Item(p[2], d) : p \in S}
  BY <1>2, <1>3, <1>5 DEF Range
<1> QED
  BY <1>1, <1>6, <1>7, SeqDef

\* Pushed on the left one after the other, addresses end up in the reverse order,
\* and none is lost (engine.py:127-128).
LEMMA DescendingLists ==
    ASSUME NEW S \in SUBSET Discoveries, NEW d \in 0..MaxDepth
    PROVE  /\ Descending(S, d) \in Seq(Items)
           /\ Range(Descending(S, d)) = {Item(p[2], d) : p \in S}
<1> DEFINE n == Cardinality(S)
<1>1. n \in Nat
  BY SortedLists
<1>2. \A i \in 1..n : Sorted(S)[n + 1 - i] \in S
  BY <1>1, SortedLists
<1>3. \A p \in S : \E i \in 1..n : Sorted(S)[n + 1 - i] = p
  <2> TAKE p \in S
  <2>1. PICK j \in 1..n : Sorted(S)[j] = p
    BY SortedLists
  <2>2. n + 1 - j \in 1..n /\ n + 1 - (n + 1 - j) = j
    BY <1>1
  <2> QED
    BY <2>1, <2>2
<1>4. \A p \in S : Item(p[2], d) \in Items
  BY DEF Items, Item, Discoveries
<1>5. Descending(S, d) = [i \in 1..n |-> Item(Sorted(S)[n + 1 - i][2], d)]
  BY DEF Descending
<1> HIDE DEF n
<1>6. Descending(S, d) \in [1..n -> Items]
  BY <1>2, <1>4, <1>5
<1>7. Range(Descending(S, d)) = {Item(p[2], d) : p \in S}
  BY <1>2, <1>3, <1>5 DEF Range
<1> QED
  BY <1>1, <1>6, <1>7, SeqDef

\* Joining two lists joins what they hold.
LEMMA RangeOfConcat ==
    ASSUME NEW T, NEW s \in Seq(T), NEW t \in Seq(T)
    PROVE  s \o t \in Seq(T) /\ Range(s \o t) = Range(s) \cup Range(t)
  BY ConcatProperties, RangeConcatenation

\* What the deque holds after a gather: what it held and the discoveries that may be
\* enqueued, one hop deeper (engine.py:118-130).
LEMMA ExtendedHolds ==
    ASSUME TypeOK
    PROVE  /\ Extended \in Seq(Items)
           /\ Range(Extended) =
                IF current.depth < MaxDepth
                THEN Range(frontier) \cup {Item(p[2], current.depth + 1) : p \in Enqueueable}
                ELSE Range(frontier)
<1>1. frontier \in Seq(Items) /\ current.depth \in 0..MaxDepth
  BY DEF TypeOK, Items
<1>2. CASE current.depth < MaxDepth
  <2> DEFINE d == current.depth + 1
             left == Descending(ToTheLeft, d)
             right == Ascending(Enqueueable \ ToTheLeft, d)
  <2>1. d \in 0..MaxDepth
    BY <1>1, <1>2, BudgetAssumption
  <2>2. ToTheLeft \in SUBSET Discoveries /\ Enqueueable \ ToTheLeft \in SUBSET Discoveries
    BY DEF ToTheLeft, Enqueueable, Discovered, Discoveries
  <2>3. left \in Seq(Items) /\ Range(left) = {Item(p[2], d) : p \in ToTheLeft}
    BY <2>1, <2>2, DescendingLists
  <2>4. right \in Seq(Items) /\ Range(right) = {Item(p[2], d) : p \in Enqueueable \ ToTheLeft}
    BY <2>1, <2>2, AscendingLists
  <2>5. Extended = left \o frontier \o right
    BY <1>2 DEF Extended
  <2>6. ToTheLeft \subseteq Enqueueable
    BY DEF ToTheLeft
  <2> HIDE DEF left, right, d
  <2>7. left \o frontier \in Seq(Items) /\ Range(left \o frontier) = Range(left) \cup Range(frontier)
    BY <1>1, <2>3, RangeOfConcat
  <2>8. Extended \in Seq(Items) /\ Range(Extended) = Range(left \o frontier) \cup Range(right)
    <3> DEFINE both == left \o frontier
    <3>1. both \in Seq(Items) /\ right \in Seq(Items) /\ Extended = both \o right
      BY <2>4, <2>5, <2>7
    <3> HIDE DEF both
    <3>2. Extended \in Seq(Items) /\ Range(Extended) = Range(both) \cup Range(right)
      BY <3>1, RangeOfConcat
    <3> QED
      BY <3>2 DEF both
  <2>9. {Item(p[2], d) : p \in ToTheLeft} \cup {Item(p[2], d) : p \in Enqueueable \ ToTheLeft}
          = {Item(p[2], d) : p \in Enqueueable}
    <3>1. \A p \in Enqueueable : p \in ToTheLeft \/ p \in Enqueueable \ ToTheLeft
      OBVIOUS
    <3>2. \A p \in ToTheLeft : p \in Enqueueable
      BY <2>6
    <3> HIDE <2>6
    <3> QED
      BY <3>1, <3>2, Zenon
  <2>10. Range(Extended) = Range(frontier) \cup {Item(p[2], d) : p \in Enqueueable}
    BY <2>3, <2>4, <2>7, <2>8, <2>9
  <2> QED
    BY <1>2, <2>8, <2>10 DEF d
<1>3. CASE ~(current.depth < MaxDepth)
  BY <1>1, <1>3 DEF Extended
<1> QED
  BY <1>2, <1>3

-----------------------------------------------------------------------------
(* Type correctness. *)

\* The types hold before the first seed is taken.
LEMMA TypeOKInit == Init => TypeOK
<1> SUFFICES ASSUME Init PROVE TypeOK
  OBVIOUS
<1>1. Item(root, 0) \in [id : Entity, depth : 0..MaxDepth]
  BY WorldAssumption, BudgetAssumption DEF Init, Item
<1>2. <<Item(root, 0)>> \in Seq([id : Entity, depth : 0..MaxDepth])
  BY <1>1
<1> QED
  BY <1>1, <1>2 DEF Init, TypeOK

\* Every step of the loop and of a task keeps the types.
LEMMA TypeOKStep == TypeOK /\ [Next]_vars => TypeOK'
<1> SUFFICES ASSUME TypeOK, [Next]_vars PROVE TypeOK'
  OBVIOUS
<1>0. ASSUME LoopCondition
      PROVE  /\ frontier # <<>>
             /\ Head(frontier) \in Items
             /\ Head(frontier).id \in Entity
             /\ Tail(frontier) \in Seq(Items)
  <2>1. frontier \in Seq(Items) /\ frontier # <<>>
    BY <1>0 DEF LoopCondition, TypeOK, Items
  <2>2. Head(frontier) \in Items /\ Tail(frontier) \in Seq(Items)
    BY <2>1, HeadTailProperties
  <2> QED
    BY <2>1, <2>2 DEF Items
<1> USE DEF TypeOK
<1>1. CASE LeaveLoop
  BY <1>1 DEF LeaveLoop, Return, budget, history
<1>2. CASE SkipVisited
  <2>1. Tail(frontier) \in Seq([id : Entity, depth : 0..MaxDepth])
    BY <1>0, <1>2 DEF SkipVisited, Items
  <2> QED
    BY <1>2, <2>1 DEF SkipVisited, budget, history
<1>3. ASSUME LoopCondition, Take(Head(frontier).id)
      PROVE  /\ frontier' \in Seq([id : Entity, depth : 0..MaxDepth])
             /\ visited' \subseteq Entity
             /\ seedsProcessed' \in Nat
             /\ current' \in [id : Entity, depth : 0..MaxDepth]
             /\ reached' \subseteq [id : Entity, depth : 0..MaxDepth]
  <2>1. /\ frontier' = Tail(frontier)
        /\ visited' = visited \cup {Head(frontier).id}
        /\ seedsProcessed' = seedsProcessed + 1
        /\ current' = Head(frontier)
        /\ reached' = reached \cup {Head(frontier)}
    BY <1>3 DEF Take
  <2>2. /\ Head(frontier) \in [id : Entity, depth : 0..MaxDepth]
        /\ Head(frontier).id \in Entity
        /\ Tail(frontier) \in Seq([id : Entity, depth : 0..MaxDepth])
    BY <1>0, <1>3 DEF Items
  <2>3. frontier' \in Seq([id : Entity, depth : 0..MaxDepth])
    BY <2>1, <2>2
  <2>4. visited' \subseteq Entity /\ seedsProcessed' \in Nat
    BY <2>1, <2>2
  <2>5. reached' \subseteq [id : Entity, depth : 0..MaxDepth]
    BY <2>1, <2>2
  <2> QED
    BY <2>1, <2>2, <2>3, <2>4, <2>5
<1>4. CASE Dispatch
  <2>1. LoopCondition /\ Take(Head(frontier).id)
    BY <1>4 DEF Dispatch
  <2>2. Head(frontier).id \in Entity
    BY <1>0, <2>1
  <2>3. {<<c, Head(frontier).id>> : c \in Permitted(Head(frontier).id)}
           \subseteq Connector \X Entity
    BY <2>2 DEF Permitted, Eligible
  <2> QED
    BY <1>3, <1>4, <2>1, <2>3 DEF Dispatch
<1>5. CASE StopOnCalls
  <2>1. LoopCondition /\ Take(Head(frontier).id)
    BY <1>5 DEF StopOnCalls
  <2> QED
    BY <1>3, <1>5, <2>1 DEF StopOnCalls, Return
<1>6. CASE Gathered
  <2>1. Extended \in Seq([id : Entity, depth : 0..MaxDepth])
    BY ExtendedHolds DEF Items
  <2>2. Cardinality({c \in Connector : task[c] = "done"}) \in Nat
    <3>1. {c \in Connector : task[c] = "done"} \in SUBSET Connector
      OBVIOUS
    <3> QED
      BY <3>1, ConnectorAssumption, FS_Subset, FS_CardinalityType
  <2> QED
    BY <1>6, <2>1, <2>2 DEF Gathered, history
<1>7. ASSUME NEW c \in Connector, TaskStep(c)
      PROVE  TypeOK'
  <2>1. CASE Ask(c)
    <3>1. <<c, current.id>> \in Connector \X Entity
      OBVIOUS
    <3> QED
      BY <2>1, <3>1 DEF Ask, budget
  <2>2. ASSUME NEW batch \in SUBSET World[c][current.id],
               Page(c, batch) \/ Answer(c, batch) \/ Raise(c, batch)
        PROVE  TypeOK'
    <3>1. batch \subseteq Entity
      BY ConnectorAssumption
    <3>2. Record(c, batch)
      BY <2>2 DEF Page, Answer, Raise
    <3>3. /\ store' \subseteq Entity
          /\ found' \in [Connector -> SUBSET Entity]
          /\ answers' \subseteq [id : Entity, depth : 0..MaxDepth] \X Entity
      BY <3>1, <3>2 DEF Record
    <3> QED
      BY <2>2, <3>3 DEF Page, Answer, Raise, budget
  <2>3. CASE Cancel(c)
    BY <2>3 DEF Cancel, budget, history
  <2> QED
    BY <1>7, <2>1, <2>2, <2>3 DEF TaskStep
<1>8. CASE UNCHANGED vars
  BY <1>8 DEF vars
<1> QED
  BY <1>1, <1>2, <1>4, <1>5, <1>6, <1>7, <1>8 DEF Next, LoopStep, Ended

\* Every state variable of a run keeps its type: among others, no seed is ever queued
\* below max_depth and no undeclared entity reaches the store (engine.py:60-239).
THEOREM TypeCorrect == Spec => []TypeOK
  BY TypeOKInit, TypeOKStep, PTL DEF Spec

-----------------------------------------------------------------------------
(* Scope.  QuestionsInScope is not inductive: a question asked now comes   *)
(* from a seed taken from the deque hops ago, so the invariant must carry  *)
(* the scope of everything queued, and the permission of every live task.  *)

InScope(e) == TypeOf[e] = "Domain" => e \in Under[root]

ScopeInv ==
    /\ \A x \in Range(frontier) : InScope(x.id)
    /\ InScope(current.id)
    /\ \A c \in Connector : task[c] \in Live =>
          status \in {"gather", "raised"} /\ c \in Permitted(current.id)
    /\ \A q \in asked : q[1] \in Permitted(q[2]) /\ InScope(q[2])

\* A lead reported about a seed in scope is in scope, because under_seed is
\* transitive from hop to hop (pivot.py:13-14, domains.py:23).
LEMMA LeadsStayInScope ==
    ASSUME TypeOK, NEW s \in Entity, InScope(s), NEW e \in Entity, CanEnqueue(e, s)
    PROVE  InScope(e)
<1> SUFFICES ASSUME TypeOf[e] = "Domain" PROVE e \in Under[root]
  BY DEF InScope
<1>1. e \in Under[s]
  BY DEF CanEnqueue, PivotEligible, UnderSeed
<1>2. root \in Entity
  BY WorldAssumption DEF TypeOK
<1>3. CASE TypeOf[s] = "Domain"
  <2>1. s \in Under[root]
    BY <1>3 DEF InScope
  <2> QED
    BY <1>1, <1>2, <2>1, UnderAssumption
<1>4. CASE TypeOf[s] # "Domain"
  BY <1>1, <1>4, UnderAssumption
<1> QED
  BY <1>3, <1>4

\* The root is in its own scope.
LEMMA ScopeInvInit == Init => ScopeInv
<1> SUFFICES ASSUME Init PROVE ScopeInv
  OBVIOUS
<1>1. Range(frontier) = {Item(root, 0)}
  BY DEF Init, Range
<1>2. InScope(root)
  BY UnderAssumption, WorldAssumption DEF Init, InScope
<1>3. Item(root, 0).id = root
  BY DEF Item
<1> QED
  BY <1>1, <1>2, <1>3 DEF Init, ScopeInv, Live

\* Popping the deque adds nothing to it.
LEMMA TailHolds ==
    ASSUME NEW T, NEW s \in Seq(T), s # <<>>
    PROVE  /\ Head(s) \in Range(s)
           /\ Range(s) = {Head(s)} \cup Range(Tail(s))
<1>1. /\ Len(s) \in Nat \ {0} /\ DOMAIN s = 1..Len(s) /\ Head(s) = s[1]
  BY EmptySeq, LenProperties
<1>2. /\ Tail(s) \in Seq(T) /\ Len(Tail(s)) = Len(s) - 1
      /\ \A i \in 1..Len(Tail(s)) : Tail(s)[i] = s[i + 1]
  BY HeadTailProperties
<1>3. DOMAIN Tail(s) = 1..(Len(s) - 1)
  BY <1>2, LenProperties
<1>4. Head(s) \in Range(s)
  BY <1>1 DEF Range
<1>5. \A i \in 1..(Len(s) - 1) : Tail(s)[i] = s[i + 1] /\ i + 1 \in 1..Len(s)
  BY <1>1, <1>2
<1>6. Range(Tail(s)) \subseteq Range(s)
  BY <1>1, <1>3, <1>5 DEF Range
<1>7. ASSUME NEW i \in 1..Len(s)
      PROVE  s[i] = Head(s) \/ s[i] \in Range(Tail(s))
  <2>1. CASE i = 1
    BY <1>1, <2>1
  <2>2. CASE i # 1
    <3>1. i - 1 \in 1..(Len(s) - 1) /\ (i - 1) + 1 = i
      BY <1>1, <2>2
    <3>2. Tail(s)[i - 1] = s[i]
      BY <1>5, <3>1
    <3> QED
      BY <1>3, <3>1, <3>2 DEF Range
  <2> QED
    BY <2>1, <2>2
<1>8. Range(s) \subseteq {Head(s)} \cup Range(Tail(s))
  BY <1>1, <1>7 DEF Range
<1> QED
  BY <1>4, <1>6, <1>8

\* Every step keeps leads, dispatched pairs and questions in scope: a gate opens only
\* for what it may, and a report only leads to what lies under the name it is about.
LEMMA ScopeInvStep == TypeOK /\ ScopeInv /\ [Next]_vars => ScopeInv'
<1> SUFFICES ASSUME TypeOK, ScopeInv, [Next]_vars PROVE ScopeInv'
  OBVIOUS
<1>1. ASSUME LoopCondition
      PROVE  /\ InScope(Head(frontier).id)
             /\ \A x \in Range(Tail(frontier)) : InScope(x.id)
  <2>1. frontier \in Seq(Items) /\ frontier # <<>>
    BY <1>1 DEF LoopCondition, TypeOK, Items
  <2> QED
    BY <2>1, TailHolds DEF ScopeInv
<1>2. CASE LeaveLoop
  BY <1>2 DEF LeaveLoop, Return, ScopeInv, InScope, budget, history
<1>3. CASE SkipVisited
  <2>1. \A x \in Range(frontier') : InScope(x.id)
    BY <1>1, <1>3 DEF SkipVisited
  <2> QED
    BY <1>3, <2>1 DEF SkipVisited, ScopeInv, InScope, budget, history
<1>4. CASE Dispatch
  <2>1. /\ \A x \in Range(frontier') : InScope(x.id)
        /\ InScope(current'.id)
        /\ root' = root /\ asked' = asked
    BY <1>1, <1>4 DEF Dispatch, Take
  <2>2. status' = "gather"
        /\ \A c \in Connector : task'[c] \in Live => c \in Permitted(current'.id)
    BY <1>4 DEF Dispatch, Take, Live
  <2> QED
    BY <2>1, <2>2 DEF ScopeInv, InScope
<1>5. CASE StopOnCalls
  <2>1. /\ \A x \in Range(frontier') : InScope(x.id)
        /\ InScope(current'.id)
        /\ root' = root /\ asked' = asked /\ task' = task
    BY <1>1, <1>5 DEF StopOnCalls, Take
  <2>2. \A c \in Connector : task[c] \notin Live
    BY <1>5 DEF StopOnCalls, LoopCondition, ScopeInv
  <2> QED
    BY <2>1, <2>2 DEF ScopeInv, InScope
<1>6. CASE Gathered
  <2>1. \A p \in Enqueueable : InScope(p[2])
    <3> TAKE p \in Enqueueable
    <3>1. p[2] \in Entity /\ CanEnqueue(p[2], current.id)
      BY DEF Enqueueable, Discovered
    <3>2. current.id \in Entity /\ InScope(current.id)
      BY DEF TypeOK, ScopeInv
    <3> QED
      BY <3>1, <3>2, LeadsStayInScope
  <2>2. \A x \in Range(Extended) : InScope(x.id)
    <3> TAKE x \in Range(Extended)
    <3>1. \/ x \in Range(frontier)
          \/ \E p \in Enqueueable : x = Item(p[2], current.depth + 1)
      BY ExtendedHolds
    <3> QED
      BY <2>1, <3>1 DEF Item, ScopeInv
  <2>3. frontier' = Extended /\ root' = root /\ current' = current /\ asked' = asked
    BY <1>6 DEF Gathered, history
  <2>4. \A c \in Connector : task'[c] \notin Live
    BY <1>6 DEF Gathered, Live
  <2> QED
    BY <2>2, <2>3, <2>4 DEF ScopeInv, InScope
<1>7. ASSUME NEW c \in Connector, TaskStep(c)
      PROVE  ScopeInv'
  <2>1. CASE Ask(c)
    <3>1. c \in Permitted(current.id) /\ InScope(current.id)
      BY <2>1 DEF Ask, ScopeInv, Live
    <3>2. /\ root' = root /\ frontier' = frontier /\ current' = current
          /\ asked' = asked \cup {<<c, current.id>>} /\ status' = status
          /\ task' = [task EXCEPT ![c] = "waiting"]
      BY <2>1 DEF Ask
    <3>3. \A d \in Connector : task'[d] \in Live =>
              status' \in {"gather", "raised"} /\ d \in Permitted(current.id)
      BY <2>1, <3>1, <3>2 DEF Ask, ScopeInv, TypeOK, Live
    <3> QED
      BY <3>1, <3>2, <3>3 DEF ScopeInv, InScope
  <2>2. ASSUME NEW batch \in SUBSET World[c][current.id],
               Page(c, batch) \/ Answer(c, batch) \/ Raise(c, batch)
        PROVE  ScopeInv'
    <3>1. /\ root' = root /\ frontier' = frontier /\ current' = current /\ asked' = asked
          /\ status' \in {status, "raised"}
          /\ task' \in {task, [task EXCEPT ![c] = "done"], [task EXCEPT ![c] = "failed"]}
      BY <2>2 DEF Page, Answer, Raise
    <3>2. \A d \in Connector : task'[d] \in Live => task[d] \in Live
      BY <3>1 DEF Live, TypeOK
    <3> QED
      BY <3>1, <3>2 DEF ScopeInv, InScope
  <2>3. CASE Cancel(c)
    <3>1. /\ root' = root /\ frontier' = frontier /\ current' = current /\ asked' = asked
          /\ status' = status
          /\ task' = [task EXCEPT ![c] = "cancelled"]
      BY <2>3 DEF Cancel, history
    <3>2. \A d \in Connector : task'[d] \in Live => task[d] \in Live
      BY <3>1 DEF Live, TypeOK
    <3> QED
      BY <3>1, <3>2 DEF ScopeInv, InScope
  <2> QED
    BY <1>7, <2>1, <2>2, <2>3 DEF TaskStep
<1>8. CASE UNCHANGED vars
  BY <1>8 DEF vars, ScopeInv, InScope
<1> QED
  BY <1>2, <1>3, <1>4, <1>5, <1>6, <1>7, <1>8 DEF Next, LoopStep, Ended

LEMMA ScopeInvMeansInScope == TypeOK /\ ScopeInv => QuestionsInScope
<1> SUFFICES ASSUME TypeOK, ScopeInv, NEW q \in asked
             PROVE  /\ TypeOf[q[2]] = "Domain" => q[2] \in Under[root]
                    /\ TypeOf[q[2]] \in {"IPAddress", "Vulnerability"} /\ Class[q[1]] = "EXPOSURE"
                          => q[2] \in Covered
                    /\ Mode[q[1]] = "ACTIVE" => q[2] \in Covered
  BY DEF QuestionsInScope
<1>1. q[1] \in Permitted(q[2]) /\ InScope(q[2])
  BY DEF ScopeInv
<1>2. ~ExposureRefused(q[1], q[2]) /\ ~ActiveRefused(q[1], q[2])
  BY <1>1 DEF Permitted
<1> QED
  BY <1>1, <1>2 DEF ExposureRefused, ActiveRefused, InScope

\* No chain of discoveries leads a run to ask about a name outside its root, or an
\* exposure or active connector about a target the operator has not authorised
\* (engine.py:147-216).
THEOREM ScopeContained == Spec => []QuestionsInScope
<1>1. Init => TypeOK /\ ScopeInv
  BY TypeOKInit, ScopeInvInit
<1>2. TypeOK /\ ScopeInv /\ [Next]_vars => (TypeOK /\ ScopeInv)'
  BY TypeOKStep, ScopeInvStep
<1> QED
  BY <1>1, <1>2, ScopeInvMeansInScope, PTL DEF Spec

-----------------------------------------------------------------------------
(* Budgets.  What makes the counters right is that a seed is dispatched at *)
(* most once: the pairs dispatched so far are all about visited seeds.     *)

BudgetInv ==
    /\ dispatched \subseteq Connector \X visited
    /\ BudgetsRespected

\* What the budgets count is finite.
LEMMA FiniteSets ==
    ASSUME TypeOK
    PROVE  /\ IsFiniteSet(visited) /\ Cardinality(visited) \in Nat
           /\ IsFiniteSet(dispatched) /\ Cardinality(dispatched) \in Nat
           /\ \A S \in SUBSET Connector : IsFiniteSet(S) /\ Cardinality(S) \in Nat
<1>1. IsFiniteSet(Connector \X Entity)
  BY FS_Product, WorldAssumption, ConnectorAssumption
<1>2. visited \in SUBSET Entity /\ dispatched \in SUBSET (Connector \X Entity)
  BY DEF TypeOK
<1> QED
  BY <1>1, <1>2, FS_Subset, FS_CardinalityType, WorldAssumption, ConnectorAssumption

\* Dispatching a new seed adds one pair for each permitted connector.
LEMMA PairsCounted ==
    ASSUME NEW S \in SUBSET Connector, NEW e
    PROVE  /\ IsFiniteSet({<<c, e>> : c \in S})
           /\ Cardinality({<<c, e>> : c \in S}) = Cardinality(S)
<1> DEFINE f == [c \in S |-> <<c, e>>]
<1>1. IsFiniteSet(S)
  BY ConnectorAssumption, FS_Subset
<1>2. f \in Bijection(S, {<<c, e>> : c \in S})
  <2>1. f \in [S -> {<<c, e>> : c \in S}]
    OBVIOUS
  <2>2. \A a, b \in S : f[a] = f[b] => a = b
    OBVIOUS
  <2>3. \A y \in {<<c, e>> : c \in S} : \E a \in S : f[a] = y
    OBVIOUS
  <2> QED
    BY <2>1, <2>2, <2>3, Fun_IsBij
<1>3. ExistsBijection(S, {<<c, e>> : c \in S})
  BY <1>2 DEF ExistsBijection
<1> QED
  BY <1>1, <1>3, FS_Bijection

\* Nothing is dispatched or counted yet.
LEMMA BudgetInvInit == Init => BudgetInv
<1> SUFFICES ASSUME Init PROVE BudgetInv
  OBVIOUS
<1>1. visited = {} /\ dispatched = {} /\ connectorCalls = 0 /\ seedsProcessed = 0
      /\ status = "loop"
  BY DEF Init
<1>2. Cardinality(visited) = 0 /\ Cardinality(dispatched) = 0
  BY <1>1, FS_EmptySet
<1> QED
  BY <1>1, <1>2, BudgetAssumption DEF BudgetInv, BudgetsRespected

\* Every step keeps the counts exact: a pair is dispatched with its seed, and no seed is
\* taken twice.
LEMMA BudgetInvStep == TypeOK /\ BudgetInv /\ [Next]_vars => BudgetInv'
<1> SUFFICES ASSUME TypeOK, BudgetInv, [Next]_vars PROVE BudgetInv'
  OBVIOUS
<1>1. CASE LeaveLoop
  BY <1>1 DEF LeaveLoop, Return, BudgetInv, BudgetsRespected, budget, history
<1>2. CASE SkipVisited
  BY <1>2 DEF SkipVisited, LoopCondition, BudgetInv, BudgetsRespected, budget, history
<1>3. ASSUME LoopCondition, Take(Head(frontier).id)
      PROVE  /\ visited \subseteq visited' /\ Head(frontier).id \in visited'
             /\ Head(frontier).id \notin visited
             /\ seedsProcessed' = Cardinality(visited')
             /\ seedsProcessed' <= MaxSeeds
  <2>1. /\ visited' = visited \cup {Head(frontier).id}
        /\ Head(frontier).id \notin visited
        /\ seedsProcessed' = seedsProcessed + 1
    BY <1>3 DEF Take, AlreadyVisited
  <2>2. Cardinality(visited') = Cardinality(visited) + 1
    BY <2>1, FiniteSets, FS_AddElement
  <2>3. seedsProcessed < MaxSeeds /\ seedsProcessed \in Nat
    BY <1>3 DEF LoopCondition, TypeOK
  <2>4. seedsProcessed = Cardinality(visited)
    BY DEF BudgetInv, BudgetsRespected
  <2> QED
    BY <2>1, <2>2, <2>3, <2>4, BudgetAssumption
<1>4. CASE Dispatch
  <2> DEFINE s == Head(frontier).id
             new == {<<c, s>> : c \in Permitted(s)}
  <2>1. /\ LoopCondition /\ Take(s)
        /\ ~OverCallBudget(Cardinality(Permitted(s)))
        /\ task' = [c \in Connector |-> IF c \in Permitted(s) THEN "ready" ELSE "idle"]
        /\ status' = "gather" /\ status = "loop"
        /\ dispatched' = dispatched \cup new
        /\ connectorCalls' = connectorCalls
    BY <1>4 DEF Dispatch, LoopCondition
  <2>2. Permitted(s) \in SUBSET Connector
    BY DEF Permitted, Eligible
  <2>3. IsFiniteSet(new) /\ Cardinality(new) = Cardinality(Permitted(s))
    BY <2>2, PairsCounted
  <2>4. dispatched \cap new = {}
    BY <1>3, <2>1 DEF BudgetInv
  <2>5. IsFiniteSet(dispatched) /\ Cardinality(dispatched) \in Nat
        /\ Cardinality(Permitted(s)) \in Nat
    BY <2>2, FiniteSets
  <2> HIDE DEF new
  <2>6. Cardinality(dispatched') = Cardinality(dispatched) + Cardinality(Permitted(s))
    <3>1. Cardinality(dispatched') =
            Cardinality(dispatched) + Cardinality(new) - Cardinality(dispatched \cap new)
      BY <2>1, <2>3, <2>5, FS_Union
    <3>2. Cardinality(dispatched \cap new) = 0
      BY <2>4, FS_EmptySet
    <3> QED
      BY <2>3, <2>5, <3>1, <3>2
  <2>7. {c \in Connector : task'[c] # "idle"} = Permitted(s)
    BY <2>1, <2>2
  <2>8. connectorCalls = Cardinality(dispatched)
    BY <2>1 DEF BudgetInv, BudgetsRespected
  <2>9. Cardinality(dispatched') <= MaxCalls
    BY <2>1, <2>5, <2>6, <2>8, BudgetAssumption DEF OverCallBudget
  <2>10. BudgetsRespected'
    BY <1>3, <2>1, <2>6, <2>7, <2>8, <2>9 DEF BudgetsRespected
  <2>11. dispatched' \subseteq Connector \X visited'
    BY <1>3, <2>1, <2>2 DEF BudgetInv, new
  <2> QED
    BY <2>10, <2>11 DEF BudgetInv
<1>5. CASE StopOnCalls
  <2>1. /\ LoopCondition /\ Take(Head(frontier).id)
        /\ status' = "done" /\ status = "loop"
        /\ dispatched' = dispatched /\ connectorCalls' = connectorCalls
    BY <1>5 DEF StopOnCalls, LoopCondition, Return
  <2> QED
    BY <1>3, <2>1 DEF BudgetInv, BudgetsRespected
<1>6. CASE Gathered
  <2>1. /\ status = "gather" /\ status' = "loop"
        /\ dispatched' = dispatched /\ visited' = visited /\ seedsProcessed' = seedsProcessed
        /\ connectorCalls' = connectorCalls + Cardinality({c \in Connector : task[c] = "done"})
        /\ \A c \in Connector : task[c] \in {"idle", "done"}
    BY <1>6 DEF Gathered, history
  <2>2. {c \in Connector : task[c] = "done"} = {c \in Connector : task[c] # "idle"}
    BY <2>1
  <2> QED
    BY <2>1, <2>2 DEF BudgetInv, BudgetsRespected
<1>7. ASSUME NEW c \in Connector, TaskStep(c)
      PROVE  BudgetInv'
  <2>1. /\ dispatched' = dispatched /\ visited' = visited
        /\ seedsProcessed' = seedsProcessed /\ connectorCalls' = connectorCalls
        /\ status' \in {status, "raised"}
    BY <1>7 DEF TaskStep, Ask, Page, Answer, Raise, Cancel, budget, history
  <2>2. \/ task' = task
        \/ /\ task[c] # "idle"
           /\ \E t \in {"waiting", "done", "failed", "cancelled"} : task' = [task EXCEPT ![c] = t]
    BY <1>7 DEF TaskStep, Ask, Page, Answer, Raise, Cancel, Live
  <2>3. {d \in Connector : task'[d] # "idle"} = {d \in Connector : task[d] # "idle"}
    BY <2>2 DEF TypeOK
  <2> QED
    BY <2>1, <2>3 DEF BudgetInv, BudgetsRespected
<1>8. CASE UNCHANGED vars
  BY <1>8 DEF vars, BudgetInv, BudgetsRespected
<1> QED
  BY <1>1, <1>2, <1>4, <1>5, <1>6, <1>7, <1>8 DEF Next, LoopStep, Ended

\* No run dispatches a connector twice on one seed or goes over a budget, whatever the
\* duplicates in its deque and whatever is in flight (engine.py:81-116).
THEOREM BudgetsHold == Spec => []BudgetsRespected
<1>1. Init => TypeOK /\ BudgetInv
  BY TypeOKInit, BudgetInvInit
<1>2. TypeOK /\ BudgetInv /\ [Next]_vars => (TypeOK /\ BudgetInv)'
  BY TypeOKStep, BudgetInvStep
<1> QED
  BY <1>1, <1>2, PTL DEF Spec, BudgetInv

-----------------------------------------------------------------------------
(* Completeness.  No lead is ever lost: until the run ends it is visited,  *)
(* on the deque, or among the results of the gather under way.             *)

Pending(e) ==
    /\ status = "gather"
    /\ current.depth < MaxDepth
    /\ CanEnqueue(e, current.id)
    /\ \E c \in Connector : e \in found[c]

Accounted(e) == e \in visited \/ (\E x \in Range(frontier) : x.id = e) \/ Pending(e)

CompleteInv ==
    /\ status \in {"loop", "gather"} => \A o \in Offers : Accounted(o.id)
    /\ CompleteOrReported

\* The only lead is the root, and it is on the deque.
LEMMA CompleteInvInit == Init => CompleteInv
<1> SUFFICES ASSUME Init PROVE CompleteInv
  OBVIOUS
<1>1. Offers = {Item(root, 0)}
  BY DEF Init, Offers
<1>2. Range(frontier) = {Item(root, 0)}
  BY DEF Init, Range
<1>3. status = "loop"
  BY DEF Init
<1> QED
  BY <1>1, <1>2, <1>3 DEF CompleteInv, Accounted, CompleteOrReported

\* A report adds to the leads those of its entities the policy admits.
LEMMA OffersOfARecord ==
    ASSUME TypeOK, NEW c \in Connector, NEW batch \in SUBSET Entity,
           Record(c, batch), root' = root
    PROVE  \A o \in Offers' :
              \/ o \in Offers
              \/ o.id \in batch /\ current.depth < MaxDepth /\ CanEnqueue(o.id, current.id)
<1> SUFFICES ASSUME NEW o \in Offers', o \notin Offers
             PROVE  o.id \in batch /\ current.depth < MaxDepth /\ CanEnqueue(o.id, current.id)
  OBVIOUS
<1>1. o # Item(root, 0)
  BY DEF Offers
<1>2. PICK a \in answers' : /\ o = Item(a[2], a[1].depth + 1)
                            /\ a[1].depth < MaxDepth
                            /\ CanEnqueue(a[2], a[1].id)
  BY <1>1 DEF Offers
<1>3. a \notin answers
  BY <1>2 DEF Offers
<1>4. PICK e \in batch : a = <<current, e>>
  BY <1>3 DEF Record
<1> QED
  BY <1>2, <1>4 DEF Item

\* Every step keeps each lead processed, on the deque, or on its way there.
LEMMA CompleteInvStep == TypeOK /\ ScopeInv /\ CompleteInv /\ [Next]_vars => CompleteInv'
<1> SUFFICES ASSUME TypeOK, ScopeInv, CompleteInv, [Next]_vars PROVE CompleteInv'
  OBVIOUS
<1>0. ASSUME root' = root, answers' = answers
      PROVE  Offers' = Offers
  BY <1>0 DEF Offers
<1>1. CASE LeaveLoop
  <2>1. status = "loop" /\ status' = "done" /\ Offers' = Offers /\ visited' = visited
    BY <1>0, <1>1 DEF LeaveLoop, Return, history
  <2>2. CASE frontier = <<>>
    <3>1. Range(frontier) = {}
      BY <2>2 DEF Range
    <3>2. \A o \in Offers : o.id \in visited
      BY <2>1, <3>1 DEF CompleteInv, Accounted, Pending
    <3> QED
      BY <2>1, <3>2 DEF CompleteInv, CompleteOrReported
  <2>3. CASE frontier # <<>>
    <3>1. seedsProcessed >= MaxSeeds
      BY <1>1, <2>3, BudgetAssumption DEF LeaveLoop, LoopCondition, TypeOK
    <3>2. BudgetStop("max_seeds") \in audit'
      BY <1>1, <2>3, <3>1 DEF LeaveLoop, Return
    <3> QED
      BY <2>1, <3>2 DEF CompleteInv, CompleteOrReported
  <2> QED
    BY <2>2, <2>3
<1>2. ASSUME LoopCondition
      PROVE  Range(frontier) = {Head(frontier)} \cup Range(Tail(frontier))
  <2>1. frontier \in Seq(Items) /\ frontier # <<>>
    BY <1>2 DEF LoopCondition, TypeOK, Items
  <2> QED
    BY <2>1, TailHolds
<1>3. CASE SkipVisited
  <2>1. /\ status = "loop" /\ status' = "loop" /\ Offers' = Offers
        /\ visited' = visited /\ Head(frontier).id \in visited
        /\ Range(frontier) = {Head(frontier)} \cup Range(frontier')
    BY <1>0, <1>2, <1>3 DEF SkipVisited, LoopCondition, AlreadyVisited, history
  <2>2. \A o \in Offers : o.id \in visited \/ \E x \in Range(frontier') : x.id = o.id
    BY <2>1 DEF CompleteInv, Accounted, Pending
  <2> QED
    BY <2>1, <2>2 DEF CompleteInv, CompleteOrReported, Accounted
<1>4. CASE Dispatch
  <2>1. /\ status = "loop" /\ status' = "gather" /\ Offers' = Offers
        /\ visited' = visited \cup {Head(frontier).id}
        /\ Range(frontier) = {Head(frontier)} \cup Range(frontier')
    BY <1>0, <1>2, <1>4 DEF Dispatch, LoopCondition, Take
  <2>2. \A o \in Offers : o.id \in visited' \/ \E x \in Range(frontier') : x.id = o.id
    BY <2>1 DEF CompleteInv, Accounted, Pending
  <2> QED
    BY <2>1, <2>2 DEF CompleteInv, CompleteOrReported, Accounted
<1>5. CASE StopOnCalls
  <2>1. status' = "done" /\ BudgetStop("max_calls") \in audit'
    BY <1>5 DEF StopOnCalls, Return
  <2> QED
    BY <2>1 DEF CompleteInv, CompleteOrReported
<1>6. CASE Gathered
  <2>1. /\ status = "gather" /\ status' = "loop" /\ Offers' = Offers
        /\ visited' = visited /\ frontier' = Extended
    BY <1>0, <1>6 DEF Gathered, history
  <2>2. ASSUME NEW o \in Offers
        PROVE  o.id \in visited \/ \E x \in Range(Extended) : x.id = o.id
    <3>1. CASE o.id \in visited \/ \E x \in Range(frontier) : x.id = o.id
      BY <3>1, ExtendedHolds
    <3>2. CASE Pending(o.id) /\ o.id \notin visited
      <4>1. PICK c \in Connector : o.id \in found[c]
        BY <3>2 DEF Pending
      <4>2. <<c, o.id>> \in Enqueueable
        BY <3>2, <4>1 DEF Pending, Enqueueable, Discovered, TypeOK
      <4>3. Item(o.id, current.depth + 1) \in Range(Extended)
        BY <3>2, <4>2, ExtendedHolds DEF Pending
      <4> QED
        BY <4>3 DEF Item
    <3> QED
      BY <2>1, <3>1, <3>2 DEF CompleteInv, Accounted
  <2> QED
    BY <2>1, <2>2 DEF CompleteInv, CompleteOrReported, Accounted
<1>7. ASSUME NEW c \in Connector, TaskStep(c)
      PROVE  CompleteInv'
  <2>1. CASE Ask(c) \/ Cancel(c)
    <3>1. /\ status' = status /\ visited' = visited /\ frontier' = frontier /\ found' = found
          /\ current' = current /\ Offers' = Offers
      BY <1>0, <2>1 DEF Ask, Cancel, history
    <3>2. status \in {"gather", "raised"}
      BY <2>1 DEF Ask, Cancel, ScopeInv, Live
    <3> QED
      BY <3>1, <3>2 DEF CompleteInv, CompleteOrReported, Accounted, Pending
  <2>2. ASSUME NEW batch \in SUBSET World[c][current.id],
               Page(c, batch) \/ Answer(c, batch) \/ Raise(c, batch)
        PROVE  CompleteInv'
    <3>1. /\ status \in {"gather", "raised"}
          /\ status' \in {status, "raised"}
          /\ visited' = visited /\ frontier' = frontier /\ current' = current /\ root' = root
          /\ Record(c, batch)
      BY <2>2 DEF Page, Answer, Raise, ScopeInv, Live
    <3>2. CASE status' = "gather"
      <4>1. batch \in SUBSET Entity
        BY ConnectorAssumption DEF TypeOK
      <4>2. \A d \in Connector : found[d] \subseteq found'[d]
        BY <3>1 DEF Record, TypeOK
      <4>3. batch \subseteq found'[c]
        BY <3>1 DEF Record, TypeOK
      <4>4. status = "gather"
        BY <3>1, <3>2
      <4>5. ASSUME NEW o \in Offers
            PROVE  Accounted(o.id)'
        <5>1. Accounted(o.id)
          BY <4>4 DEF CompleteInv
        <5> QED
          BY <3>1, <3>2, <4>2, <4>4, <5>1 DEF Accounted, Pending
      <4>6. ASSUME NEW o \in Offers', o \notin Offers
            PROVE  Accounted(o.id)'
        <5>1. o.id \in batch /\ current.depth < MaxDepth /\ CanEnqueue(o.id, current.id)
          BY <3>1, <4>1, <4>6, OffersOfARecord
        <5> QED
          BY <3>1, <3>2, <4>3, <5>1 DEF Accounted, Pending
      <4> QED
        BY <3>2, <4>5, <4>6 DEF CompleteInv, CompleteOrReported
    <3>3. CASE status' = "raised"
      BY <3>3 DEF CompleteInv, CompleteOrReported
    <3> QED
      BY <3>1, <3>2, <3>3
  <2> QED
    BY <1>7, <2>1, <2>2 DEF TaskStep
<1>8. CASE UNCHANGED vars
  BY <1>8 DEF vars, CompleteInv, CompleteOrReported, Accounted, Pending, Offers
<1> QED
  BY <1>1, <1>3, <1>4, <1>5, <1>6, <1>7, <1>8 DEF Next, LoopStep, Ended

\* A run that returns has processed every lead reported above its depth limit, or a
\* budget stop in its audit log says that it has not (engine.py:96-108,131-140).
THEOREM NoSilentTruncation == Spec => []CompleteOrReported
<1>1. Init => TypeOK /\ ScopeInv /\ CompleteInv
  BY TypeOKInit, ScopeInvInit, CompleteInvInit
<1>2. TypeOK /\ ScopeInv /\ CompleteInv /\ [Next]_vars => (TypeOK /\ ScopeInv /\ CompleteInv)'
  BY TypeOKStep, ScopeInvStep, CompleteInvStep
<1> QED
  BY <1>1, <1>2, PTL DEF Spec, CompleteInv

-----------------------------------------------------------------------------
(* The gate's record.  A refusal stays in the log for good, but what it is *)
(* compared with changes: the invariant ties the whole log, and not only   *)
(* its entries about the current seed, to what the gate says of each seed. *)

RefusalKind == {"exposure_connector_refused", "active_connector_refused"}

RefusedAs(kind, c, e) ==
    /\ c \in Eligible(e)
    /\ ~SkipsDns(c)
    /\ \/ kind = "exposure_connector_refused" /\ ExposureRefused(c, e)
       \/ kind = "active_connector_refused" /\ ActiveRefused(c, e)

GateInv ==
    /\ BudgetStop("max_calls") \in audit => status = "done"
    /\ \A kind \in RefusalKind, c \in Connector, e \in Entity :
          Refusal(kind, c, e) \in audit <=> e \in visited /\ RefusedAs(kind, c, e)
    /\ \A p \in dispatched : p[2] \in visited /\ p[1] \in Permitted(p[2])
    /\ \A e \in visited : \A c \in Permitted(e) :
          <<c, e>> \in dispatched \/ (BudgetStop("max_calls") \in audit /\ e = current.id)

\* Entries of one kind are never taken for another (audit.py, engine.py:96-204).
LEMMA EntriesDiffer ==
    ASSUME NEW kind \in RefusalKind, NEW c \in Connector, NEW e \in Entity
    PROVE  /\ \A d \in Connector, f \in Entity : Query(d, f) # Refusal(kind, c, e)
           /\ \A d \in Connector, f \in Entity : Query(d, f) # BudgetStop("max_calls")
           /\ \A reason : BudgetStop(reason) # Refusal(kind, c, e)
           /\ BudgetStop("max_seeds") # BudgetStop("max_calls")
           /\ \A f \in Entity : Refusal(kind, c, e) \in Refusals(f) <=> e = f /\ RefusedAs(kind, c, f)
           /\ \A f \in Entity : BudgetStop("max_calls") \notin Refusals(f)
<1>1. \A k, d, f : DOMAIN Refusal(k, d, f) = {"event", "connector", "seed"}
  BY DEF Refusal
<1>2. \A reason : DOMAIN BudgetStop(reason) = {"event", "reason"}
  BY DEF BudgetStop
<1>3. \A d, f : Query(d, f).event = "query" /\ DOMAIN Query(d, f) = {"event", "connector", "seed"}
  BY DEF Query
<1>4. \A k, d, f : Refusal(k, d, f).event = k /\ Refusal(k, d, f).connector = d
                   /\ Refusal(k, d, f).seed = f
  BY DEF Refusal
<1>5. {"event", "connector", "seed"} # {"event", "reason"}
  OBVIOUS
<1>6. \A d \in Connector, f \in Entity : Query(d, f) # Refusal(kind, c, e)
  BY <1>3, <1>4 DEF RefusalKind
<1>7. /\ \A d \in Connector, f \in Entity : Query(d, f) # BudgetStop("max_calls")
      /\ \A reason : BudgetStop(reason) # Refusal(kind, c, e)
  BY <1>1, <1>2, <1>3, <1>5
<1>8. BudgetStop("max_seeds") # BudgetStop("max_calls")
  <2>1. BudgetStop("max_seeds").reason # BudgetStop("max_calls").reason
    BY DEF BudgetStop
  <2> QED
    BY <2>1
<1>9. ASSUME NEW f \in Entity
      PROVE  Refusal(kind, c, e) \in Refusals(f) <=> e = f /\ RefusedAs(kind, c, f)
  BY <1>4 DEF Refusals, RefusedAs, RefusalKind, Eligible
<1>10. ASSUME NEW f \in Entity PROVE BudgetStop("max_calls") \notin Refusals(f)
  <2>1. \A x \in Refusals(f) : DOMAIN x = {"event", "connector", "seed"}
    BY <1>1 DEF Refusals
  <2> QED
    BY <1>2, <1>5, <2>1
<1> QED
  BY <1>6, <1>7, <1>8, <1>9, <1>10

\* What an entry that is neither a refusal nor a call budget stop leaves alone.
LEMMA OtherEntries ==
    ASSUME GateInv, NEW entries,
           \A x \in entries : \/ x = BudgetStop("max_seeds")
                              \/ \E d \in Connector, f \in Entity : x = Query(d, f)
    PROVE  /\ BudgetStop("max_calls") \in audit \cup entries => BudgetStop("max_calls") \in audit
           /\ \A kind \in RefusalKind, c \in Connector, e \in Entity :
                Refusal(kind, c, e) \in audit \cup entries <=> Refusal(kind, c, e) \in audit
<1>1. \A kind \in RefusalKind, c \in Connector, e \in Entity : Refusal(kind, c, e) \notin entries
  BY EntriesDiffer
<1>2. BudgetStop("max_calls") \notin entries
  <2>1. BudgetStop("max_seeds") # BudgetStop("max_calls")
    <3>1. BudgetStop("max_seeds").reason # BudgetStop("max_calls").reason
      BY DEF BudgetStop
    <3> QED
      BY <3>1
  <2>2. \A d \in Connector, f \in Entity : Query(d, f) # BudgetStop("max_calls")
    BY EntriesDiffer DEF RefusalKind
  <2> QED
    BY <2>1, <2>2
<1> QED
  BY <1>1, <1>2

LEMMA GateInvInit == Init => GateInv
BY DEF Init, GateInv

\* The seed taken is new, its refusals are logged with it, and whatever is logged later
\* is of another kind or about another seed.
LEMMA GateInvStep == TypeOK /\ ScopeInv /\ GateInv /\ [Next]_vars => GateInv'
<1> SUFFICES ASSUME TypeOK, ScopeInv, GateInv, [Next]_vars PROVE GateInv'
  OBVIOUS
<1>1. ASSUME visited' = visited, dispatched' = dispatched, current' = current,
             NEW entries, audit' = audit \cup entries,
             \A x \in entries : \/ x = BudgetStop("max_seeds")
                                \/ \E d \in Connector, f \in Entity : x = Query(d, f),
             status = "done" => status' = "done"
      PROVE  GateInv'
  <2>1. /\ BudgetStop("max_calls") \in audit' <=> BudgetStop("max_calls") \in audit
        /\ \A kind \in RefusalKind, c \in Connector, e \in Entity :
              Refusal(kind, c, e) \in audit' <=> Refusal(kind, c, e) \in audit
    BY <1>1, OtherEntries
  <2> QED
    BY <1>1, <2>1 DEF GateInv
<1>2. CASE LeaveLoop
  <2>1. PICK entries \in SUBSET {BudgetStop("max_seeds")} : audit' = audit \cup entries
    BY <1>2 DEF LeaveLoop, Return
  <2>2. visited' = visited /\ dispatched' = dispatched /\ current' = current /\ status' = "done"
    BY <1>2 DEF LeaveLoop, Return, history
  <2> QED
    BY <1>1, <2>1, <2>2
<1>3. CASE SkipVisited \/ Gathered
  <2>1. /\ visited' = visited /\ dispatched' = dispatched /\ current' = current
        /\ audit' = audit /\ status # "done"
    BY <1>3 DEF SkipVisited, Gathered, LoopCondition, history
  <2> QED
    BY <2>1 DEF GateInv
<1>4. ASSUME LoopCondition, Take(Head(frontier).id), NEW log,
             log \in {audit \cup Refusals(Head(frontier).id),
                      audit \cup Refusals(Head(frontier).id) \cup {BudgetStop("max_calls")}}
      PROVE  /\ Head(frontier).id \in Entity \ visited
             /\ visited' = visited \cup {Head(frontier).id}
             /\ current'.id = Head(frontier).id
             /\ BudgetStop("max_calls") \notin audit
             /\ \A kind \in RefusalKind, c \in Connector, e \in Entity :
                   Refusal(kind, c, e) \in log <=> e \in visited' /\ RefusedAs(kind, c, e)
  <2>1. Head(frontier).id \in Entity
    <3>1. frontier \in Seq(Items) /\ frontier # <<>>
      BY <1>4 DEF LoopCondition, TypeOK, Items
    <3>2. Head(frontier) \in Items
      BY <3>1, HeadTailProperties
    <3> QED
      BY <3>2 DEF Items
  <2>2. /\ Head(frontier).id \notin visited /\ visited' = visited \cup {Head(frontier).id}
        /\ current'.id = Head(frontier).id
    BY <1>4 DEF Take, AlreadyVisited
  <2>3. BudgetStop("max_calls") \notin audit
    BY <1>4 DEF LoopCondition, GateInv
  <2>4. ASSUME NEW kind \in RefusalKind, NEW c \in Connector, NEW e \in Entity
        PROVE  Refusal(kind, c, e) \in log <=> e \in visited' /\ RefusedAs(kind, c, e)
    <3>1. BudgetStop("max_calls") # Refusal(kind, c, e)
      BY EntriesDiffer
    <3>2. Refusal(kind, c, e) \in log
            <=> Refusal(kind, c, e) \in audit \/ Refusal(kind, c, e) \in Refusals(Head(frontier).id)
      BY <1>4, <3>1
    <3>3. Refusal(kind, c, e) \in Refusals(Head(frontier).id)
            <=> e = Head(frontier).id /\ RefusedAs(kind, c, e)
      BY <2>1, EntriesDiffer
    <3> QED
      BY <2>2, <3>2, <3>3 DEF GateInv
  <2> QED
    BY <2>1, <2>2, <2>3, <2>4
<1>5. CASE Dispatch
  <2> DEFINE s == Head(frontier).id
  <2>1. /\ LoopCondition /\ Take(s) /\ audit' = audit \cup Refusals(s)
        /\ dispatched' = dispatched \cup {<<c, s>> : c \in Permitted(s)}
    BY <1>5 DEF Dispatch
  <2>2. /\ s \in Entity \ visited /\ visited' = visited \cup {s}
        /\ BudgetStop("max_calls") \notin audit
        /\ \A kind \in RefusalKind, c \in Connector, e \in Entity :
              Refusal(kind, c, e) \in audit' <=> e \in visited' /\ RefusedAs(kind, c, e)
    BY <1>4, <2>1
  <2>3. BudgetStop("max_calls") \notin audit'
    <3>1. BudgetStop("max_calls") \notin Refusals(s)
      <4>1. \A x \in Refusals(s) : DOMAIN x = {"event", "connector", "seed"}
        BY DEF Refusals, Refusal
      <4>2. DOMAIN BudgetStop("max_calls") = {"event", "reason"}
        BY DEF BudgetStop
      <4> QED
        BY <4>1, <4>2
    <3> QED
      BY <2>1, <2>2, <3>1
  <2> HIDE DEF s
  <2>4. \A p \in dispatched' : p[2] \in visited' /\ p[1] \in Permitted(p[2])
    BY <2>1, <2>2 DEF GateInv
  <2>5. \A e \in visited' : \A c \in Permitted(e) : <<c, e>> \in dispatched'
    BY <2>1, <2>2 DEF GateInv
  <2> QED
    BY <2>2, <2>3, <2>4, <2>5 DEF GateInv
<1>6. CASE StopOnCalls
  <2> DEFINE s == Head(frontier).id
             log == audit \cup Refusals(s) \cup {BudgetStop("max_calls")}
  <2>1. /\ LoopCondition /\ Take(s) /\ dispatched' = dispatched /\ status' = "done"
        /\ Return(frontier', seedsProcessed', log)
    BY <1>6 DEF StopOnCalls, Return
  <2>2. /\ s \in Entity \ visited /\ visited' = visited \cup {s} /\ current'.id = s
        /\ BudgetStop("max_calls") \notin audit
        /\ \A kind \in RefusalKind, c \in Connector, e \in Entity :
              Refusal(kind, c, e) \in log <=> e \in visited' /\ RefusedAs(kind, c, e)
    BY <1>4, <2>1
  <2>3. audit' = log \/ audit' = log \cup {BudgetStop("max_seeds")}
    BY <2>1 DEF Return
  <2>4. \A kind \in RefusalKind, c \in Connector, e \in Entity :
           BudgetStop("max_seeds") # Refusal(kind, c, e)
    BY EntriesDiffer
  <2>5. BudgetStop("max_calls") \in audit'
    BY <2>3
  <2>6. \A kind \in RefusalKind, c \in Connector, e \in Entity :
              Refusal(kind, c, e) \in audit' <=> e \in visited' /\ RefusedAs(kind, c, e)
    <3> HIDE DEF log, s
    <3> QED
      BY <2>2, <2>3, <2>4
  <2> HIDE DEF log, s
  <2>7. \A e \in visited' : \A c \in Permitted(e) : <<c, e>> \in dispatched' \/ e = current'.id
    BY <2>1, <2>2 DEF GateInv
  <2>8. \A p \in dispatched' : p[2] \in visited' /\ p[1] \in Permitted(p[2])
    BY <2>1, <2>2 DEF GateInv
  <2> QED
    BY <2>1, <2>5, <2>6, <2>7, <2>8 DEF GateInv
<1>7. ASSUME NEW c \in Connector, TaskStep(c)
      PROVE  GateInv'
  <2>1. visited' = visited /\ dispatched' = dispatched /\ current' = current
    BY <1>7 DEF TaskStep, Ask, Page, Answer, Raise, Cancel, history
  <2>2. status # "done"
    BY <1>7 DEF TaskStep, Ask, Page, Answer, Raise, Cancel, ScopeInv, Live
  <2>3. PICK entries \in SUBSET {Query(c, current.id)} : audit' = audit \cup entries
    <3>1. audit' = audit \/ audit' = audit \cup {Query(c, current.id)}
      BY <1>7 DEF TaskStep, Ask, Page, Answer, Raise, Cancel, history
    <3>2. {} \in SUBSET {Query(c, current.id)} /\ audit \cup {} = audit
      OBVIOUS
    <3> QED
      BY <3>1, <3>2
  <2>4. current.id \in Entity
    BY DEF TypeOK
  <2> QED
    BY <1>1, <2>1, <2>2, <2>3, <2>4
<1>8. CASE UNCHANGED vars
  BY <1>8 DEF vars, GateInv
<1> QED
  BY <1>2, <1>3, <1>5, <1>6, <1>7, <1>8 DEF Next, LoopStep, Ended

LEMMA GateInvMeansLogged == TypeOK /\ GateInv => DispatchedOrRefused
<1> SUFFICES ASSUME TypeOK, GateInv, NEW e \in visited, NEW c \in Eligible(e), ~SkipsDns(c)
             PROVE  LET refused ==
                            \/ Refusal("exposure_connector_refused", c, e) \in audit
                            \/ Refusal("active_connector_refused", c, e) \in audit
                    IN \/ (<<c, e>> \in dispatched) # refused
                       \/ BudgetStop("max_calls") \in audit /\ e = current.id
  BY DEF DispatchedOrRefused
<1>1. e \in Entity /\ c \in Connector
  BY DEF TypeOK, Eligible
<1>2. /\ Refusal("exposure_connector_refused", c, e) \in audit <=> ExposureRefused(c, e)
      /\ Refusal("active_connector_refused", c, e) \in audit <=> ActiveRefused(c, e)
  BY <1>1 DEF GateInv, RefusalKind, RefusedAs
<1>3. c \in Permitted(e) <=> ~ExposureRefused(c, e) /\ ~ActiveRefused(c, e)
  BY DEF Permitted
<1>4. <<c, e>> \in dispatched => c \in Permitted(e)
  BY DEF GateInv
<1>5. c \in Permitted(e) =>
          <<c, e>> \in dispatched \/ (BudgetStop("max_calls") \in audit /\ e = current.id)
  BY DEF GateInv
<1> QED
  BY <1>2, <1>3, <1>4, <1>5

\* Each connector that accepts a processed seed was dispatched on it or its refusal is in
\* the log, never both, for every registry, authorization and world; the seed at which
\* the call budget ran out excepted (engine.py:147-204).
THEOREM NothingSkippedSilently == Spec => []DispatchedOrRefused
<1>1. Init => TypeOK /\ ScopeInv /\ GateInv
  BY TypeOKInit, ScopeInvInit, GateInvInit
<1>2. TypeOK /\ ScopeInv /\ GateInv /\ [Next]_vars => (TypeOK /\ ScopeInv /\ GateInv)'
  BY TypeOKStep, ScopeInvStep, GateInvStep
<1> QED
  BY <1>1, <1>2, GateInvMeansLogged, PTL DEF Spec

-----------------------------------------------------------------------------
(* The engine takes only the steps of a crawl (PivotCrawl).  The deque     *)
(* holds nothing but leads, a seed is processed once and counted once, and *)
(* what a gather has found has been learned about the seed under way.      *)

CrawlInv ==
    /\ \A e \in Entity : e \in visited <=> \E r \in reached : r.id = e
    /\ IsFiniteSet(reached) /\ Cardinality(reached) = seedsProcessed
    /\ \A x \in Range(frontier) : x \in Offers
    /\ status \in {"gather", "raised"} => current \in reached
    /\ status = "loop" => \A c \in Connector : found[c] = {}
    /\ status = "gather" => \A c \in Connector : \A e \in found[c] : <<current, e>> \in answers

LEMMA CrawlInvInit == Init => CrawlInv
<1> SUFFICES ASSUME Init PROVE CrawlInv
  OBVIOUS
<1>1. visited = {} /\ reached = {} /\ seedsProcessed = 0 /\ status = "loop"
      /\ \A c \in Connector : found[c] = {}
  BY DEF Init
<1>2. Range(frontier) = {Item(root, 0)}
  BY DEF Init, Range
<1>3. Item(root, 0) \in Offers
  BY DEF Offers
<1>4. IsFiniteSet(reached) /\ Cardinality(reached) = 0
  BY <1>1, FS_EmptySet
<1> QED
  BY <1>1, <1>2, <1>3, <1>4 DEF CrawlInv

\* A seed taken is a lead that was not pursued before.
LEMMA TakenOnce ==
    ASSUME TypeOK, CrawlInv, LoopCondition, Take(Head(frontier).id)
    PROVE  /\ Head(frontier) \in Offers
           /\ Range(frontier') \subseteq Range(frontier)
           /\ reached' = reached \cup {Head(frontier)}
           /\ \A r \in reached : r.id # Head(frontier).id
           /\ IsFiniteSet(reached') /\ Cardinality(reached') = seedsProcessed'
           /\ seedsProcessed' <= MaxSeeds
           /\ Cardinality(reached) < MaxSeeds
           /\ \A e \in Entity : e \in visited' <=> \E r \in reached' : r.id = e
<1> DEFINE h == Head(frontier)
<1>1. frontier \in Seq(Items) /\ frontier # <<>> /\ seedsProcessed < MaxSeeds
  BY DEF LoopCondition, TypeOK, Items
<1>2. h \in Range(frontier) /\ Range(frontier) = {h} \cup Range(Tail(frontier))
  BY <1>1, TailHolds
<1>3. h \in Items
  BY <1>1, HeadTailProperties
<1>4. /\ frontier' = Tail(frontier) /\ reached' = reached \cup {h}
      /\ visited' = visited \cup {h.id} /\ h.id \notin visited
      /\ seedsProcessed' = seedsProcessed + 1
  BY DEF Take, AlreadyVisited
<1>5. h \in Offers
  BY <1>2 DEF CrawlInv
<1>6. h.id \in Entity
  BY <1>3 DEF Items
<1> HIDE DEF h
<1>7. \A r \in reached : r.id # h.id
  BY <1>4, <1>6 DEF CrawlInv
<1>8. IsFiniteSet(reached') /\ Cardinality(reached') = Cardinality(reached) + 1
  BY <1>4, <1>7, FS_AddElement DEF CrawlInv
<1>9. Cardinality(reached) = seedsProcessed /\ seedsProcessed \in Nat
  BY DEF CrawlInv, TypeOK
<1>10. \A e \in Entity : e \in visited' <=> \E r \in reached' : r.id = e
  BY <1>4 DEF CrawlInv
<1>11. /\ Cardinality(reached') = seedsProcessed' /\ seedsProcessed' <= MaxSeeds
       /\ Cardinality(reached) < MaxSeeds
  BY <1>1, <1>4, <1>8, <1>9, BudgetAssumption
<1>12. Range(frontier') \subseteq Range(frontier)
  BY <1>2, <1>4
<1> QED
  BY <1>4, <1>5, <1>7, <1>8, <1>10, <1>11, <1>12 DEF h

\* What the gather found is offered when it is put on the deque.
LEMMA GatheredAreOffers ==
    ASSUME TypeOK, CrawlInv, Gathered
    PROVE  \A x \in Range(frontier') : x \in Offers
<1>1. frontier' = Extended /\ status = "gather"
  BY DEF Gathered
<1>2. ASSUME NEW x \in Range(Extended)
      PROVE  x \in Offers
  <2>1. CASE x \in Range(frontier)
    BY <2>1 DEF CrawlInv
  <2>2. CASE x \notin Range(frontier)
    <3>1. PICK p \in Enqueueable : x = Item(p[2], current.depth + 1) /\ current.depth < MaxDepth
      BY <2>2, ExtendedHolds DEF Extended
    <3>2. p[1] \in Connector /\ p[2] \in found[p[1]] /\ CanEnqueue(p[2], current.id)
      BY <3>1 DEF Enqueueable, Discovered
    <3>3. <<current, p[2]>> \in answers
      BY <1>1, <3>2 DEF CrawlInv
    <3>4. <<current, p[2]>>[1] = current /\ <<current, p[2]>>[2] = p[2]
      OBVIOUS
    <3> QED
      BY <3>1, <3>2, <3>3, <3>4 DEF Offers
  <2> QED
    BY <2>1, <2>2
<1> QED
  BY <1>1, <1>2

LEMMA CrawlInvStep == TypeOK /\ ScopeInv /\ CrawlInv /\ [Next]_vars => CrawlInv'
<1> SUFFICES ASSUME TypeOK, ScopeInv, CrawlInv, [Next]_vars PROVE CrawlInv'
  OBVIOUS
<1>0. ASSUME root' = root, answers' = answers
      PROVE  Offers' = Offers
  BY <1>0 DEF Offers
<1>1. CASE LeaveLoop
  <2>1. Offers' = Offers
    BY <1>0, <1>1 DEF LeaveLoop, history
  <2> QED
    BY <1>1, <2>1 DEF LeaveLoop, Return, CrawlInv, budget, history
<1>2. CASE SkipVisited
  <2>1. Offers' = Offers
    BY <1>0, <1>2 DEF SkipVisited, history
  <2>2. Range(frontier') \subseteq Range(frontier)
    <3>1. frontier \in Seq(Items) /\ frontier # <<>>
      BY <1>2 DEF SkipVisited, LoopCondition, TypeOK, Items
    <3> QED
      BY <1>2, <3>1, TailHolds DEF SkipVisited
  <2> QED
    BY <1>2, <2>1, <2>2 DEF SkipVisited, CrawlInv, budget, history
<1>3. CASE Dispatch
  <2>1. Offers' = Offers /\ LoopCondition /\ Take(Head(frontier).id)
    BY <1>0, <1>3 DEF Dispatch
  <2>2. status = "loop" /\ status' = "gather" /\ found' = found /\ current' = Head(frontier)
    BY <1>3 DEF Dispatch, LoopCondition, Take
  <2> QED
    BY <2>1, <2>2, TakenOnce DEF CrawlInv
<1>4. CASE StopOnCalls
  <2>1. Offers' = Offers /\ LoopCondition /\ Take(Head(frontier).id)
    BY <1>0, <1>4 DEF StopOnCalls
  <2>2. status' = "done"
    BY <1>4 DEF StopOnCalls, Return
  <2> QED
    BY <2>1, <2>2, TakenOnce DEF CrawlInv
<1>5. CASE Gathered
  <2>1. Offers' = Offers
    BY <1>0, <1>5 DEF Gathered, history
  <2>2. \A x \in Range(frontier') : x \in Offers
    BY <1>5, GatheredAreOffers
  <2>3. status' = "loop" /\ \A c \in Connector : found'[c] = {}
    BY <1>5 DEF Gathered
  <2> QED
    BY <1>5, <2>1, <2>2, <2>3 DEF Gathered, CrawlInv, history
<1>6. ASSUME NEW c \in Connector, TaskStep(c)
      PROVE  CrawlInv'
  <2>1. CASE Ask(c) \/ Cancel(c)
    <3>1. Offers' = Offers
      BY <1>0, <2>1 DEF Ask, Cancel, history
    <3> QED
      BY <2>1, <3>1 DEF Ask, Cancel, CrawlInv, budget, history
  <2>2. ASSUME NEW batch \in SUBSET World[c][current.id],
               Page(c, batch) \/ Answer(c, batch) \/ Raise(c, batch)
        PROVE  CrawlInv'
    <3>1. /\ status \in {"gather", "raised"} /\ status' \in {status, "raised"}
          /\ visited' = visited /\ frontier' = frontier /\ current' = current /\ root' = root
          /\ reached' = reached /\ seedsProcessed' = seedsProcessed
          /\ Record(c, batch)
      BY <2>2 DEF Page, Answer, Raise, ScopeInv, Live, budget
    <3>2. Offers \subseteq Offers'
      BY <3>1 DEF Record, Offers
    <3>3. ASSUME status' = "gather", NEW d \in Connector, NEW e \in found'[d]
          PROVE  <<current, e>> \in answers'
      <4>1. e \in found[d] \/ e \in batch
        BY <3>1, <3>3 DEF Record, TypeOK
      <4> QED
        BY <3>1, <3>3, <4>1 DEF Record, CrawlInv
    <3> QED
      BY <3>1, <3>2, <3>3 DEF CrawlInv
  <2> QED
    BY <1>6, <2>1, <2>2 DEF TaskStep
<1>7. CASE UNCHANGED vars
  BY <1>7 DEF vars, CrawlInv, Offers
<1> QED
  BY <1>1, <1>2, <1>3, <1>4, <1>5, <1>6, <1>7 DEF Next, LoopStep, Ended

\* The crawl counts as the engine does.
LEMMA OneCardinality == \A S : Crawl!Cardinality(S) = Cardinality(S)
BY DEF Crawl!Cardinality, Cardinality

\* What the crawl knows are the leads the reports give (PivotCrawl).
LEMMA KnownAreOffers == TypeOK => Crawl!Known = Offers
<1> SUFFICES ASSUME TypeOK PROVE Crawl!Known = Offers
  OBVIOUS
<1>1. \A b \in answers : b[1].id \in Entity /\ b[2] \in Entity
  BY DEF TypeOK
<1> QED
  BY <1>1 DEF Crawl!Known, Crawl!Lead, Offers, Item

LEMMA FreshLeads ==
    ASSUME TypeOK, CrawlInv
    PROVE  Crawl!Fresh = {o \in Offers : \A r \in reached : r.id # o.id}
BY KnownAreOffers DEF Crawl!Fresh, Crawl!Pursued

LEMMA RepliesToAQuestion ==
    ASSUME TypeOK, NEW c \in Permitted(current.id), NEW batch \in SUBSET World[c][current.id]
    PROVE  batch \in SUBSET
              [s \in Entity |-> UNION {World[k][s] : k \in Permitted(s)}][current.id]
BY DEF TypeOK

\* The outcome of the crawl, by the status of the run.
LEMMA OutcomeOf ==
    /\ status \in {"loop", "gather"} => Outcome = "running"
    /\ status = "raised" => Outcome = "aborted"
    /\ status = "done" =>
          Outcome = IF \E a \in audit : a.event = "budget_stop" THEN "truncated" ELSE "complete"
BY DEF Outcome

\* One step of the loop: a seed taken is a lead pursued; the loop is left when nothing
\* is left to pursue or with a budget stop in the log (engine.py:81-145).
LEMMA LoopStepRefines ==
    ASSUME TypeOK, BudgetInv, CompleteInv, CrawlInv, LoopStep, TypeOK', CrawlInv',
           Outcome' = CASE status' = "raised" -> "aborted"
                        [] status' = "done" ->
                              IF \E a \in audit' : a.event = "budget_stop"
                              THEN "truncated" ELSE "complete"
                        [] OTHER -> "running"
    PROVE  [Crawl!CrawlNext]_(Crawl!crawlVars)
<1>1. CASE LeaveLoop
  <2>1. /\ status = "loop" /\ status' = "done"
        /\ UNCHANGED <<root, reached, answers>>
    BY <1>1 DEF LeaveLoop, Return, history
  <2>2. Outcome = "running"
    BY <2>1, OutcomeOf
  <2>3. CASE \E a \in audit' : a.event = "budget_stop"
    <3>1. Outcome' = "truncated"
      BY <2>1, <2>3
    <3>2. Cardinality(reached') <= MaxSeeds
      BY <2>1 DEF CrawlInv, BudgetInv, BudgetsRespected
    <3>3. reached' = reached \/ \E l \in Crawl!Fresh : reached' = reached \cup {l}
      BY <2>1
    <3>4. Crawl!Truncate
      BY ONLY <2>1, <2>2, <3>1, <3>2, <3>3, OneCardinality DEF Crawl!Truncate
    <3> QED
      BY <3>4 DEF Crawl!CrawlNext
  <2>4. CASE ~\E a \in audit' : a.event = "budget_stop"
    <3>1. Outcome' = "complete"
      BY <2>1, <2>4
    <3>2. frontier = <<>>
      <4> SUFFICES ASSUME frontier # <<>> PROVE FALSE
        OBVIOUS
      <4>1. seedsProcessed >= MaxSeeds
        BY <1>1, BudgetAssumption DEF LeaveLoop, LoopCondition, TypeOK
      <4>2. BudgetStop("max_seeds") \in audit'
        BY <1>1, <4>1 DEF LeaveLoop, Return
      <4>3. BudgetStop("max_seeds").event = "budget_stop"
        BY DEF BudgetStop
      <4> QED
        BY <2>4, <4>2, <4>3
    <3>3. \A o \in Offers : o.id \in visited
      <4>1. Range(frontier) = {}
        BY <3>2 DEF Range
      <4> QED
        BY <2>1, <4>1 DEF CompleteInv, Accounted, Pending
    <3>4. \A o \in Offers : o.id \in Entity
      BY WorldAssumption DEF Offers, TypeOK, Item
    <3>5. Crawl!Fresh = {}
      BY <3>3, <3>4, FreshLeads DEF CrawlInv
    <3> QED
      BY <2>1, <2>2, <3>1, <3>5 DEF Crawl!CrawlNext, Crawl!Complete
  <2> QED
    BY <2>3, <2>4
<1>2. CASE SkipVisited \/ Gathered
  <2>1. status \in {"loop", "gather"} /\ status' = "loop" /\ UNCHANGED <<root, reached, answers>>
    BY <1>2 DEF SkipVisited, Gathered, LoopCondition, history
  <2>2. Outcome = "running" /\ Outcome' = "running"
    BY <2>1, OutcomeOf
  <2> QED
    BY <2>1, <2>2 DEF Crawl!crawlVars
<1>3. CASE Dispatch
  <2>1. /\ LoopCondition /\ Take(Head(frontier).id)
        /\ status = "loop" /\ status' = "gather" /\ UNCHANGED <<root, answers>>
    BY <1>3 DEF Dispatch, LoopCondition
  <2>2. Outcome = "running" /\ Outcome' = "running"
    BY <2>1, OutcomeOf
  <2>3. /\ Head(frontier) \in Crawl!Fresh
        /\ reached' = reached \cup {Head(frontier)}
        /\ Cardinality(reached) < MaxSeeds
    BY <2>1, TakenOnce, FreshLeads
  <2>4. \E l \in Crawl!Fresh : reached' = reached \cup {l}
    BY <2>3
  <2>5. Crawl!Pursue
    BY ONLY <2>1, <2>2, <2>3, <2>4, OneCardinality DEF Crawl!Pursue
  <2> QED
    BY <2>5 DEF Crawl!CrawlNext
<1>4. CASE StopOnCalls
  <2>1. /\ LoopCondition /\ Take(Head(frontier).id)
        /\ status = "loop" /\ status' = "done" /\ UNCHANGED <<root, answers>>
        /\ BudgetStop("max_calls") \in audit'
    BY <1>4 DEF StopOnCalls, LoopCondition, Return
  <2>2. Outcome = "running" /\ Outcome' = "truncated"
    <3>1. BudgetStop("max_calls").event = "budget_stop"
      BY DEF BudgetStop
    <3> QED
      BY <2>1, <3>1, OutcomeOf
  <2>3. /\ Head(frontier) \in Crawl!Fresh
        /\ reached' = reached \cup {Head(frontier)}
        /\ Cardinality(reached') <= MaxSeeds
    BY <2>1, TakenOnce, FreshLeads
  <2>4. reached' = reached \/ \E l \in Crawl!Fresh : reached' = reached \cup {l}
    BY <2>3
  <2>5. Crawl!Truncate
    BY ONLY <2>1, <2>2, <2>3, <2>4, OneCardinality DEF Crawl!Truncate
  <2> QED
    BY <2>5 DEF Crawl!CrawlNext
<1> QED
  BY <1>1, <1>2, <1>3, <1>4 DEF LoopStep

\* One step of a task: an answer teaches only what may be learned about a lead already
\* pursued, also after another task has raised (engine.py:218-239).
LEMMA TaskStepRefines ==
    ASSUME TypeOK, ScopeInv, CrawlInv, NEW c \in Connector, TaskStep(c),
           Outcome' = CASE status' = "raised" -> "aborted"
                        [] status' = "done" ->
                              IF \E a \in audit' : a.event = "budget_stop"
                              THEN "truncated" ELSE "complete"
                        [] OTHER -> "running"
    PROVE  [Crawl!CrawlNext]_(Crawl!crawlVars)
<1>1. CASE Ask(c) \/ Cancel(c)
  <2>1. status \in {"gather", "raised"} /\ status' = status /\ UNCHANGED <<root, reached, answers>>
    BY <1>1 DEF Ask, Cancel, ScopeInv, Live, history
  <2>2. Outcome' = Outcome
    BY <2>1, OutcomeOf
  <2> QED
    BY <2>1, <2>2 DEF Crawl!crawlVars
<1>2. ASSUME NEW batch \in SUBSET World[c][current.id],
             Page(c, batch) \/ Answer(c, batch) \/ Raise(c, batch)
      PROVE  [Crawl!CrawlNext]_(Crawl!crawlVars)
  <2>1. /\ task[c] = "waiting"
        /\ status' = status \/ status' = "raised"
        /\ root' = root /\ reached' = reached
        /\ answers' = answers \cup {<<current, e>> : e \in batch}
    BY <1>2 DEF Page, Answer, Raise, Record
  <2>2. status \in {"gather", "raised"} /\ c \in Permitted(current.id)
    BY <2>1 DEF ScopeInv, Live
  <2>3. current \in reached
    BY <2>2 DEF CrawlInv
  <2>4. batch \in SUBSET
              [s \in Entity |-> UNION {World[k][s] : k \in Permitted(s)}][current.id]
    BY <2>2, RepliesToAQuestion
  <2>5. Outcome \in {"running", "aborted"}
    BY <2>2, OutcomeOf
  <2>6. CASE status' = status
    <3>1. Outcome' = Outcome
      BY <2>2, <2>6, OutcomeOf
    <3>2. Crawl!Learn
      BY <2>1, <2>3, <2>4, <2>5, <3>1 DEF Crawl!Learn
    <3> QED
      BY <3>2 DEF Crawl!CrawlNext
  <2>7. CASE status' = "raised"
    <3>1. Outcome' = "aborted"
      BY <2>7
    <3>2. Crawl!Abort
      BY <2>1, <2>3, <2>4, <2>5, <3>1 DEF Crawl!Abort
    <3> QED
      BY <3>2 DEF Crawl!CrawlNext
  <2> QED
    BY <2>1, <2>6, <2>7
<1> QED
  BY <1>1, <1>2 DEF TaskStep

LEMMA StepRefines ==
    TypeOK /\ TypeOK' /\ ScopeInv /\ BudgetInv /\ CompleteInv /\ CrawlInv /\ CrawlInv' /\ [Next]_vars
        => [Crawl!CrawlNext]_(Crawl!crawlVars)
<1> SUFFICES ASSUME TypeOK, TypeOK', ScopeInv, BudgetInv, CompleteInv, CrawlInv, CrawlInv',
                    [Next]_vars
             PROVE  [Crawl!CrawlNext]_(Crawl!crawlVars)
  OBVIOUS
<1>1. Outcome' = CASE status' = "raised" -> "aborted"
                   [] status' = "done" ->
                         IF \E a \in audit' : a.event = "budget_stop"
                         THEN "truncated" ELSE "complete"
                   [] OTHER -> "running"
  BY DEF Outcome
<1>2. CASE LoopStep
  BY <1>1, <1>2, LoopStepRefines
<1>3. ASSUME NEW c \in Connector, TaskStep(c)
      PROVE  [Crawl!CrawlNext]_(Crawl!crawlVars)
  BY <1>1, <1>3, TaskStepRefines
<1>4. CASE UNCHANGED vars
  <2>1. UNCHANGED <<root, reached, answers, status, audit>>
    BY <1>4 DEF vars
  <2>2. Outcome' = Outcome
    BY <1>1, <2>1 DEF Outcome
  <2> QED
    BY <2>1, <2>2 DEF Crawl!crawlVars
<1> QED
  BY <1>2, <1>3, <1>4 DEF Next, Ended

\* Every step of the engine, whatever the interleaving of its tasks and however it ends,
\* is a step of the crawl or changes nothing of it: no lead is pursued twice, off the
\* policy or at a depth it was not reported at, nothing is learned that the gate forbids
\* asking, and a run that ends without a budget stop has pursued every lead
\* (engine.py:60-239).
THEOREM EngineTakesCrawlSteps == Spec => Crawl!CrawlSteps
<1> DEFINE Inv == TypeOK /\ ScopeInv /\ BudgetInv /\ CompleteInv /\ CrawlInv
<1>1. Init => Inv
  BY TypeOKInit, ScopeInvInit, BudgetInvInit, CompleteInvInit, CrawlInvInit
<1>2. Inv /\ [Next]_vars => Inv'
  BY TypeOKStep, ScopeInvStep, BudgetInvStep, CompleteInvStep, CrawlInvStep
<1>3. Init => Crawl!CrawlInit
  BY DEF Init, Outcome, Crawl!CrawlInit
<1>4. Inv /\ Inv' /\ [Next]_vars => [Crawl!CrawlNext]_(Crawl!crawlVars)
  BY StepRefines
<1> HIDE DEF Inv
<1> QED
  BY <1>1, <1>2, <1>3, <1>4, PTL DEF Spec, Crawl!CrawlSteps

-----------------------------------------------------------------------------
(* What is known about the answers: where they come from, and that a seed  *)
(* is asked about at one depth only.                                       *)

Sourced(a) ==
    /\ a[1] \in reached
    /\ \E c \in Permitted(a[1].id) : a[2] \in World[c][a[1].id]

AnswersInv ==
    /\ \A a \in answers : Sourced(a)
    /\ store = {a[2] : a \in answers}
    /\ reached \subseteq Offers
    /\ \A r, q \in reached : r.id = q.id => r = q

LEMMA AnswersInvInit == Init => AnswersInv
BY DEF Init, AnswersInv

\* An answer is about the seed under way, by a connector the gate let through.
LEMMA AnswersInvStep == TypeOK /\ ScopeInv /\ CrawlInv /\ AnswersInv /\ [Next]_vars => AnswersInv'
<1> SUFFICES ASSUME TypeOK, ScopeInv, CrawlInv, AnswersInv, [Next]_vars PROVE AnswersInv'
  OBVIOUS
<1>1. ASSUME root' = root, answers' = answers, store' = store, reached' = reached
      PROVE  AnswersInv'
  BY <1>1 DEF AnswersInv, Sourced, Offers
<1>2. CASE LeaveLoop \/ SkipVisited \/ Gathered
  BY <1>1, <1>2 DEF LeaveLoop, SkipVisited, Gathered, history
<1>3. CASE Dispatch \/ StopOnCalls
  <2>1. /\ LoopCondition /\ Take(Head(frontier).id)
        /\ root' = root /\ answers' = answers /\ store' = store
    BY <1>3 DEF Dispatch, StopOnCalls
  <2>2. /\ Head(frontier) \in Offers /\ reached' = reached \cup {Head(frontier)}
        /\ \A r \in reached : r.id # Head(frontier).id
    BY <2>1, TakenOnce
  <2>3. Offers' = Offers
    BY <2>1 DEF Offers
  <2> QED
    BY <2>1, <2>2, <2>3 DEF AnswersInv, Sourced
<1>4. ASSUME NEW c \in Connector, TaskStep(c)
      PROVE  AnswersInv'
  <2>1. CASE Ask(c) \/ Cancel(c)
    BY <1>1, <2>1 DEF Ask, Cancel, history
  <2>2. ASSUME NEW batch \in SUBSET World[c][current.id],
               Page(c, batch) \/ Answer(c, batch) \/ Raise(c, batch)
        PROVE  AnswersInv'
    <3>1. /\ current \in reached /\ c \in Permitted(current.id)
          /\ root' = root /\ reached' = reached /\ Record(c, batch)
      BY <2>2 DEF Page, Answer, Raise, ScopeInv, Live, CrawlInv
    <3>2. \A a \in answers' : a \in answers \/ \E e \in batch : a = <<current, e>>
      BY <3>1 DEF Record
    <3>3. \A a \in answers' : Sourced(a)'
      BY <3>1, <3>2 DEF AnswersInv, Sourced
    <3>4. store' = {a[2] : a \in answers'}
      <4>1. ASSUME NEW e \in store' PROVE \E a \in answers' : e = a[2]
        <5>1. CASE e \in store
          BY <3>1, <5>1 DEF Record, AnswersInv
        <5>2. CASE e \in batch
          <6>1. <<current, e>> \in answers' /\ <<current, e>>[2] = e
            BY <3>1, <5>2 DEF Record
          <6> QED
            BY <6>1
        <5> QED
          BY <3>1, <5>1, <5>2 DEF Record
      <4>2. ASSUME NEW a \in answers' PROVE a[2] \in store'
        BY <3>1, <3>2 DEF Record, AnswersInv
      <4> QED
        BY <4>1, <4>2
    <3>5. reached' \subseteq Offers'
      BY <3>1 DEF Record, Offers, AnswersInv
    <3> QED
      BY <3>1, <3>3, <3>4, <3>5 DEF AnswersInv
  <2> QED
    BY <1>4, <2>1, <2>2 DEF TaskStep
<1>5. CASE UNCHANGED vars
  BY <1>1, <1>5 DEF vars
<1> QED
  BY <1>2, <1>3, <1>4, <1>5 DEF Next, LoopStep, Ended

-----------------------------------------------------------------------------
(* Breadth first.  An address stands on the rung of the name it was found  *)
(* through, and what it leads to one rung above it: on rungs, the deque is *)
(* the queue of a breadth-first search although addresses jump the queue.  *)

Rung(x) == IF TypeOf[x.id] \in {"IPAddress", "Vulnerability"} THEN x.depth - 1 ELSE x.depth

Climbs(s) == \A i, j \in 1..Len(s) : i < j => Rung(s[i]) <= Rung(s[j])

RungInv ==
    /\ \A x \in Range(frontier) : Rung(x) \in {Rung(current), Rung(current) + 1}
    /\ Climbs(frontier)
    /\ \A r \in reached : Rung(r) <= Rung(current)
    /\ status \in {"loop", "gather"} =>
          \A o \in Offers :
              \/ o.id \in visited
              \/ o \in Range(frontier)
              \/ Pending(o.id) /\ o.depth = current.depth + 1
    /\ ShallowestFirst

LEMMA RungIsAnInteger == \A x \in Items : Rung(x) \in Int
BY DEF Rung, Items

\* A list on one rung climbs.
LEMMA OneRungClimbs ==
    ASSUME NEW s \in Seq(Items), NEW k, \A x \in Range(s) : Rung(x) = k
    PROVE  Climbs(s)
<1>1. \A i \in 1..Len(s) : s[i] \in Items /\ Rung(s[i]) = k
  BY DEF Range
<1>2. \A i \in 1..Len(s) : Rung(s[i]) \in Int
  BY <1>1, RungIsAnInteger
<1> QED
  BY <1>1, <1>2 DEF Climbs

\* Two lists that climb, the second from where the first ends, climb when joined.
LEMMA JoinedClimb ==
    ASSUME NEW s \in Seq(Items), NEW t \in Seq(Items), Climbs(s), Climbs(t),
           \A x \in Range(s), y \in Range(t) : Rung(x) <= Rung(y)
    PROVE  Climbs(s \o t)
<1>1. /\ Len(s) \in Nat /\ Len(t) \in Nat /\ Len(s \o t) = Len(s) + Len(t)
      /\ \A i \in 1..Len(s) : (s \o t)[i] = s[i]
      /\ \A i \in 1..(Len(s) + Len(t)) : i > Len(s) => (s \o t)[i] = t[i - Len(s)]
  BY ConcatProperties, LenProperties
<1>2. /\ \A i \in 1..Len(s) : s[i] \in Range(s)
      /\ \A i \in 1..Len(t) : t[i] \in Range(t)
  BY DEF Range
<1> SUFFICES ASSUME NEW i \in 1..Len(s \o t), NEW j \in 1..Len(s \o t), i < j
             PROVE  Rung((s \o t)[i]) <= Rung((s \o t)[j])
  BY DEF Climbs
<1>3. CASE j <= Len(s)
  <2>1. i \in 1..Len(s) /\ j \in 1..Len(s)
    BY <1>1, <1>3
  <2> QED
    BY <1>1, <2>1 DEF Climbs
<1>4. CASE i <= Len(s) /\ j > Len(s)
  <2>1. i \in 1..Len(s) /\ j - Len(s) \in 1..Len(t)
    BY <1>1, <1>4
  <2> QED
    BY <1>1, <1>2, <1>4, <2>1
<1>5. CASE i > Len(s)
  <2>1. i - Len(s) \in 1..Len(t) /\ j - Len(s) \in 1..Len(t) /\ j > Len(s)
        /\ i - Len(s) < j - Len(s)
    BY <1>1, <1>5
  <2> QED
    BY <1>1, <1>5, <2>1 DEF Climbs
<1> QED
  BY <1>1, <1>3, <1>4, <1>5

\* The rest of a list that climbs does, and its head is on the lowest rung.
LEMMA TailClimbs ==
    ASSUME NEW s \in Seq(Items), s # <<>>, Climbs(s)
    PROVE  /\ Climbs(Tail(s))
           /\ \A x \in Range(s) : Rung(Head(s)) <= Rung(x)
<1>1. /\ Len(s) \in Nat \ {0} /\ DOMAIN s = 1..Len(s) /\ Head(s) = s[1] /\ Head(s) \in Items
  BY EmptySeq, LenProperties, HeadTailProperties
<1>2. /\ Tail(s) \in Seq(Items) /\ Len(Tail(s)) = Len(s) - 1
      /\ \A i \in 1..Len(Tail(s)) : Tail(s)[i] = s[i + 1]
  BY HeadTailProperties
<1>3. ASSUME NEW i \in 1..Len(Tail(s)), NEW j \in 1..Len(Tail(s)), i < j
      PROVE  Rung(Tail(s)[i]) <= Rung(Tail(s)[j])
  <2>1. i + 1 \in 1..Len(s) /\ j + 1 \in 1..Len(s) /\ i + 1 < j + 1
    BY <1>1, <1>2, <1>3
  <2>2. Tail(s)[i] = s[i + 1] /\ Tail(s)[j] = s[j + 1]
    BY <1>2
  <2> QED
    BY <2>1, <2>2 DEF Climbs
<1>4. ASSUME NEW i \in 1..Len(s)
      PROVE  Rung(Head(s)) <= Rung(s[i])
  <2>1. CASE i = 1
    <3>1. Rung(Head(s)) \in Int
      BY <1>1, RungIsAnInteger
    <3> QED
      BY <1>1, <2>1, <3>1
  <2>2. CASE i # 1
    <3>1. 1 \in 1..Len(s) /\ 1 < i
      BY <1>1, <2>2
    <3> QED
      BY <1>1, <3>1 DEF Climbs
  <2> QED
    BY <2>1, <2>2
<1> QED
  BY <1>1, <1>3, <1>4 DEF Climbs, Range

\* Where a report leads: up one rung, unless it is an address found through a name.
LEMMA LeadsClimb ==
    ASSUME ProducedInLayers, NEW e \in Entity, NEW s \in Entity, e # s, CanEnqueue(e, s),
           NEW c \in Permitted(s), e \in World[c][s], NEW d \in Nat
    PROVE  /\ TypeOf[e] = "IPAddress" => Rung(Item(e, d + 1)) = Rung(Item(s, d))
           /\ TypeOf[e] # "IPAddress" => Rung(Item(e, d + 1)) = Rung(Item(s, d)) + 1
<1>1. c \in Connector /\ TypeOf[s] \in Accepts[c]
  BY DEF Permitted, Eligible
<1>2. /\ TypeOf[e] = "IPAddress" => TypeOf[s] = "Domain"
      /\ TypeOf[e] = "Vulnerability" => TypeOf[s] \in {"IPAddress", "Vulnerability"}
  BY <1>1 DEF ProducedInLayers
<1>3. TypeOf[e] \in {"Domain", "IPAddress", "Vulnerability"}
  BY DEF CanEnqueue, PivotEligible
<1>4. TypeOf[e] = "Domain" => TypeOf[s] = "Domain"
  BY UnderAssumption DEF CanEnqueue, PivotEligible, UnderSeed
<1> QED
  BY <1>2, <1>3, <1>4 DEF Rung, Item

LEMMA RungInvInit == Init => RungInv
<1> SUFFICES ASSUME Init PROVE RungInv
  OBVIOUS
<1>1. /\ Range(frontier) = {Item(root, 0)} /\ Len(frontier) = 1 /\ current = Item(root, 0)
      /\ reached = {} /\ answers = {}
  BY DEF Init, Range
<1>2. Offers = {Item(root, 0)}
  BY <1>1 DEF Offers
<1>3. Climbs(frontier)
  BY <1>1 DEF Climbs
<1> QED
  BY <1>1, <1>2, <1>3 DEF RungInv, ShallowestFirst

\* What a gather puts on the deque keeps it in order: addresses on the rung of the name
\* they were found through, on its left, everything else one rung up, on its right.
LEMMA ExtendedClimbs ==
    ASSUME ProducedInLayers, TypeOK, ScopeInv, CrawlInv, AnswersInv, RungInv, status = "gather"
    PROVE  /\ \A x \in Range(Extended) : Rung(x) \in {Rung(current), Rung(current) + 1}
           /\ Climbs(Extended)
<1>1. /\ frontier \in Seq(Items) /\ current \in Items
      /\ current.id \in Entity /\ current.depth \in Nat
      /\ Item(current.id, current.depth) = current
  BY DEF TypeOK, Items, Item
<1>2. Rung(current) \in Int
  BY <1>1, RungIsAnInteger
<1>3. CASE ~(current.depth < MaxDepth)
  BY <1>3 DEF Extended, RungInv
<1>4. CASE current.depth < MaxDepth
  <2> DEFINE d == current.depth + 1
             left == Descending(ToTheLeft, d)
             right == Ascending(Enqueueable \ ToTheLeft, d)
  <2>1. d \in 0..MaxDepth
    BY <1>1, <1>4, BudgetAssumption
  <2>2. ToTheLeft \in SUBSET Discoveries /\ Enqueueable \ ToTheLeft \in SUBSET Discoveries
    BY DEF ToTheLeft, Enqueueable, Discovered, Discoveries
  <2>3. left \in Seq(Items) /\ Range(left) = {Item(p[2], d) : p \in ToTheLeft}
    BY <2>1, <2>2, DescendingLists
  <2>4. right \in Seq(Items) /\ Range(right) = {Item(p[2], d) : p \in Enqueueable \ ToTheLeft}
    BY <2>1, <2>2, AscendingLists
  <2>5. Extended = left \o frontier \o right
    BY <1>4 DEF Extended
  <2>6. ASSUME NEW p \in Enqueueable
        PROVE  /\ TypeOf[p[2]] = "IPAddress" => Rung(Item(p[2], d)) = Rung(current)
               /\ TypeOf[p[2]] # "IPAddress" => Rung(Item(p[2], d)) = Rung(current) + 1
    <3>1. /\ p[1] \in Connector /\ p[2] \in Entity /\ p[2] \in found[p[1]]
          /\ p[2] \notin visited /\ CanEnqueue(p[2], current.id)
      BY DEF Enqueueable, Discovered
    <3>2. <<current, p[2]>> \in answers /\ <<current, p[2]>>[1] = current
          /\ <<current, p[2]>>[2] = p[2]
      BY <3>1 DEF CrawlInv
    <3>3. PICK c \in Permitted(current.id) : p[2] \in World[c][current.id]
      BY <3>2 DEF AnswersInv, Sourced
    <3>4. current.id \in visited
      BY <1>1 DEF CrawlInv
    <3>5. p[2] # current.id
      BY <3>1, <3>4
    <3> QED
      BY <1>1, <3>1, <3>3, <3>5, LeadsClimb
  <2>7. \A x \in Range(left) : Rung(x) = Rung(current)
    BY <2>3, <2>6 DEF ToTheLeft
  <2>8. \A x \in Range(right) : Rung(x) = Rung(current) + 1
    BY <2>4, <2>6 DEF ToTheLeft
  <2> HIDE DEF left, right, d
  <2>9. Climbs(left) /\ Climbs(right)
    BY <2>3, <2>4, <2>7, <2>8, OneRungClimbs
  <2>10. /\ Climbs(frontier)
         /\ \A x \in Range(frontier) : Rung(x) \in {Rung(current), Rung(current) + 1}
    BY DEF RungInv
  <2>11. /\ Climbs(left \o frontier)
         /\ left \o frontier \in Seq(Items)
         /\ Range(left \o frontier) = Range(left) \cup Range(frontier)
    <3>1. \A x \in Range(left), y \in Range(frontier) : Rung(x) <= Rung(y)
      BY <1>2, <2>7, <2>10
    <3> QED
      BY <1>1, <2>3, <2>9, <2>10, <3>1, JoinedClimb, RangeOfConcat
  <2> DEFINE both == left \o frontier
  <2>12. both \in Seq(Items) /\ Climbs(both) /\ Extended = both \o right
         /\ Range(both) = Range(left) \cup Range(frontier)
    BY <2>5, <2>11
  <2> HIDE DEF both
  <2>13. \A x \in Range(both), y \in Range(right) : Rung(x) <= Rung(y)
    BY <1>2, <2>7, <2>8, <2>10, <2>12
  <2>14. Climbs(Extended) /\ Range(Extended) = Range(both) \cup Range(right)
    BY <2>4, <2>9, <2>12, <2>13, JoinedClimb, RangeOfConcat
  <2> QED
    BY <2>7, <2>8, <2>10, <2>12, <2>14
<1> QED
  BY <1>3, <1>4

\* A report about the seed under way offers nothing at a depth above that at which it
\* was pursued: whatever has been pursued stands on no higher rung.
LEMMA OffersComeNoEarlier ==
    ASSUME ProducedInLayers, TypeOK, CrawlInv, AnswersInv, RungInv, status \in {"gather", "raised"},
           NEW c \in Permitted(current.id), NEW e \in World[c][current.id],
           CanEnqueue(e, current.id), NEW r \in reached, r.id = e
    PROVE  r.depth <= current.depth + 1
<1>1. /\ current \in reached /\ current \in Items /\ r \in Items
      /\ current.id \in Entity /\ current.depth \in Nat /\ e \in Entity /\ r.depth \in Nat
      /\ Item(current.id, current.depth) = current
  BY DEF CrawlInv, TypeOK, Items, Item
<1>2. Rung(r) <= Rung(current) /\ Rung(r) \in Int /\ Rung(current) \in Int
  BY <1>1, RungIsAnInteger DEF RungInv
<1>3. CASE e = current.id
  BY <1>1, <1>3 DEF AnswersInv
<1>4. CASE e # current.id
  <2> DEFINE offer == Item(e, current.depth + 1)
  <2>1. Rung(offer) \in {Rung(current), Rung(current) + 1}
    BY <1>1, <1>4, LeadsClimb
  <2>2. offer.id = r.id /\ offer.depth = current.depth + 1
    BY DEF Item
  <2>3. Rung(r) <= Rung(offer)
    BY <1>2, <2>1
  <2> QED
    BY <1>1, <2>2, <2>3 DEF Rung
<1> QED
  BY <1>3, <1>4

LEMMA TakingKeepsRungs ==
    ASSUME TypeOK, CrawlInv, RungInv, LoopCondition, Take(Head(frontier).id),
           root' = root, answers' = answers
    PROVE  RungInv'
<1> DEFINE h == Head(frontier)
<1>1. /\ frontier \in Seq(Items) /\ frontier # <<>> /\ status = "loop"
      /\ frontier' = Tail(frontier) /\ visited' = visited \cup {h.id}
      /\ current' = h /\ reached' = reached \cup {h} /\ h.id \notin visited
  BY DEF LoopCondition, Take, AlreadyVisited, TypeOK, Items
<1>2. /\ h \in Items /\ h \in Range(frontier) /\ Range(frontier) = {h} \cup Range(Tail(frontier))
      /\ Tail(frontier) \in Seq(Items)
  BY <1>1, TailHolds, HeadTailProperties
<1>3. Climbs(Tail(frontier)) /\ \A x \in Range(frontier) : Rung(h) <= Rung(x)
  BY <1>1, TailClimbs DEF RungInv
<1>4. current \in Items /\ Rung(current) \in Int /\ Rung(h) \in Int
      /\ \A x \in Range(frontier) : x \in Items /\ Rung(x) \in Int
  <2>1. current \in Items
    BY DEF TypeOK, Items
  <2>2. \A x \in Range(frontier) : x \in Items
    BY <1>1 DEF Range
  <2> QED
    BY <1>2, <2>1, <2>2, RungIsAnInteger
<1>5. /\ \A x \in Range(frontier) : Rung(x) \in {Rung(current), Rung(current) + 1}
      /\ \A r \in reached : Rung(r) <= Rung(current)
      /\ \A o \in Offers : o.id \in visited \/ o \in Range(frontier)
      /\ ShallowestFirst
  BY <1>1 DEF RungInv, Pending
<1>6. Offers' = Offers
  BY DEF Offers
<1> HIDE DEF h
<1>7. \A x \in Range(frontier') : Rung(x) \in {Rung(current'), Rung(current') + 1}
  BY <1>1, <1>2, <1>3, <1>4, <1>5
<1>8. \A r \in reached' : Rung(r) <= Rung(current')
  <2>1. \A r \in reached : Rung(r) \in Int
    BY RungIsAnInteger DEF TypeOK, Items
  <2> QED
    BY <1>1, <1>2, <1>4, <1>5, <2>1
<1>9. \A o \in Offers : o.id \in visited' \/ o \in Range(frontier')
  BY <1>1, <1>2, <1>5
<1>10. ASSUME NEW o \in Offers, o.id = h.id PROVE h.depth <= o.depth
  <2>1. o \in Range(frontier)
    BY <1>1, <1>5, <1>10
  <2>2. Rung(h) <= Rung(o) /\ o \in Items
    BY <1>3, <1>4, <2>1
  <2> QED
    BY <1>2, <1>10, <2>2 DEF Rung, Items
<1>11. ShallowestFirst'
  BY <1>1, <1>5, <1>6, <1>10 DEF ShallowestFirst
<1>12. Climbs(frontier')
  BY <1>1, <1>3
<1>13. Climbs(frontier)' /\ (\A x \in Range(frontier) : Rung(x) \in {Rung(current), Rung(current) + 1})'
       /\ (\A r \in reached : Rung(r) <= Rung(current))'
  BY <1>7, <1>8, <1>12 DEF Climbs, Rung
<1> QED
  BY <1>6, <1>9, <1>11, <1>13 DEF RungInv

LEMMA RungInvStep ==
    ASSUME ProducedInLayers, TypeOK, ScopeInv, CrawlInv, AnswersInv, RungInv, [Next]_vars
    PROVE  RungInv'
<1>0. ASSUME root' = root, answers' = answers
      PROVE  Offers' = Offers
  BY <1>0 DEF Offers
<1>1. CASE LeaveLoop
  <2>1. /\ status' = "done" /\ frontier' = frontier /\ current' = current /\ reached' = reached
        /\ Offers' = Offers
    BY <1>0, <1>1 DEF LeaveLoop, Return, history
  <2> QED
    BY <2>1 DEF RungInv, ShallowestFirst, Climbs, Rung
<1>2. CASE SkipVisited
  <2>1. /\ status = "loop" /\ status' = "loop" /\ frontier' = Tail(frontier) /\ visited' = visited
        /\ Head(frontier).id \in visited /\ current' = current /\ reached' = reached
        /\ Offers' = Offers /\ frontier \in Seq(Items) /\ frontier # <<>>
    BY <1>0, <1>2 DEF SkipVisited, LoopCondition, AlreadyVisited, history, TypeOK, Items
  <2>2. Range(frontier) = {Head(frontier)} \cup Range(Tail(frontier)) /\ Climbs(Tail(frontier))
    BY <2>1, TailHolds, TailClimbs DEF RungInv
  <2>3. \A o \in Offers : o.id \in visited \/ o \in Range(frontier')
    BY <2>1, <2>2 DEF RungInv, Pending
  <2>4. Climbs(frontier)'
    BY <2>1, <2>2 DEF Climbs, Rung
  <2>5. (\A x \in Range(frontier) : Rung(x) \in {Rung(current), Rung(current) + 1})'
    BY <2>1, <2>2 DEF RungInv, Rung
  <2>6. ShallowestFirst' /\ (\A r \in reached : Rung(r) <= Rung(current))'
    BY <2>1 DEF RungInv, ShallowestFirst, Rung
  <2> QED
    BY <2>1, <2>3, <2>4, <2>5, <2>6 DEF RungInv
<1>3. CASE Dispatch \/ StopOnCalls
  <2>1. LoopCondition /\ Take(Head(frontier).id) /\ root' = root /\ answers' = answers
    BY <1>3 DEF Dispatch, StopOnCalls
  <2> QED
    BY <2>1, TakingKeepsRungs
<1>4. CASE Gathered
  <2>1. /\ status = "gather" /\ status' = "loop" /\ frontier' = Extended /\ visited' = visited
        /\ current' = current /\ reached' = reached /\ Offers' = Offers
    BY <1>0, <1>4 DEF Gathered, history
  <2>2. /\ \A x \in Range(Extended) : Rung(x) \in {Rung(current), Rung(current) + 1}
        /\ Climbs(Extended)
    BY <2>1, ExtendedClimbs
  <2>3. ASSUME NEW o \in Offers, o.id \notin visited PROVE o \in Range(Extended)
    <3>1. CASE o \in Range(frontier)
      BY <3>1, ExtendedHolds
    <3>2. CASE Pending(o.id) /\ o.depth = current.depth + 1
      <4>1. PICK c \in Connector : o.id \in found[c]
        BY <3>2 DEF Pending
      <4>2. <<c, o.id>> \in Enqueueable /\ <<c, o.id>>[2] = o.id
        BY <2>3, <3>2, <4>1 DEF Pending, Enqueueable, Discovered, TypeOK
      <4>3. Item(o.id, current.depth + 1) \in Range(Extended)
        BY <3>2, <4>2, ExtendedHolds DEF Pending
      <4>4. o = Item(o.id, o.depth)
        BY DEF Offers, Item
      <4> QED
        BY <3>2, <4>3, <4>4
    <3> QED
      BY <2>1, <2>3, <3>1, <3>2 DEF RungInv
  <2>4. Climbs(frontier)'
    BY <2>1, <2>2 DEF Climbs, Rung
  <2>5. (\A x \in Range(frontier) : Rung(x) \in {Rung(current), Rung(current) + 1})'
    BY <2>1, <2>2 DEF Rung
  <2>6. ShallowestFirst' /\ (\A r \in reached : Rung(r) <= Rung(current))'
    BY <2>1 DEF RungInv, ShallowestFirst, Rung
  <2> QED
    BY <2>1, <2>3, <2>4, <2>5, <2>6 DEF RungInv
<1>5. ASSUME NEW c \in Connector, TaskStep(c)
      PROVE  RungInv'
  <2>1. CASE Ask(c) \/ Cancel(c)
    <3>1. /\ status' = status /\ visited' = visited /\ frontier' = frontier /\ found' = found
          /\ current' = current /\ reached' = reached /\ Offers' = Offers
      BY <1>0, <2>1 DEF Ask, Cancel, history
    <3> QED
      BY <3>1 DEF RungInv, ShallowestFirst, Climbs, Rung, Pending
  <2>2. ASSUME NEW batch \in SUBSET World[c][current.id],
               Page(c, batch) \/ Answer(c, batch) \/ Raise(c, batch)
        PROVE  RungInv'
    <3>1. /\ status \in {"gather", "raised"}
          /\ status' \in {status, "raised"}
          /\ visited' = visited /\ frontier' = frontier /\ current' = current /\ root' = root
          /\ reached' = reached /\ Record(c, batch) /\ c \in Permitted(current.id)
      BY <2>2 DEF Page, Answer, Raise, ScopeInv, Live
    <3>2. /\ batch \in SUBSET Entity
          /\ \A d \in Connector : found[d] \subseteq found'[d]
          /\ batch \subseteq found'[c]
      <4>1. batch \in SUBSET Entity
        BY ConnectorAssumption DEF TypeOK
      <4>2. \A d \in Connector : found[d] \subseteq found'[d]
        BY <3>1 DEF Record, TypeOK
      <4>3. batch \subseteq found'[c]
        BY <3>1 DEF Record, TypeOK
      <4> QED
        BY <4>1, <4>2, <4>3
    <3>3. ASSUME NEW o \in Offers', o \notin Offers
          PROVE  /\ o.id \in batch /\ current.depth < MaxDepth
                 /\ CanEnqueue(o.id, current.id) /\ o.depth = current.depth + 1
      <4>1. o # Item(root, 0)
        BY <3>3 DEF Offers
      <4>2. PICK a \in answers' : /\ o = Item(a[2], a[1].depth + 1)
                                  /\ a[1].depth < MaxDepth
                                  /\ CanEnqueue(a[2], a[1].id)
        BY <3>1, <4>1 DEF Offers
      <4>3. a \notin answers
        BY <3>3, <4>2 DEF Offers
      <4>4. PICK e \in batch : a = <<current, e>>
        BY <3>1, <4>3 DEF Record
      <4> QED
        BY <4>2, <4>4 DEF Item
    <3>4. ASSUME status' = "gather", NEW o \in Offers'
          PROVE  \/ o.id \in visited' \/ o \in Range(frontier')
                 \/ Pending(o.id)' /\ o.depth = current'.depth + 1
      <4>1. status = "gather"
        BY <3>1, <3>4
      <4>2. CASE o \in Offers
        BY <3>1, <3>2, <3>4, <4>1, <4>2 DEF RungInv, Pending
      <4>3. CASE o \notin Offers
        BY <3>1, <3>2, <3>3, <3>4, <4>3 DEF Pending
      <4> QED
        BY <4>2, <4>3
    <3>5. ASSUME NEW r \in reached', NEW o \in Offers', r.id = o.id
          PROVE  r.depth <= o.depth
      <4>1. CASE o \in Offers
        BY <3>1, <3>5, <4>1 DEF RungInv, ShallowestFirst
      <4>2. CASE o \notin Offers
        BY <3>1, <3>3, <3>5, <4>2, OffersComeNoEarlier
      <4> QED
        BY <4>1, <4>2
    <3>6. ShallowestFirst'
      BY <3>5 DEF ShallowestFirst
    <3>7. /\ Climbs(frontier)' /\ (\A r \in reached : Rung(r) <= Rung(current))'
          /\ (\A x \in Range(frontier) : Rung(x) \in {Rung(current), Rung(current) + 1})'
      BY <3>1 DEF RungInv, Climbs, Rung
    <3>8. status' # "loop"
      BY <3>1
    <3> QED
      BY <3>4, <3>6, <3>7, <3>8 DEF RungInv
  <2> QED
    BY <1>5, <2>1, <2>2 DEF TaskStep
<1>6. CASE UNCHANGED vars
  BY <1>6 DEF vars, RungInv, ShallowestFirst, Climbs, Rung, Offers, Pending
<1> QED
  BY <1>1, <1>2, <1>3, <1>4, <1>5, <1>6 DEF Next, LoopStep, Ended

\* When connectors produce what they declare, a seed is processed at the smallest depth at
\* which it is ever reported, although addresses are pushed on the left of the deque
\* (engine.py:118-130).
THEOREM PursuedAtTheSmallestDepth == ProducedInLayers => (Spec => []ShallowestFirst)
<1> SUFFICES ASSUME ProducedInLayers PROVE Spec => []ShallowestFirst
  OBVIOUS
<1> DEFINE Inv == TypeOK /\ ScopeInv /\ CrawlInv /\ AnswersInv /\ RungInv
<1>1. Init => Inv
  BY TypeOKInit, ScopeInvInit, CrawlInvInit, AnswersInvInit, RungInvInit
<1>2. Inv /\ [Next]_vars => Inv'
  BY TypeOKStep, ScopeInvStep, CrawlInvStep, AnswersInvStep, RungInvStep
<1>3. Inv => ShallowestFirst
  BY DEF RungInv
<1> QED
  BY <1>1, <1>2, <1>3, PTL DEF Spec

-----------------------------------------------------------------------------
(* The closure.  Within is a recursive function, so its existence and its  *)
(* induction are done by hand; what the engine visits is compared with it  *)
(* hop by hop.                                                             *)

Hop(S) ==
    {e \in Entity : \E s \in S : \E c \in Permitted(s) : e \in World[c][s] /\ CanEnqueue(e, s)}

LEMMA WithinUnfolds ==
    /\ Within[0] = {root}
    /\ \A d \in 0..MaxDepth : d # 0 => Within[d] = Within[d - 1] \cup Hop(Within[d - 1])
<1> DEFINE Step(w, d) == IF d = 0 THEN {root} ELSE w[d - 1] \cup Hop(w[d - 1])
           Good == {m \in Nat : \E w : w = [d \in 0..m |-> Step(w, d)]}
<1>1. 0 \in Good
  <2> DEFINE w == [d \in 0..0 |-> {root}]
  <2>1. w = [d \in 0..0 |-> Step(w, d)]
    OBVIOUS
  <2> QED
    BY <2>1
<1>2. ASSUME NEW m \in Good PROVE m + 1 \in Good
  <2>1. PICK w : w = [d \in 0..m |-> Step(w, d)]
    OBVIOUS
  <2> DEFINE next == [d \in 0..(m + 1) |-> Step(w, d)]
  <2>2. \A d \in 0..m : next[d] = w[d]
    <3>1. \A d \in 0..m : d \in 0..(m + 1)
      OBVIOUS
    <3>2. \A d \in 0..m : w[d] = Step(w, d)
      BY <2>1
    <3>3. \A d \in 0..(m + 1) : next[d] = Step(w, d)
      OBVIOUS
    <3> HIDE DEF next, Step
    <3> QED
      BY <3>1, <3>2, <3>3
  <2>3. \A d \in 0..(m + 1) : Step(w, d) = Step(next, d)
    <3>1. \A d \in 0..(m + 1) : d # 0 => d - 1 \in 0..m
      OBVIOUS
    <3> HIDE DEF next
    <3> QED
      BY <2>2, <3>1
  <2>4. next = [d \in 0..(m + 1) |-> Step(next, d)]
    <3> HIDE DEF Step
    <3> QED
      BY <2>3
  <2> HIDE DEF next, Step
  <2> QED
    BY <2>4
<1>3. Good = Nat
  <2>1. Good \in SUBSET Nat
    OBVIOUS
  <2> HIDE DEF Good
  <2> QED
    BY <1>1, <1>2, <2>1, NatInductionOnASet
<1>4. \E w : w = [d \in 0..MaxDepth |-> Step(w, d)]
  BY <1>3, BudgetAssumption
<1>5. Within = [d \in 0..MaxDepth |-> Step(Within, d)]
  BY <1>4 DEF Within, Hop
<1>6. \A d \in 0..MaxDepth : Within[d] = Step(Within, d)
  <2> HIDE DEF Step
  <2> QED
    BY <1>5
<1>7. 0 \in 0..MaxDepth
  BY BudgetAssumption
<1>8. Within[0] = {root}
  BY <1>6, <1>7
<1>9. ASSUME NEW d \in 0..MaxDepth, d # 0
      PROVE  Within[d] = Within[d - 1] \cup Hop(Within[d - 1])
  <2>1. Within[d] = Step(Within, d)
    BY <1>6
  <2> QED
    BY <1>9, <2>1
<1> QED
  BY <1>8, <1>9

\* What is within some hops is within more.
LEMMA WithinGrows == \A d \in 0..MaxDepth : Within[d] \subseteq Within[MaxDepth]
<1> DEFINE Good == {m \in Nat : m <= MaxDepth => Within[MaxDepth - m] \subseteq Within[MaxDepth]}
<1>1. 0 \in Good
  BY BudgetAssumption
<1>2. ASSUME NEW m \in Good PROVE m + 1 \in Good
  <2> SUFFICES ASSUME m + 1 <= MaxDepth
               PROVE  Within[MaxDepth - (m + 1)] \subseteq Within[MaxDepth]
    OBVIOUS
  <2>1. /\ MaxDepth - m \in 0..MaxDepth /\ MaxDepth - m # 0
        /\ (MaxDepth - m) - 1 = MaxDepth - (m + 1) /\ m <= MaxDepth
    BY BudgetAssumption
  <2>2. Within[MaxDepth - (m + 1)] \subseteq Within[MaxDepth - m]
    BY <2>1, WithinUnfolds
  <2>3. Within[MaxDepth - m] \subseteq Within[MaxDepth]
    BY <2>1
  <2> QED
    BY <2>2, <2>3
<1>3. Good = Nat
  <2>1. Good \in SUBSET Nat
    OBVIOUS
  <2> HIDE DEF Good
  <2> QED
    BY <1>1, <1>2, <2>1, NatInductionOnASet
<1> SUFFICES ASSUME NEW d \in 0..MaxDepth PROVE Within[d] \subseteq Within[MaxDepth]
  OBVIOUS
<1>4. MaxDepth - d \in Nat /\ MaxDepth - d <= MaxDepth /\ MaxDepth - (MaxDepth - d) = d
  BY BudgetAssumption
<1> QED
  BY <1>3, <1>4

\* What was pursued at a depth is within that many hops of the root.
LEMMA ReachedIsWithin ==
    ASSUME TypeOK, AnswersInv
    PROVE  \A r \in reached : r.id \in Within[r.depth]
<1> DEFINE Good == {m \in Nat : \A r \in reached : r.depth = m => r.id \in Within[m]}
<1>1. \A r \in reached : r.id \in Entity /\ r.depth \in 0..MaxDepth /\ r.depth \in Nat
  BY DEF TypeOK
<1>2. ASSUME NEW r \in reached
      PROVE  \/ r = Item(root, 0)
             \/ \E a \in answers : r = Item(a[2], a[1].depth + 1) /\ CanEnqueue(a[2], a[1].id)
  BY DEF AnswersInv, Offers
<1>3. 0 \in Good
  <2> SUFFICES ASSUME NEW r \in reached, r.depth = 0 PROVE r.id \in Within[0]
    OBVIOUS
  <2>1. \A a \in answers : a[1].depth \in Nat
    BY <1>1 DEF AnswersInv, Sourced
  <2>2. r = Item(root, 0)
    BY <1>2, <2>1 DEF Item
  <2> QED
    BY <2>2, WithinUnfolds DEF Item
<1>4. ASSUME NEW m \in Good PROVE m + 1 \in Good
  <2> SUFFICES ASSUME NEW r \in reached, r.depth = m + 1 PROVE r.id \in Within[m + 1]
    OBVIOUS
  <2>1. m + 1 \in 0..MaxDepth /\ m + 1 # 0 /\ (m + 1) - 1 = m
    BY <1>1
  <2>2. PICK a \in answers : r = Item(a[2], a[1].depth + 1) /\ CanEnqueue(a[2], a[1].id)
    BY <1>2, <2>1 DEF Item
  <2>3. a[1] \in reached /\ \E c \in Permitted(a[1].id) : a[2] \in World[c][a[1].id]
    BY DEF AnswersInv, Sourced
  <2>4. r.id = a[2] /\ r.depth = a[1].depth + 1 /\ a[1].depth = m
    BY <1>1, <2>2, <2>3 DEF Item
  <2>5. a[1].id \in Within[m]
    BY <2>3, <2>4
  <2>6. r.id \in Hop(Within[m])
    BY <1>1, <2>2, <2>3, <2>4, <2>5 DEF Hop
  <2>7. Within[m + 1] = Within[m] \cup Hop(Within[m])
    BY <2>1, WithinUnfolds
  <2> QED
    BY <2>6, <2>7
<1>5. Good = Nat
  <2>1. Good \in SUBSET Nat
    OBVIOUS
  <2> HIDE DEF Good
  <2> QED
    BY <1>3, <1>4, <2>1, NatInductionOnASet
<1> QED
  BY <1>1, <1>5

\* The seeds of a run that was neither hindered nor stopped: each was asked about by all
\* the connectors permitted, each of them reported all there is, and every lead it gave
\* was pursued, no deeper than it lies.
LEMMA WithinIsReached ==
    ASSUME TypeOK, CrawlInv, AnswersInv, GateInv, ShallowestFirst, CompleteOrReported,
           status = "done", FullyAnswered, \A a \in audit : a.event # "budget_stop"
    PROVE  \A d \in 0..MaxDepth : \A e \in Within[d] : \E r \in reached : r.id = e /\ r.depth <= d
<1> DEFINE Near(e, m) == \E r \in reached : r.id = e /\ r.depth <= m
           Good == {m \in Nat : m <= MaxDepth => \A e \in Within[m] : Near(e, m)}
<1>1. \A reason : BudgetStop(reason) \notin audit
  BY DEF BudgetStop
<1>2. ASSUME NEW o \in Offers
      PROVE  Near(o.id, o.depth)
  <2>1. o.id \in visited
    BY <1>1 DEF CompleteOrReported
  <2>2. PICK r \in reached : r.id = o.id
    BY <2>1 DEF CrawlInv, TypeOK
  <2> QED
    BY <2>2 DEF ShallowestFirst
<1>3. 0 \in Good
  <2>1. Item(root, 0) \in Offers /\ Item(root, 0).id = root /\ Item(root, 0).depth = 0
    BY DEF Offers, Item
  <2>2. Near(root, 0)
    BY <1>2, <2>1
  <2> QED
    BY <2>2, WithinUnfolds
<1>4. ASSUME NEW m \in Good PROVE m + 1 \in Good
  <2> SUFFICES ASSUME m + 1 <= MaxDepth, NEW e \in Within[m + 1] PROVE Near(e, m + 1)
    OBVIOUS
  <2>1. /\ m + 1 \in 0..MaxDepth /\ m + 1 # 0 /\ (m + 1) - 1 = m
        /\ m <= MaxDepth /\ m < MaxDepth /\ m \in Nat
    BY BudgetAssumption
  <2>2. Within[m + 1] = Within[m] \cup Hop(Within[m])
    BY <2>1, WithinUnfolds
  <2>3. \A f \in Within[m] : Near(f, m)
    BY <2>1
  <2>4. \A r \in reached : r.id \in Entity /\ r.depth \in Nat
    BY DEF TypeOK
  <2>5. CASE e \in Within[m]
    BY <2>1, <2>3, <2>4, <2>5
  <2>6. CASE e \in Hop(Within[m])
    <3>1. PICK s \in Within[m] : e \in Entity
                /\ \E c \in Permitted(s) : e \in World[c][s] /\ CanEnqueue(e, s)
      BY <2>6 DEF Hop
    <3>2. PICK c \in Permitted(s) : e \in World[c][s] /\ CanEnqueue(e, s)
      BY <3>1
    <3>3. PICK q \in reached : q.id = s /\ q.depth <= m
      BY <2>3
    <3>4. s \in visited
      BY <2>4, <3>3 DEF CrawlInv
    <3>5. <<c, s>> \in dispatched
      BY <1>1, <3>4 DEF GateInv
    <3>6. <<c, s>>[1] = c /\ <<c, s>>[2] = s
      OBVIOUS
    <3>7. PICK a \in answers : a[1].id = s /\ a[2] = e
      BY <3>2, <3>5, <3>6 DEF FullyAnswered
    <3>8. a[1] = q
      BY <3>3, <3>7 DEF AnswersInv, Sourced
    <3>9. a[1].depth < MaxDepth /\ CanEnqueue(a[2], a[1].id)
      <4>1. q.depth \in Nat /\ q.depth < MaxDepth
        BY <2>1, <2>4, <3>3, BudgetAssumption
      <4>2. CanEnqueue(a[2], a[1].id)
        BY <3>2, <3>7
      <4> QED
        BY <3>8, <4>1, <4>2
    <3>10. Item(e, q.depth + 1) \in Offers
      BY <3>7, <3>8, <3>9 DEF Offers
    <3>11. Item(e, q.depth + 1).id = e /\ Item(e, q.depth + 1).depth = q.depth + 1
      BY DEF Item
    <3>12. Near(e, q.depth + 1)
      <4> HIDE DEF Near
      <4> QED
        BY <1>2, <3>10, <3>11
    <3> QED
      BY <2>1, <2>4, <3>3, <3>12
  <2> QED
    BY <2>2, <2>5, <2>6
<1>5. Good = Nat
  <2>1. Good \in SUBSET Nat
    OBVIOUS
  <2> HIDE DEF Good
  <2> QED
    BY <1>3, <1>4, <2>1, NatInductionOnASet
<1> QED
  BY <1>5, BudgetAssumption

LEMMA UnhinderedRunIsExact ==
    ASSUME TypeOK, CrawlInv, AnswersInv, GateInv, ShallowestFirst, CompleteOrReported
    PROVE  ExactClosure
<1> SUFFICES ASSUME status = "done", FullyAnswered, \A a \in audit : a.event # "budget_stop"
             PROVE  /\ visited = Within[MaxDepth]
                    /\ store = UNION {UNION {World[c][s] : c \in Permitted(s)} : s \in Within[MaxDepth]}
  BY DEF ExactClosure
<1>1. MaxDepth \in 0..MaxDepth
  BY BudgetAssumption
<1>2. \A r \in reached : r.id \in Entity /\ r.depth \in 0..MaxDepth
  BY DEF TypeOK
<1>3. visited \subseteq Within[MaxDepth]
  <2> SUFFICES ASSUME NEW e \in visited PROVE e \in Within[MaxDepth]
    OBVIOUS
  <2>1. PICK r \in reached : r.id = e
    BY DEF CrawlInv, TypeOK
  <2>2. r.id \in Within[r.depth] /\ r.depth \in 0..MaxDepth
    BY <1>2, ReachedIsWithin
  <2> QED
    BY <2>1, <2>2, WithinGrows
<1>4. Within[MaxDepth] \subseteq visited
  <2> SUFFICES ASSUME NEW e \in Within[MaxDepth] PROVE e \in visited
    OBVIOUS
  <2>1. PICK r \in reached : r.id = e
    BY <1>1, WithinIsReached
  <2> QED
    BY <1>2, <2>1 DEF CrawlInv
<1>5. visited = Within[MaxDepth]
  BY <1>3, <1>4
<1>6. ASSUME NEW e \in store
      PROVE  \E s \in visited : \E c \in Permitted(s) : e \in World[c][s]
  <2>1. PICK a \in answers : e = a[2]
    BY DEF AnswersInv
  <2>2. a[1] \in reached /\ \E c \in Permitted(a[1].id) : a[2] \in World[c][a[1].id]
    BY DEF AnswersInv, Sourced
  <2>3. a[1].id \in visited
    BY <1>2, <2>2 DEF CrawlInv
  <2> QED
    BY <2>1, <2>2, <2>3
<1>7. ASSUME NEW s \in visited, NEW c \in Permitted(s), NEW e \in World[c][s]
      PROVE  e \in store
  <2>1. BudgetStop("max_calls") \notin audit
    BY DEF BudgetStop
  <2>2. <<c, s>> \in dispatched /\ <<c, s>>[1] = c /\ <<c, s>>[2] = s
    BY <2>1 DEF GateInv
  <2>3. PICK a \in answers : a[2] = e
    BY <2>2 DEF FullyAnswered
  <2> QED
    BY <2>3 DEF AnswersInv
<1>8. store = UNION {UNION {World[c][s] : c \in Permitted(s)} : s \in visited}
  BY <1>6, <1>7
<1> QED
  BY <1>5, <1>8

\* A run that no source fails and no budget stops visits exactly what lies within
\* max_depth hops, and stores exactly what is reported about it, in whatever order the
\* tasks of each gather answer (engine.py:60-145).
THEOREM ClosureIsExact == ProducedInLayers => (Spec => []ExactClosure)
<1> SUFFICES ASSUME ProducedInLayers PROVE Spec => []ExactClosure
  OBVIOUS
<1> DEFINE Inv == /\ TypeOK /\ ScopeInv /\ CompleteInv /\ GateInv
                  /\ CrawlInv /\ AnswersInv /\ RungInv
<1>1. Init => Inv
  BY TypeOKInit, ScopeInvInit, CompleteInvInit, GateInvInit, CrawlInvInit, AnswersInvInit, RungInvInit
<1>2. Inv /\ [Next]_vars => Inv'
  BY TypeOKStep, ScopeInvStep, CompleteInvStep, GateInvStep, CrawlInvStep, AnswersInvStep, RungInvStep
<1>3. Inv => ExactClosure
  BY UnhinderedRunIsExact DEF RungInv, CompleteInv
<1> QED
  BY <1>1, <1>2, <1>3, PTL DEF Spec
=============================================================================
