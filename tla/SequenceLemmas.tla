--------------------------- MODULE SequenceLemmas ---------------------------
(***************************************************************************)
(* What the proofs about the components rest on: induction over the        *)
(* numbers and over the subsets of a finite set, stated without an         *)
(* operator for a parameter, and the facts about Selected.                 *)
(***************************************************************************)
EXTENDS Selection, FiniteSetTheorems, WellFoundedInduction, SequenceTheorems, TLAPS

-----------------------------------------------------------------------------
(* Induction. *)

Less == {p \in Nat \X Nat : p[1] < p[2]}

LEMMA LessIsWellFounded == IsWellFoundedOn(Less, Nat)
BY NatLessThanWellFounded, Zenon DEF OpToRel, Less

LEMMA NatInductionOnASet ==
    ASSUME NEW T \in SUBSET Nat, 0 \in T, \A n \in T : n + 1 \in T
    PROVE  T = Nat
<1> SUFFICES ASSUME T # Nat PROVE FALSE
  OBVIOUS
<1> DEFINE Missing == Nat \ T
<1>1. Missing \subseteq Nat /\ Missing # {}
  OBVIOUS
<1>2. PICK x \in Missing : \A y \in Missing : <<y, x>> \notin Less
  <2> HIDE DEF Missing
  <2> QED
    BY <1>1, LessIsWellFounded, WFMin
<1>3. x \in Nat /\ x # 0 /\ x - 1 \in Nat /\ x - 1 < x
  OBVIOUS
<1>4. x - 1 \in T
  BY <1>2, <1>3 DEF Less
<1>5. (x - 1) + 1 = x
  BY <1>3
<1> QED
  BY <1>4, <1>5

Some(S) == CHOOSE x \in S : TRUE

LEMMA SomeIsAMember == \A S : S # {} => Some(S) \in S
BY DEF Some

\* The induction the folds of a finite set go by: from a set without the element
\* that is chosen first to the set.
LEMMA SubsetInduction ==
    ASSUME NEW D, IsFiniteSet(D), NEW T \in SUBSET SUBSET D,
           {} \in T,
           \A S \in SUBSET D : S # {} /\ S \ {Some(S)} \in T => S \in T
    PROVE  T = SUBSET D
<1> DEFINE Sizes == {n \in Nat : \A S \in SUBSET D : Cardinality(S) = n => S \in T}
<1>1. \A S \in SUBSET D : IsFiniteSet(S) /\ Cardinality(S) \in Nat
  BY FS_Subset, FS_CardinalityType
<1>2. 0 \in Sizes
  <2>1. \A S \in SUBSET D : Cardinality(S) = 0 => S = {}
    BY <1>1, FS_EmptySet
  <2> QED
    BY <2>1
<1>3. ASSUME NEW n \in Sizes PROVE n + 1 \in Sizes
  <2> SUFFICES ASSUME NEW S \in SUBSET D, Cardinality(S) = n + 1 PROVE S \in T
    OBVIOUS
  <2>1. S # {}
    BY <1>1, FS_EmptySet
  <2>2. Some(S) \in S
    BY <2>1, SomeIsAMember
  <2>3. Cardinality(S \ {Some(S)}) = n
    BY <1>1, <2>2, FS_RemoveElement
  <2>4. S \ {Some(S)} \in T
    BY <2>3
  <2> QED
    BY <2>1, <2>4
<1>4. Sizes = Nat
  <2>1. Sizes \in SUBSET Nat
    OBVIOUS
  <2> HIDE DEF Sizes
  <2> QED
    BY <1>2, <1>3, <2>1, NatInductionOnASet
<1> QED
  BY <1>1, <1>4

-----------------------------------------------------------------------------
(* Selected. *)

\* kept[n] is what is kept of the first n elements.
KeptSoFar(s, places, kept) ==
    kept = [n \in 0..Len(s) |->
                IF n = 0 THEN <<>>
                ELSE IF n \in places THEN Append(kept[n - 1], s[n]) ELSE kept[n - 1]]

LEMMA KeepsExists ==
    ASSUME NEW S, NEW s \in Seq(S), NEW places
    PROVE  \E kept : KeptSoFar(s, places, kept)
<1> DEFINE Step(kept, n) ==
        IF n = 0 THEN <<>>
        ELSE IF n \in places THEN Append(kept[n - 1], s[n]) ELSE kept[n - 1]
           Good == {m \in Nat : \E kept : kept = [n \in 0..m |-> Step(kept, n)]}
<1>1. 0 \in Good
  <2> DEFINE kept == [n \in 0..0 |-> <<>>]
  <2>1. kept = [n \in 0..0 |-> Step(kept, n)]
    OBVIOUS
  <2> QED
    BY <2>1
<1>2. ASSUME NEW m \in Good PROVE m + 1 \in Good
  <2>1. PICK kept : kept = [n \in 0..m |-> Step(kept, n)]
    OBVIOUS
  <2> DEFINE next == [n \in 0..(m + 1) |-> Step(kept, n)]
  <2>2. \A n \in 0..m : next[n] = kept[n]
    <3>1. \A n \in 0..m : n \in 0..(m + 1)
      OBVIOUS
    <3>2. \A n \in 0..m : kept[n] = Step(kept, n)
      BY <2>1
    <3>3. \A n \in 0..(m + 1) : next[n] = Step(kept, n)
      OBVIOUS
    <3> HIDE DEF next, Step
    <3> QED
      BY <3>1, <3>2, <3>3
  <2>3. \A n \in 0..(m + 1) : Step(kept, n) = Step(next, n)
    <3>1. \A n \in 0..(m + 1) : n # 0 => n - 1 \in 0..m
      OBVIOUS
    <3> HIDE DEF next
    <3> QED
      BY <2>2, <3>1
  <2>4. next = [n \in 0..(m + 1) |-> Step(next, n)]
    <3>1. next = [n \in 0..(m + 1) |-> Step(kept, n)]
      OBVIOUS
    <3> HIDE DEF next, Step
    <3> QED
      BY <2>3, <3>1
  <2> HIDE DEF next, Step
  <2> QED
    BY <2>4
<1>3. Good = Nat
  <2>1. Good \in SUBSET Nat
    OBVIOUS
  <2> HIDE DEF Good
  <2> QED
    BY <1>1, <1>2, <2>1, NatInductionOnASet
<1>4. Len(s) \in Good
  BY <1>3
<1> QED
  BY <1>4 DEF KeptSoFar

LEMMA SelectedKeeps ==
    ASSUME NEW S, NEW s \in Seq(S), NEW places
    PROVE  \E kept : /\ Selected(s, places) = kept[Len(s)]
                     /\ DOMAIN kept = 0..Len(s)
                     /\ kept[0] = <<>>
                     /\ \A n \in 1..Len(s) :
                           kept[n] = IF n \in places THEN Append(kept[n - 1], s[n]) ELSE kept[n - 1]
<1>1. PICK kept : KeptSoFar(s, places, kept) /\ Selected(s, places) = kept[Len(s)]
  <2>1. Selected(s, places) = (CHOOSE kept : KeptSoFar(s, places, kept))[Len(s)]
    BY DEF Selected, KeptSoFar
  <2> QED
    BY <2>1, KeepsExists
<1>2. Len(s) \in Nat
  OBVIOUS
<1>3. \A n \in 0..Len(s) :
         kept[n] = IF n = 0 THEN <<>>
                   ELSE IF n \in places THEN Append(kept[n - 1], s[n]) ELSE kept[n - 1]
  BY <1>1 DEF KeptSoFar
<1>4. DOMAIN kept = 0..Len(s)
  BY <1>1 DEF KeptSoFar
<1>5. kept[0] = <<>>
  BY <1>2, <1>3
<1>6. \A n \in 1..Len(s) :
         kept[n] = IF n \in places THEN Append(kept[n - 1], s[n]) ELSE kept[n - 1]
  BY <1>2, <1>3
<1> QED
  BY <1>1, <1>4, <1>5, <1>6

\* place is where in s the elements of t, those of s whose place is below n, come from.
Places(s, n, places, t, place) ==
    /\ place \in [DOMAIN t -> places \cap 1..n]
    /\ \A k \in DOMAIN t : t[k] = s[place[k]]
    /\ \A j, k \in DOMAIN t : j < k => place[j] < place[k]
    /\ \A i \in places \cap 1..n : \E k \in DOMAIN t : place[k] = i

\* What is kept of a sequence: each of the places kept, once and in order.
LEMMA SelectedPlaces ==
    ASSUME NEW S, NEW s \in Seq(S), NEW places
    PROVE  /\ Selected(s, places) \in Seq(S)
           /\ \E place : Places(s, Len(s), places, Selected(s, places), place)
<1>1. PICK kept : /\ Selected(s, places) = kept[Len(s)]
                  /\ DOMAIN kept = 0..Len(s)
                  /\ kept[0] = <<>>
                  /\ \A n \in 1..Len(s) :
                        kept[n] = IF n \in places THEN Append(kept[n - 1], s[n]) ELSE kept[n - 1]
  BY SelectedKeeps
<1> DEFINE Good == {n \in Nat : n <= Len(s) =>
                        kept[n] \in Seq(S) /\ \E place : Places(s, n, places, kept[n], place)}
<1>2. 0 \in Good
  <2> DEFINE place == [k \in {} |-> 0]
  <2>1. Places(s, 0, places, <<>>, place)
    BY DEF Places
  <2>2. kept[0] \in Seq(S)
    BY <1>1
  <2> HIDE DEF place
  <2>3. \E where : Places(s, 0, places, kept[0], where)
    BY <1>1, <2>1
  <2> QED
    BY <2>2, <2>3
<1>3. ASSUME NEW n \in Good PROVE n + 1 \in Good
  <2> SUFFICES ASSUME n + 1 <= Len(s)
               PROVE  kept[n + 1] \in Seq(S) /\ \E place : Places(s, n + 1, places, kept[n + 1], place)
    OBVIOUS
  <2> DEFINE t == kept[n]
  <2>1. n \in Nat /\ n + 1 \in 1..Len(s) /\ s[n + 1] \in S
    OBVIOUS
  <2>2. t \in Seq(S) /\ \E place : Places(s, n, places, t, place)
    BY <2>1
  <2>3. PICK place : Places(s, n, places, t, place)
    BY <2>2
  <2>4. kept[n + 1] = IF n + 1 \in places THEN Append(t, s[n + 1]) ELSE t
    BY <1>1, <2>1
  <2> HIDE DEF t
  <2>5. CASE n + 1 \in places
    <3> DEFINE u == Append(t, s[n + 1])
               next == [k \in DOMAIN u |-> IF k = Len(u) THEN n + 1 ELSE place[k]]
    <3>1. u \in Seq(S) /\ Len(u) = Len(t) + 1 /\ u[Len(u)] = s[n + 1]
          /\ \A k \in 1..Len(t) : u[k] = t[k]
      BY <2>1, <2>2
    <3>2. DOMAIN u = 1..(Len(t) + 1) /\ DOMAIN t = 1..Len(t) /\ Len(t) \in Nat
      BY <2>2, <3>1
    <3>3. \A k \in DOMAIN u : next[k] = IF k = Len(u) THEN n + 1 ELSE place[k]
      OBVIOUS
    <3>4. DOMAIN next = DOMAIN u
      OBVIOUS
    <3> HIDE DEF u
    <3>5. \A k \in DOMAIN t : place[k] \in places \cap 1..n
      BY <2>3 DEF Places
    <3>6. next \in [DOMAIN u -> places \cap 1..(n + 1)]
      BY <2>1, <2>5, <3>1, <3>2, <3>5
    <3> HIDE DEF next
    <3>7. \A k \in DOMAIN u : u[k] = s[next[k]]
      BY <2>3, <3>1, <3>2, <3>3 DEF Places
    <3>8. \A j, k \in DOMAIN u : j < k => next[j] < next[k]
      BY <2>1, <2>3, <3>1, <3>2, <3>3, <3>5 DEF Places
    <3>9. ASSUME NEW i \in places \cap 1..(n + 1) PROVE \E k \in DOMAIN u : next[k] = i
      <4>1. CASE i = n + 1
        BY <3>1, <3>2, <3>3, <4>1
      <4>2. CASE i # n + 1
        <5>1. PICK k \in DOMAIN t : place[k] = i
          BY <2>1, <2>3, <4>2 DEF Places
        <5> QED
          BY <3>1, <3>2, <3>3, <5>1
      <4> QED
        BY <4>1, <4>2
    <3>10. Places(s, n + 1, places, u, next)
      BY <3>6, <3>7, <3>8, <3>9 DEF Places
    <3>11. kept[n + 1] = u
      BY <2>4, <2>5 DEF u
    <3> QED
      BY <3>1, <3>10, <3>11
  <2>6. CASE n + 1 \notin places
    <3>1. places \cap 1..(n + 1) = places \cap 1..n
      BY <2>1, <2>6
    <3>2. Places(s, n + 1, places, t, place)
      BY <2>3, <3>1 DEF Places
    <3> QED
      BY <2>2, <2>4, <2>6, <3>2
  <2> QED
    BY <2>5, <2>6
<1>4. Good = Nat
  <2>1. Good \in SUBSET Nat
    OBVIOUS
  <2> HIDE DEF Good
  <2> QED
    BY <1>2, <1>3, <2>1, NatInductionOnASet
<1>5. Len(s) \in Nat /\ Len(s) \in Good
  BY <1>4
<1> QED
  BY <1>1, <1>5

LEMMA ListProperties ==
    ASSUME NEW s, IsList(s)
    PROVE  Len(s) \in Nat /\ DOMAIN s = 1..Len(s)
BY DEF IsList

\* What is kept of a list is a list.
LEMMA SelectedOfList ==
    ASSUME NEW s, IsList(s), NEW P
    PROVE  LET t == Selected(s, P)
           IN IsList(t) /\ \E place : Places(s, Len(s), P, t, place)
<1> DEFINE S == {s[i] : i \in DOMAIN s}
           t == Selected(s, P)
<1>1. s \in Seq(S)
  BY DEF IsList
<1>2. t \in Seq(S) /\ \E place : Places(s, Len(s), P, t, place)
  <2> HIDE DEF S
  <2> QED
    BY <1>1, SelectedPlaces
<1>3. t \in Seq({t[k] : k \in DOMAIN t})
  <2>1. DOMAIN t = 1..Len(t) /\ Len(t) \in Nat /\ t = [k \in 1..Len(t) |-> t[k]]
    <3> HIDE DEF t, S
    <3> QED
      BY <1>2
  <2> HIDE DEF t
  <2> QED
    BY <2>1, IsASeq
<1> QED
  BY <1>2, <1>3 DEF IsList

\* Two places that agree on the sequence keep the same.
LEMMA SelectedAgree ==
    ASSUME NEW S, NEW s \in Seq(S), NEW P, NEW Q, P \cap 1..Len(s) = Q \cap 1..Len(s)
    PROVE  Selected(s, P) = Selected(s, Q)
<1>1. \A n \in 0..Len(s) : n # 0 => (n \in P <=> n \in Q)
  <2>1. Len(s) \in Nat
    OBVIOUS
  <2> QED
    BY <2>1
<1>2. \A kept : KeptSoFar(s, P, kept) <=> KeptSoFar(s, Q, kept)
  BY <1>1 DEF KeptSoFar
<1>3. (CHOOSE kept : KeptSoFar(s, P, kept)) = (CHOOSE kept : KeptSoFar(s, Q, kept))
  BY <1>2
<1> QED
  BY <1>3 DEF Selected, KeptSoFar

LEMMA SelectedOfAppend ==
    ASSUME NEW S, NEW s \in Seq(S), NEW x \in S, NEW places
    PROVE  Selected(Append(s, x), places)
             = IF Len(s) + 1 \in places THEN Append(Selected(s, places), x) ELSE Selected(s, places)
<1> DEFINE t == Append(s, x)
<1>1. t \in Seq(S) /\ Len(t) = Len(s) + 1 /\ Len(s) \in Nat /\ t[Len(s) + 1] = x
      /\ \A n \in 1..Len(s) : t[n] = s[n]
  OBVIOUS
<1>2. PICK f : /\ Selected(s, places) = f[Len(s)]
               /\ DOMAIN f = 0..Len(s)
               /\ f[0] = <<>>
               /\ \A n \in 1..Len(s) :
                     f[n] = IF n \in places THEN Append(f[n - 1], s[n]) ELSE f[n - 1]
  BY SelectedKeeps
<1>3. PICK g : /\ Selected(t, places) = g[Len(t)]
               /\ DOMAIN g = 0..Len(t)
               /\ g[0] = <<>>
               /\ \A n \in 1..Len(t) :
                     g[n] = IF n \in places THEN Append(g[n - 1], t[n]) ELSE g[n - 1]
  <2>1. t \in Seq(S)
    BY <1>1
  <2> HIDE DEF t
  <2> QED
    BY ONLY <2>1, SelectedKeeps, Zenon
<1> HIDE DEF t
<1> DEFINE Same == {n \in Nat : n <= Len(s) => f[n] = g[n]}
<1>4. Same = Nat
  <2>1. 0 \in Same
    BY <1>2, <1>3
  <2>2. ASSUME NEW n \in Same PROVE n + 1 \in Same
    <3> SUFFICES ASSUME n + 1 <= Len(s) PROVE f[n + 1] = g[n + 1]
      OBVIOUS
    <3>1. n \in Nat /\ n + 1 \in 1..Len(s) /\ n + 1 \in 1..Len(t) /\ (n + 1) - 1 = n
      BY <1>1
    <3>2. f[n] = g[n] /\ t[n + 1] = s[n + 1]
      BY <1>1, <3>1
    <3> QED
      BY <1>2, <1>3, <3>1, <3>2
  <2>3. Same \in SUBSET Nat
    OBVIOUS
  <2> HIDE DEF Same
  <2> QED
    BY <2>1, <2>2, <2>3, NatInductionOnASet
<1>5. f[Len(s)] = g[Len(s)]
  BY <1>1, <1>4
<1>6. Len(s) + 1 \in 1..Len(t) /\ (Len(s) + 1) - 1 = Len(s)
  BY <1>1
<1>7. Selected(t, places) = IF Len(s) + 1 \in places THEN Append(f[Len(s)], x) ELSE f[Len(s)]
  BY <1>1, <1>3, <1>5, <1>6
<1> QED
  BY <1>2, <1>7 DEF t

LEMMA SelectedOfNone == \A places : Selected(<<>>, places) = <<>>
<1> SUFFICES ASSUME NEW places PROVE Selected(<<>>, places) = <<>>
  OBVIOUS
<1> DEFINE s == <<>>
<1>1. s \in Seq({}) /\ Len(s) = 0
  OBVIOUS
<1> HIDE DEF s
<1>2. PICK kept : /\ Selected(s, places) = kept[Len(s)]
                  /\ DOMAIN kept = 0..Len(s)
                  /\ kept[0] = <<>>
                  /\ \A n \in 1..Len(s) :
                        kept[n] = IF n \in places THEN Append(kept[n - 1], s[n]) ELSE kept[n - 1]
  <2>1. s \in Seq({})
    BY <1>1
  <2> QED
    BY ONLY <2>1, SelectedKeeps, Zenon
<1>3. Selected(s, places) = <<>>
  BY <1>1, <1>2
<1> QED
  BY <1>3 DEF s
=============================================================================
