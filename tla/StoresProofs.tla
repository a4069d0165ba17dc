---------------------------- MODULE StoresProofs ----------------------------
(***************************************************************************)
(* Proofs about the stores, for every set of sources, connectors' answers, *)
(* attributes and number of runs that the assumptions allow.               *)
(***************************************************************************)
EXTENDS Stores, SequenceLemmas

-----------------------------------------------------------------------------
(* The product FoldFunction computes.                                      *)

Product(m, part) ==
    part = [S \in SUBSET DOMAIN m |->
                IF S = {} THEN 1 ELSE (10 - m[Some(S)]) * part[S \ {Some(S)}]]

LEMMA ProductExists ==
    ASSUME NEW m, IsFiniteSet(DOMAIN m)
    PROVE  \E part : Product(m, part)
<1> DEFINE D == DOMAIN m
           Sized(n) == {S \in SUBSET D : Cardinality(S) <= n}
           Step(part, S) == IF S = {} THEN 1 ELSE (10 - m[Some(S)]) * part[S \ {Some(S)}]
           Good == {n \in Nat : \E part : part = [S \in Sized(n) |-> Step(part, S)]}
<1>1. \A S \in SUBSET D : IsFiniteSet(S) /\ Cardinality(S) \in Nat /\ Cardinality(S) <= Cardinality(D)
  BY FS_Subset, FS_CardinalityType
<1>2. \A n \in Nat : \A S \in Sized(n + 1) : S # {} => S \ {Some(S)} \in Sized(n)
  <2> SUFFICES ASSUME NEW n \in Nat, NEW S \in Sized(n + 1), S # {}
               PROVE  S \ {Some(S)} \in Sized(n)
    OBVIOUS
  <2>1. Some(S) \in S
    BY SomeIsAMember
  <2>2. Cardinality(S \ {Some(S)}) = Cardinality(S) - 1
    BY <1>1, <2>1, FS_RemoveElement
  <2> QED
    BY <1>1, <2>2
<1>3. 0 \in Good
  <2>1. \A S \in Sized(0) : S = {}
    BY <1>1, FS_EmptySet
  <2> DEFINE part == [S \in Sized(0) |-> 1]
  <2>2. part = [S \in Sized(0) |-> Step(part, S)]
    BY <2>1
  <2> QED
    BY <2>2
<1>4. ASSUME NEW n \in Good PROVE n + 1 \in Good
  <2>1. PICK part : part = [S \in Sized(n) |-> Step(part, S)]
    OBVIOUS
  <2> DEFINE next == [S \in Sized(n + 1) |-> Step(part, S)]
  <2>2. \A S \in Sized(n) : S \in Sized(n + 1) /\ next[S] = part[S]
    <3>1. \A S \in Sized(n) : S \in Sized(n + 1)
      BY <1>1
    <3>2. \A S \in Sized(n + 1) : next[S] = Step(part, S)
      OBVIOUS
    <3>3. \A S \in Sized(n) : part[S] = Step(part, S)
      BY <2>1
    <3> HIDE DEF next, Step, Sized
    <3> QED
      BY <3>1, <3>2, <3>3
  <2>3. \A S \in Sized(n + 1) : Step(part, S) = Step(next, S)
    <3> HIDE DEF next, Sized
    <3> QED
      BY <1>2, <2>2
  <2>4. next = [S \in Sized(n + 1) |-> Step(next, S)]
    <3>1. next = [S \in Sized(n + 1) |-> Step(part, S)]
      OBVIOUS
    <3> HIDE DEF next, Step, Sized
    <3> QED
      BY <2>3, <3>1
  <2> HIDE DEF next, Step, Sized
  <2> QED
    BY <2>4
<1>5. Good = Nat
  <2>1. Good \in SUBSET Nat
    OBVIOUS
  <2> HIDE DEF Good
  <2> QED
    BY <1>3, <1>4, <2>1, NatInductionOnASet
<1>6. Cardinality(D) \in Good
  BY <1>5, FS_CardinalityType
<1>7. Sized(Cardinality(D)) = SUBSET D
  BY <1>1
<1> QED
  BY <1>6, <1>7 DEF Product

LEMMA DoubtIsAProduct ==
    ASSUME NEW m \in [Source -> 0..9]
    PROVE  \E part \in [SUBSET Source -> Nat] :
              /\ part[{}] = 1
              /\ \A S \in SUBSET Source :
                    S # {} => part[S] = (10 - m[Some(S)]) * part[S \ {Some(S)}]
              /\ Doubt(m) = part[Source]
<1>1. PICK part : Product(m, part) /\ Doubt(m) = part[DOMAIN m]
  <2>1. \E part : Product(m, part)
    BY MergeAssumption, ProductExists
  <2>2. Doubt(m) = (CHOOSE part : Product(m, part))[DOMAIN m]
    BY DEF Doubt, FoldFunction, FoldFunctionOnSet, MapThenFoldSet, Product, Some
  <2> QED
    BY <2>1, <2>2
<1>2. /\ DOMAIN part = SUBSET Source
      /\ part = [S \in SUBSET Source |-> part[S]]
      /\ part[{}] = 1
      /\ \A S \in SUBSET Source :
            S # {} => part[S] = (10 - m[Some(S)]) * part[S \ {Some(S)}]
  BY <1>1 DEF Product
<1> DEFINE T == {S \in SUBSET Source : part[S] \in Nat}
<1>3. T = SUBSET Source
  <2>1. {} \in T
    BY <1>2
  <2>2. ASSUME NEW S \in SUBSET Source, S # {} /\ S \ {Some(S)} \in T PROVE S \in T
    <3>1. Some(S) \in Source /\ 10 - m[Some(S)] \in Nat
      BY <2>2, SomeIsAMember
    <3>2. part[S \ {Some(S)}] \in Nat
      BY <2>2
    <3>3. part[S] = (10 - m[Some(S)]) * part[S \ {Some(S)}]
      BY <1>2, <2>2
    <3> QED
      BY <3>1, <3>2, <3>3
  <2>3. T \in SUBSET SUBSET Source
    OBVIOUS
  <2> HIDE DEF T
  <2> QED
    BY <2>1, <2>2, <2>3, MergeAssumption, SubsetInduction
<1> QED
  BY <1>1, <1>2, <1>3

\* A confidence is in range: the doubt left by any map of confidences is at most that
\* of no evidence at all, which divides by a hundred (merge.py:26-30).
LEMMA DoubtInRange ==
    /\ Scale \in Nat
    /\ \E k \in Nat : Scale = 100 * k
    /\ \A m \in [Source -> 0..9] : Doubt(m) \in Nat /\ Doubt(m) <= Scale
<1> DEFINE none == [s \in Source |-> 0]
<1>1. none \in [Source -> 0..9]
  OBVIOUS
<1>2. PICK full \in [SUBSET Source -> Nat] :
         /\ full[{}] = 1
         /\ \A S \in SUBSET Source : S # {} => full[S] = (10 - none[Some(S)]) * full[S \ {Some(S)}]
         /\ Doubt(none) = full[Source]
  BY <1>1, DoubtIsAProduct
<1>3. \A S \in SUBSET Source :
         S # {} => full[S] = 10 * full[S \ {Some(S)}] /\ full[S \ {Some(S)}] \in Nat
  <2> SUFFICES ASSUME NEW S \in SUBSET Source, S # {}
               PROVE  full[S] = 10 * full[S \ {Some(S)}] /\ full[S \ {Some(S)}] \in Nat
    OBVIOUS
  <2>1. none[Some(S)] = 0
    BY SomeIsAMember
  <2> QED
    BY <1>2, <2>1
<1>4. Scale = full[Source] /\ Scale \in Nat
  BY <1>2 DEF Scale
<1>5. \E k \in Nat : Scale = 100 * k
  <2> DEFINE Rest == Source \ {Some(Source)}
  <2>1. Source # {} /\ Rest # {}
    <3>1. Source # {}
      BY MergeAssumption, FS_EmptySet
    <3>2. Cardinality(Rest) = Cardinality(Source) - 1 /\ IsFiniteSet(Rest)
      BY <3>1, SomeIsAMember, MergeAssumption, FS_RemoveElement
    <3> HIDE DEF Rest
    <3> QED
      BY <3>1, <3>2, MergeAssumption, FS_EmptySet, FS_CardinalityType
  <2>2. Scale = 10 * full[Rest]
    BY <1>3, <1>4, <2>1
  <2>3. full[Rest] = 10 * full[Rest \ {Some(Rest)}] /\ full[Rest \ {Some(Rest)}] \in Nat
    BY <1>3, <2>1
  <2> QED
    BY <2>2, <2>3
<1>6. ASSUME NEW m \in [Source -> 0..9] PROVE Doubt(m) \in Nat /\ Doubt(m) <= Scale
  <2>1. PICK part \in [SUBSET Source -> Nat] :
           /\ part[{}] = 1
           /\ \A S \in SUBSET Source : S # {} => part[S] = (10 - m[Some(S)]) * part[S \ {Some(S)}]
           /\ Doubt(m) = part[Source]
    BY DoubtIsAProduct
  <2> DEFINE T == {S \in SUBSET Source : part[S] <= full[S]}
  <2>2. T = SUBSET Source
    <3>1. {} \in T
      BY <1>2, <2>1
    <3>2. ASSUME NEW S \in SUBSET Source, S # {} /\ S \ {Some(S)} \in T PROVE S \in T
      <4> DEFINE c == m[Some(S)]
                 p == part[S \ {Some(S)}]
                 f == full[S \ {Some(S)}]
      <4>1. c \in 0..9
        BY <3>2, SomeIsAMember
      <4>2. p \in Nat /\ f \in Nat /\ p <= f
        BY <3>2
      <4>3. part[S] = (10 - c) * p /\ full[S] = 10 * f
        BY <1>3, <2>1, <3>2
      <4> HIDE DEF c, p, f
      <4>4. (10 - c) * p <= 10 * p
        BY <4>1, <4>2
      <4>5. part[S] <= full[S]
        BY <4>1, <4>2, <4>3, <4>4
      <4> QED
        BY <4>5
    <3>3. T \in SUBSET SUBSET Source
      OBVIOUS
    <3> HIDE DEF T
    <3> QED
      BY <3>1, <3>2, <3>3, MergeAssumption, SubsetInduction
  <2>3. part[Source] <= full[Source]
    BY <2>2
  <2> QED
    BY <1>4, <2>1, <2>3
<1> QED
  BY <1>4, <1>5, <1>6

\* With one source, noisy-or is its confidence: what a first report is stored with
\* (memory.py:26-30) is what merging its map would give (merge.py:26-30).
LEMMA OneSource ==
    ASSUME NEW s \in Source
    PROVE  NoisyOr([q \in Source |-> IF q = s THEN ConfOf[s] ELSE 0])
             = ConfOf[s] * (Scale \div 10)
<1> DEFINE one == [q \in Source |-> IF q = s THEN ConfOf[s] ELSE 0]
           none == [q \in Source |-> 0]
           c == ConfOf[s]
<1>1. one \in [Source -> 0..9] /\ none \in [Source -> 0..9] /\ c \in 1..9
  BY MergeAssumption
<1>2. PICK full \in [SUBSET Source -> Nat] :
         /\ full[{}] = 1
         /\ \A S \in SUBSET Source : S # {} => full[S] = (10 - none[Some(S)]) * full[S \ {Some(S)}]
         /\ Doubt(none) = full[Source]
  BY <1>1, DoubtIsAProduct
<1>3. PICK part \in [SUBSET Source -> Nat] :
         /\ part[{}] = 1
         /\ \A S \in SUBSET Source : S # {} => part[S] = (10 - one[Some(S)]) * part[S \ {Some(S)}]
         /\ Doubt(one) = part[Source]
  BY <1>1, DoubtIsAProduct
<1> DEFINE T == {S \in SUBSET Source :
                   IF s \in S THEN 10 * part[S] = (10 - c) * full[S] ELSE part[S] = full[S]}
<1>4. T = SUBSET Source
  <2>1. {} \in T
    BY <1>2, <1>3
  <2>2. ASSUME NEW S \in SUBSET Source, S # {} /\ S \ {Some(S)} \in T PROVE S \in T
    <3> DEFINE x == Some(S)
               p == part[S \ {x}]
               f == full[S \ {x}]
    <3>1. x \in S /\ x \in Source
      BY <2>2, SomeIsAMember
    <3>2. part[S] = (10 - one[x]) * p /\ full[S] = (10 - none[x]) * f
      BY <1>2, <1>3, <2>2
    <3>3. none[x] = 0 /\ one[x] = (IF x = s THEN c ELSE 0)
      BY <3>1
    <3>4. p \in Nat /\ f \in Nat
      OBVIOUS
    <3>5. IF s \in S \ {x} THEN 10 * p = (10 - c) * f ELSE p = f
      BY <2>2
    <3>6. IF s \in S THEN 10 * part[S] = (10 - c) * full[S] ELSE part[S] = full[S]
      <4> HIDE DEF x, p, f, one, none, c
      <4>1. CASE x = s
        <5>1. part[S] = (10 - c) * f /\ full[S] = 10 * f /\ s \in S
          BY <3>1, <3>2, <3>3, <3>5, <4>1
        <5>2. 10 * ((10 - c) * f) = (10 - c) * (10 * f)
          BY <1>1, <3>4
        <5> QED
          BY <5>1, <5>2
      <4>2. CASE x # s /\ s \in S
        <5>1. 10 * p = (10 - c) * f /\ part[S] = 10 * p /\ full[S] = 10 * f
          BY <3>2, <3>3, <3>5, <4>2
        <5>2. 10 * ((10 - c) * f) = (10 - c) * (10 * f)
          BY <1>1, <3>4
        <5> QED
          BY <4>2, <5>1, <5>2
      <4>3. CASE s \notin S
        BY <3>1, <3>2, <3>3, <3>4, <3>5, <4>3
      <4> QED
        BY <4>1, <4>2, <4>3
    <3> QED
      BY <3>6
  <2>3. T \in SUBSET SUBSET Source
    OBVIOUS
  <2> HIDE DEF T
  <2> QED
    BY <2>1, <2>2, <2>3, MergeAssumption, SubsetInduction
<1>5. 10 * Doubt(one) = (10 - c) * Scale
  BY <1>2, <1>3, <1>4 DEF Scale
<1>6. PICK k \in Nat : Scale = 100 * k
  BY DoubtInRange
<1>7. Scale \div 10 = 10 * k /\ Scale \div 100 = k
  BY <1>6
<1>8. Doubt(one) \in Nat
  BY <1>1, DoubtInRange
<1>9. (10 - c) * Scale = 1000 * k - 100 * (c * k) /\ c * k \in Nat /\ c * k <= 9 * k
  <2> HIDE DEF c
  <2> QED
    BY <1>1, <1>6
<1>10. c * (10 * k) = 10 * (c * k)
  BY <1>1
<1>11. NoisyOr(one) = Smaller(99 * k, 100 * k - Doubt(one))
  BY <1>6, <1>7 DEF NoisyOr
<1>12. NoisyOr(one) = c * (10 * k)
  <2> HIDE DEF one, c
  <2>1. Doubt(one) = 100 * k - 10 * (c * k)
    BY <1>5, <1>8, <1>9
  <2> QED
    BY <1>8, <1>9, <1>10, <1>11, <2>1 DEF Smaller
<1> QED
  BY <1>7, <1>12

-----------------------------------------------------------------------------
(* A record and the reports it is made of.                                 *)

DatedReports(n) == {Dated(r, d) : r \in Reports, d \in 1..n}

\* rec is what the reports R, a set that is not empty, say together.
AddsUp(rec, R) ==
    /\ rec.sources = UNION {r.provs : r \in R}
    /\ rec.tags = UNION {r.tags : r \in R}
    /\ rec.first \in {r.seen : r \in R} /\ \A r \in R : rec.first <= r.seen
    /\ rec.last \in {r.seen : r \in R} /\ \A r \in R : rec.last >= r.seen
    /\ rec.conf = [s \in Source |-> IF \E r \in R : r.source = s THEN ConfOf[s] ELSE 0]
    /\ rec.confidence = NoisyOr(rec.conf)

\* No value reported for an attribute is missing from rec; one without a value has no
\* conflicts, whose pairs start with it.
KeepsValues(rec, R) ==
    /\ DOMAIN rec.attributes = Field
    /\ \A f \in Field :
          /\ rec.attributes[f] = Known(rec.attributes[f].value, rec.attributes[f].conflicts)
          /\ rec.attributes[f].value = Null => rec.attributes[f].conflicts = {}
    /\ \A f \in Field \ Nested : \A r \in R :
          r.attrs[f] # Null =>
            \/ rec.attributes[f].value = r.attrs[f]
            \/ <<rec.attributes[f].value, r.attrs[f]>> \in rec.attributes[f].conflicts

LEMMA ReportFields ==
    ASSUME NEW n \in Nat, NEW r \in DatedReports(n)
    PROVE  r.id \in Id /\ r.source \in Source /\ r.seen \in 1..n /\ ConfOf[r.source] \in 1..9
BY StoreAssumption, MergeAssumption DEF DatedReports, Dated

LEMMA FirstRecordAddsUp ==
    ASSUME NEW n \in Nat, NEW r \in DatedReports(n)
    PROVE  AddsUp(FirstRecord(r), {r}) /\ KeepsValues(FirstRecord(r), {r})
<1> DEFINE rec == FirstRecord(r)
<1>1. r.source \in Source /\ r.seen \in 1..n
  BY ReportFields
<1>2. rec.conf = [s \in Source |-> IF \E q \in {r} : q.source = s THEN ConfOf[s] ELSE 0]
  BY DEF FirstRecord, SourceConfidences
<1>3. rec.conf = [s \in Source |-> IF s = r.source THEN ConfOf[r.source] ELSE 0]
  BY DEF FirstRecord, SourceConfidences
<1>4. rec.confidence = NoisyOr(rec.conf)
  <2>1. rec.confidence = ConfOf[r.source] * (Scale \div 10)
    BY DEF FirstRecord
  <2> HIDE DEF rec
  <2> QED
    BY <1>1, <1>3, <2>1, OneSource
<1>5. AddsUp(rec, {r})
  <2>1. /\ rec.sources = r.provs /\ rec.tags = r.tags
        /\ rec.first = r.seen /\ rec.last = r.seen
    BY DEF FirstRecord
  <2> HIDE DEF rec
  <2> QED
    BY <1>1, <1>2, <1>4, <2>1 DEF AddsUp
<1>6. KeepsValues(rec, {r})
  BY DEF FirstRecord, Known, KeepsValues
<1> QED
  BY <1>5, <1>6

LEMMA MergedAddsUp ==
    ASSUME NEW n \in Nat, NEW r \in DatedReports(n), NEW R \in SUBSET DatedReports(n), NEW rec,
           AddsUp(rec, R)
    PROVE  AddsUp(Merged(rec, r), R \cup {r})
<1> DEFINE new == Merged(rec, r)
           conf == MergeSourceConfidences(rec.conf, SourceConfidences(r))
<1>1. r.source \in Source /\ r.seen \in Nat /\ \A q \in R : q.seen \in Nat
  BY ReportFields
<1>2. rec.first \in Nat /\ rec.last \in Nat
  BY <1>1 DEF AddsUp
<1>3. /\ new.sources = rec.sources \cup r.provs
      /\ new.tags = rec.tags \cup r.tags
      /\ new.first = Smaller(rec.first, r.seen)
      /\ new.last = Larger(rec.last, r.seen)
      /\ new.conf = conf
      /\ new.confidence = NoisyOr(conf)
  BY DEF Merged
<1>4. conf = [s \in Source |-> IF \E q \in R \cup {r} : q.source = s THEN ConfOf[s] ELSE 0]
  <2>1. \A s \in Source : ConfOf[s] \in 1..9
    BY MergeAssumption
  <2>2. \A s \in Source :
           Larger(rec.conf[s], SourceConfidences(r)[s])
             = IF \E q \in R \cup {r} : q.source = s THEN ConfOf[s] ELSE 0
    BY <2>1 DEF AddsUp, Larger, SourceConfidences
  <2> QED
    BY <2>2 DEF MergeSourceConfidences
<1> HIDE DEF new, conf
<1>5. new.first \in {q.seen : q \in R \cup {r}} /\ \A q \in R \cup {r} : new.first <= q.seen
  BY <1>1, <1>2, <1>3 DEF AddsUp, Smaller
<1>6. new.last \in {q.seen : q \in R \cup {r}} /\ \A q \in R \cup {r} : new.last >= q.seen
  BY <1>1, <1>2, <1>3 DEF AddsUp, Larger
<1>7. /\ new.sources = UNION {q.provs : q \in R \cup {r}}
      /\ new.tags = UNION {q.tags : q \in R \cup {r}}
  BY <1>3 DEF AddsUp
<1>8. AddsUp(new, R \cup {r})
  BY <1>3, <1>4, <1>5, <1>6, <1>7 DEF AddsUp
<1> QED
  BY <1>8 DEF new

LEMMA MergedKeepsValues ==
    ASSUME NEW r, NEW R, NEW rec, KeepsValues(rec, R)
    PROVE  KeepsValues(Merged(rec, r), R \cup {r})
<1> DEFINE new == Merged(rec, r)
<1>1. new.attributes = [f \in Field |-> MergePath(f, rec.attributes[f], r.attrs[f])]
  BY DEF Merged, MergeAttributes
<1>2. ASSUME NEW f \in Field
      PROVE  /\ new.attributes[f] = Known(new.attributes[f].value, new.attributes[f].conflicts)
             /\ new.attributes[f].value = Null => new.attributes[f].conflicts = {}
  <2> DEFINE known == rec.attributes[f]
             v == r.attrs[f]
             next == new.attributes[f]
  <2>1. next = MergePath(f, known, v)
    BY <1>1
  <2>2. known = Known(known.value, known.conflicts) /\ (known.value = Null => known.conflicts = {})
    BY DEF KeepsValues
  <2> HIDE DEF new, known, v, next
  <2>3. \/ next = known
        \/ v # Null /\ next = Known(v, known.conflicts)
        \/ /\ known.value # Null
           /\ next = Known(known.value,
                          {<<known.value, v>>} \cup (IF f \in Nested THEN {} ELSE known.conflicts))
    BY <2>1 DEF MergePath
  <2>4. next = Known(next.value, next.conflicts) /\ (next.value = Null => next.conflicts = {})
    BY <2>2, <2>3 DEF Known
  <2> QED
    BY <2>4 DEF next
<1>3. ASSUME NEW f \in Field \ Nested, NEW q \in R \cup {r}, q.attrs[f] # Null
      PROVE  \/ new.attributes[f].value = q.attrs[f]
             \/ <<new.attributes[f].value, q.attrs[f]>> \in new.attributes[f].conflicts
  <2> DEFINE known == rec.attributes[f]
             v == r.attrs[f]
             next == new.attributes[f]
  <2>1. next = MergePath(f, known, v)
    BY <1>1
  <2>2. known.value = Null => known.conflicts = {}
    BY DEF KeepsValues
  <2>3. q \in R => known.value = q.attrs[f] \/ <<known.value, q.attrs[f]>> \in known.conflicts
    BY <1>3 DEF KeepsValues
  <2>4. q \notin R => q.attrs[f] = v
    OBVIOUS
  <2> HIDE DEF new, known, v, next
  <2>5. CASE v = Null \/ v = known.value
    <3>1. next = known
      BY <2>1, <2>5 DEF MergePath
    <3> QED
      BY <1>3, <2>3, <2>4, <2>5, <3>1 DEF next
  <2>6. CASE ~(v = Null \/ v = known.value) /\ known.value = Null
    <3>1. next.value = v
      BY <2>1, <2>6 DEF MergePath, Known
    <3>2. q \notin R
      BY <1>3, <2>2, <2>3, <2>6
    <3> QED
      BY <2>4, <3>1, <3>2 DEF next
  <2>7. CASE ~(v = Null \/ v = known.value) /\ known.value # Null
    <3>1. /\ next.value = known.value
          /\ next.conflicts = {<<known.value, v>>} \cup known.conflicts
      BY <2>1, <2>7 DEF MergePath, Known
    <3> QED
      BY <2>3, <2>4, <3>1 DEF next
  <2> QED
    BY <2>5, <2>6, <2>7
<1> QED
  BY <1>1, <1>2, <1>3 DEF KeepsValues

-----------------------------------------------------------------------------
(* The abstract store.                                                     *)

RecordsInv ==
    \A id \in Id :
        IF About(id) = {} THEN id \notin DOMAIN graph
        ELSE /\ id \in DOMAIN graph
             /\ AddsUp(graph[id], About(id))
             /\ KeepsValues(graph[id], About(id))

\* The inductive invariant: the records are those of the reports kept, and a store in
\* memory has kept them all.
StoreInv ==
    /\ durable \in Durabilities
    /\ DOMAIN graph \subseteq Id
    /\ todo \in [Task -> Seq(Seq(Reports) \ {<<>>})]
    /\ turn \in Task \cup {"none"}
    /\ run \in 1..MaxRuns
    /\ recorded \subseteq DatedReports(run)
    /\ RecordsInv
    /\ ~durable => recorded = reported

LEMMA StoreInvInit == Init => StoreInv
<1> SUFFICES ASSUME Init PROVE StoreInv
  OBVIOUS
<1>1. DOMAIN graph = {} /\ recorded = {} /\ reported = {}
  BY DEF Init
<1>2. RecordsInv
  BY <1>1 DEF RecordsInv, About
<1>3. todo \in [Task -> Seq(Seq(Reports) \ {<<>>})] /\ run \in 1..MaxRuns
  BY StoreAssumption DEF Init
<1>4. durable \in Durabilities /\ turn \in Task \cup {"none"}
  BY DEF Init
<1> QED
  BY <1>1, <1>2, <1>3, <1>4 DEF StoreInv

\* The report a task hands over is one a connector made, and what is left of its
\* answers is again made of batches (engine.py:233-238).
LEMMA BatchesHandled ==
    ASSUME NEW t \in Task, todo \in [Task -> Seq(Seq(Reports) \ {<<>>})],
           todo[t] # <<>>, run \in Nat \ {0}
    PROVE  /\ Report(t) \in DatedReports(run)
           /\ Handled(t) => /\ todo' \in [Task -> Seq(Seq(Reports) \ {<<>>})]
                            /\ turn' \in {"none", t}
                            /\ turn' = t => todo'[t] # <<>>
<1> DEFINE Batch == Seq(Reports) \ {<<>>}
           batch == Head(todo[t])
<1>1. todo[t] \in Seq(Batch) /\ batch \in Batch /\ Tail(todo[t]) \in Seq(Batch)
  BY HeadTailProperties
<1>2. Head(batch) \in Reports /\ Tail(batch) \in Seq(Reports) /\ Len(batch) \in Nat \ {0}
      /\ Len(Tail(batch)) = Len(batch) - 1
  BY <1>1, HeadTailProperties, EmptySeq, LenProperties
<1>3. Report(t) \in DatedReports(run)
  BY <1>2 DEF Report, DatedReports
<1>4. ASSUME Handled(t)
      PROVE  /\ todo' \in [Task -> Seq(Seq(Reports) \ {<<>>})]
             /\ turn' \in {"none", t}
             /\ turn' = t => todo'[t] # <<>>
  <2>1. CASE Len(batch) = 1
    <3>1. todo' = [todo EXCEPT ![t] = Tail(@)] /\ turn' = "none"
      BY <1>4, <2>1 DEF Handled
    <3> HIDE DEF batch, Batch
    <3> QED
      BY <1>1, <3>1, StoreAssumption DEF Batch
  <2>2. CASE Len(batch) # 1
    <3> DEFINE rest == <<Tail(batch)>> \o Tail(todo[t])
    <3>1. todo' = [todo EXCEPT ![t] = rest] /\ turn' = t
      BY <1>4, <2>2 DEF Handled
    <3>2. Tail(batch) \in Batch
      <4>1. Len(Tail(batch)) # 0 /\ Len(<<>>) = 0
        <5> HIDE DEF batch
        <5> QED
          BY <1>2, <2>2
      <4> QED
        BY <1>2, <4>1
    <3>3. <<Tail(batch)>> \in Seq(Batch) /\ Len(<<Tail(batch)>>) = 1
      <4> HIDE DEF Batch, batch
      <4> QED
        BY <3>2
    <3>4. rest \in Seq(Batch) /\ Len(rest) = 1 + Len(Tail(todo[t]))
      <4> HIDE DEF Batch, batch
      <4> QED
        BY <1>1, <3>3, ConcatProperties
    <3>5. rest # <<>>
      <4> HIDE DEF Batch, batch, rest
      <4>1. Len(Tail(todo[t])) \in Nat
        BY <1>1, LenProperties
      <4> QED
        BY <3>4, <4>1, EmptySeq
    <3> HIDE DEF Batch, batch, rest
    <3> QED
      BY <3>1, <3>4, <3>5 DEF Batch
  <2> QED
    BY <2>1, <2>2
<1> QED
  BY <1>3, <1>4

\* Upsert puts the report into the record of its id and leaves the others alone
\* (memory.py:25-64).
LEMMA UpsertKeepsRecords ==
    ASSUME NEW n \in Nat, NEW r \in DatedReports(n), recorded \subseteq DatedReports(n),
           DOMAIN graph \subseteq Id, RecordsInv, Upsert(r), recorded' = recorded \cup {r}
    PROVE  /\ RecordsInv'
           /\ DOMAIN graph' = DOMAIN graph \cup {r.id}
           /\ \A id \in DOMAIN graph : id # r.id => graph'[id] = graph[id]
           /\ graph'[r.id] = IF r.id \in DOMAIN graph THEN Merged(graph[r.id], r)
                             ELSE FirstRecord(r)
<1> DEFINE new == IF r.id \in DOMAIN graph THEN Merged(graph[r.id], r) ELSE FirstRecord(r)
<1>1. r.id \in Id
  BY ReportFields
<1>2. /\ DOMAIN graph' = DOMAIN graph \cup {r.id}
      /\ \A id \in DOMAIN graph : id # r.id => graph'[id] = graph[id]
      /\ graph'[r.id] = new
  BY DEF Upsert, Put
<1>3. \A id \in Id : About(id)' = About(id) \cup (IF id = r.id THEN {r} ELSE {})
  BY DEF About
<1>4. About(r.id) \in SUBSET DatedReports(n)
  BY DEF About
<1>5. AddsUp(new, About(r.id) \cup {r}) /\ KeepsValues(new, About(r.id) \cup {r})
  <2>1. CASE About(r.id) = {}
    <3>1. r.id \notin DOMAIN graph
      BY <1>1, <2>1 DEF RecordsInv
    <3>2. About(r.id) \cup {r} = {r}
      BY <2>1
    <3> QED
      BY <3>1, <3>2, FirstRecordAddsUp
  <2>2. CASE About(r.id) # {}
    <3>1. r.id \in DOMAIN graph /\ AddsUp(graph[r.id], About(r.id))
          /\ KeepsValues(graph[r.id], About(r.id))
      BY <1>1, <2>2 DEF RecordsInv
    <3> QED
      BY <1>4, <3>1, MergedAddsUp, MergedKeepsValues
  <2> QED
    BY <2>1, <2>2
<1> HIDE DEF new
<1>6. ASSUME NEW id \in Id
      PROVE  IF About(id)' = {} THEN id \notin DOMAIN graph'
             ELSE /\ id \in DOMAIN graph'
                  /\ AddsUp(graph'[id], About(id)')
                  /\ KeepsValues(graph'[id], About(id)')
  <2>1. CASE id = r.id
    BY <1>2, <1>3, <1>5, <2>1
  <2>2. CASE id # r.id
    <3>1. About(id)' = About(id) /\ (id \in DOMAIN graph' <=> id \in DOMAIN graph)
          /\ (id \in DOMAIN graph => graph'[id] = graph[id])
      BY <1>2, <1>3, <2>2
    <3> QED
      BY <3>1 DEF RecordsInv
  <2> QED
    BY <2>1, <2>2
<1>7. RecordsInv'
  BY <1>6 DEF RecordsInv, AddsUp, KeepsValues
<1> QED
  BY <1>2, <1>7 DEF new

\* Without a record for one end the durable store keeps nothing, and both go on to the
\* next report (engine.py:225-239).
LEMMA RecordKeepsStoreInv ==
    ASSUME StoreInv, NEW t \in Task, Record(t)
    PROVE  StoreInv'
<1>1. run \in Nat \ {0} /\ run \in Nat
  BY StoreAssumption DEF StoreInv
<1>2. /\ Report(t) \in DatedReports(run)
      /\ todo' \in [Task -> Seq(Seq(Reports) \ {<<>>})]
      /\ turn' \in Task \cup {"none"}
  BY <1>1, BatchesHandled DEF StoreInv, Record
<1>3. durable' = durable /\ run' = run /\ reported' = reported \cup {Report(t)}
  BY DEF Record, Handled
<1>4. CASE Keeps(Report(t).id)
  <2>1. Upsert(Report(t)) /\ recorded' = recorded \cup {Report(t)}
    BY <1>4 DEF Record
  <2>2. RecordsInv' /\ DOMAIN graph' = DOMAIN graph \cup {Report(t).id}
    BY <1>1, <1>2, <2>1, UpsertKeepsRecords DEF StoreInv
  <2>3. Report(t).id \in Id
    BY <1>1, <1>2, ReportFields
  <2> QED
    BY <1>2, <1>3, <2>1, <2>2, <2>3 DEF StoreInv
<1>5. CASE ~Keeps(Report(t).id)
  <2>1. UNCHANGED <<graph, recorded>> /\ durable
    BY <1>5 DEF Record, Keeps
  <2>2. RecordsInv'
    BY <2>1 DEF StoreInv, RecordsInv, About
  <2> QED
    BY <1>2, <1>3, <2>1, <2>2 DEF StoreInv
<1> QED
  BY <1>4, <1>5

LEMMA StoreInvStep == StoreInv /\ [Next]_vars => StoreInv'
<1> SUFFICES ASSUME StoreInv, [Next]_vars PROVE StoreInv'
  OBVIOUS
<1>1. ASSUME NEW t \in Task, Record(t) PROVE StoreInv'
  BY <1>1, RecordKeepsStoreInv
<1>2. CASE Rerun
  <2>1. run' \in 1..MaxRuns /\ run < run'
    BY <1>2, StoreAssumption DEF Rerun, StoreInv
  <2>2. todo' \in [Task -> Seq(Seq(Reports) \ {<<>>})] /\ turn' = "none" /\ durable' = durable
    BY <1>2, <2>1, StoreAssumption DEF Rerun
  <2>3. CASE durable
    <3>1. UNCHANGED <<graph, recorded, reported>>
      BY <1>2, <2>3 DEF Rerun
    <3>2. RecordsInv'
      BY <3>1 DEF StoreInv, RecordsInv, About
    <3>3. DatedReports(run) \subseteq DatedReports(run')
      <4>1. \A d \in 1..run : d \in 1..run'
        BY <2>1, StoreAssumption DEF StoreInv
      <4> QED
        BY <4>1 DEF DatedReports
    <3> QED
      BY <2>1, <2>2, <3>1, <3>2, <3>3 DEF StoreInv
  <2>4. CASE ~durable
    <3>1. DOMAIN graph' = {} /\ recorded' = {} /\ reported' = {}
      BY <1>2, <2>4 DEF Rerun
    <3>2. RecordsInv'
      BY <3>1 DEF RecordsInv, About
    <3> QED
      BY <2>1, <2>2, <3>1, <3>2 DEF StoreInv
  <2> QED
    BY <2>3, <2>4
<1>3. CASE UNCHANGED vars
  <2>1. RecordsInv'
    BY <1>3 DEF vars, StoreInv, RecordsInv, About
  <2> QED
    BY <1>3, <2>1 DEF vars, StoreInv
<1> QED
  BY <1>1, <1>2, <1>3 DEF Next

LEMMA StoreInvHolds == Spec => []StoreInv
<1> QED
  BY StoreInvInit, StoreInvStep, PTL DEF Spec

-----------------------------------------------------------------------------
(* What the invariant says of the records.                                 *)

LEMMA ConfidencesInRange ==
    ASSUME NEW rec, NEW R, AddsUp(rec, R)
    PROVE  rec.conf \in [Source -> 0..9] /\ rec.confidence \in 0..Scale
<1>1. rec.conf \in [Source -> 0..9]
  BY MergeAssumption DEF AddsUp
<1>2. PICK k \in Nat : Scale = 100 * k
  BY DoubtInRange
<1>3. Scale \div 100 = k
  BY <1>2
<1>4. rec.confidence = Smaller(99 * k, Scale - Doubt(rec.conf))
  BY <1>3 DEF AddsUp, NoisyOr
<1>5. Doubt(rec.conf) \in Nat /\ Doubt(rec.conf) <= Scale
  BY <1>1, DoubtInRange
<1>6. rec.confidence \in 0..Scale
  BY <1>2, <1>4, <1>5 DEF Smaller
<1> QED
  BY <1>1, <1>6

LEMMA StoreInvMeansTypeOK == StoreInv => TypeOK
<1> SUFFICES ASSUME StoreInv PROVE TypeOK
  OBVIOUS
<1>1. ASSUME NEW id \in DOMAIN graph
      PROVE  /\ graph[id].conf \in [Source -> 0..9]
             /\ graph[id].confidence \in 0..Scale
             /\ 1 <= graph[id].first /\ graph[id].first <= graph[id].last /\ graph[id].last <= run
             /\ DOMAIN graph[id].attributes = Field
  <2>1. id \in Id /\ AddsUp(graph[id], About(id)) /\ KeepsValues(graph[id], About(id))
    BY <1>1 DEF StoreInv, RecordsInv
  <2>2. run \in Nat /\ \A r \in About(id) : r.seen \in 1..run
    BY ReportFields, StoreAssumption DEF StoreInv, About
  <2>3. 1 <= graph[id].first /\ graph[id].first <= graph[id].last /\ graph[id].last <= run
    BY <2>1, <2>2 DEF AddsUp
  <2> QED
    BY <2>1, <2>3, ConfidencesInRange DEF KeepsValues
<1> QED
  BY <1>1 DEF StoreInv, TypeOK

LEMMA StoreInvMeansSums == StoreInv => RecordsAddUp
<1> SUFFICES ASSUME StoreInv, NEW id \in Id, About(id) # {}
             PROVE  LET all == Union(About(id))
                    IN /\ id \in DOMAIN graph
                       /\ graph[id].sources = all.sources
                       /\ graph[id].tags = all.tags
                       /\ graph[id].first = all.first
                       /\ graph[id].last = all.last
                       /\ graph[id].confidence = Smaller(99 * (Scale \div 100), Scale - all.doubt)
  BY DEF RecordsAddUp
<1> DEFINE R == About(id)
           Dates == {r.seen : r \in R}
           all == Union(R)
           rec == graph[id]
<1>1. id \in DOMAIN graph /\ AddsUp(rec, R)
  BY DEF StoreInv, RecordsInv
<1>2. \A r \in R : r.seen \in Nat
  BY ReportFields, StoreAssumption DEF StoreInv, About
<1>3. rec.sources = all.sources /\ rec.tags = all.tags
  BY <1>1 DEF Union, AddsUp
<1>4. rec.first = all.first
  <2>1. all.first = CHOOSE t \in Dates : \A r \in R : t <= r.seen
    BY DEF Union
  <2>2. rec.first \in Dates /\ \A r \in R : rec.first <= r.seen
    BY <1>1 DEF AddsUp
  <2>3. all.first \in Dates /\ \A r \in R : all.first <= r.seen
    BY <2>1, <2>2
  <2> HIDE DEF rec, all, R
  <2> QED
    BY <1>2, <2>2, <2>3
<1>5. rec.last = all.last
  <2>1. all.last = CHOOSE t \in Dates : \A r \in R : t >= r.seen
    BY DEF Union
  <2>2. rec.last \in Dates /\ \A r \in R : rec.last >= r.seen
    BY <1>1 DEF AddsUp
  <2>3. all.last \in Dates /\ \A r \in R : all.last >= r.seen
    BY <2>1, <2>2
  <2> HIDE DEF rec, all, R
  <2> QED
    BY <1>2, <2>2, <2>3
<1>6. all.doubt = Doubt(rec.conf)
  BY <1>1 DEF Union, AddsUp
<1>7. rec.confidence = Smaller(99 * (Scale \div 100), Scale - Doubt(rec.conf))
  BY <1>1 DEF AddsUp, NoisyOr
<1> QED
  BY <1>1, <1>3, <1>4, <1>5, <1>6, <1>7

LEMMA StoreInvMeansValuesKept == StoreInv => NoValueLost
<1> SUFFICES ASSUME StoreInv, NEW r \in recorded, NEW f \in Field \ Nested, r.attrs[f] # Null
             PROVE  \/ graph[r.id].attributes[f].value = r.attrs[f]
                    \/ <<graph[r.id].attributes[f].value, r.attrs[f]>>
                            \in graph[r.id].attributes[f].conflicts
  BY DEF NoValueLost
<1>1. r.id \in Id /\ r \in About(r.id)
  BY ReportFields, StoreAssumption DEF StoreInv, About
<1> QED
  BY <1>1 DEF StoreInv, RecordsInv, KeepsValues

LEMMA StoreInvMeansMemoryComplete == StoreInv => MemoryStoresEverything
<1> SUFFICES ASSUME StoreInv, ~durable, NEW r \in reported
             PROVE  r.id \in DOMAIN graph /\ r.provs \subseteq graph[r.id].sources
  BY DEF MemoryStoresEverything, EverythingStored
<1>1. r \in recorded
  BY DEF StoreInv
<1>2. r.id \in Id /\ r \in About(r.id)
  BY <1>1, ReportFields, StoreAssumption DEF StoreInv, About
<1>3. r.id \in DOMAIN graph /\ AddsUp(graph[r.id], About(r.id))
  BY <1>2 DEF StoreInv, RecordsInv
<1>4. graph[r.id].sources = UNION {q.provs : q \in About(r.id)}
  BY <1>3 DEF AddsUp
<1> QED
  BY <1>2, <1>3, <1>4

\* A report that repeats one already kept finds its confidence and its values in the
\* record, so that merging it changes neither (merge.py:17-30,52-75).
LEMMA RepeatedReportsTeachNothing ==
    StoreInv /\ [Next]_vars =>
        \A r \in recorded' \ recorded : Repeats(r) =>
          /\ \A f \in Field \ Nested : graph'[r.id].attributes[f] = graph[r.id].attributes[f]
          /\ graph'[r.id].conf = graph[r.id].conf
          /\ graph'[r.id].confidence = graph[r.id].confidence
<1> SUFFICES ASSUME StoreInv, [Next]_vars, NEW r \in recorded' \ recorded, Repeats(r)
             PROVE  /\ \A f \in Field \ Nested :
                          graph'[r.id].attributes[f] = graph[r.id].attributes[f]
                    /\ graph'[r.id].conf = graph[r.id].conf
                    /\ graph'[r.id].confidence = graph[r.id].confidence
  OBVIOUS
<1>1. PICK t \in Task : Record(t)
  BY DEF Next, Rerun, vars
<1>2. Keeps(Report(t).id) /\ Upsert(Report(t)) /\ recorded' = recorded \cup {Report(t)}
  BY <1>1 DEF Record
<1>3. r = Report(t) /\ Upsert(r) /\ recorded' = recorded \cup {r}
  BY <1>2
<1>4. run \in Nat /\ run \in Nat \ {0} /\ recorded \subseteq DatedReports(run)
      /\ DOMAIN graph \subseteq Id /\ RecordsInv
  BY StoreAssumption DEF StoreInv
<1>5. r \in DatedReports(run)
  BY <1>1, <1>3, <1>4, BatchesHandled DEF StoreInv, Record
<1>6. PICK q \in recorded : Undated(q) = Undated(r)
  BY DEF Repeats
<1>7. q.id = r.id /\ q.source = r.source /\ q.attrs = r.attrs
  <2>1. PICK a \in Reports, m \in 1..run : q = Dated(a, m)
    BY <1>4, <1>6 DEF DatedReports
  <2>2. PICK b \in Reports, n \in 1..run : r = Dated(b, n)
    BY <1>5 DEF DatedReports
  <2>3. Undated(q).id = q.id /\ Undated(q).source = q.source /\ Undated(q).attrs = q.attrs
    BY <2>1 DEF Dated, Undated
  <2>4. Undated(r).id = r.id /\ Undated(r).source = r.source /\ Undated(r).attrs = r.attrs
    BY <2>2 DEF Dated, Undated
  <2> QED
    BY <1>6, <2>3, <2>4
<1> DEFINE rec == graph[r.id]
           new == graph'[r.id]
<1>8. r.id \in Id /\ q \in About(r.id) /\ r.source \in Source
  BY <1>4, <1>5, <1>6, <1>7, ReportFields DEF About
<1>9. r.id \in DOMAIN graph /\ AddsUp(rec, About(r.id)) /\ KeepsValues(rec, About(r.id))
  BY <1>4, <1>8 DEF RecordsInv
<1>10. new = Merged(rec, r)
  BY <1>3, <1>4, <1>5, <1>9, UpsertKeepsRecords
<1>11. new.conf = rec.conf
  <2>1. new.conf = [s \in Source |-> Larger(rec.conf[s], SourceConfidences(r)[s])]
    BY <1>10 DEF Merged, MergeSourceConfidences
  <2>2. rec.conf = [s \in Source |-> IF \E p \in About(r.id) : p.source = s THEN ConfOf[s] ELSE 0]
    BY <1>9 DEF AddsUp
  <2>3. \A s \in Source : Larger(rec.conf[s], SourceConfidences(r)[s]) = rec.conf[s]
    <3>1. \A s \in Source : ConfOf[s] \in 1..9
      BY MergeAssumption
    <3>2. rec.conf[r.source] = ConfOf[r.source]
      BY <1>7, <1>8, <2>2
    <3> HIDE DEF rec
    <3> QED
      BY <2>2, <3>1, <3>2 DEF Larger, SourceConfidences
  <2> HIDE DEF rec, new
  <2> QED
    BY <2>1, <2>2, <2>3
<1>12. new.confidence = rec.confidence
  <2>1. new.confidence = NoisyOr(new.conf)
    BY <1>10 DEF Merged
  <2> QED
    BY <1>9, <1>11, <2>1 DEF AddsUp
<1>13. ASSUME NEW f \in Field \ Nested PROVE new.attributes[f] = rec.attributes[f]
  <2>1. new.attributes[f] = MergePath(f, rec.attributes[f], r.attrs[f])
    BY <1>10 DEF Merged, MergeAttributes
  <2>2. \/ r.attrs[f] = Null
        \/ rec.attributes[f].value = r.attrs[f]
        \/ <<rec.attributes[f].value, r.attrs[f]>> \in rec.attributes[f].conflicts
    BY <1>7, <1>8, <1>9 DEF KeepsValues
  <2>3. rec.attributes[f] = Known(rec.attributes[f].value, rec.attributes[f].conflicts)
    BY <1>9 DEF KeepsValues
  <2> DEFINE known == rec.attributes[f]
  <2> HIDE DEF rec, new
  <2>4. CASE r.attrs[f] = Null \/ known.value = r.attrs[f]
    BY <2>1, <2>4 DEF MergePath
  <2>5. CASE r.attrs[f] # Null /\ known.value # r.attrs[f]
    <3>1. <<known.value, r.attrs[f]>> \in known.conflicts /\ known.value # Null
      BY <1>9, <2>2, <2>5 DEF KeepsValues
    <3>2. new.attributes[f]
            = Known(known.value, {<<known.value, r.attrs[f]>>} \cup known.conflicts)
      BY <2>1, <2>5, <3>1 DEF MergePath
    <3>3. {<<known.value, r.attrs[f]>>} \cup known.conflicts = known.conflicts
      BY <3>1
    <3> QED
      BY <2>3, <3>2, <3>3
  <2> QED
    BY <2>4, <2>5
<1> QED
  BY <1>11, <1>12, <1>13

-----------------------------------------------------------------------------
(* The transactions hide: the stores implement the abstract one.           *)

\* What a transaction has read is still what the database holds, and the report it is
\* about is still the next of its task: nothing else runs meanwhile.
TxInv ==
    tx # NoTx =>
        /\ durable
        /\ tx.task \in Task
        /\ todo[tx.task] # <<>>
        /\ turn \in {"none", tx.task}
        /\ tx.found = Found(Report(tx.task).id)

\* The second statement, whatever the first has read, writes what an upsert in one step
\* would, and for a relationship without its ends nothing (neo4j_store.py:137-218).
LEMMA CommitRecords ==
    ASSUME TxInv, Commit
    PROVE  Record(tx.task) /\ tx.task \in Task
<1> DEFINE t == tx.task
           r == Report(t)
<1>1. tx # NoTx
  BY DEF Commit
<1>2. durable /\ t \in Task /\ todo[t] # <<>> /\ turn \in {"none", t} /\ tx.found = Found(r.id)
  BY <1>1 DEF TxInv
<1>3. Handled(t) /\ UNCHANGED <<durable, run>>
  BY DEF Commit
<1>4. CASE Ends[r.id] \subseteq DOMAIN graph
  <2>1. graph' = Put(graph, r.id, ToWrite(tx.found, r)) /\ recorded' = recorded \cup {r}
    BY <1>4 DEF Commit
  <2>2. ToWrite(tx.found, r)
          = IF r.id \in DOMAIN graph THEN Merged(graph[r.id], r) ELSE FirstRecord(r)
    <3> HIDE DEF r
    <3>1. CASE r.id \in DOMAIN graph
      <4>1. tx.found = {graph[r.id]}
        BY <1>2, <3>1 DEF Found
      <4>2. (CHOOSE rec \in tx.found : TRUE) = graph[r.id] /\ tx.found # {}
        BY <4>1
      <4> QED
        BY <3>1, <4>2 DEF ToWrite
    <3>2. CASE r.id \notin DOMAIN graph
      BY <1>2, <3>2 DEF Found, ToWrite
    <3> QED
      BY <3>1, <3>2
  <2>3. Upsert(r)
    BY <2>1, <2>2 DEF Upsert
  <2> QED
    BY <1>2, <1>3, <1>4, <2>1, <2>3 DEF Record, Keeps
<1>5. CASE ~(Ends[r.id] \subseteq DOMAIN graph)
  <2>1. UNCHANGED <<graph, recorded>>
    BY <1>5 DEF Commit
  <2> QED
    BY <1>2, <1>3, <1>5, <2>1 DEF Record, Keeps
<1> QED
  BY <1>4, <1>5

LEMMA StoresStepRefines ==
    TxInv /\ [StoresNext]_storesVars => TxInv' /\ [Next]_vars
<1> SUFFICES ASSUME TxInv, [StoresNext]_storesVars PROVE TxInv' /\ [Next]_vars
  OBVIOUS
<1>1. ASSUME NEW t \in Task, InMemory(t) PROVE TxInv' /\ [Next]_vars
  <2>1. ~durable /\ Record(t) /\ tx' = tx
    BY <1>1 DEF InMemory
  <2>2. tx = NoTx
    BY <2>1 DEF TxInv
  <2> QED
    BY <2>1, <2>2 DEF TxInv, Next
<1>2. ASSUME NEW t \in Task, Read(t) PROVE TxInv' /\ [Next]_vars
  <2>1. UNCHANGED vars
    BY <1>2 DEF Read
  <2>2. /\ durable /\ turn \in {"none", t} /\ todo[t] # <<>>
        /\ tx'.task = t /\ tx'.found = Found(Report(t).id)
    BY <1>2 DEF Read
  <2>3. TxInv'
    BY <2>1, <2>2 DEF TxInv, vars, Found, Report
  <2> QED
    BY <2>1, <2>3
<1>3. CASE Commit
  <2>1. Record(tx.task) /\ tx.task \in Task
    BY <1>3, CommitRecords
  <2>2. tx' = NoTx
    BY <1>3 DEF Commit
  <2> QED
    BY <2>1, <2>2 DEF TxInv, Next
<1>4. CASE Restart
  BY <1>4 DEF Restart, TxInv
<1>5. CASE NextRun
  BY <1>5 DEF NextRun, TxInv, Next
<1>6. CASE UNCHANGED storesVars
  BY <1>6 DEF storesVars, vars, TxInv, Found, Report
<1> QED
  BY <1>1, <1>2, <1>3, <1>4, <1>5, <1>6 DEF StoresNext

\* Either store, with its transactions, their retries and the kills between their
\* statements, implements the store whose upserts are one step (memory.py:25-64,
\* neo4j_store.py:45-54,137-218).
THEOREM BothStoresImplement == StoresSpec => ImplementsStore
<1>1. StoresInit => TxInv /\ Init
  BY DEF StoresInit, TxInv
<1>2. TxInv /\ [StoresNext]_storesVars => TxInv' /\ [Next]_vars
  BY StoresStepRefines
<1> QED
  BY <1>1, <1>2, PTL DEF StoresSpec, ImplementsStore, Spec

LEMMA StoreInvOfStores == StoresSpec => []StoreInv
BY BothStoresImplement, StoreInvHolds, PTL DEF ImplementsStore

\* Confidences, dates and attribute paths of every record are in range, whatever the
\* reports and their order (merge.py:10-76).
THEOREM RecordsTyped == StoresSpec => []TypeOK
BY StoreInvOfStores, StoreInvMeansTypeOK, PTL

\* A record is the union of its reports' provenance and tags, their first and last date
\* and the noisy-or of their distinct sources, for every order and number of reports
\* and across runs and kills (merge.py:10-40, memory.py:25-44, neo4j_store.py:137-160).
THEOREM RecordsAreTheirReports == StoresSpec => []RecordsAddUp
BY StoreInvOfStores, StoreInvMeansSums, PTL

\* Every value ever reported for an attribute is its value or in a conflict recorded
\* for it (merge.py:43-76).
THEOREM ValuesKept == StoresSpec => []NoValueLost
BY StoreInvOfStores, StoreInvMeansValuesKept, PTL

\* The store in memory keeps every report, whichever task answers first
\* (memory.py:25-64, engine.py:225-239).
THEOREM MemoryComplete == StoresSpec => []MemoryStoresEverything
BY StoreInvOfStores, StoreInvMeansMemoryComplete, PTL

\* A report that repeats an earlier one changes no attribute, conflict or confidence
\* (merge.py:17-30,52-75).
THEOREM NothingLearnedTwice == StoresSpec => RepeatsTeachNothing
<1>1. Spec => RepeatsTeachNothing
  <2>1. StoreInv /\ [Next]_vars =>
          [\A r \in recorded' \ recorded : Repeats(r) =>
             /\ \A f \in Field \ Nested : graph'[r.id].attributes[f] = graph[r.id].attributes[f]
             /\ graph'[r.id].conf = graph[r.id].conf
             /\ graph'[r.id].confidence = graph[r.id].confidence]_vars
    BY RepeatedReportsTeachNothing
  <2> QED
    BY <2>1, StoreInvHolds, PTL DEF Spec, RepeatsTeachNothing
<1> QED
  BY <1>1, BothStoresImplement, PTL DEF ImplementsStore
=============================================================================
