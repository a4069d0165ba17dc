--------------------------- MODULE SourcesProofs ---------------------------
(***************************************************************************)
(* Theorems about Sources, for any seeds and answers.  First the paging of *)
(* CertSpotter, for any items, page size, page cap, time to live and       *)
(* growth of the log: that pages leave no gap is inductive beside the      *)
(* types; that an exhausted collection is current rests on what a short    *)
(* page in the cache says: whatever has been logged since is no older than *)
(* the page.                                                               *)
(***************************************************************************)
EXTENDS Sources, SequenceLemmas

\* A collection that goes on has pages left.
PagesLeft == outcome = "collecting" => pageIndex < MaxPages

GapInv == PagingTypeOK /\ PagesLeft /\ PagesLeaveNoGap

\* A page that is not full held all there was: what lies behind it was logged later.
ShortPagesAreRecent ==
    \A a \in 0..MaxLog : pages[a].to < a + PageSize =>
        \A i \in (pages[a].to + 1)..Len(log) : logAge[i] <= pages[a].age

CurrentInv == GapInv /\ ShortPagesAreRecent

-----------------------------------------------------------------------------
(* The operators. *)

\* A bounded set of positions has a last one.
LEMMA LastOf ==
    ASSUME NEW b \in Nat, NEW I \in SUBSET (0..b), I # {}
    PROVE  \E i \in I : \A j \in I : j <= i
<1> DEFINE Behind == {b - i : i \in I}
<1>1. Behind \subseteq Nat
    OBVIOUS
<1>2. Behind # {}
    <2>1. PICK i \in I : TRUE
        OBVIOUS
    <2>2. b - i \in Behind
        BY <2>1
    <2> QED BY <2>2
<1>3. PICK x \in Behind : \A y \in Behind : <<y, x>> \notin Less
    <2> HIDE DEF Behind
    <2> QED BY <1>1, <1>2, LessIsWellFounded, WFMin
<1>4. \A y \in Behind : ~(y < x)
    BY <1>1, <1>3 DEF Less
<1>5. PICK i \in I : x = b - i
    BY <1>3
<1>6. \A j \in I : b - j \in Behind
    OBVIOUS
<1>7. \A j \in I : ~(b - j < b - i)
    BY <1>4, <1>5, <1>6
<1> QED BY <1>7

\* A page with an id has a last one, and it lies on the page.
LEMMA LastIdIsOnThePage ==
    ASSUME NEW a \in Nat, NEW b \in Nat, IdsWithin(a, b) # {}
    PROVE  LastIssuanceId(a, b) \in (a + 1)..b
<1> DEFINE I == IdsWithin(a, b)
<1>1. I \in SUBSET (0..b) /\ I \subseteq (a + 1)..b
    BY DEF IdsWithin
<1>2. \E i \in I : \A j \in I : j <= i
    <2>1. I # {}
        OBVIOUS
    <2> HIDE DEF I
    <2> QED BY <1>1, <2>1, LastOf
<1>3. LastIssuanceId(a, b) \in I
    BY <1>2 DEF LastIssuanceId
<1> QED BY <1>1, <1>3

\* Reading on from within a prefix extends the prefix.
LEMMA PrefixesJoin ==
    ASSUME NEW a \in Nat, NEW n \in Nat, NEW to \in Nat, a <= n
    PROVE  ReadableWithin(0, n) \cup ReadableWithin(a, to)
             = ReadableWithin(0, IF to <= n THEN n ELSE to)
BY DEF ReadableWithin

\* The log keeps what it has.
LEMMA LogKeepsPrefix ==
    ASSUME log \in Seq(Issuance), NEW x \in Issuance, log' = Append(log, x)
    PROVE  \A n \in 0..Len(log) : ReadableWithin(0, n)' = ReadableWithin(0, n)
BY DEF ReadableWithin

-----------------------------------------------------------------------------
(* No gap. *)

LEMMA InitNoGap == PagingInit => GapInv
<1> SUFFICES ASSUME PagingInit PROVE GapInv
    OBVIOUS
<1> USE DEF PagingInit
<1>1. PagingTypeOK
    BY PagingAssumption DEF PagingTypeOK, NoPage, Page
<1>2. PagesLeft
    BY PagingAssumption DEF PagesLeft
<1>3. PagesLeaveNoGap
    BY DEF PagesLeaveNoGap, ReadableWithin
<1> QED BY <1>1, <1>2, <1>3 DEF GapInv

\* Whatever page is read, a short, a stale or an empty one.
LEMMA ReadKeepsNoGap ==
    ASSUME GapInv, outcome = "collecting", UNCHANGED source,
           NEW to \in 0..Len(log), Read(to),
           pages' \in [0..MaxLog -> [to : 0..Len(log), age : 0..(Ttl + 1)]]
    PROVE  GapInv'
<1>1. log' = log /\ logAge' = logAge
    BY DEF source
<1>2. /\ Len(log) \in Nat /\ after \in Nat /\ to \in Nat /\ to <= Len(log) /\ after <= Len(log)
      /\ MaxPages \in Nat /\ pageIndex \in Nat /\ pageIndex < MaxPages
      /\ DOMAIN log = 1..Len(log)
    BY PagingAssumption DEF GapInv, PagingTypeOK, PagesLeft
<1>3. after' = after \/ after' \in (after + 1)..to
    <2>1. CASE to = after \/ IdsWithin(after, to) = {}
        BY <2>1 DEF Read
    <2>2. CASE to # after /\ IdsWithin(after, to) # {}
        <3>1. after' = LastIssuanceId(after, to)
            BY <2>2 DEF Read
        <3> QED BY <1>2, <2>2, <3>1, LastIdIsOnThePage
    <2> QED BY <2>1, <2>2
<1>4. PICK n \in after..Len(log) : yielded = ReadableWithin(0, n)
    BY DEF GapInv, PagesLeaveNoGap
<1> DEFINE m == IF to <= n THEN n ELSE to
<1>5. m \in after'..Len(log) /\ m \in 0..Len(log)
    BY <1>2, <1>3
<1>6. yielded' = ReadableWithin(0, m)
    <2>1. yielded' = ReadableWithin(0, n) \cup ReadableWithin(after, to)
        BY <1>4 DEF Read
    <2>2. n \in Nat /\ after <= n
        BY <1>2
    <2> QED BY <2>1, <2>2, <1>2, PrefixesJoin
<1> HIDE DEF m
<1>8. PagesLeaveNoGap'
    BY <1>1, <1>5, <1>6 DEF PagesLeaveNoGap, ReadableWithin
<1>9. PagesLeft' /\ pageIndex' \in 0..MaxPages
    <2>1. pageIndex' = pageIndex + 1
        BY DEF Read
    <2>2. outcome' = "collecting" => pageIndex' # MaxPages
        BY DEF Read
    <2> QED BY <1>2, <2>1, <2>2 DEF PagesLeft
<1>10. yielded' \subseteq DOMAIN log
    BY <1>2, <1>5, <1>6 DEF ReadableWithin
<1>11. after' \in 0..Len(log)
    BY <1>2, <1>3
<1>12. outcome' \in {"collecting", "exhausted", "no id", "page cap", "incomplete"}
    BY DEF Read
<1>13. PagingTypeOK'
    BY <1>1, <1>9, <1>10, <1>11, <1>12 DEF GapInv, PagingTypeOK
<1> QED BY <1>8, <1>9, <1>13 DEF GapInv

\* The position asked after is one a page may be cached for.
LEMMA AfterIsAPosition ==
    ASSUME PagingTypeOK
    PROVE  /\ Len(log) \in Nat /\ DOMAIN log = 1..Len(log) /\ after \in 0..Len(log)
           /\ after \in 0..MaxLog
<1>1. log \in Seq(Issuance) /\ Len(log) <= MaxLog /\ after \in 0..Len(log)
    BY DEF PagingTypeOK
<1>2. Len(log) \in Nat /\ DOMAIN log = 1..Len(log)
    BY <1>1
<1> QED BY <1>1, <1>2, PagingAssumption

LEMMA LogIssuanceNoGap ==
    ASSUME GapInv, LogIssuance
    PROVE  GapInv'
<1>1. PICK x \in Issuance : log' = Append(log, x)
    BY DEF LogIssuance
<1>2. /\ log \in Seq(Issuance) /\ Len(log) < MaxLog /\ logAge' = Append(logAge, 0)
      /\ UNCHANGED <<pages, after, pageIndex, yielded, outcome>>
    BY DEF LogIssuance, GapInv, PagingTypeOK
<1>3. /\ Len(log') = Len(log) + 1 /\ log' \in Seq(Issuance) /\ Len(log) \in Nat
      /\ DOMAIN log = 1..Len(log) /\ DOMAIN log' = 1..(Len(log) + 1)
    BY <1>1, <1>2
<1>4. logAge' \in [DOMAIN log' -> 0..(Ttl + 1)]
    <2>1. logAge \in [1..Len(log) -> 0..(Ttl + 1)]
        BY <1>3 DEF GapInv, PagingTypeOK
    <2>2. logAge \in Seq(0..(Ttl + 1))
        <3> DEFINE n == Len(log)
                   Ages == 0..(Ttl + 1)
        <3>1. n \in Nat /\ logAge \in [1..n -> Ages]
            BY <1>3, <2>1
        <3> HIDE DEF n, Ages
        <3>2. logAge \in UNION {[1..k -> Ages] : k \in Nat}
            BY <3>1, Zenon
        <3>3. logAge \in Seq(Ages)
            BY <3>2, SeqDef, Zenon
        <3> QED BY <3>3 DEF Ages
    <2>3. Len(logAge) = Len(log)
        BY <1>3, <2>1, <2>2, LenProperties
    <2>4. 0 \in 0..(Ttl + 1)
        BY PagingAssumption
    <2>5. logAge' \in Seq(0..(Ttl + 1)) /\ Len(logAge') = Len(log) + 1
        BY <1>2, <2>2, <2>3, <2>4
    <2>6. logAge' \in [1..Len(logAge') -> 0..(Ttl + 1)]
        BY <2>5, LenProperties
    <2> QED BY <1>3, <2>5, <2>6
<1>5. after \in 0..Len(log) /\ yielded \subseteq DOMAIN log
    BY DEF GapInv, PagingTypeOK
<1>6. pages \in [0..MaxLog -> [to : 0..Len(log'), age : 0..(Ttl + 1)]]
    <2>1. [to : 0..Len(log), age : 0..(Ttl + 1)] \subseteq [to : 0..Len(log'), age : 0..(Ttl + 1)]
        BY <1>3
    <2>2. pages \in [0..MaxLog -> [to : 0..Len(log), age : 0..(Ttl + 1)]]
        BY DEF GapInv, PagingTypeOK
    <2> QED BY <2>1, <2>2
<1>7. /\ pageIndex \in 0..MaxPages
      /\ outcome \in {"collecting", "exhausted", "no id", "page cap", "incomplete"}
    BY DEF GapInv, PagingTypeOK
<1>8. PagingTypeOK'
    <2>1. Len(log') <= MaxLog /\ after' \in 0..Len(log') /\ yielded' \subseteq DOMAIN log'
        BY <1>2, <1>3, <1>5, PagingAssumption
    <2> QED BY <1>2, <1>3, <1>4, <1>6, <1>7, <2>1 DEF PagingTypeOK
<1>9. PagesLeaveNoGap'
    <2>1. PICK n \in after..Len(log) : yielded = ReadableWithin(0, n)
        BY DEF GapInv, PagesLeaveNoGap
    <2>2. n \in 0..Len(log) /\ n \in after'..Len(log')
        BY <1>2, <1>3, <1>5
    <2>3. ReadableWithin(0, n)' = ReadableWithin(0, n)
        BY <1>1, <1>2, <2>2, LogKeepsPrefix
    <2> QED BY <1>2, <2>1, <2>2, <2>3 DEF PagesLeaveNoGap, ReadableWithin
<1>10. PagesLeft'
    BY <1>2 DEF GapInv, PagesLeft
<1> QED BY <1>8, <1>9, <1>10 DEF GapInv

LEMMA TickNoGap ==
    ASSUME GapInv, Tick
    PROVE  GapInv'
<1>1. UNCHANGED <<log, after, pageIndex, yielded, outcome>>
    BY DEF Tick
<1>2. PagesLeft' /\ PagesLeaveNoGap'
    BY <1>1 DEF GapInv, PagesLeft, PagesLeaveNoGap, ReadableWithin
<1>3. \A age \in 0..(Ttl + 1) : Older(age) \in 0..(Ttl + 1)
    BY PagingAssumption DEF Older
<1>4. logAge' \in [DOMAIN log' -> 0..(Ttl + 1)]
    <2>1. logAge \in [DOMAIN log -> 0..(Ttl + 1)]
        BY DEF GapInv, PagingTypeOK
    <2>2. logAge' = [i \in DOMAIN log |-> Older(logAge[i])]
        BY <2>1 DEF Tick
    <2> QED BY <1>1, <1>3, <2>1, <2>2
<1>5. pages' \in [0..MaxLog -> [to : 0..Len(log), age : 0..(Ttl + 1)]]
    <2>1. pages \in [0..MaxLog -> [to : 0..Len(log), age : 0..(Ttl + 1)]]
        BY DEF GapInv, PagingTypeOK
    <2>2. pages' = [a \in 0..MaxLog |-> Page(pages[a].to, Older(pages[a].age))]
        BY DEF Tick
    <2> QED BY <1>3, <2>1, <2>2 DEF Page
<1>6. PagingTypeOK'
    BY <1>1, <1>4, <1>5 DEF GapInv, PagingTypeOK
<1> QED BY <1>2, <1>6 DEF GapInv

LEMMA NextNoGap == GapInv /\ [Paging]_pagingVars => GapInv'
<1> SUFFICES ASSUME GapInv, [Paging]_pagingVars
             PROVE  GapInv'
    OBVIOUS
<1>0. /\ Len(log) \in Nat /\ DOMAIN log = 1..Len(log) /\ after \in 0..Len(log)
      /\ after \in 0..MaxLog
      /\ pages \in [0..MaxLog -> [to : 0..Len(log), age : 0..(Ttl + 1)]]
    BY AfterIsAPosition DEF GapInv, PagingTypeOK
<1>1. CASE FromCache
    <2>1. pages[after].to \in 0..Len(log)
        BY <1>0
    <2>2. /\ Read(pages[after].to) /\ outcome = "collecting" /\ UNCHANGED source
          /\ pages' = pages
        BY <1>1 DEF FromCache
    <2> QED BY <1>0, <2>1, <2>2, ReadKeepsNoGap
<1>2. CASE Fetch
    <2> DEFINE to == IF Len(log) <= after + PageSize THEN Len(log) ELSE after + PageSize
    <2>1. to \in 0..Len(log)
        BY <1>0, PagingAssumption
    <2>2. Read(to) /\ outcome = "collecting" /\ pages' = [pages EXCEPT ![after] = Page(to, 0)]
              /\ UNCHANGED source
        BY <1>2 DEF Fetch
    <2>3. pages' \in [0..MaxLog -> [to : 0..Len(log), age : 0..(Ttl + 1)]]
        <3> HIDE DEF to
        <3> QED BY <1>0, <2>1, <2>2, PagingAssumption DEF Page
    <2> HIDE DEF to
    <2> QED BY <2>1, <2>2, <2>3, ReadKeepsNoGap
<1>3. CASE Incomplete
    BY <1>3 DEF Incomplete, source, GapInv, PagingTypeOK, PagesLeft, PagesLeaveNoGap, ReadableWithin
<1>4. CASE CollectAgain
    <2>1. /\ UNCHANGED <<log, logAge, pages>>
          /\ after' = 0 /\ pageIndex' = 0 /\ yielded' = {} /\ outcome' = "collecting"
        BY <1>4 DEF CollectAgain, source
    <2>2. PagesLeft' /\ pageIndex' \in 0..MaxPages /\ after' \in 0..Len(log) /\ yielded' \subseteq DOMAIN log
        BY <1>0, <2>1, PagingAssumption DEF PagesLeft
    <2>3. PagingTypeOK'
        BY <2>1, <2>2 DEF GapInv, PagingTypeOK
    <2>4. PagesLeaveNoGap'
        BY <1>0, <2>1 DEF PagesLeaveNoGap, ReadableWithin
    <2> QED BY <2>2, <2>3, <2>4 DEF GapInv
<1>5. CASE LogIssuance
    BY <1>5, LogIssuanceNoGap
<1>6. CASE Tick
    BY <1>6, TickNoGap
<1>7. CASE UNCHANGED pagingVars
    BY <1>7 DEF pagingVars, source, GapInv, PagingTypeOK, PagesLeft, PagesLeaveNoGap, ReadableWithin
<1> QED BY <1>1, <1>2, <1>3, <1>4, <1>5, <1>6, <1>7 DEF Paging

\* For any page size, page cap and time to live, and however the log and the cache
\* change between two pages, what a collection has yielded is all that is readable in a
\* prefix of the log (certspotter.py:33-90).
THEOREM NoGap == PagingSpec => []PagesLeaveNoGap
<1>1. GapInv => PagesLeaveNoGap
    BY DEF GapInv
<1> QED BY InitNoGap, NextNoGap, <1>1, PTL DEF PagingSpec

-----------------------------------------------------------------------------
(* No issuance is missed for longer than the cache keeps a page. *)

\* Growing older keeps the order of ages.
LEMMA OlderIsMonotone ==
    ASSUME NEW x \in 0..(Ttl + 1), NEW y \in 0..(Ttl + 1), x <= y
    PROVE  Older(x) <= Older(y)
BY PagingAssumption DEF Older

LEMMA InitCurrent == PagingInit => CurrentInv
<1> SUFFICES ASSUME PagingInit PROVE ShortPagesAreRecent
    BY InitNoGap DEF CurrentInv
<1>1. Len(log) = 0 /\ \A a \in 0..MaxLog : pages[a].to = 0
    BY DEF PagingInit, NoPage, Page
<1> QED BY <1>1 DEF ShortPagesAreRecent

LEMMA NextCurrent == CurrentInv /\ [Paging]_pagingVars => CurrentInv'
<1> SUFFICES ASSUME CurrentInv, [Paging]_pagingVars
             PROVE  ShortPagesAreRecent'
    BY NextNoGap DEF CurrentInv
<1>1. /\ Len(log) \in Nat /\ DOMAIN log = 1..Len(log) /\ after \in 0..Len(log)
      /\ after \in 0..MaxLog /\ PageSize \in Nat \ {0} /\ Ttl \in Nat /\ log \in Seq(Issuance)
      /\ logAge \in [1..Len(log) -> 0..(Ttl + 1)]
      /\ pages \in [0..MaxLog -> [to : 0..Len(log), age : 0..(Ttl + 1)]]
    BY AfterIsAPosition, PagingAssumption DEF CurrentInv, GapInv, PagingTypeOK
<1>2. ShortPagesAreRecent
    BY DEF CurrentInv
<1>3. CASE UNCHANGED <<source, pages>>
    BY <1>2, <1>3 DEF source, ShortPagesAreRecent
<1>4. CASE Fetch
    <2> DEFINE to == IF Len(log) <= after + PageSize THEN Len(log) ELSE after + PageSize
    <2>1. log' = log /\ logAge' = logAge /\ pages' = [pages EXCEPT ![after] = Page(to, 0)]
        BY <1>4 DEF Fetch, source
    <2>2. to < after + PageSize => to = Len(log)
        <3>1. after \in Nat /\ PageSize \in Nat /\ Len(log) \in Nat
            BY <1>1
        <3> QED BY <3>1
    <2> HIDE DEF to
    <2> SUFFICES ASSUME NEW a \in 0..MaxLog, pages'[a].to < a + PageSize,
                        NEW i \in (pages'[a].to + 1)..Len(log)
                 PROVE  logAge[i] <= pages'[a].age
        BY <2>1 DEF ShortPagesAreRecent
    <2>3. CASE a = after
        <3>1. pages'[a].to = to
            BY <1>1, <2>1, <2>3 DEF Page
        <3> QED BY <1>1, <2>2, <2>3, <3>1
    <2>4. CASE a # after
        <3>1. pages'[a] = pages[a]
            BY <1>1, <2>1, <2>4
        <3> QED BY <1>2, <3>1 DEF ShortPagesAreRecent
    <2> QED BY <2>3, <2>4
<1>5. CASE LogIssuance
    <2>1. PICK x \in Issuance : log' = Append(log, x)
        BY <1>5 DEF LogIssuance
    <2>2. logAge' = Append(logAge, 0) /\ pages' = pages
        BY <1>5 DEF LogIssuance
    <2>3. Len(log') = Len(log) + 1 /\ Len(logAge) = Len(log)
        BY <1>1, <2>1
    <2>4. /\ \A i \in 1..Len(log) : logAge'[i] = logAge[i]
          /\ logAge'[Len(log) + 1] = 0
        BY <1>1, <2>2, <2>3
    <2> SUFFICES ASSUME NEW a \in 0..MaxLog, pages[a].to < a + PageSize,
                        NEW i \in (pages[a].to + 1)..(Len(log) + 1)
                 PROVE  logAge'[i] <= pages[a].age
        BY <2>2, <2>3 DEF ShortPagesAreRecent
    <2>5. pages[a].to \in 0..Len(log) /\ pages[a].age \in 0..(Ttl + 1)
        BY <1>1
    <2>6. CASE i = Len(log) + 1
        BY <2>4, <2>5, <2>6
    <2>7. CASE i # Len(log) + 1
        <3>1. i \in (pages[a].to + 1)..Len(log) /\ i \in 1..Len(log)
            BY <1>1, <2>5, <2>7
        <3> QED BY <1>2, <2>4, <3>1 DEF ShortPagesAreRecent
    <2> QED BY <2>6, <2>7
<1>6. CASE Tick
    <2>1. log' = log /\ logAge' = [i \in 1..Len(log) |-> Older(logAge[i])]
        BY <1>1, <1>6 DEF Tick
    <2>2. pages' = [a \in 0..MaxLog |-> Page(pages[a].to, Older(pages[a].age))]
        BY <1>6 DEF Tick
    <2> SUFFICES ASSUME NEW a \in 0..MaxLog, pages'[a].to < a + PageSize,
                        NEW i \in (pages'[a].to + 1)..Len(log)
                 PROVE  logAge'[i] <= pages'[a].age
        BY <2>1 DEF ShortPagesAreRecent
    <2>3. pages'[a].to = pages[a].to /\ pages'[a].age = Older(pages[a].age)
        BY <2>2 DEF Page
    <2>4. pages[a].to \in 0..Len(log) /\ pages[a].age \in 0..(Ttl + 1)
        BY <1>1
    <2>5. i \in 1..Len(log) /\ logAge[i] \in 0..(Ttl + 1)
        BY <1>1, <2>3, <2>4
    <2>6. logAge[i] <= pages[a].age
        BY <1>2, <2>3 DEF ShortPagesAreRecent
    <2> QED BY <2>1, <2>3, <2>4, <2>5, <2>6, OlderIsMonotone
<1>7. FromCache \/ Incomplete \/ CollectAgain \/ UNCHANGED pagingVars => UNCHANGED <<source, pages>>
    BY DEF FromCache, Incomplete, CollectAgain, pagingVars
<1> QED BY <1>3, <1>4, <1>5, <1>6, <1>7 DEF Paging

Exhausts == outcome = "collecting" /\ outcome' = "exhausted"

\* The empty page that ends a collection, fresh or cached, follows a prefix of the log.
LEMMA ExhaustedHasTheOld ==
    ASSUME CurrentInv, [Paging]_pagingVars, Exhausts,
           NEW i \in ReadableWithin(0, Len(log)), logAge[i] > Ttl
    PROVE  i \in yielded'
<1>1. /\ Len(log) \in Nat /\ after \in 0..Len(log)
      /\ after \in 0..MaxLog /\ PageSize \in Nat \ {0} /\ Ttl \in Nat
      /\ pages \in [0..MaxLog -> [to : 0..Len(log), age : 0..(Ttl + 1)]]
    BY AfterIsAPosition, PagingAssumption DEF CurrentInv, GapInv, PagingTypeOK
<1>2. yielded \subseteq yielded' /\ i <= after
    <2>1. CASE FromCache
        <3>1. pages[after].to = after /\ pages[after].age <= Ttl /\ yielded \subseteq yielded'
            BY <2>1 DEF FromCache, Read, Servable, Exhausts
        <3>2. \A j \in (after + 1)..Len(log) : logAge[j] <= pages[after].age
            BY <1>1, <3>1 DEF CurrentInv, ShortPagesAreRecent
        <3>3. i \in 1..Len(log)
            BY <1>1 DEF ReadableWithin
        <3>4. i \notin (after + 1)..Len(log)
            <4> SUFFICES ASSUME i \in (after + 1)..Len(log) PROVE FALSE
                OBVIOUS
            <4>1. logAge[i] <= pages[after].age
                BY <3>2
            <4>2. logAge[i] \in 0..(Ttl + 1) /\ pages[after].age \in 0..(Ttl + 1)
                BY <1>1, <3>3, AfterIsAPosition DEF CurrentInv, GapInv, PagingTypeOK
            <4> QED BY <1>1, <3>1, <4>1, <4>2
        <3> QED BY <1>1, <3>1, <3>3, <3>4
    <2>2. CASE Fetch
        <3> DEFINE to == IF Len(log) <= after + PageSize THEN Len(log) ELSE after + PageSize
        <3>1. Read(to)
            BY <2>2 DEF Fetch
        <3>2. to = after
            <4> HIDE DEF to
            <4> QED BY <3>1 DEF Read, Exhausts
        <3>3. after = Len(log)
            BY <1>1, <3>2
        <3>4. yielded \subseteq yielded'
            BY <3>1 DEF Read
        <3> QED BY <1>1, <3>3, <3>4 DEF ReadableWithin
    <2> QED BY <2>1, <2>2
        DEF Exhausts, Paging, Incomplete, CollectAgain, LogIssuance, Tick, pagingVars
<1>3. PICK n \in after..Len(log) : yielded = ReadableWithin(0, n)
    BY DEF CurrentInv, GapInv, PagesLeaveNoGap
<1>4. i \in yielded
    BY <1>1, <1>2, <1>3 DEF ReadableWithin
<1> QED BY <1>2, <1>4

\* For any page size, page cap and time to live, and whichever pages an earlier
\* collection left in the cache, a collection that ends on an empty page has yielded
\* every issuance logged longer ago than the time to live (certspotter.py:64-67,
\* cache.py:26-69).
THEOREM Current == PagingSpec => ExhaustedIsCurrent
<1>1. CurrentInv /\ [Paging]_pagingVars =>
        [outcome = "collecting" /\ outcome' = "exhausted" =>
            \A i \in ReadableWithin(0, Len(log)) : logAge[i] > Ttl => i \in yielded']_pagingVars
    BY ExhaustedHasTheOld DEF Exhausts
<1> QED BY InitCurrent, NextCurrent, <1>1, PTL DEF PagingSpec, ExhaustedIsCurrent

-----------------------------------------------------------------------------
(* A collection by any of the connectors.                                  *)

LEMMA OtherSourcesDoNotPage == [Next]_vars => [Paging]_pagingVars
BY DEF Next, vars, CollectPages, Answer, GiveUp, AnswerOrigins, Describe

\* A collection is, for Cert Spotter, the paging of module CertSpotter, and so has its
\* properties (certspotter.py:33-97).
THEOREM CollectionPages == Spec => PagingSpec /\ []PagesLeaveNoGap /\ ExhaustedIsCurrent
<1>1. Init => PagingInit
    BY DEF Init
<1>2. Spec => PagingSpec
    BY <1>1, OtherSourcesDoNotPage, PTL DEF Spec, PagingSpec
<1> QED BY <1>2, NoGap, Current, PTL

-----------------------------------------------------------------------------
(* What a collection has been told, and what it has yielded.               *)

NothingYet == answer = Null /\ described = <<>> /\ findings = {}

Answered ==
    /\ connector \in Asked
    /\ answer \in AnswersOf[connector]
    /\ described = <<>>
    /\ findings = FindingsOf(answer)

AskedForOrigins ==
    /\ connector = "asn"
    /\ answer \in AnswersOf["asn"]
    /\ described \in Seq(Descriptions)

Described ==
    /\ AskedForOrigins
    /\ Len(described) = Len(Origins)
    /\ findings = IF Origins = <<>> THEN {} ELSE {Merged(OriginFindings(described))}

CollectionInv ==
    /\ GapInv
    /\ connector \in DOMAIN SeedsOf /\ seed \in SeedsOf[connector]
    /\ phase \in {"asking", "describing", "ended"}
    /\ phase # "asking" => connector # "certspotter"
    /\ phase = "asking" => NothingYet
    /\ phase = "describing" => AskedForOrigins /\ Len(described) < Len(Origins) /\ findings = {}
    /\ phase = "ended" => NothingYet \/ Answered \/ Described

\* The readable records of an answer are a list.
LEMMA OriginsAreAList ==
    ASSUME NEW a \in AnswersOf["asn"]
    PROVE  IsList(Selected(a, {i \in DOMAIN a : a[i] # Junk}))
<1> DEFINE P == {i \in DOMAIN a : a[i] # Junk}
<1>1. IsList(a)
    BY SourcesAssumption
<1> HIDE DEF P
<1> QED BY <1>1, SelectedOfList

LEMMA InitCollection == Init => CollectionInv
<1> SUFFICES ASSUME Init PROVE CollectionInv
    OBVIOUS
<1>1. GapInv
    BY InitNoGap DEF Init
<1> QED BY <1>1 DEF Init, CollectionInv, NothingYet

LEMMA NextCollection == CollectionInv /\ [Next]_vars => CollectionInv'
<1> SUFFICES ASSUME CollectionInv, [Next]_vars
             PROVE  CollectionInv'
    OBVIOUS
<1>1. GapInv'
    BY OtherSourcesDoNotPage, NextNoGap DEF CollectionInv
<1>2. connector' = connector /\ seed' = seed
    BY DEF Next, vars, CollectPages, Answer, GiveUp, AnswerOrigins, Describe
<1>3. CASE UNCHANGED <<connector, seed, oneShot>>
    BY <1>1, <1>3 DEF oneShot, CollectionInv, NothingYet, Answered, AskedForOrigins, Described,
                      FindingsOf, Origins, OriginFindings, Merged
<1>4. CASE Answer
    <2>1. /\ phase = "asking" /\ connector \in Asked /\ connector # "certspotter"
          /\ answer' \in AnswersOf[connector] /\ findings' = FindingsOf(answer')
          /\ phase' = "ended" /\ described' = described
        BY <1>4 DEF Answer, Asked
    <2>2. described' = <<>>
        BY <2>1 DEF CollectionInv, NothingYet
    <2>3. Answered'
        BY <1>2, <2>1, <2>2 DEF Answered, FindingsOf
    <2> QED BY <1>1, <1>2, <2>1, <2>3 DEF CollectionInv
<1>5. CASE GiveUp
    <2>1. /\ phase = "asking" /\ connector # "certspotter" /\ phase' = "ended"
          /\ UNCHANGED <<answer, described, findings>>
        BY <1>5 DEF GiveUp
    <2>2. NothingYet'
        BY <2>1 DEF CollectionInv, NothingYet
    <2> QED BY <1>1, <1>2, <2>1, <2>2 DEF CollectionInv
<1>6. CASE AnswerOrigins
    <2>1. /\ phase = "asking" /\ connector = "asn" /\ answer' \in AnswersOf["asn"]
          /\ phase' = IF Origins' = <<>> THEN "ended" ELSE "describing"
          /\ described' = <<>> /\ findings' = {}
        BY <1>6 DEF AnswerOrigins, CollectionInv, NothingYet
    <2>2. AskedForOrigins'
        BY <1>2, <2>1 DEF AskedForOrigins
    <2>3. Len(Origins') \in Nat /\ (Len(Origins') = 0 <=> Origins' = <<>>)
        <3>1. IsList(Origins')
            BY <2>1, OriginsAreAList DEF Origins
        <3> QED BY <3>1 DEF IsList
    <2>4. CASE Origins' = <<>>
        BY <1>1, <1>2, <2>1, <2>2, <2>3, <2>4 DEF CollectionInv, Described
    <2>5. CASE Origins' # <<>>
        BY <1>1, <1>2, <2>1, <2>2, <2>3, <2>5 DEF CollectionInv
    <2> QED BY <2>4, <2>5
<1>7. CASE Describe
    <2>1. PICK d \in Descriptions : described' = Append(described, d)
        BY <1>7 DEF Describe
    <2>2. /\ phase = "describing" /\ answer' = answer /\ AskedForOrigins /\ findings = {}
          /\ Len(described) < Len(Origins)
        BY <1>7 DEF Describe, CollectionInv
    <2>3. Origins' = Origins
        BY <2>2 DEF Origins
    <2>4. AskedForOrigins' /\ Len(described') = Len(described) + 1 /\ Len(described) \in Nat
        BY <1>2, <2>1, <2>2 DEF AskedForOrigins
    <2>5. Len(Origins) \in Nat /\ Origins # <<>>
        <3>1. IsList(Origins)
            BY <2>2, OriginsAreAList DEF Origins, AskedForOrigins
        <3> QED BY <2>2, <2>4, <3>1 DEF IsList
    <2>6. CASE Len(described') = Len(Origins)
        <3>1. findings' = {Merged(OriginFindings(described'))} /\ phase' = "ended"
            BY <1>7, <2>6 DEF Describe
        <3>2. Described'
            BY <1>2, <2>3, <2>4, <2>5, <2>6, <3>1 DEF Described, OriginFindings, Merged
        <3> QED BY <1>1, <1>2, <2>4, <3>1, <3>2 DEF CollectionInv, AskedForOrigins
    <2>7. CASE Len(described') # Len(Origins)
        <3>1. findings' = {} /\ phase' = "describing"
            BY <1>7, <2>2, <2>7 DEF Describe
        <3> QED BY <1>1, <1>2, <2>2, <2>3, <2>4, <2>5, <2>7, <3>1 DEF CollectionInv, AskedForOrigins
    <2> QED BY <2>6, <2>7
<1>8. CollectPages \/ UNCHANGED vars => UNCHANGED <<connector, seed, oneShot>>
    BY DEF CollectPages, vars
<1> QED BY <1>3, <1>4, <1>5, <1>6, <1>7, <1>8 DEF Next

LEMMA CollectionInvariant == Spec => []CollectionInv
BY InitCollection, NextCollection, PTL DEF Spec

-----------------------------------------------------------------------------
(* The findings one by one: what any of them holds, whatever the payload.  *)

\* An entity has one of the types, a relationship the types of its kind.
Typed(f) ==
    /\ \A e \in f.entities : e.node.type \in EntityTypes
    /\ \A r \in f.relationships : <<r.src.type, r.dst.type>> = Ends(r.type)

Types == {"HAS_SUBDOMAIN", "RESOLVES_TO", "SECURES", "ANNOUNCES", "CONTAINS", "HOSTS", "HAS_VULNERABILITY"}

LEMMA EndsByType ==
    /\ Ends("HAS_SUBDOMAIN") = <<"Domain", "Domain">>
    /\ Ends("RESOLVES_TO") = <<"Domain", "IPAddress">>
    /\ Ends("SECURES") = <<"Certificate", "Domain">>
    /\ Ends("ANNOUNCES") = <<"ASN", "Netblock">>
    /\ Ends("CONTAINS") = <<"Netblock", "IPAddress">>
    /\ Ends("HOSTS") = <<"IPAddress", "Service">>
    /\ Ends("HAS_VULNERABILITY") = <<"IPAddress", "Vulnerability">>
BY DEF Ends

LEMMA SubdomainsTyped ==
    ASSUME NEW listed, NEW s
    PROVE  \A r \in Subdomains(listed, s) :
               /\ r.type = "HAS_SUBDOMAIN" /\ <<r.src.type, r.dst.type>> = <<"Domain", "Domain">>
               /\ r.src = Node("Domain", s) /\ r.src.value = s
               /\ r.dst \in {Node("Domain", n) : n \in listed}
BY DEF Subdomains, Relationship, Node

LEMMA CrtShTyped ==
    ASSUME NEW record, NEW s
    PROVE  Typed(CrtShFinding(record, s))
<1> DEFINE f == CrtShFinding(record, s)
           listed == NamesIn(ListOf(record.names))
           certificate == Node("Certificate", <<record.key, listed>>)
<1>1. \A e \in f.entities : e.node.type \in {"Certificate", "Domain"}
    BY DEF CrtShFinding, Finding, DomainEntity, Entity, Node
<1>2. f.relationships = {Relationship("SECURES", certificate, Node("Domain", n)) : n \in listed \cup {s}}
                          \cup Subdomains(listed, s)
    BY DEF CrtShFinding, Finding
<1> HIDE DEF f, listed
<1>3. \A r \in f.relationships : <<r.src.type, r.dst.type>> = Ends(r.type)
    <2>1. ASSUME NEW n \in listed \cup {s}
          PROVE  LET r == Relationship("SECURES", certificate, Node("Domain", n))
                 IN <<r.src.type, r.dst.type>> = Ends(r.type)
        BY EndsByType DEF Relationship, Node
    <2>2. \A r \in Subdomains(listed, s) : <<r.src.type, r.dst.type>> = Ends(r.type)
        BY SubdomainsTyped, EndsByType
    <2> QED BY <1>2, <2>1, <2>2
<1>4. Typed(f)
    BY <1>1, <1>3 DEF Typed, EntityTypes
<1> QED BY <1>4 DEF f

LEMMA IssuanceTyped ==
    ASSUME NEW issuance, NEW s
    PROVE  Typed(IssuanceFinding(issuance, s))
<1> DEFINE f == IssuanceFinding(issuance, s)
           listed == NamesIn(ListOf(issuance.names))
<1>1. \A e \in f.entities : e.node.type = "Domain"
    BY DEF IssuanceFinding, Finding, DomainEntity, Entity, Node
<1>2. f.relationships = Subdomains(listed, s)
    BY DEF IssuanceFinding, Finding
<1> HIDE DEF f
<1>3. Typed(f)
    BY <1>1, <1>2, SubdomainsTyped, EndsByType DEF Typed, EntityTypes
<1> QED BY <1>3 DEF f

LEMMA WaybackTyped ==
    ASSUME NEW rows, NEW s, NEW f \in WaybackFindings(rows, s)
    PROVE  Typed(f)
<1> DEFINE hosts == {n \in Hosts(rows) : UnderSeed(n, s)}
<1>1. f = Finding({DomainEntity(n, s, FALSE) : n \in hosts \cup {s}}, Subdomains(hosts, s))
    BY DEF WaybackFindings
<1> HIDE DEF hosts
<1>2. \A e \in f.entities : e.node.type = "Domain"
    BY <1>1 DEF Finding, DomainEntity, Entity, Node
<1>3. f.relationships = Subdomains(hosts, s)
    BY <1>1 DEF Finding
<1> QED BY <1>2, <1>3, SubdomainsTyped, EndsByType DEF Typed, EntityTypes

LEMMA DnsTyped ==
    ASSUME NEW addresses, NEW s, NEW f \in DnsFindings(addresses, s)
    PROVE  Typed(f)
<1>1. \A e \in f.entities : e.node.type = "IPAddress"
    BY DEF DnsFindings, Finding, Entity, Node
<1>2. \A r \in f.relationships :
        r.type = "RESOLVES_TO" /\ r.src.type = "Domain" /\ r.dst.type = "IPAddress"
    BY DEF DnsFindings, Finding, Relationship, Node
<1> QED BY <1>1, <1>2, EndsByType DEF Typed, EntityTypes

LEMMA InternetDbTyped ==
    ASSUME NEW payload, NEW s, NEW f \in InternetDbFindings(payload, s)
    PROVE  Typed(f)
<1>1. \A e \in f.entities : e.node.type \in {"IPAddress", "Service", "Vulnerability"}
    BY DEF InternetDbFindings, Finding, Entity, Node
<1>2. \A r \in f.relationships :
        /\ r.src.type = "IPAddress"
        /\ \/ r.type = "HOSTS" /\ r.dst.type = "Service"
           \/ r.type = "HAS_VULNERABILITY" /\ r.dst.type = "Vulnerability"
    BY DEF InternetDbFindings, Finding, Relationship, Node
<1> QED BY <1>1, <1>2, EndsByType DEF Typed, EntityTypes

LEMMA CveDbTyped ==
    ASSUME NEW payload, NEW s, NEW f \in CveDbFindings(payload, s)
    PROVE  Typed(f) /\ f.relationships = {}
<1>1. /\ \A e \in f.entities : e.node.type = "Vulnerability"
      /\ f.relationships = {}
    BY DEF CveDbFindings, Finding, Entity, Node
<1> QED BY <1>1 DEF Typed, EntityTypes

LEMMA RecordTyped ==
    ASSUME NEW record, NEW d, NEW s
    PROVE  Typed(RecordFinding(record, d, s))
<1> DEFINE f == RecordFinding(record, d, s)
<1>1. \A e \in f.entities : e.node.type \in {"ASN", "Netblock"}
    BY DEF RecordFinding, Finding, Entity, Node
<1>2. \A r \in f.relationships :
        \/ r.type = "CONTAINS" /\ r.src.type = "Netblock" /\ r.dst.type = "IPAddress"
        \/ r.type = "ANNOUNCES" /\ r.src.type = "ASN" /\ r.dst.type = "Netblock"
    BY DEF RecordFinding, Finding, Relationship, Node
<1> HIDE DEF f
<1>3. Typed(f)
    BY <1>1, <1>2, EndsByType DEF Typed, EntityTypes
<1> QED BY <1>3 DEF f

LEMMA MergedTyped ==
    ASSUME NEW F, \A f \in F : Typed(f)
    PROVE  Typed(Merged(F))
BY DEF Merged, Finding, Typed

LEMMA CollectionTyped == CollectionInv => TypeOK
<1> SUFFICES ASSUME CollectionInv PROVE TypeOK
    OBVIOUS
<1>1. PagingTypeOK /\ described \in Seq(Descriptions)
    <2>1. described = <<>> \/ described \in Seq(Descriptions)
        BY DEF CollectionInv, NothingYet, Answered, AskedForOrigins, Described
    <2>2. <<>> \in Seq(Descriptions)
        OBVIOUS
    <2> QED BY <2>1, <2>2 DEF CollectionInv, GapInv
<1>2. ASSUME NEW f \in Yielded PROVE Typed(f)
    <2>1. CASE connector = "certspotter"
        BY <1>2, <2>1, IssuanceTyped DEF Yielded
    <2>2. CASE Answered
        <3>1. f \in FindingsOf(answer) /\ connector \in Asked
            BY <1>2, <2>2 DEF Yielded, Answered, Asked
        <3>2. CASE connector = "crtsh"
            BY <3>1, <3>2, CrtShTyped DEF FindingsOf, CrtShFindings
        <3>3. CASE connector = "wayback"
            BY <3>1, <3>3, WaybackTyped DEF FindingsOf
        <3>4. CASE connector = "dns"
            BY <3>1, <3>4, DnsTyped DEF FindingsOf
        <3>5. CASE connector = "internetdb"
            BY <3>1, <3>5, InternetDbTyped DEF FindingsOf
        <3>6. CASE connector = "cvedb"
            BY <3>1, <3>6, CveDbTyped DEF FindingsOf
        <3> QED BY <3>1, <3>2, <3>3, <3>4, <3>5, <3>6 DEF Asked
    <2>3. CASE connector = "asn" /\ Described
        <3>1. f = Merged(OriginFindings(described))
            BY <1>2, <2>3 DEF Yielded, Described
        <3>2. \A g \in OriginFindings(described) : Typed(g)
            BY RecordTyped DEF OriginFindings
        <3> QED BY <3>1, <3>2, MergedTyped
    <2>4. CASE connector # "certspotter" /\ findings = {}
        BY <1>2, <2>4 DEF Yielded
    <2> QED BY <2>1, <2>2, <2>3, <2>4
            DEF CollectionInv, NothingYet, Described, AskedForOrigins
<1>3. \A e \in Entities : e.node.type \in EntityTypes
    BY <1>2 DEF Entities, Typed
<1>4. \A r \in Relationships : <<r.src.type, r.dst.type>> = Ends(r.type)
    BY <1>2 DEF Relationships, Typed
<1> QED BY <1>1, <1>3, <1>4 DEF TypeOK, CollectionInv

\* For any seeds, answers and pages, a collection reports entities of the known types, and
\* every relationship joins the two types its own type is for.
THEOREM SourcesTyped == Spec => []TypeOK
BY CollectionInvariant, CollectionTyped, PTL

-----------------------------------------------------------------------------
(* Every origin of an address is reported.                                 *)

LEMMA RecordFindingHolds ==
    ASSUME NEW record, NEW d, NEW address
    PROVE  LET f == RecordFinding(record, d, address)
           IN /\ f.entities = {Entity("ASN", record.asn, {d} \ {Null}), Entity("Netblock", record.prefix, {})}
              /\ f.relationships =
                    {Relationship("CONTAINS", Node("Netblock", record.prefix), Node("IPAddress", address)),
                     Relationship("ANNOUNCES", Node("ASN", record.asn), Node("Netblock", record.prefix))}
BY DEF RecordFinding, Finding

LEMMA UnionOfTwos ==
    ASSUME NEW D, NEW A, NEW B, NEW F, \A i \in D : F[i] = {A[i], B[i]}
    PROVE  UNION {F[i] : i \in D} = {A[i] : i \in D} \cup {B[i] : i \in D}
OBVIOUS

LEMMA OriginsFromCollection == CollectionInv => OriginsSurvive
<1> SUFFICES ASSUME CollectionInv, connector = "asn", phase = "ended", answer # Null
             PROVE  OriginsSurvive
    BY DEF OriginsSurvive
<1> DEFINE D == DOMAIN Origins
           R == {RecordFinding(Origins[i], described[i], seed) : i \in D}
<1>1. Described
    BY DEF CollectionInv, NothingYet, Answered, Asked
<1>2. IsList(Origins) /\ D = 1..Len(Origins)
    <2>1. IsList(Origins)
        BY <1>1, OriginsAreAList DEF Origins, Described, AskedForOrigins
    <2> QED BY <2>1, ListProperties
<1>3. DOMAIN described = D
    BY <1>1, <1>2 DEF Described, AskedForOrigins
<1>4. Entities = UNION {f.entities : f \in R} /\ Relationships = UNION {f.relationships : f \in R}
    <2>1. CASE Origins = <<>>
        <3>1. D = {} /\ Yielded = {}
            BY <1>1, <2>1 DEF Described, Yielded
        <3>2. R = {}
            BY <3>1
        <3> QED BY <3>1, <3>2 DEF Entities, Relationships
    <2>2. CASE Origins # <<>>
        <3>1. Yielded = {Merged(OriginFindings(described))}
            BY <1>1, <2>2 DEF Described, Yielded
        <3>2. OriginFindings(described) = R
            BY <1>3 DEF OriginFindings
        <3> HIDE DEF R
        <3> QED BY <3>1, <3>2 DEF Entities, Relationships, Merged, Finding
    <2> QED BY <2>1, <2>2
<1> DEFINE asns == [i \in D |-> Entity("ASN", Origins[i].asn, {described[i]} \ {Null})]
           netblocks == [i \in D |-> Entity("Netblock", Origins[i].prefix, {})]
           contains == [i \in D |-> Relationship("CONTAINS", Node("Netblock", Origins[i].prefix),
                                                             Node("IPAddress", seed))]
           announces == [i \in D |-> Relationship("ANNOUNCES", Node("ASN", Origins[i].asn),
                                                               Node("Netblock", Origins[i].prefix))]
<1>5. Entities = {asns[i] : i \in D} \cup {netblocks[i] : i \in D}
    <2> DEFINE F == [i \in D |-> RecordFinding(Origins[i], described[i], seed).entities]
    <2>1. Entities = UNION {F[i] : i \in D}
        BY <1>4
    <2>2. \A i \in D : F[i] = {asns[i], netblocks[i]}
        BY RecordFindingHolds
    <2> HIDE DEF D, R, F, asns, netblocks
    <2> QED BY <2>1, <2>2, UnionOfTwos
<1>6. Relationships = {contains[i] : i \in D} \cup {announces[i] : i \in D}
    <2> DEFINE F == [i \in D |-> RecordFinding(Origins[i], described[i], seed).relationships]
    <2>1. Relationships = UNION {F[i] : i \in D}
        BY <1>4
    <2>2. ASSUME NEW i \in D PROVE F[i] = {contains[i], announces[i]}
        <3>1. F[i] = RecordFinding(Origins[i], described[i], seed).relationships
            OBVIOUS
        <3>2. F[i] = {Relationship("CONTAINS", Node("Netblock", Origins[i].prefix), Node("IPAddress", seed)),
                      Relationship("ANNOUNCES", Node("ASN", Origins[i].asn), Node("Netblock", Origins[i].prefix))}
            BY ONLY <3>1, RecordFindingHolds
        <3> HIDE DEF F
        <3> QED BY <3>2
    <2> HIDE DEF D, R, F, contains, announces
    <2> QED BY <2>1, <2>2, UnionOfTwos
<1>7. \A i \in D :
        /\ contains[i].type = "CONTAINS" /\ announces[i].type = "ANNOUNCES"
        /\ contains[i].src.value = Origins[i].prefix /\ contains[i].dst.value = seed
        /\ announces[i].src.value = Origins[i].asn /\ announces[i].dst.value = Origins[i].prefix
    BY DEF Relationship, Node
<1>8. \A i \in D :
        /\ asns[i].node = Node("ASN", Origins[i].asn) /\ asns[i].labels = {described[i]} \ {Null}
        /\ netblocks[i].node = Node("Netblock", Origins[i].prefix)
    BY DEF Entity
<1> HIDE DEF D, R, asns, netblocks, contains, announces
<1>9. /\ {r \in Relationships : r.type = "ANNOUNCES"} = {announces[i] : i \in D}
      /\ {r \in Relationships : r.type = "CONTAINS"} = {contains[i] : i \in D}
    BY <1>6, <1>7
<1>10. /\ Pairs("ANNOUNCES") = {<<o.asn, o.prefix>> : o \in {Origins[i] : i \in D}}
       /\ Pairs("CONTAINS") = {<<o.prefix, seed>> : o \in {Origins[i] : i \in D}}
    <2>1. /\ Pairs("ANNOUNCES") = {<<announces[i].src.value, announces[i].dst.value>> : i \in D}
          /\ Pairs("CONTAINS") = {<<contains[i].src.value, contains[i].dst.value>> : i \in D}
        BY <1>9 DEF Pairs
    <2>2. /\ Pairs("ANNOUNCES") = {<<Origins[i].asn, Origins[i].prefix>> : i \in D}
          /\ Pairs("CONTAINS") = {<<Origins[i].prefix, seed>> : i \in D}
        BY <1>7, <2>1
    <2> QED BY <2>2
<1>11. ASSUME NEW o \in {Origins[i] : i \in D}
       PROVE  UNION {e.labels : e \in {f \in Entities : f.node = Node("ASN", o.asn)}}
                = {described[i] : i \in {j \in D : Origins[j].asn = o.asn}} \ {Null}
    <2>1. \A v, w : Node("ASN", v) = Node("ASN", w) <=> v = w
        BY DEF Node
    <2>2. \A v, w : Node("Netblock", v) # Node("ASN", w)
        BY DEF Node
    <2>3. {f \in Entities : f.node = Node("ASN", o.asn)} = {asns[i] : i \in {j \in D : Origins[j].asn = o.asn}}
        BY <1>5, <1>8, <2>1, <2>2
    <2>4. UNION {e.labels : e \in {f \in Entities : f.node = Node("ASN", o.asn)}}
            = UNION {{described[i]} \ {Null} : i \in {j \in D : Origins[j].asn = o.asn}}
        BY <1>8, <2>3
    <2> QED BY <2>4
<1> QED BY <1>10, <1>11 DEF D, OriginsSurvive

\* For any address, any list of origin records, garbled ones among them, and any lookups
\* of their ASNs that fail, every readable origin is reported with its prefix, and an ASN
\* has exactly the names that were told (asn.py:75-106).
THEOREM EveryOriginReported == Spec => []OriginsSurvive
BY CollectionInvariant, OriginsFromCollection, PTL

-----------------------------------------------------------------------------
(* What a finding made of a list of names says.                            *)

MarkedAsListed(e, L, s) ==
    \/ [name |-> e.node.value, wildcard |-> "wildcard" \in e.labels] \in L
    \/ e.node.value = s /\ "wildcard" \notin e.labels

Listed(f, L, s) ==
    LET names == {e \in f.entities : e.node.type = "Domain"}
    IN /\ {l.name : l \in L} \subseteq {e.node.value : e \in names}
       /\ \A e \in names :
            /\ "co-san" \in e.labels <=> e.node.value \notin Under[s]
            /\ MarkedAsListed(e, L, s)

\* Only certificates and subdomains are related, and those as the names say.
Related(f, L, s) ==
    /\ {<<r.src.value, r.dst.value>> : r \in {q \in f.relationships : q.type = "HAS_SUBDOMAIN"}}
         = {<<s, l.name>> : l \in {k \in L : k.name # s /\ k.name \in Under[s]}}
    /\ \A r \in f.relationships :
        /\ r.type \in {"SECURES", "HAS_SUBDOMAIN"}
        /\ {r.src, r.dst} \subseteq {e.node : e \in f.entities}

Says(f, L, s) == Listed(f, L, s) /\ Related(f, L, s)

NamesOn(value) == {ListOf(value)[i] : i \in DOMAIN ListOf(value)}

LEMMA ReadableNames ==
    ASSUME NEW value, NamesAreListed(value)
    PROVE  /\ IsList(ListOf(value))
           /\ NamesOn(value) \subseteq [name : DOMAIN Under, wildcard : BOOLEAN]
           /\ NamesIn(ListOf(value)) = {l.name : l \in NamesOn(value)}
           /\ value = Junk => NamesOn(value) = {}
           /\ value # Junk => NamesOn(value) = {value[i] : i \in DOMAIN value}
<1>1. CASE value = Junk
    <2>1. ListOf(value) = <<>>
        BY <1>1 DEF ListOf
    <2>2. IsList(<<>>)
        BY DEF IsList
    <2> QED BY <1>1, <2>1, <2>2 DEF NamesOn, NamesIn
<1>2. CASE value # Junk
    <2>1. ListOf(value) = value
        BY <1>2 DEF ListOf
    <2> QED BY <1>2, <2>1 DEF NamesAreListed, NamesOn, NamesIn
<1> QED BY <1>1, <1>2

\* Of the listings of a name at some positions one is the last, and was listed.
LEMMA LastListedIsListed ==
    ASSUME NEW names, IsList(names),
           \A i \in DOMAIN names : names[i] \in [name : DOMAIN Under, wildcard : BOOLEAN],
           NEW I \in SUBSET DOMAIN names, NEW k \in I
    PROVE  LET n == names[k].name
           IN /\ LastListed(names, I, n) \in BOOLEAN
              /\ [name |-> n, wildcard |-> LastListed(names, I, n)] \in {names[i] : i \in DOMAIN names}
<1> DEFINE n == names[k].name
           J == {i \in I : names[i].name = n}
<1>1. Len(names) \in Nat /\ DOMAIN names = 1..Len(names)
    BY ListProperties
<1>2. J \in SUBSET (0..Len(names)) /\ J # {}
    BY <1>1
<1>3. \E x \in J : \A y \in J : y <= x
    <2> HIDE DEF J
    <2> QED BY <1>1, <1>2, LastOf
<1>4. Max(J) \in J
    <2>1. \E x \in J : \A y \in J : x >= y
        BY <1>1, <1>3
    <2> HIDE DEF J
    <2> QED BY <2>1 DEF Max
<1>5. PICK x \in DOMAIN names : x = Max(J) /\ names[x].name = n
    BY <1>4
<1>6. LastListed(names, I, n) = names[x].wildcard
    BY <1>5 DEF LastListed
<1>7. names[x] = [name |-> names[x].name, wildcard |-> names[x].wildcard] /\ names[x].wildcard \in BOOLEAN
    BY <1>5
<1> HIDE DEF n
<1>8. [name |-> n, wildcard |-> names[x].wildcard] = names[x]
    BY <1>5, <1>7
<1> QED BY <1>6, <1>7, <1>8 DEF n

\* Every listing has a first one.
LEMMA FirstListingsHaveAll ==
    ASSUME NEW names, IsList(names), NEW k \in DOMAIN names
    PROVE  \E i \in FirstListings(names) : names[i] = names[k]
<1> DEFINE I == {i \in DOMAIN names : names[i] = names[k]}
<1>1. Len(names) \in Nat /\ DOMAIN names = 1..Len(names)
    BY ListProperties
<1>2. I \subseteq Nat /\ I # {}
    BY <1>1
<1>3. PICK x \in I : \A y \in I : <<y, x>> \notin Less
    <2> HIDE DEF I
    <2> QED BY <1>2, LessIsWellFounded, WFMin
<1>4. ASSUME NEW j \in 1..(x - 1) PROVE names[j] # names[x]
    <2>1. x \in DOMAIN names /\ names[x] = names[k]
        BY <1>3
    <2>2. j \in DOMAIN names /\ j < x /\ j \in Nat /\ x \in Nat
        BY <1>1, <2>1
    <2>3. j \notin I
        BY <1>3, <2>1, <2>2 DEF Less
    <2> QED BY <2>1, <2>2, <2>3
<1>5. x \in FirstListings(names) /\ names[x] = names[k]
    BY <1>3, <1>4 DEF FirstListings
<1> QED BY <1>5

LEMMA DomainEntityHolds ==
    ASSUME NEW n, NEW s, NEW w \in BOOLEAN
    PROVE  LET e == DomainEntity(n, s, w)
           IN /\ e.node = Node("Domain", n)
              /\ e.node.type = "Domain" /\ e.node.value = n
              /\ "co-san" \in e.labels <=> n \notin Under[s]
              /\ "wildcard" \in e.labels <=> w
BY DEF DomainEntity, Entity, Node, UnderSeed

LEMMA DomainEntitiesAreDomains == \A n, s, w : DomainEntity(n, s, w).node.type = "Domain"
BY DEF DomainEntity, Entity, Node

\* The entities built for a list of names and the seed, each with a label that was listed.
LEMMA EntitiesAreListed ==
    ASSUME NEW f, NEW s, NEW L, NEW w,
           w \in [{l.name : l \in L} \cup {s} -> BOOLEAN],
           \A n \in {l.name : l \in L} \cup {s} :
               [name |-> n, wildcard |-> w[n]] \in L \/ (n = s /\ w[n] = FALSE),
           {e \in f.entities : e.node.type = "Domain"}
             = {DomainEntity(n, s, w[n]) : n \in {l.name : l \in L} \cup {s}}
    PROVE  /\ Listed(f, L, s)
           /\ \A n \in {l.name : l \in L} \cup {s} : Node("Domain", n) \in {e.node : e \in f.entities}
<1> DEFINE N == {l.name : l \in L} \cup {s}
           names == {e \in f.entities : e.node.type = "Domain"}
<1>1. \A n \in N : LET e == DomainEntity(n, s, w[n])
                   IN /\ e \in f.entities
                      /\ e \in names
                      /\ e.node = Node("Domain", n)
                      /\ e.node.value = n
                      /\ "co-san" \in e.labels <=> n \notin Under[s]
                      /\ "wildcard" \in e.labels <=> w[n]
    BY DomainEntityHolds
<1>2. \A e \in names : \E n \in N : e = DomainEntity(n, s, w[n])
    OBVIOUS
<1>3. \A n \in N : Node("Domain", n) \in {e.node : e \in f.entities}
    BY <1>1
<1>4. {l.name : l \in L} \subseteq {e.node.value : e \in names}
    <2>1. \A n \in N : \E e \in names : e.node.value = n
        BY <1>1
    <2>2. {l.name : l \in L} \subseteq N
        OBVIOUS
    <2> HIDE DEF N, names
    <2> QED BY ONLY <2>1, <2>2
<1>5. ASSUME NEW e \in names
      PROVE  /\ "co-san" \in e.labels <=> e.node.value \notin Under[s]
             /\ MarkedAsListed(e, L, s)
    <2>1. PICK n \in N : e = DomainEntity(n, s, w[n])
        BY <1>2
    <2> HIDE DEF N, names
    <2>2. /\ e.node.value = n
          /\ "co-san" \in e.labels <=> n \notin Under[s]
          /\ "wildcard" \in e.labels <=> w[n]
        BY <1>1, <2>1
    <2>3. /\ w[n] \in BOOLEAN
          /\ [name |-> n, wildcard |-> w[n]] \in L \/ (n = s /\ w[n] = FALSE)
        BY <2>1 DEF N
    <2>4. ("wildcard" \in e.labels) = w[n]
        BY <2>2, <2>3
    <2>5. MarkedAsListed(e, L, s)
        BY <2>2, <2>3, <2>4 DEF MarkedAsListed
    <2> QED BY <2>2, <2>5
<1>6. Listed(f, L, s)
    <2> HIDE DEF N
    <2> QED BY <1>4, <1>5 DEF Listed
<1> QED BY <1>3, <1>6

\* Among other relationships, those of subdomains are what the names say.
LEMMA SubdomainsAreRelated ==
    ASSUME NEW f, NEW s, NEW L, NEW secures,
           f.relationships = secures \cup Subdomains({l.name : l \in L}, s),
           \A r \in secures : r.type = "SECURES" /\ {r.src, r.dst} \subseteq {e.node : e \in f.entities},
           \A n \in {l.name : l \in L} \cup {s} : Node("Domain", n) \in {e.node : e \in f.entities}
    PROVE  Related(f, L, s)
<1> DEFINE S == Subdomains({l.name : l \in L}, s)
           U == {k \in L : k.name # s /\ k.name \in Under[s]}
<1>1. S = {Relationship("HAS_SUBDOMAIN", Node("Domain", s), Node("Domain", k.name)) : k \in U}
    BY DEF Subdomains, UnderSeed
<1>2. \A n : LET r == Relationship("HAS_SUBDOMAIN", Node("Domain", s), Node("Domain", n))
             IN /\ r.type = "HAS_SUBDOMAIN" /\ r.src = Node("Domain", s) /\ r.dst = Node("Domain", n)
                /\ r.src.value = s /\ r.dst.value = n
    BY DEF Relationship, Node
<1>3. \A r \in S : \E k \in U : /\ r.type = "HAS_SUBDOMAIN"
                                /\ r.src = Node("Domain", s) /\ r.dst = Node("Domain", k.name)
                                /\ r.src.value = s /\ r.dst.value = k.name
    <2> HIDE DEF S, U
    <2> QED BY <1>1, <1>2
<1>4. \A k \in U : \E r \in S : r.type = "HAS_SUBDOMAIN" /\ r.src.value = s /\ r.dst.value = k.name
    <2> HIDE DEF S, U
    <2> QED BY <1>1, <1>2
<1>5. {q \in f.relationships : q.type = "HAS_SUBDOMAIN"} = S
    <2> HIDE DEF S, U
    <2>1. f.relationships = secures \cup S
        BY DEF S
    <2> QED BY <1>3, <2>1
<1>6. {<<r.src.value, r.dst.value>> : r \in S} = {<<s, l.name>> : l \in U}
    <2> HIDE DEF S, U
    <2> QED BY <1>3, <1>4
<1>7. \A r \in S : {r.src, r.dst} \subseteq {e.node : e \in f.entities}
    <2>1. \A k \in U : k \in L
        OBVIOUS
    <2> HIDE DEF S, U
    <2> QED BY <1>3, <2>1
<1> QED BY <1>3, <1>5, <1>6, <1>7 DEF Related

LEMMA CrtShSays ==
    ASSUME NEW record, NamesAreListed(record.names), NEW s
    PROVE  Says(CrtShFinding(record, s), NamesOn(record.names), s)
<1> DEFINE f == CrtShFinding(record, s)
           L == NamesOn(record.names)
           names == ListOf(record.names)
           listed == NamesIn(names)
           first == FirstListings(names)
           certificate == Node("Certificate", <<record.key, listed>>)
           secures == {Relationship("SECURES", certificate, Node("Domain", n)) : n \in listed \cup {s}}
           w == [n \in listed \cup {s} |-> IF n = s THEN FALSE ELSE LastListed(names, first, n)]
<1>1. /\ IsList(names) /\ listed = {l.name : l \in L}
      /\ \A i \in DOMAIN names : names[i] \in [name : DOMAIN Under, wildcard : BOOLEAN]
      /\ L = {names[i] : i \in DOMAIN names}
    BY ReadableNames DEF NamesOn
<1>2. ASSUME NEW n \in listed
      PROVE  /\ LastListed(names, first, n) \in BOOLEAN
             /\ [name |-> n, wildcard |-> LastListed(names, first, n)] \in L
    <2>1. PICK k \in DOMAIN names : names[k].name = n
        BY DEF NamesIn
    <2>2. PICK i \in first : names[i] = names[k]
        BY <1>1, FirstListingsHaveAll
    <2>3. first \in SUBSET DOMAIN names
        BY DEF FirstListings
    <2> HIDE DEF names, first, L
    <2> QED BY <1>1, <2>1, <2>2, <2>3, LastListedIsListed
<1>3. /\ f.entities = {[node |-> certificate, labels |-> {}], DomainEntity(s, s, FALSE)}
                        \cup {DomainEntity(n, s, LastListed(names, first, n)) : n \in listed \ {s}}
      /\ f.relationships = secures \cup Subdomains(listed, s)
    BY DEF CrtShFinding, Finding
<1> HIDE DEF f, names, listed, first
<1>4. w \in [listed \cup {s} -> BOOLEAN]
    BY <1>2
<1>5. \A n \in listed \cup {s} : [name |-> n, wildcard |-> w[n]] \in L \/ (n = s /\ w[n] = FALSE)
    BY <1>2
<1>6. {e \in f.entities : e.node.type = "Domain"} = {DomainEntity(n, s, w[n]) : n \in listed \cup {s}}
    <2> DEFINE E == {DomainEntity(n, s, w[n]) : n \in listed \cup {s}}
               c == [node |-> certificate, labels |-> {}]
    <2>1. f.entities = {c} \cup E
        BY <1>3
    <2>2. \A e \in E : e.node.type = "Domain"
        <3> HIDE DEF w
        <3> QED BY DomainEntitiesAreDomains
    <2>3. c.node.type # "Domain"
        BY DEF Node
    <2>4. {e \in f.entities : e.node.type = "Domain"} = E
        <3> HIDE DEF E, c
        <3> QED BY <2>1, <2>2, <2>3
    <2> QED BY <2>4
<1> HIDE DEF w, L
<1>7. /\ Listed(f, L, s)
      /\ \A n \in {l.name : l \in L} \cup {s} : Node("Domain", n) \in {e.node : e \in f.entities}
    <2>1. listed = {l.name : l \in L}
        BY <1>1
    <2> QED BY <1>4, <1>5, <1>6, <2>1, EntitiesAreListed
<1>8. certificate \in {e.node : e \in f.entities}
    <2>1. [node |-> certificate, labels |-> {}] \in f.entities
        BY <1>3
    <2> HIDE DEF certificate
    <2> QED BY <2>1
<1>9. \A r \in secures : r.type = "SECURES" /\ {r.src, r.dst} \subseteq {e.node : e \in f.entities}
    <2> HIDE DEF certificate
    <2>1. \A n : LET r == Relationship("SECURES", certificate, Node("Domain", n))
                 IN r.type = "SECURES" /\ r.src = certificate /\ r.dst = Node("Domain", n)
        BY DEF Relationship
    <2> QED BY <1>1, <1>7, <1>8, <2>1
<1>10. f.relationships = secures \cup Subdomains({l.name : l \in L}, s)
    BY <1>1, <1>3
<1>11. Related(f, L, s)
    <2> HIDE DEF secures
    <2> QED BY <1>7, <1>9, <1>10, SubdomainsAreRelated
<1> QED BY <1>7, <1>11 DEF Says, f, L

LEMMA IssuanceSays ==
    ASSUME NEW issuance, NamesAreListed(issuance.names), NEW s
    PROVE  Says(IssuanceFinding(issuance, s), NamesOn(issuance.names), s)
<1> DEFINE f == IssuanceFinding(issuance, s)
           L == NamesOn(issuance.names)
           names == ListOf(issuance.names)
           listed == NamesIn(names)
           w == [n \in listed \cup {s} |-> IF n \in listed THEN LastListed(names, DOMAIN names, n) ELSE FALSE]
<1>1. /\ IsList(names) /\ listed = {l.name : l \in L}
      /\ \A i \in DOMAIN names : names[i] \in [name : DOMAIN Under, wildcard : BOOLEAN]
      /\ L = {names[i] : i \in DOMAIN names}
    BY ReadableNames DEF NamesOn
<1>2. ASSUME NEW n \in listed
      PROVE  /\ LastListed(names, DOMAIN names, n) \in BOOLEAN
             /\ [name |-> n, wildcard |-> LastListed(names, DOMAIN names, n)] \in L
    <2>1. PICK k \in DOMAIN names : names[k].name = n
        BY DEF NamesIn
    <2> HIDE DEF names, L
    <2> QED BY <1>1, <2>1, LastListedIsListed
<1>3. /\ f.entities = {DomainEntity(n, s, IF n \in listed THEN LastListed(names, DOMAIN names, n) ELSE FALSE) :
                          n \in listed \cup {s}}
      /\ f.relationships = Subdomains(listed, s)
    BY DEF IssuanceFinding, Finding
<1> HIDE DEF f, names, listed
<1>4. w \in [listed \cup {s} -> BOOLEAN]
    BY <1>2
<1>5. \A n \in listed \cup {s} : [name |-> n, wildcard |-> w[n]] \in L \/ (n = s /\ w[n] = FALSE)
    BY <1>2
<1>6. {e \in f.entities : e.node.type = "Domain"} = {DomainEntity(n, s, w[n]) : n \in listed \cup {s}}
    <2> DEFINE E == {DomainEntity(n, s, w[n]) : n \in listed \cup {s}}
    <2>1. f.entities = E
        BY <1>3
    <2>2. \A e \in E : e.node.type = "Domain"
        <3> HIDE DEF w
        <3> QED BY DomainEntitiesAreDomains
    <2>3. {e \in f.entities : e.node.type = "Domain"} = E
        <3> HIDE DEF E
        <3> QED BY <2>1, <2>2
    <2> QED BY <2>3
<1> HIDE DEF w, L
<1>7. /\ Listed(f, L, s)
      /\ \A n \in {l.name : l \in L} \cup {s} : Node("Domain", n) \in {e.node : e \in f.entities}
    <2>1. listed = {l.name : l \in L}
        BY <1>1
    <2> QED BY <1>4, <1>5, <1>6, <2>1, EntitiesAreListed
<1> DEFINE secures == {}
<1>8. /\ f.relationships = secures \cup Subdomains({l.name : l \in L}, s)
      /\ \A r \in secures : r.type = "SECURES" /\ {r.src, r.dst} \subseteq {e.node : e \in f.entities}
    BY <1>1, <1>3
<1>9. Related(f, L, s)
    <2> HIDE DEF secures
    <2> QED BY <1>7, <1>8, SubdomainsAreRelated
<1> QED BY <1>7, <1>9 DEF Says, f, L

LEMMA WaybackSays ==
    ASSUME NEW rows, rows # Junk, NEW s, NEW f \in WaybackFindings(rows, s)
    PROVE  Says(f, {[name |-> h, wildcard |-> FALSE] : h \in Hosts(rows) \cap Under[s]}, s)
<1> DEFINE hosts == {n \in Hosts(rows) : UnderSeed(n, s)}
           L == {[name |-> h, wildcard |-> FALSE] : h \in Hosts(rows) \cap Under[s]}
           w == [n \in hosts \cup {s} |-> FALSE]
<1>1. f = Finding({DomainEntity(n, s, FALSE) : n \in hosts \cup {s}}, Subdomains(hosts, s))
    BY DEF WaybackFindings
<1>2. hosts = {l.name : l \in L}
    <2> DEFINE H == Hosts(rows) \cap Under[s]
               listing == [h \in H |-> [name |-> h, wildcard |-> FALSE]]
    <2>1. hosts = H
        BY DEF UnderSeed
    <2>2. L = {listing[h] : h \in H} /\ \A h \in H : listing[h].name = h
        OBVIOUS
    <2> HIDE DEF H, listing, L, hosts
    <2> QED BY <2>1, <2>2
<1> DEFINE secures == {}
<1> HIDE DEF hosts
<1>3. /\ f.entities = {DomainEntity(n, s, w[n]) : n \in hosts \cup {s}}
      /\ f.relationships = secures \cup Subdomains(hosts, s)
      /\ \A r \in secures : r.type = "SECURES" /\ {r.src, r.dst} \subseteq {e.node : e \in f.entities}
    BY <1>1 DEF Finding
<1>4. w \in [hosts \cup {s} -> BOOLEAN]
      /\ \A n \in hosts \cup {s} : [name |-> n, wildcard |-> w[n]] \in L \/ (n = s /\ w[n] = FALSE)
    <2>1. \A n \in hosts \cup {s} : w[n] = FALSE
        OBVIOUS
    <2>2. \A n \in hosts : [name |-> n, wildcard |-> FALSE] \in L
        BY DEF hosts, UnderSeed
    <2> HIDE DEF L
    <2> QED BY <2>1, <2>2
<1> HIDE DEF w, L
<1>5. {e \in f.entities : e.node.type = "Domain"} = {DomainEntity(n, s, w[n]) : n \in hosts \cup {s}}
    <2> DEFINE E == {DomainEntity(n, s, w[n]) : n \in hosts \cup {s}}
    <2>1. \A e \in E : e.node.type = "Domain"
        <3> HIDE DEF w
        <3> QED BY DomainEntitiesAreDomains
    <2>2. f.entities = E
        BY <1>3
    <2>3. {e \in f.entities : e.node.type = "Domain"} = E
        <3> HIDE DEF E
        <3> QED BY <2>1, <2>2
    <2> QED BY <2>3
<1>6. /\ Listed(f, L, s)
      /\ \A n \in {l.name : l \in L} \cup {s} : Node("Domain", n) \in {e.node : e \in f.entities}
    BY <1>2, <1>4, <1>5, EntitiesAreListed
<1>7. Related(f, L, s)
    <2> HIDE DEF secures
    <2> QED BY <1>2, <1>3, <1>6, SubdomainsAreRelated
<1> QED BY <1>6, <1>7 DEF Says, L

-----------------------------------------------------------------------------
(* All the findings of a collection.                                       *)

\* Only InternetDB lists ports and vulnerabilities, and only it and CVEDB have labels to
\* check besides those of names.
LEMMA NoPortsListed ==
    ASSUME connector # "internetdb" \/ answer \in {Null, Junk}
    PROVE  ListedPorts = {} /\ ListedCves = {}
BY DEF ListedPorts, ListedCves, HasAnswered

LEMMA NoLabelsListed ==
    ASSUME connector \notin {"internetdb", "cvedb"} \/ answer \in {Null, Junk}
    PROVE  LabelsSupported
BY DEF LabelsSupported, HasAnswered

\* With no ports and no vulnerabilities, only the two kinds of names matter.
LEMMA SupportedPairs ==
    ASSUME Pairs("HAS_SUBDOMAIN") =
              {<<seed, l.name>> : l \in {k \in Listings : k.name # seed /\ k.name \in Under[seed]}},
           Pairs("RESOLVES_TO") =
              IF connector = "dns" /\ answer # Null THEN {<<seed, a>> : a \in answer \ {Junk}} ELSE {},
           Pairs("HOSTS") = {}, Pairs("HAS_VULNERABILITY") = {},
           connector # "internetdb" \/ answer \in {Null, Junk}
    PROVE  RelationshipsSupported
<1>1. ListedPorts = {} /\ ListedCves = {}
    BY NoPortsListed
<1>2. Pairs("HAS_VULNERABILITY") = {<<seed, v>> : v \in ListedCves}
    BY <1>1
<1>3. /\ Pairs("HOSTS") \subseteq {<<seed, <<seed, p>>>> : p \in ListedPorts}
      /\ \A p \in ListedPorts : \E q \in ListedPorts :
            Number(q) = Number(p) /\ <<seed, <<seed, q>>>> \in Pairs("HOSTS")
      /\ \A p, q \in ListedPorts :
            {<<seed, <<seed, p>>>>, <<seed, <<seed, q>>>>} \subseteq Pairs("HOSTS") /\ Number(p) = Number(q)
                => p = q
    BY <1>1
<1> QED BY <1>2, <1>3, Zenon DEF RelationshipsSupported

LEMMA ListedNames ==
    ASSUME NEW f, NEW L, NEW s, Listed(f, L, s)
    PROVE  /\ \A l \in L : \E e \in f.entities : e.node.type = "Domain" /\ e.node.value = l.name
           /\ \A e \in f.entities : e.node.type = "Domain" =>
                /\ "co-san" \in e.labels <=> e.node.value \notin Under[s]
                /\ MarkedAsListed(e, L, s)
BY DEF Listed

\* Findings F[x] that each say what the names G[x] say, say together what all of them do.
LEMMA SaysTogether ==
    ASSUME NEW X, NEW F, NEW G, \A x \in X : Says(F[x], G[x], seed),
           Yielded = {F[x] : x \in X}, Listings = UNION {G[x] : x \in X},
           connector \notin {"dns", "internetdb", "cvedb"}
    PROVE  FindingsSupported
<1>1. \A x \in X : Listed(F[x], G[x], seed) /\ Related(F[x], G[x], seed)
    BY DEF Says
<1>2. \A x \in X : F[x] \in Yielded /\ G[x] \subseteq Listings /\ F[x].entities \subseteq Entities
    BY DEF Entities
<1>3. NamesSupported
    <2> DEFINE names == {e \in Entities : e.node.type = "Domain"}
    <2>1. \A l \in Listings : \E e \in names : e.node.value = l.name
        <3> SUFFICES ASSUME NEW l \in Listings
                     PROVE  \E e \in names : e.node.value = l.name
            OBVIOUS
        <3>1. PICK x \in X : l \in G[x]
            OBVIOUS
        <3>2. PICK e \in F[x].entities : e.node.type = "Domain" /\ e.node.value = l.name
            BY <1>1, <3>1, ListedNames
        <3>3. e \in Entities
            BY <1>2, <3>2
        <3> QED BY <3>2, <3>3
    <2>2. ASSUME NEW e \in names
          PROVE  /\ "co-san" \in e.labels <=> e.node.value \notin Under[seed]
                 /\ MarkedAsListed(e, Listings, seed)
        <3>1. PICK x \in X : e \in F[x].entities
            BY DEF Entities
        <3>2. /\ "co-san" \in e.labels <=> e.node.value \notin Under[seed]
              /\ MarkedAsListed(e, G[x], seed)
            BY <1>1, <3>1, ListedNames
        <3>3. G[x] \subseteq Listings
            BY <1>2
        <3>4. MarkedAsListed(e, Listings, seed)
            BY <3>2, <3>3 DEF MarkedAsListed
        <3> QED BY <3>2, <3>4
    <2>3. {l.name : l \in Listings} \subseteq {e.node.value : e \in names}
        <3> HIDE DEF names
        <3> QED BY <2>1
    <2> QED BY <2>2, <2>3 DEF NamesSupported, MarkedAsListed
<1>4. HangsTogether
    BY <1>1 DEF Related, HangsTogether
<1>5. \A r \in Relationships : r.type \in {"SECURES", "HAS_SUBDOMAIN"}
    BY <1>1 DEF Relationships, Related
<1>6. Pairs("HAS_SUBDOMAIN") =
          {<<seed, l.name>> : l \in {k \in Listings : k.name # seed /\ k.name \in Under[seed]}}
    <2> DEFINE Subs(f) == {<<r.src.value, r.dst.value>> : r \in {q \in f.relationships : q.type = "HAS_SUBDOMAIN"}}
               Below(L) == {<<seed, l.name>> : l \in {k \in L : k.name # seed /\ k.name \in Under[seed]}}
    <2>1. \A x \in X : Subs(F[x]) = Below(G[x])
        BY <1>1 DEF Related
    <2>2. Pairs("HAS_SUBDOMAIN") = UNION {Subs(F[x]) : x \in X}
        BY DEF Pairs, Relationships
    <2>3. Below(Listings) = UNION {Below(G[x]) : x \in X}
        OBVIOUS
    <2>4. Pairs("HAS_SUBDOMAIN") = Below(Listings)
        <3> HIDE DEF Subs, Below
        <3> QED BY <2>1, <2>2, <2>3
    <2> QED BY <2>4
<1>7. Pairs("RESOLVES_TO") = {} /\ Pairs("HOSTS") = {} /\ Pairs("HAS_VULNERABILITY") = {}
    BY <1>5 DEF Pairs
<1>8. Pairs("RESOLVES_TO") =
        IF connector = "dns" /\ answer # Null THEN {<<seed, a>> : a \in answer \ {Junk}} ELSE {}
    BY <1>7
<1>9. RelationshipsSupported
    BY <1>6, <1>7, <1>8, SupportedPairs
<1> QED BY <1>3, <1>4, <1>9, NoLabelsListed DEF FindingsSupported

\* Without findings and listings there is nothing to support.
LEMMA NothingToSay ==
    ASSUME Yielded = {}, Listings = {}, connector \notin {"dns", "internetdb", "cvedb"}
    PROVE  FindingsSupported
<1> DEFINE X == {}
           F == [x \in X |-> x]
<1>1. /\ \A x \in X : Says(F[x], F[x], seed)
      /\ Yielded = {F[x] : x \in X} /\ Listings = UNION {F[x] : x \in X}
    OBVIOUS
<1> HIDE DEF X, F
<1> QED BY <1>1, SaysTogether

\* What Listings takes of the records read.
LEMMA ListingsOfRecords ==
    ASSUME connector # "wayback", \A r \in RecordsRead : NamesAreListed(r.names)
    PROVE  Listings = UNION {NamesOn(r.names) : r \in RecordsRead}
<1>1. Listings = UNION {{r.names[i] : i \in DOMAIN r.names} : r \in {q \in RecordsRead : q.names # Junk}}
    BY DEF Listings
<1>2. \A r \in RecordsRead :
        /\ r.names = Junk => NamesOn(r.names) = {}
        /\ r.names # Junk => NamesOn(r.names) = {r.names[i] : i \in DOMAIN r.names}
    BY ReadableNames
<1>3. UNION {{r.names[i] : i \in DOMAIN r.names} : r \in {q \in RecordsRead : q.names # Junk}}
        = UNION {NamesOn(r.names) : r \in {q \in RecordsRead : q.names # Junk}}
    BY <1>2
<1>4. UNION {NamesOn(r.names) : r \in {q \in RecordsRead : q.names # Junk}}
        = UNION {NamesOn(r.names) : r \in RecordsRead}
    BY <1>2
<1> QED BY <1>1, <1>3, <1>4

LEMMA CertSpotterSupported ==
    ASSUME CollectionInv, connector = "certspotter"
    PROVE  FindingsSupported
<1>1. RecordsRead = {log[i] : i \in yielded} /\ Yielded = {IssuanceFinding(r, seed) : r \in RecordsRead}
    BY DEF RecordsRead, Yielded
<1>2. \A r \in RecordsRead : NamesAreListed(r.names)
    <2>1. \A i \in yielded : log[i] \in Readable
        BY DEF CollectionInv, GapInv, PagesLeaveNoGap, ReadableWithin
    <2> QED BY <1>1, <2>1, SourcesAssumption
<1> DEFINE F == [r \in RecordsRead |-> IssuanceFinding(r, seed)]
           G == [r \in RecordsRead |-> NamesOn(r.names)]
<1>3. Yielded = {F[r] : r \in RecordsRead}
    BY <1>1
<1>4. Listings = UNION {G[r] : r \in RecordsRead}
    <2>1. Listings = UNION {NamesOn(r.names) : r \in RecordsRead}
        BY <1>2, ListingsOfRecords
    <2> QED BY <2>1
<1>5. \A r \in RecordsRead : Says(F[r], G[r], seed)
    BY <1>2, IssuanceSays
<1> HIDE DEF F, G
<1> QED BY <1>3, <1>4, <1>5, SaysTogether

LEMMA CrtShSupported ==
    ASSUME Answered, connector = "crtsh"
    PROVE  FindingsSupported
<1>1. answer \in AnswersOf["crtsh"] /\ answer # Null /\ Yielded = CrtShFindings(answer, seed)
    BY SourcesAssumption DEF Answered, Yielded, FindingsOf
<1>2. CASE answer = Junk
    <2>1. ListOf(answer) = <<>>
        BY <1>2 DEF ListOf
    <2>2. Yielded = {}
        BY <1>1, <2>1 DEF CrtShFindings
    <2>3. Listings = {}
        BY <1>2 DEF Listings, RecordsRead
    <2> QED BY <2>2, <2>3, NothingToSay
<1>3. CASE answer # Junk
    <2> DEFINE I == {j \in DOMAIN answer : answer[j] # Junk}
               F == [i \in I |-> CrtShFinding(answer[i], seed)]
               G == [i \in I |-> NamesOn(answer[i].names)]
    <2>1. ListOf(answer) = answer
        BY <1>3 DEF ListOf
    <2>2. \A i \in I : NamesAreListed(answer[i].names)
        BY <1>1, <1>3, SourcesAssumption
    <2>3. Yielded = {F[i] : i \in I}
        <3>1. CrtShFindings(answer, seed) = {CrtShFinding(answer[i], seed) : i \in I}
            BY <2>1 DEF CrtShFindings
        <3> QED BY <1>1, <3>1
    <2>4. Listings = UNION {G[i] : i \in I}
        <3>1. RecordsRead = {answer[i] : i \in I}
            BY <1>1, <1>3 DEF RecordsRead
        <3>2. \A r \in RecordsRead : NamesAreListed(r.names)
            BY <2>2, <3>1
        <3>3. Listings = UNION {NamesOn(r.names) : r \in RecordsRead}
            BY <3>2, ListingsOfRecords
        <3> QED BY <3>1, <3>3
    <2>5. \A i \in I : Says(F[i], G[i], seed)
        BY <2>2, CrtShSays
    <2> HIDE DEF I, F, G
    <2> QED BY <2>3, <2>4, <2>5, SaysTogether
<1> QED BY <1>2, <1>3

LEMMA WaybackSupported ==
    ASSUME Answered, connector = "wayback"
    PROVE  FindingsSupported
<1>1. answer # Null /\ Yielded = WaybackFindings(answer, seed)
    BY SourcesAssumption DEF Answered, Yielded, FindingsOf, Asked
<1>2. CASE answer = Junk
    <2>1. Yielded = {} /\ Listings = {}
        BY <1>1, <1>2 DEF WaybackFindings, Listings, RecordsRead
    <2> QED BY <2>1, NothingToSay
<1>3. CASE answer # Junk
    <2> DEFINE L == {[name |-> h, wildcard |-> FALSE] : h \in Hosts(answer) \cap Under[seed]}
               F == [f \in Yielded |-> f]
               G == [f \in Yielded |-> L]
    <2>1. Listings = L
        BY <1>1, <1>3 DEF Listings
    <2>2. Yielded # {}
        BY <1>1, <1>3 DEF WaybackFindings
    <2>3. \A f \in Yielded : Says(f, L, seed)
        BY <1>1, <1>3, WaybackSays
    <2> HIDE DEF L
    <2>4. Yielded = {F[f] : f \in Yielded}
        OBVIOUS
    <2>5. Listings = UNION {G[f] : f \in Yielded}
        BY <2>1, <2>2
    <2>6. \A f \in Yielded : Says(F[f], G[f], seed)
        BY <2>3
    <2> HIDE DEF F, G
    <2> QED BY <2>4, <2>5, <2>6, SaysTogether
<1> QED BY <1>2, <1>3

\* The other sources list no names.
LEMMA NothingListed ==
    ASSUME connector \notin {"certspotter", "crtsh", "wayback"}
    PROVE  NamesSupported /\ Listings = {}
BY DEF NamesSupported, Listings, RecordsRead

LEMMA DnsSupported ==
    ASSUME Answered, connector = "dns"
    PROVE  FindingsSupported
<1>1. answer # Null /\ Yielded = DnsFindings(answer, seed)
    BY SourcesAssumption DEF Answered, Yielded, FindingsOf, Asked
<1> DEFINE found == answer \ {Junk}
           resolves == [a \in found |-> Relationship("RESOLVES_TO", Node("Domain", seed), Node("IPAddress", a))]
<1>2. \A f \in Yielded : /\ f.entities = {Entity("IPAddress", a, {}) : a \in found}
                         /\ f.relationships = {resolves[a] : a \in found}
    BY <1>1 DEF DnsFindings, Finding
<1>3. found # {} => Yielded # {}
    BY <1>1 DEF DnsFindings
<1>4. \A a \in found : /\ resolves[a].type = "RESOLVES_TO"
                       /\ resolves[a].src = Node("Domain", seed) /\ resolves[a].dst = Node("IPAddress", a)
                       /\ resolves[a].src.value = seed /\ resolves[a].dst.value = a
                       /\ Entity("IPAddress", a, {}).node = Node("IPAddress", a)
    BY DEF Relationship, Node, Entity
<1> HIDE DEF found, resolves
<1>5. Relationships = {resolves[a] : a \in found}
    BY <1>2, <1>3 DEF Relationships
<1>6. HangsTogether
    <2> SUFFICES ASSUME NEW f \in Yielded, NEW r \in f.relationships
                 PROVE  r.src.value = seed /\ r.dst \in {e.node : e \in f.entities}
        BY DEF HangsTogether
    <2>1. PICK a \in found : r = resolves[a]
        BY <1>2
    <2>2. Entity("IPAddress", a, {}) \in f.entities
        BY <1>2
    <2> QED BY <1>4, <2>1, <2>2
<1>7. /\ Pairs("RESOLVES_TO") = {<<seed, a>> : a \in found}
      /\ Pairs("HAS_SUBDOMAIN") = {} /\ Pairs("HOSTS") = {} /\ Pairs("HAS_VULNERABILITY") = {}
    <2>1. {r \in Relationships : r.type = "RESOLVES_TO"} = {resolves[a] : a \in found}
        BY <1>4, <1>5
    <2>2. \A r \in Relationships : r.type = "RESOLVES_TO"
        BY <1>4, <1>5
    <2>3. Pairs("RESOLVES_TO") = {<<resolves[a].src.value, resolves[a].dst.value>> : a \in found}
        BY <2>1 DEF Pairs
    <2> QED BY <1>4, <2>2, <2>3 DEF Pairs
<1>8. RelationshipsSupported
    <2>1. Pairs("RESOLVES_TO") =
            IF connector = "dns" /\ answer # Null THEN {<<seed, a>> : a \in answer \ {Junk}} ELSE {}
        BY <1>1, <1>7 DEF found
    <2>2. Pairs("HAS_SUBDOMAIN") =
            {<<seed, l.name>> : l \in {k \in Listings : k.name # seed /\ k.name \in Under[seed]}}
        BY <1>7, NothingListed
    <2> QED BY <1>7, <2>1, <2>2, SupportedPairs
<1> QED BY <1>6, <1>8, NothingListed, NoLabelsListed DEF FindingsSupported

\* What yields no relationship has none to support.
LEMMA UnrelatedSupported ==
    ASSUME connector \notin {"certspotter", "crtsh", "wayback"}, Relationships = {},
           connector = "dns" => answer = Null,
           connector = "internetdb" => answer \in {Null, Junk},
           LabelsSupported
    PROVE  FindingsSupported
<1>1. \A type : Pairs(type) = {}
    BY DEF Pairs
<1>2. HangsTogether
    BY DEF Relationships, HangsTogether
<1>3. RelationshipsSupported
    <2>1. Pairs("RESOLVES_TO") =
            IF connector = "dns" /\ answer # Null THEN {<<seed, a>> : a \in answer \ {Junk}} ELSE {}
        BY <1>1
    <2>2. Pairs("HAS_SUBDOMAIN") =
            {<<seed, l.name>> : l \in {k \in Listings : k.name # seed /\ k.name \in Under[seed]}}
        BY <1>1, NothingListed
    <2> QED BY <1>1, <2>1, <2>2, SupportedPairs
<1> QED BY <1>2, <1>3, NothingListed DEF FindingsSupported

\* The items of a list that are port numbers.
PortsIn(list) == {p \in {list[i] : i \in DOMAIN list} : p # Junk /\ Number(p) \in 1..MaxPort}

\* The set keeps of every port number listed one item, and of equal ones no other.
LEMMA PortsAreListed ==
    ASSUME NEW list, IsList(list), \A i \in DOMAIN list : list[i] \in Int \cup {Junk, JsonTrue}
    PROVE  /\ Ports(list) \subseteq PortsIn(list)
           /\ \A p \in PortsIn(list) : \E q \in Ports(list) : Number(q) = Number(p)
           /\ \A p, q \in Ports(list) : Number(p) = Number(q) => p = q
<1> DEFINE n == [i \in DOMAIN list |-> Number(list[i])]
           I == {i \in DOMAIN list : list[i] # Junk /\ 0 < n[i] /\ n[i] <= MaxPort}
           F == {j \in I : \A k \in I : k < j => n[k] # n[j]}
<1>1. Ports(list) = {list[i] : i \in F}
    BY DEF Ports
<1>2. Len(list) \in Nat /\ DOMAIN list = 1..Len(list)
    BY ListProperties
<1>3. \A i \in DOMAIN list : list[i] # Junk => n[i] \in Int
    BY DEF Number
<1>4. \A i \in DOMAIN list : i \in I <=> list[i] \in PortsIn(list)
    <2>1. MaxPort \in Nat
        BY DEF MaxPort
    <2>2. \A i \in DOMAIN list : n[i] = Number(list[i])
        OBVIOUS
    <2> HIDE DEF n
    <2> QED BY <1>3, <2>1, <2>2 DEF PortsIn
<1>5. \A p \in PortsIn(list) : \E i \in I : p = list[i]
    BY <1>4 DEF PortsIn
<1>6. \A i \in I : \E j \in F : n[j] = n[i]
    <2> SUFFICES ASSUME NEW i \in I PROVE \E j \in F : n[j] = n[i]
        OBVIOUS
    <2> DEFINE E == {j \in I : n[j] = n[i]}
    <2>1. E \subseteq Nat /\ E # {}
        BY <1>2
    <2>2. PICK x \in E : \A y \in E : <<y, x>> \notin Less
        <3> HIDE DEF E
        <3> QED BY <2>1, LessIsWellFounded, WFMin
    <2>3. \A k \in I : k < x => n[k] # n[x]
        <3> SUFFICES ASSUME NEW k \in I, k < x, n[k] = n[x] PROVE FALSE
            OBVIOUS
        <3>1. k \in E /\ k \in Nat /\ x \in Nat
            BY <1>2, <2>2
        <3> QED BY <2>2, <3>1 DEF Less
    <2> QED BY <2>2, <2>3
<1>7. \A i, j \in F : n[i] = n[j] => i = j
    <2>1. \A i \in F : i \in Nat /\ i \in I
        BY <1>2
    <2>2. \A i, j \in F : i < j => n[i] # n[j]
        OBVIOUS
    <2> HIDE DEF F, I, n
    <2> QED BY <2>1, <2>2
<1>8. \A i \in F : n[i] = Number(list[i]) /\ i \in I /\ i \in DOMAIN list
    OBVIOUS
<1>9. \A i \in I : n[i] = Number(list[i])
    OBVIOUS
<1> HIDE DEF F, I, n
<1>10. Ports(list) \subseteq PortsIn(list)
    BY <1>1, <1>4, <1>8
<1>11. \A p \in PortsIn(list) : \E q \in Ports(list) : Number(q) = Number(p)
    BY <1>1, <1>5, <1>6, <1>8, <1>9
<1>12. \A p, q \in Ports(list) : Number(p) = Number(q) => p = q
    BY <1>1, <1>7, <1>8
<1> QED BY <1>10, <1>11, <1>12

LEMMA InternetDbSupported ==
    ASSUME Answered, connector = "internetdb"
    PROVE  FindingsSupported
<1>1. answer \in AnswersOf["internetdb"] /\ answer # Null /\ Yielded = InternetDbFindings(answer, seed)
    BY SourcesAssumption DEF Answered, Yielded, FindingsOf, Asked
<1>2. CASE answer = Junk
    <2>1. Relationships = {}
        BY <1>1, <1>2 DEF InternetDbFindings, Relationships
    <2> QED BY <1>2, <2>1, UnrelatedSupported, NoLabelsListed
<1>3. CASE answer # Junk
    <2> DEFINE ports == Ports(ListOf(answer.ports))
               cves == Strings(answer.vulns)
               tags == Strings(answer.tags)
               ip == Node("IPAddress", seed)
               hosts == [p \in ports |-> Relationship("HOSTS", ip, Node("Service", <<seed, p>>))]
               has == [v \in cves |-> Relationship("HAS_VULNERABILITY", ip, Node("Vulnerability", v))]
               services == [p \in ports |-> Entity("Service", <<seed, p>>, {})]
               vulns == [v \in cves |-> Entity("Vulnerability", v, {})]
               own == Entity("IPAddress", seed, tags)
    <2>1. PICK f : /\ Yielded = {f}
                   /\ f.entities = {own} \cup {services[p] : p \in ports} \cup {vulns[v] : v \in cves}
                   /\ f.relationships = {hosts[p] : p \in ports} \cup {has[v] : v \in cves}
        <3> DEFINE S == {<<seed, p>> : p \in ports}
                   E == {own} \cup {Entity("Service", s, {}) : s \in S} \cup {Entity("Vulnerability", v, {}) : v \in cves}
                   R == {Relationship("HOSTS", ip, Node("Service", s)) : s \in S}
                          \cup {Relationship("HAS_VULNERABILITY", ip, Node("Vulnerability", v)) : v \in cves}
        <3>1. Yielded = {Finding(E, R)}
            BY <1>1, <1>3, Zenon DEF InternetDbFindings
        <3>2. {Entity("Service", s, {}) : s \in S} = {services[p] : p \in ports}
            OBVIOUS
        <3>3. {Entity("Vulnerability", v, {}) : v \in cves} = {vulns[v] : v \in cves}
            OBVIOUS
        <3>4. {Relationship("HOSTS", ip, Node("Service", s)) : s \in S} = {hosts[p] : p \in ports}
            OBVIOUS
        <3>5. {Relationship("HAS_VULNERABILITY", ip, Node("Vulnerability", v)) : v \in cves} = {has[v] : v \in cves}
            OBVIOUS
        <3>6. Finding(E, R).entities = E /\ Finding(E, R).relationships = R
            BY DEF Finding
        <3>7. /\ E = {own} \cup {services[p] : p \in ports} \cup {vulns[v] : v \in cves}
              /\ R = {hosts[p] : p \in ports} \cup {has[v] : v \in cves}
            BY <3>2, <3>3, <3>4, <3>5, Zenon
        <3> HIDE DEF E, R, services, vulns, hosts, has, own, ports, cves
        <3> QED BY ONLY <3>1, <3>6, <3>7
    <2>2. \A p \in ports : /\ hosts[p].type = "HOSTS" /\ hosts[p].src = ip /\ hosts[p].dst = services[p].node
                           /\ hosts[p].src.value = seed /\ hosts[p].dst.value = <<seed, p>>
                           /\ services[p].node.type = "Service"
        BY DEF Relationship, Node, Entity
    <2>3. \A v \in cves : /\ has[v].type = "HAS_VULNERABILITY" /\ has[v].src = ip /\ has[v].dst = vulns[v].node
                          /\ has[v].src.value = seed /\ has[v].dst.value = v
                          /\ vulns[v].node.type = "Vulnerability"
        BY DEF Relationship, Node, Entity
    <2>4. own.node = ip /\ own.node.type = "IPAddress" /\ own.labels = tags
        BY DEF Entity, Node
    <2>5. Entities = {own} \cup {services[p] : p \in ports} \cup {vulns[v] : v \in cves}
        <3> HIDE DEF own, services, vulns, hosts, has
        <3> QED BY <2>1 DEF Entities
    <2>6. Relationships = {hosts[p] : p \in ports} \cup {has[v] : v \in cves}
        <3> HIDE DEF own, services, vulns, hosts, has
        <3> QED BY <2>1 DEF Relationships
    <2>7. /\ ports \subseteq ListedPorts
          /\ \A p \in ListedPorts : \E q \in ports : Number(q) = Number(p)
          /\ \A p, q \in ports : Number(p) = Number(q) => p = q
        <3>1. CASE answer.ports = Junk
            <4>1. ListOf(answer.ports) = <<>>
                BY <3>1 DEF ListOf
            <4>2. ports = {}
                BY <4>1 DEF Ports
            <4>3. ListedPorts = {}
                BY <3>1 DEF ListedPorts
            <4> QED BY <4>2, <4>3
        <3>2. CASE answer.ports # Junk
            <4>1. ListOf(answer.ports) = answer.ports
                BY <3>2 DEF ListOf
            <4>2. ListedPorts = PortsIn(answer.ports)
                BY <1>1, <1>3, <3>2 DEF ListedPorts, HasAnswered, PortsIn
            <4>3. /\ IsList(answer.ports)
                  /\ \A i \in DOMAIN answer.ports : answer.ports[i] \in Int \cup {Junk, JsonTrue}
                BY <1>1, <1>3, <3>2, SourcesAssumption
            <4> QED BY <4>1, <4>2, <4>3, PortsAreListed
        <3> QED BY <3>1, <3>2
    <2>8. cves = ListedCves
        BY <1>1, <1>3 DEF ListedCves, HasAnswered, Strings
    <2> HIDE DEF ports, cves, tags, ip, hosts, has, services, vulns, own
    <2>9. HangsTogether
        <3> SUFFICES ASSUME NEW f1 \in Yielded, NEW r \in f1.relationships
                     PROVE  {r.src, r.dst} \subseteq {e.node : e \in f1.entities}
            BY DEF HangsTogether
        <3>1. f1 = f /\ own \in f.entities
            BY <2>1
        <3>2. CASE r \in {hosts[p] : p \in ports}
            <4>1. PICK p \in ports : r = hosts[p]
                BY <3>2
            <4>2. services[p] \in f.entities
                BY <2>1
            <4> QED BY <2>2, <2>4, <3>1, <4>1, <4>2
        <3>3. CASE r \in {has[v] : v \in cves}
            <4>1. PICK v \in cves : r = has[v]
                BY <3>3
            <4>2. vulns[v] \in f.entities
                BY <2>1
            <4> QED BY <2>3, <2>4, <3>1, <4>1, <4>2
        <3> QED BY <2>1, <3>1, <3>2, <3>3
    <2>10. /\ Pairs("HAS_SUBDOMAIN") = {} /\ Pairs("RESOLVES_TO") = {}
           /\ Pairs("HOSTS") = {<<seed, <<seed, p>>>> : p \in ports}
           /\ Pairs("HAS_VULNERABILITY") = {<<seed, v>> : v \in cves}
        <3>1. \A r \in Relationships : r.type \in {"HOSTS", "HAS_VULNERABILITY"}
            BY <2>2, <2>3, <2>6
        <3>2. {r \in Relationships : r.type = "HOSTS"} = {hosts[p] : p \in ports}
            BY <2>2, <2>3, <2>6
        <3>3. {r \in Relationships : r.type = "HAS_VULNERABILITY"} = {has[v] : v \in cves}
            BY <2>2, <2>3, <2>6
        <3>4. Pairs("HOSTS") = {<<hosts[p].src.value, hosts[p].dst.value>> : p \in ports}
            BY <3>2 DEF Pairs
        <3>5. Pairs("HAS_VULNERABILITY") = {<<has[v].src.value, has[v].dst.value>> : v \in cves}
            BY <3>3 DEF Pairs
        <3>6. Pairs("HAS_SUBDOMAIN") = {} /\ Pairs("RESOLVES_TO") = {}
            BY <3>1 DEF Pairs
        <3>7. Pairs("HOSTS") = {<<seed, <<seed, p>>>> : p \in ports}
            BY <2>2, <3>4
        <3>8. Pairs("HAS_VULNERABILITY") = {<<seed, v>> : v \in cves}
            BY <2>3, <3>5
        <3> QED BY <3>6, <3>7, <3>8
    <2>11. RelationshipsSupported
        <3>1. Pairs("HAS_SUBDOMAIN") =
                {<<seed, l.name>> : l \in {k \in Listings : k.name # seed /\ k.name \in Under[seed]}}
            BY <2>10, NothingListed
        <3>2. Pairs("RESOLVES_TO") =
                IF connector = "dns" /\ answer # Null THEN {<<seed, a>> : a \in answer \ {Junk}} ELSE {}
            BY <2>10
        <3>3. Pairs("HOSTS") \subseteq {<<seed, <<seed, p>>>> : p \in ListedPorts}
            BY <2>7, <2>10
        <3>4. \A p \in ListedPorts : \E q \in ListedPorts :
                Number(q) = Number(p) /\ <<seed, <<seed, q>>>> \in Pairs("HOSTS")
            BY <2>7, <2>10
        <3>5. \A p, q \in ListedPorts :
                {<<seed, <<seed, p>>>>, <<seed, <<seed, q>>>>} \subseteq Pairs("HOSTS") /\ Number(p) = Number(q)
                    => p = q
            <4>1. \A p : <<seed, <<seed, p>>>> \in Pairs("HOSTS") => p \in ports
                BY <2>10
            <4> QED BY <2>7, <4>1
        <3>6. Pairs("HAS_VULNERABILITY") = {<<seed, v>> : v \in ListedCves}
            BY <2>8, <2>10
        <3> QED BY <3>1, <3>2, <3>3, <3>4, <3>5, <3>6, Zenon DEF RelationshipsSupported
    <2>12. LabelsSupported
        <3>1. {e \in Entities : e.node.type = "IPAddress"} = {own}
            BY <2>2, <2>3, <2>4, <2>5
        <3>2. {e.labels : e \in {g \in Entities : g.node.type = "IPAddress"}} = {tags}
            BY <2>4, <3>1
        <3>3. tags = IF answer.tags = Junk THEN {} ELSE answer.tags \ {Junk}
            BY DEF tags, Strings
        <3> QED BY <3>2, <3>3 DEF LabelsSupported, HasAnswered
    <2> QED BY <2>9, <2>11, <2>12, NothingListed DEF FindingsSupported
<1> QED BY <1>2, <1>3

\* A score falls in one band.
LEMMA SeverityIsABand ==
    ASSUME NEW cvss \in Int \cup {Null}
    PROVE  /\ cvss = Null => Severity(cvss) = {}
           /\ cvss # Null =>
                 \/ /\ Severity(cvss) = {"low"}
                    /\ \A b \in DOMAIN Floor : cvss < Floor[b]
                 \/ \E b \in DOMAIN Floor :
                       /\ Severity(cvss) = {b} /\ cvss >= Floor[b]
                       /\ \A c \in DOMAIN Floor : Floor[c] > Floor[b] => cvss < Floor[c]
<1>1. /\ DOMAIN Floor = {"critical", "high", "medium"}
      /\ Floor["critical"] = 90 /\ Floor["high"] = 70 /\ Floor["medium"] = 40
    BY DEF Floor
<1>2. CASE cvss = Null
    BY <1>2 DEF Severity
<1>3. CASE cvss # Null
    <2>1. cvss \in Int
        BY <1>3
    <2>2. CASE cvss >= 90
        <3>1. Severity(cvss) = {"critical"}
            BY <1>3, <2>1, <2>2 DEF Severity
        <3> QED BY <1>1, <1>3, <2>1, <2>2, <3>1
    <2>3. CASE cvss >= 70 /\ cvss < 90
        <3>1. Severity(cvss) = {"high"}
            BY <1>3, <2>1, <2>3 DEF Severity
        <3> QED BY <1>1, <1>3, <2>1, <2>3, <3>1
    <2>4. CASE cvss >= 40 /\ cvss < 70
        <3>1. Severity(cvss) = {"medium"}
            BY <1>3, <2>1, <2>4 DEF Severity
        <3> QED BY <1>1, <1>3, <2>1, <2>4, <3>1
    <2>5. CASE cvss < 40
        <3>1. Severity(cvss) = {"low"}
            BY <1>3, <2>1, <2>5 DEF Severity
        <3>2. \A b \in DOMAIN Floor : cvss < Floor[b]
            BY <1>1, <2>1, <2>5
        <3> QED BY <1>3, <3>1, <3>2
    <2> QED BY <2>1, <2>2, <2>3, <2>4, <2>5
<1> QED BY <1>2, <1>3

LEMMA CveDbSupported ==
    ASSUME Answered, connector = "cvedb"
    PROVE  FindingsSupported
<1>1. answer \in AnswersOf["cvedb"] /\ answer # Null /\ Yielded = CveDbFindings(answer, seed)
    BY SourcesAssumption DEF Answered, Yielded, FindingsOf, Asked
<1>2. Relationships = {}
    BY <1>1, CveDbTyped DEF Relationships
<1>3. LabelsSupported
    <2>1. CASE answer = Junk
        BY <2>1, NoLabelsListed
    <2>2. CASE answer # Junk
        <3> DEFINE name == IF answer.cve = Null THEN seed ELSE answer.cve
                   e == Entity("Vulnerability", name, Severity(answer.cvss))
        <3>1. Entities = {e}
            <4>1. Yielded = {Finding({e}, {})}
                BY <1>1, <2>2 DEF CveDbFindings
            <4>2. Finding({e}, {}).entities = {e}
                BY DEF Finding
            <4> HIDE DEF e
            <4> QED BY <4>1, <4>2 DEF Entities
        <3>2. e.node = Node("Vulnerability", name) /\ e.labels = Severity(answer.cvss)
            BY DEF Entity
        <3>3. answer.cvss \in Int \cup {Null}
            BY <1>1, <2>2, SourcesAssumption
        <3> HIDE DEF e
        <3>4. /\ \E x \in Entities : Entities = {x}
              /\ \A x \in Entities : x = e
            BY <3>1
        <3>5. ~HasAnswered("internetdb")
            BY DEF HasAnswered
        <3> DEFINE sev == e.labels
        <3>6. /\ answer.cvss = Null => sev = {}
              /\ answer.cvss # Null =>
                    \/ /\ sev = {"low"}
                       /\ \A b \in DOMAIN Floor : answer.cvss < Floor[b]
                    \/ \E b \in DOMAIN Floor :
                          /\ sev = {b} /\ answer.cvss >= Floor[b]
                          /\ \A c \in DOMAIN Floor : Floor[c] > Floor[b] => answer.cvss < Floor[c]
            BY ONLY <3>2, <3>3, SeverityIsABand
        <3> QED BY <3>2, <3>4, <3>5, <3>6, Zenon DEF LabelsSupported, name
    <2> QED BY <2>1, <2>2
<1> QED BY <1>2, <1>3, UnrelatedSupported

LEMMA AsnSupported ==
    ASSUME connector = "asn", Described
    PROVE  FindingsSupported
<1>1. CASE findings = {}
    <2>1. Relationships = {}
        BY <1>1 DEF Relationships, Yielded
    <2> QED BY <2>1, UnrelatedSupported, NoLabelsListed
<1>2. CASE findings = {Merged(OriginFindings(described))}
    <2> DEFINE F == OriginFindings(described)
    <2>1. Yielded = {Merged(F)}
        BY <1>2 DEF Yielded
    <2>2. ASSUME NEW f \in F, NEW r \in f.relationships
          PROVE  /\ r.type \in {"CONTAINS", "ANNOUNCES"}
                 /\ \A end \in {r.src, r.dst} : end \in {e.node : e \in f.entities} \/ end.value = seed
        <3>1. PICK i \in DOMAIN described : f = RecordFinding(Origins[i], described[i], seed)
            BY DEF OriginFindings
        <3> DEFINE asn == Entity("ASN", Origins[i].asn, {described[i]} \ {Null})
                   netblock == Entity("Netblock", Origins[i].prefix, {})
        <3>2. /\ asn \in f.entities /\ netblock \in f.entities
              /\ r \in {Relationship("CONTAINS", Node("Netblock", Origins[i].prefix), Node("IPAddress", seed)),
                        Relationship("ANNOUNCES", Node("ASN", Origins[i].asn), Node("Netblock", Origins[i].prefix))}
            <4>1. /\ f.entities = {asn, netblock}
                  /\ f.relationships =
                        {Relationship("CONTAINS", Node("Netblock", Origins[i].prefix), Node("IPAddress", seed)),
                         Relationship("ANNOUNCES", Node("ASN", Origins[i].asn), Node("Netblock", Origins[i].prefix))}
                BY ONLY <3>1, RecordFindingHolds
            <4> HIDE DEF asn, netblock
            <4> QED BY <2>2, <4>1
        <3>3. asn.node = Node("ASN", Origins[i].asn) /\ netblock.node = Node("Netblock", Origins[i].prefix)
            BY DEF Entity
        <3>4. {asn.node, netblock.node} \subseteq {e.node : e \in f.entities}
            <4> HIDE DEF asn, netblock
            <4> QED BY <3>2
        <3>5. \/ r.type = "CONTAINS" /\ r.src = netblock.node /\ r.dst.value = seed
              \/ r.type = "ANNOUNCES" /\ r.src = asn.node /\ r.dst = netblock.node
            BY <3>2, <3>3 DEF Relationship, Node
        <3> QED BY <3>4, <3>5
    <2>3. /\ Merged(F).entities = UNION {f.entities : f \in F}
          /\ Merged(F).relationships = UNION {f.relationships : f \in F}
        BY DEF Merged, Finding
    <2> HIDE DEF F
    <2>4. HangsTogether
        <3> SUFFICES ASSUME NEW r \in Merged(F).relationships, NEW end \in {r.src, r.dst}
                     PROVE  end \in {e.node : e \in Merged(F).entities} \/ end.value = seed
            BY <2>1 DEF HangsTogether
        <3>1. PICK f \in F : r \in f.relationships
            BY <2>3
        <3>2. f.entities \subseteq Merged(F).entities
            BY <2>3
        <3> QED BY <2>2, <3>1, <3>2
    <2>5. \A r \in Relationships : r.type \in {"CONTAINS", "ANNOUNCES"}
        <3>1. Relationships = Merged(F).relationships
            BY <2>1 DEF Relationships
        <3> QED BY <2>2, <2>3, <3>1
    <2>6. /\ Pairs("HAS_SUBDOMAIN") = {} /\ Pairs("RESOLVES_TO") = {}
          /\ Pairs("HOSTS") = {} /\ Pairs("HAS_VULNERABILITY") = {}
        BY <2>5 DEF Pairs
    <2>7. RelationshipsSupported
        <3>1. Pairs("RESOLVES_TO") =
                IF connector = "dns" /\ answer # Null THEN {<<seed, a>> : a \in answer \ {Junk}} ELSE {}
            BY <2>6
        <3>2. Pairs("HAS_SUBDOMAIN") =
                {<<seed, l.name>> : l \in {k \in Listings : k.name # seed /\ k.name \in Under[seed]}}
            BY <2>6, NothingListed
        <3> QED BY <2>6, <3>1, <3>2, SupportedPairs
    <2> QED BY <2>4, <2>7, NothingListed, NoLabelsListed DEF FindingsSupported
<1> QED BY <1>1, <1>2 DEF Described

\* Before an answer, and without one, nothing is yielded and nothing listed.
LEMMA NothingSupported ==
    ASSUME connector # "certspotter", findings = {}, answer = Null \/ connector = "asn"
    PROVE  FindingsSupported
<1>1. Yielded = {}
    BY DEF Yielded
<1>2. CASE connector \in {"crtsh", "wayback"}
    <2>1. Listings = {} /\ connector \notin {"dns", "internetdb", "cvedb"}
        BY <1>2 DEF Listings, RecordsRead
    <2> QED BY <1>1, <2>1, NothingToSay
<1>3. CASE connector \notin {"crtsh", "wayback"}
    <2>1. Relationships = {}
        BY <1>1 DEF Relationships
    <2> QED BY <1>3, <2>1, UnrelatedSupported, NoLabelsListed
<1> QED BY <1>2, <1>3

LEMMA SupportedFromCollection == CollectionInv => FindingsSupported
<1> SUFFICES ASSUME CollectionInv PROVE FindingsSupported
    OBVIOUS
<1>1. CASE connector = "certspotter"
    BY <1>1, CertSpotterSupported
<1>2. CASE Answered
    <2> QED BY <1>2, CrtShSupported, WaybackSupported, DnsSupported, InternetDbSupported, CveDbSupported
            DEF Answered, Asked
<1>3. CASE connector # "certspotter" /\ Described
    BY <1>3, AsnSupported DEF Described, AskedForOrigins
<1>4. CASE connector # "certspotter" /\ findings = {} /\ (answer = Null \/ connector = "asn")
    BY <1>4, NothingSupported
<1> QED BY <1>1, <1>2, <1>3, <1>4 DEF CollectionInv, NothingYet, AskedForOrigins

\* For any source and seed, any payloads with any parts garbled, and any pages, what is
\* reported is what the readable parts say, no less and no more: the names listed with
\* their labels, the subdomains and addresses, every port number and CVE id beside the
\* garbled ones, the tags and the severity; and no relationship lacks an end
\* (domains.py:8-48, crtsh.py:60-145, certspotter.py:70-157, wayback.py:60-127,
\* dns.py:49-92, internetdb.py:77-182, cvedb.py:55-137).
THEOREM NothingUnsupported == Spec => []FindingsSupported
BY CollectionInvariant, SupportedFromCollection, PTL
=============================================================================
