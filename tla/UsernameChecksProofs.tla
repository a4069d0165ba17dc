------------------------ MODULE UsernameChecksProofs ------------------------
(***************************************************************************)
(* Whatever the dataset, the sites' answers and the fate of the consumer:  *)
(* no check outlives the collection, and what is yielded are the hits, in  *)
(* the order of the answers, none of them false.                           *)
(***************************************************************************)
EXTENDS UsernameChecks, SequenceLemmas

\* What NothingOutlivesCollection rests on besides itself: a check leaves its states
\* only by the steps of the model.
CheckOK == check \in [Check -> CheckState]

OutlivesInv == CheckOK /\ NothingOutlivesCollection

LEMMA InitOutlives == Init => OutlivesInv
BY DEF Init, OutlivesInv, CheckOK, NothingOutlivesCollection, CheckState, Pending

LEMMA CheckStepOutlives ==
    ASSUME OutlivesInv, NEW i \in Check, CheckStep(i)
    PROVE  OutlivesInv'
<1> USE DEF OutlivesInv, CheckOK, NothingOutlivesCollection, CheckState, Pending
<1>1. CASE Start(i)
    BY <1>1 DEF Start
<1>2. CASE \E r \in Responses : Respond(i, r)
    BY <1>2 DEF Respond, Finish
<1>3. CASE GiveUp(i)
    BY <1>3 DEF GiveUp, Finish
<1>4. CASE Fail(i)
    BY <1>4 DEF Fail, Finish
<1> QED BY <1>1, <1>2, <1>3, <1>4 DEF CheckStep

\* However the generator is left, its finally clause leaves no check pending.
LEMMA LeaveOutlives ==
    ASSUME OutlivesInv, NEW how, Leave(how)
    PROVE  OutlivesInv'
BY DEF OutlivesInv, CheckOK, NothingOutlivesCollection, CheckState, Pending, Leave, Cancelled

LEMMA NextOutlives == OutlivesInv /\ [Next]_vars => OutlivesInv'
<1> SUFFICES ASSUME OutlivesInv, [Next]_vars
             PROVE  OutlivesInv'
    OBVIOUS
<1>1. CASE \E i \in Check : CheckStep(i)
    BY <1>1, CheckStepOutlives
<1>2. CASE Consume
    BY <1>2 DEF Consume, OutlivesInv, CheckOK, NothingOutlivesCollection
<1>3. CASE Raise
    BY <1>3, LeaveOutlives DEF Raise
<1>4. CASE End
    BY <1>4, LeaveOutlives DEF End
<1>5. CASE Abandon
    BY <1>5 DEF Abandon, OutlivesInv, CheckOK, NothingOutlivesCollection
<1>6. CASE Shutdown
    BY <1>6, LeaveOutlives DEF Shutdown
<1>7. CASE UNCHANGED vars
    BY <1>7 DEF vars, OutlivesInv, CheckOK, NothingOutlivesCollection
<1> QED
    BY <1>1, <1>2, <1>3, <1>4, <1>5, <1>6, <1>7 DEF Next, GeneratorStep, Ended

\* For any dataset, any answers and any number of permits, no check is asking a site or
\* will ask one once the generator has ended, by itself, by an error or by cancellation
\* (usernames.py:74-82).
THEOREM NoOrphans == Spec => []NothingOutlivesCollection
<1>1. OutlivesInv => NothingOutlivesCollection
    BY DEF OutlivesInv
<1> QED BY InitOutlives, NextOutlives, <1>1, PTL DEF Spec

-----------------------------------------------------------------------------
(* What is yielded.                                                        *)

Finished == {"hit", "no hit", "gave up", "failed"}

\* A check is in order, once, from the step in which it finishes.
OrderOK ==
    /\ \A k \in 1..Len(order) : check[order[k]] \in Finished
    /\ \A j, k \in 1..Len(order) : j # k => order[j] # order[k]

\* Only the last check handed over can have failed, and then its error is raised.
HandedOver ==
    /\ \A k \in 1..consumed :
          check[order[k]] = "failed" => generator = "raised" /\ k = consumed
    /\ reported = Hits(SubSeq(order, 1, consumed))
    /\ generator = "ended" => consumed = Len(Sites)

\* A hit is an answer that says the account exists.
HitsAreAnswers ==
    \A i \in Check : check[i] = "hit" => Status(response[i], Sites[i]) = "exists"

ReportInv == TypeOK /\ OrderOK /\ HandedOver /\ HitsAreAnswers

LEMMA SitesAreAList == Len(Sites) \in Nat /\ Check = 1..Len(Sites)
<1> DEFINE D == {Dataset[i] : i \in DOMAIN Dataset}
           loaded == Selected(Dataset, {i \in DOMAIN Dataset : Usable(Dataset[i])})
           n == IF MaxSites < Len(loaded) THEN MaxSites ELSE Len(loaded)
<1>1. Dataset \in Seq(D)
  BY UsernameAssumption DEF IsList
<1>2. loaded \in Seq(D)
  <2> HIDE DEF D
  <2> QED
    BY <1>1, SelectedPlaces
<1>3. n \in 0..Len(loaded)
  <2> HIDE DEF loaded
  <2> QED
    BY <1>2, UsernameAssumption
<1>4. Sites = SubSeq(loaded, 1, n)
  BY DEF Sites
<1>5. Sites \in Seq(D)
  <2> HIDE DEF D, loaded, n
  <2> QED
    BY <1>2, <1>3, <1>4
<1> QED
  BY <1>5 DEF Check

\* The hits of a list of checks that have all finished are the same when others go on.
LEMMA HitsOfFinished ==
    ASSUME NEW t \in Seq(Check),
           \A k \in 1..Len(t) : check[t[k]] = "hit" <=> check'[t[k]] = "hit"
    PROVE  Hits(t) = Selected(t, {k \in DOMAIN t : check'[t[k]] = "hit"})
<1>1. DOMAIN t = 1..Len(t)
  OBVIOUS
<1>2. {k \in DOMAIN t : check[t[k]] = "hit"} = {k \in DOMAIN t : check'[t[k]] = "hit"}
  BY <1>1
<1> QED
  BY <1>2 DEF Hits

LEMMA HitsOfNext ==
    ASSUME TypeOK, consumed < Len(order)
    PROVE  Hits(SubSeq(order, 1, consumed + 1))
             = IF check[NextDone] = "hit" THEN Append(Hits(SubSeq(order, 1, consumed)), NextDone)
               ELSE Hits(SubSeq(order, 1, consumed))
<1> DEFINE t == SubSeq(order, 1, consumed)
           x == NextDone
           u == Append(t, x)
<1>1. order \in Seq(Check) /\ consumed \in Nat /\ consumed + 1 <= Len(order)
  BY DEF TypeOK
<1>2. x = order[consumed + 1] /\ x \in Check
  BY <1>1 DEF NextDone
<1>3. t \in Seq(Check) /\ Len(t) = consumed
  BY <1>1
<1>4. SubSeq(order, 1, consumed + 1) = u
  BY <1>1, <1>2
<1> HIDE DEF t, x
<1> DEFINE P == {k \in DOMAIN t : check[t[k]] = "hit"}
           Q == {k \in DOMAIN u : check[u[k]] = "hit"}
<1>5. DOMAIN u = 1..(consumed + 1) /\ DOMAIN t = 1..consumed /\ u[consumed + 1] = x
      /\ \A k \in 1..consumed : u[k] = t[k]
  BY <1>1, <1>2, <1>3
<1>6. P \cap 1..Len(t) = Q \cap 1..Len(t)
  <2> HIDE DEF u
  <2> QED
    BY <1>1, <1>3, <1>5
<1>7. Selected(t, P) = Selected(t, Q)
  <2> HIDE DEF P, Q
  <2> QED
    BY <1>3, <1>6, SelectedAgree
<1>8. Selected(u, Q) = IF consumed + 1 \in Q THEN Append(Selected(t, Q), x) ELSE Selected(t, Q)
  <2>1. t \in Seq(Check) /\ x \in Check
    BY <1>2, <1>3
  <2> HIDE DEF Q
  <2>2. Selected(u, Q) = IF Len(t) + 1 \in Q THEN Append(Selected(t, Q), x) ELSE Selected(t, Q)
    BY <2>1, SelectedOfAppend
  <2> QED
    BY <1>3, <2>2
<1>9. consumed + 1 \in Q <=> check[x] = "hit"
  <2> HIDE DEF u
  <2> QED
    BY <1>1, <1>5
<1>10. Hits(t) = Selected(t, P) /\ Hits(u) = Selected(u, Q)
  BY DEF Hits
<1> HIDE DEF P, Q, u
<1> QED
  BY <1>4, <1>7, <1>8, <1>9, <1>10 DEF t, x

LEMMA InitReports == Init => ReportInv
<1> SUFFICES ASSUME Init PROVE ReportInv
  OBVIOUS
<1>1. TypeOK
  BY DEF Init, TypeOK, CheckState, Pending
<1>2. OrderOK /\ HitsAreAnswers
  BY DEF Init, OrderOK, HitsAreAnswers
<1>3. HandedOver
  <2>1. SubSeq(order, 1, consumed) = <<>>
    BY DEF Init
  <2>2. Hits(<<>>) = <<>>
    BY SelectedOfNone DEF Hits
  <2>3. reported = Hits(SubSeq(order, 1, consumed))
    BY <2>1, <2>2 DEF Init
  <2>4. consumed = 0 /\ generator = "open"
    BY DEF Init
  <2> QED
    BY <2>3, <2>4 DEF HandedOver
<1> QED
  BY <1>1, <1>2, <1>3 DEF ReportInv

\* A step that finishes no check in order and hands none over changes nothing yielded.
LEMMA HandedOverKept ==
    ASSUME ReportInv, UNCHANGED <<consumed, reported>>, TypeOK',
           Len(order) <= Len(order'),
           \A k \in 1..Len(order) : order'[k] = order[k] /\ check'[order[k]] = check[order[k]],
           generator' = "ended" => consumed = Len(Sites),
           generator = "raised" => generator' = "raised"
    PROVE  HandedOver'
<1>1. order \in Seq(Check) /\ order' \in Seq(Check) /\ consumed \in 0..Len(order)
  BY DEF ReportInv, TypeOK
<1> DEFINE t == SubSeq(order, 1, consumed)
<1>2. t \in Seq(Check) /\ Len(t) = consumed /\ \A k \in 1..consumed : t[k] = order[k]
  BY <1>1
<1>3. SubSeq(order', 1, consumed) = t
  <2>1. \A k \in 1..consumed : order'[k] = order[k]
    BY <1>1
  <2> QED
    BY <1>1, <2>1
<1> HIDE DEF t
<1>4. Hits(t) = Selected(t, {k \in DOMAIN t : check'[t[k]] = "hit"})
  <2>1. \A k \in 1..Len(t) : check[t[k]] = "hit" <=> check'[t[k]] = "hit"
    BY <1>1, <1>2
  <2> QED
    BY <1>2, <2>1, HitsOfFinished
<1>5. reported' = Selected(t, {k \in DOMAIN t : check'[t[k]] = "hit"})
  BY <1>4 DEF t, ReportInv, HandedOver
<1>6. Hits(SubSeq(order, 1, consumed))' = Selected(t, {k \in DOMAIN t : check'[t[k]] = "hit"})
  BY <1>3 DEF Hits
<1>7. \A k \in 1..consumed' :
         check'[order'[k]] = "failed" => generator' = "raised" /\ k = consumed'
  BY <1>1 DEF ReportInv, HandedOver
<1> QED
  BY <1>5, <1>6, <1>7 DEF HandedOver, ReportInv

LEMMA StartReports ==
    ASSUME ReportInv, NEW i \in Check, Start(i)
    PROVE  ReportInv'
<1> USE DEF ReportInv, Start
<1>1. TypeOK'
  BY DEF TypeOK, CheckState, Pending
<1>2. \A k \in 1..Len(order) : order[k] # i /\ check'[order[k]] = check[order[k]]
  <2> SUFFICES ASSUME NEW k \in 1..Len(order)
               PROVE  order[k] # i /\ check'[order[k]] = check[order[k]]
    OBVIOUS
  <2>1. order[k] \in Check /\ check[i] = "queued" /\ check \in [Check -> CheckState]
    BY DEF TypeOK
  <2>2. check[order[k]] \in Finished
    BY DEF OrderOK
  <2>3. order[k] # i
    BY <2>1, <2>2 DEF Finished
  <2> QED
    BY <2>1, <2>3
<1>3. OrderOK'
  BY <1>2 DEF OrderOK
<1>4. HandedOver'
  BY <1>1, <1>2, HandedOverKept DEF TypeOK, HandedOver
<1>5. HitsAreAnswers'
  BY DEF HitsAreAnswers, TypeOK
<1> QED
  BY <1>1, <1>3, <1>4, <1>5

LEMMA FinishReports ==
    ASSUME ReportInv, NEW i \in Check, NEW how \in Finished, Finish(i, how),
           response' \in [Check -> Responses \cup {None}],
           \A j \in Check : j # i => response'[j] = response[j],
           how = "hit" => Status(response'[i], Sites[i]) = "exists"
    PROVE  ReportInv'
<1> USE DEF ReportInv, Finish
<1>1. order \in Seq(Check) /\ order' = Append(order, i) /\ Len(order') = Len(order) + 1
      /\ order'[Len(order) + 1] = i /\ \A k \in 1..Len(order) : order'[k] = order[k]
  BY DEF TypeOK
<1>2. TypeOK'
  <2>1. check' \in [Check -> CheckState]
    BY DEF TypeOK, CheckState, Finished
  <2>2. order' \in Seq(Check) /\ consumed' \in 0..Len(order')
    BY <1>1 DEF TypeOK
  <2> QED
    BY <2>1, <2>2 DEF TypeOK
<1>3. check' = [check EXCEPT ![i] = how] /\ check \in [Check -> CheckState] /\ check[i] = "asking"
  BY DEF TypeOK
<1>4. \A k \in 1..Len(order) : order[k] \in Check /\ order[k] # i /\ check'[order[k]] = check[order[k]]
  <2> SUFFICES ASSUME NEW k \in 1..Len(order)
               PROVE  order[k] \in Check /\ order[k] # i /\ check'[order[k]] = check[order[k]]
    OBVIOUS
  <2>1. order[k] \in Check
    BY <1>1
  <2>2. check[order[k]] \in Finished
    BY DEF OrderOK
  <2>3. order[k] # i
    BY <1>3, <2>2 DEF Finished
  <2> QED
    BY <1>3, <2>1, <2>3
<1>5. OrderOK'
  <2>1. check'[i] \in Finished
    BY <1>3
  <2>2. \A k \in 1..Len(order') : k \in 1..Len(order) \/ k = Len(order) + 1
    BY <1>1
  <2>3. \A k \in 1..Len(order') : check'[order'[k]] \in Finished
    BY <1>1, <1>4, <2>1, <2>2 DEF OrderOK
  <2>4. \A j, k \in 1..Len(order') : j # k => order'[j] # order'[k]
    BY <1>1, <1>4, <2>2 DEF OrderOK
  <2> QED
    BY <2>3, <2>4 DEF OrderOK
<1>6. HandedOver'
  BY <1>1, <1>2, <1>4, HandedOverKept DEF TypeOK, HandedOver
<1>7. HitsAreAnswers'
  BY <1>3 DEF HitsAreAnswers
<1> QED
  BY <1>2, <1>5, <1>6, <1>7

LEMMA CheckStepReports ==
    ASSUME ReportInv, NEW i \in Check, CheckStep(i)
    PROVE  ReportInv'
<1>1. CASE Start(i)
  BY <1>1, StartReports
<1>2. ASSUME NEW r \in Responses, Respond(i, r) PROVE ReportInv'
  <2> DEFINE how == IF Status(r, Sites[i]) = "exists" THEN "hit" ELSE "no hit"
  <2>1. Finish(i, how) /\ how \in Finished /\ response' = [response EXCEPT ![i] = r]
    BY <1>2 DEF Respond, Finished
  <2>2. response \in [Check -> Responses \cup {None}]
    BY DEF ReportInv, TypeOK
  <2>3. response' \in [Check -> Responses \cup {None}] /\ response'[i] = r
        /\ \A j \in Check : j # i => response'[j] = response[j]
    BY <2>1, <2>2
  <2>4. how = "hit" => Status(response'[i], Sites[i]) = "exists"
    BY <2>3
  <2> HIDE DEF how
  <2> QED
    BY <2>1, <2>3, <2>4, FinishReports
<1>3. ASSUME NEW how \in {"gave up", "failed"}, Finish(i, how), UNCHANGED response PROVE ReportInv'
  BY <1>3, FinishReports DEF Finished, ReportInv, TypeOK
<1>4. CASE GiveUp(i)
  BY <1>3, <1>4 DEF GiveUp
<1>5. CASE Fail(i)
  BY <1>3, <1>5 DEF Fail
<1> QED
  BY <1>1, <1>2, <1>4, <1>5 DEF CheckStep

\* The next check is handed over, and reported if it is a hit.
LEMMA HandOverReports ==
    ASSUME ReportInv, generator = "open", consumed < Len(order), HandOver,
           UNCHANGED <<response, order>>,
           check' \in [Check -> CheckState],
           \A i \in Check : check[i] \in Finished => check'[i] = check[i],
           \A i \in Check : check'[i] \in Finished => check[i] \in Finished,
           generator' \in {"open", "abandoned", "raised"},
           check[NextDone] = "failed" => generator' = "raised",
           reported' = IF check[NextDone] = "hit" THEN Append(reported, NextDone) ELSE reported
    PROVE  ReportInv'
<1>1. order \in Seq(Check) /\ consumed \in Nat /\ consumed' = consumed + 1 /\ consumed' \in 0..Len(order)
      /\ NextDone = order[consumed + 1] /\ NextDone \in Check
  BY DEF ReportInv, TypeOK, HandOver, NextDone
<1>2. TypeOK'
  <2>1. reported' \in Seq(Check)
    BY <1>1 DEF ReportInv, TypeOK
  <2> QED
    BY <1>1, <2>1 DEF ReportInv, TypeOK
<1>3. \A k \in 1..Len(order) : check[order[k]] \in Finished /\ check'[order[k]] = check[order[k]]
  BY <1>1 DEF ReportInv, OrderOK
<1>4. OrderOK'
  BY <1>3 DEF ReportInv, OrderOK
<1>5. HandedOver'
  <2> DEFINE t == SubSeq(order, 1, consumed + 1)
  <2>1. t \in Seq(Check) /\ Len(t) = consumed + 1 /\ \A k \in 1..(consumed + 1) : t[k] = order[k]
    BY <1>1
  <2>2. Hits(t) = reported'
    <3> HIDE DEF t
    <3>1. Hits(t) = IF check[NextDone] = "hit" THEN Append(Hits(SubSeq(order, 1, consumed)), NextDone)
               ELSE Hits(SubSeq(order, 1, consumed))
      BY HitsOfNext DEF ReportInv, t
    <3> QED
      BY <3>1 DEF ReportInv, HandedOver
  <2> HIDE DEF t
  <2>3. \A k \in 1..Len(t) : check[t[k]] = "hit" <=> check'[t[k]] = "hit"
    BY <1>1, <1>3, <2>1
  <2>4. Hits(t) = Selected(t, {k \in DOMAIN t : check'[t[k]] = "hit"})
    BY <2>1, <2>3, HitsOfFinished
  <2>5. Hits(SubSeq(order, 1, consumed))' = Selected(t, {k \in DOMAIN t : check'[t[k]] = "hit"})
    BY <1>1 DEF Hits, t
  <2>6. ASSUME NEW k \in 1..consumed', check'[order'[k]] = "failed"
        PROVE  generator' = "raised" /\ k = consumed'
    <3>1. check[order[k]] = "failed" /\ k \in 1..Len(order)
      BY <1>1, <1>3, <2>6
    <3>2. CASE k = consumed + 1
      BY <1>1, <3>1, <3>2
    <3>3. CASE k # consumed + 1
      <4>1. k \in 1..consumed
        BY <1>1, <3>3
      <4> QED
        BY <3>1, <4>1 DEF ReportInv, HandedOver
    <3> QED
      BY <3>2, <3>3
  <2>7. generator' # "ended"
    OBVIOUS
  <2> QED
    BY <2>2, <2>4, <2>5, <2>6, <2>7 DEF HandedOver
<1>6. HitsAreAnswers'
  BY DEF ReportInv, HitsAreAnswers, Finished
<1> QED
  BY <1>2, <1>4, <1>5, <1>6 DEF ReportInv

LEMMA LeaveReports ==
    ASSUME ReportInv, NEW how \in {"ended", "cancelled"}, Leave(how), UNCHANGED <<consumed, reported>>,
           how = "ended" => consumed = Len(Sites),
           generator \in {"open", "abandoned"}
    PROVE  ReportInv'
<1> USE DEF ReportInv, Leave
<1>1. TypeOK'
  BY DEF TypeOK, Cancelled, CheckState
<1>2. order \in Seq(Check) /\ check \in [Check -> CheckState]
  BY DEF TypeOK
<1>3. \A k \in 1..Len(order) : order[k] \in Check /\ check'[order[k]] = check[order[k]]
  <2>1. \A i \in Check : check[i] \in Finished => Cancelled[i] = check[i]
    BY DEF Cancelled, Finished, Pending
  <2>2. \A k \in 1..Len(order) : order[k] \in Check /\ check[order[k]] \in Finished
    BY <1>2 DEF OrderOK
  <2> QED
    BY <2>1, <2>2
<1>4. OrderOK'
  BY <1>3 DEF OrderOK
<1>5. HandedOver'
  BY <1>1, <1>2, <1>3, HandedOverKept
<1>6. HitsAreAnswers'
  BY DEF HitsAreAnswers, Cancelled
<1> QED
  BY <1>1, <1>4, <1>5, <1>6

LEMMA NextReports == ReportInv /\ [Next]_vars => ReportInv'
<1> SUFFICES ASSUME ReportInv, [Next]_vars PROVE ReportInv'
  OBVIOUS
<1> USE DEF ReportInv
<1>1. ASSUME NEW i \in Check, CheckStep(i) PROVE ReportInv'
  BY <1>1, CheckStepReports
<1>2. CASE Consume
  BY <1>2, HandOverReports DEF Consume, TypeOK
<1>3. CASE Raise
  <2>1. \A i \in Check : check[i] \in Finished => Cancelled[i] = check[i]
    BY DEF Cancelled, Finished, Pending
  <2>2. \A i \in Check : Cancelled[i] \in Finished => check[i] \in Finished
    BY DEF Cancelled, Finished, Pending
  <2>3. Cancelled \in [Check -> CheckState]
    BY DEF Cancelled, CheckState, TypeOK
  <2> QED
    BY <1>3, <2>1, <2>2, <2>3, HandOverReports DEF Raise, Leave
<1>4. CASE End
  BY <1>4, LeaveReports DEF End
<1>5. CASE Abandon
  BY <1>5, HandOverReports DEF Abandon, TypeOK
<1>6. CASE Shutdown
  BY <1>6, LeaveReports DEF Shutdown
<1>7. CASE UNCHANGED vars
  BY <1>7 DEF vars, TypeOK, OrderOK, HandedOver, HitsAreAnswers, Hits
<1> QED
  BY <1>1, <1>2, <1>3, <1>4, <1>5, <1>6, <1>7 DEF Next, GeneratorStep, Ended

\* order holds no check twice, so that as many checks handed over as there are sites
\* are all of them.
LEMMA AllHandedOver ==
    ASSUME ReportInv, consumed = Len(Sites)
    PROVE  {order[k] : k \in 1..consumed} = Check
<1> DEFINE Over == {order[k] : k \in 1..consumed}
           place == [k \in 1..consumed |-> order[k]]
<1>1. order \in Seq(Check) /\ consumed \in 0..Len(order) /\ Check = 1..consumed
  BY SitesAreAList DEF ReportInv, TypeOK
<1>2. Over \subseteq Check
  BY <1>1
<1>3. place \in Bijection(1..consumed, Over)
  <2>1. place \in [1..consumed -> Over]
    OBVIOUS
  <2>2. \A j, k \in 1..consumed : place[j] = place[k] => j = k
    BY <1>1 DEF ReportInv, OrderOK
  <2>3. \A i \in Over : \E k \in 1..consumed : place[k] = i
    OBVIOUS
  <2> HIDE DEF place, Over
  <2> QED
    BY <2>1, <2>2, <2>3 DEF Bijection, Injection, Surjection, IsInjective
<1>4. IsFiniteSet(1..consumed) /\ Cardinality(1..consumed) = consumed
  <2>1. consumed \in Int /\ 1 \in Int /\ consumed >= 0
    BY <1>1
  <2>2. IsFiniteSet(1..consumed)
        /\ Cardinality(1..consumed) = IF 1 > consumed THEN 0 ELSE consumed - 1 + 1
    BY ONLY <2>1, FS_Interval
  <2> QED
    BY <2>1, <2>2
<1>5. Cardinality(Over) = consumed
  <2> HIDE DEF place, Over
  <2> QED
    BY <1>3, <1>4, FS_Bijection DEF ExistsBijection
<1> HIDE DEF Over
<1>6. Over = Check
  BY <1>1, <1>2, <1>4, <1>5, FS_Subset
<1> QED
  BY <1>6 DEF Over

LEMMA FollowFromReports == ReportInv => ReportsFollowAnswers
<1> SUFFICES ASSUME ReportInv PROVE ReportsFollowAnswers
  OBVIOUS
<1>1. generator = "ended" => {order[k] : k \in 1..consumed} = Check
  BY AllHandedOver DEF ReportInv, HandedOver
<1>2. ASSUME generator = "raised", NEW k \in 1..Len(order), check[order[k]] = "failed"
      PROVE  k >= consumed
  BY <1>2 DEF ReportInv, TypeOK, HandedOver
<1> QED
  BY <1>1, <1>2 DEF ReportsFollowAnswers, ReportInv, HandedOver

LEMMA NoFalseHitFromReports == ReportInv => NoFalseHit
<1> SUFFICES ASSUME ReportInv, NEW k \in DOMAIN reported
             PROVE  LET site == Sites[reported[k]]
                        r == response[reported[k]]
                    IN r.code \notin {401, 403, 429, 503} /\ r.code # site.m_code /\ ~r.missing
  BY DEF NoFalseHit
<1> DEFINE t == SubSeq(order, 1, consumed)
           P == {j \in DOMAIN t : check[t[j]] = "hit"}
<1>1. t \in Seq(Check) /\ DOMAIN t = 1..Len(t)
  BY DEF ReportInv, TypeOK
<1>2. reported = Selected(t, P)
  BY DEF ReportInv, HandedOver, Hits
<1> HIDE DEF t
<1>3. PICK place : Places(t, Len(t), P, reported, place)
  <2> HIDE DEF P
  <2> QED
    BY <1>1, <1>2, SelectedPlaces
<1>4. place[k] \in P /\ reported[k] = t[place[k]]
  <2> HIDE DEF P
  <2> QED
    BY <1>3 DEF Places
<1>5. reported[k] \in Check /\ check[reported[k]] = "hit"
  BY <1>1, <1>4
<1>6. Status(response[reported[k]], Sites[reported[k]]) = "exists"
  BY <1>5 DEF ReportInv, HitsAreAnswers
<1> QED
  BY <1>6 DEF Status

\* For any dataset, answers and interleaving, checks, order and reports keep their types:
\* no more is handed over than has finished.
THEOREM ChecksTyped == Spec => []TypeOK
<1>1. ReportInv => TypeOK
  BY DEF ReportInv
<1> QED
  BY InitReports, NextReports, <1>1, PTL DEF Spec

\* For any dataset, answers and interleaving of the checks with a consumer that may fail
\* or be cancelled, what is yielded are the hits in the order of the answers, each once,
\* and a collection that ends has looked at every site (usernames.py:74-82).
THEOREM HitsInOrder == Spec => []ReportsFollowAnswers
BY InitReports, NextReports, FollowFromReports, PTL DEF Spec

\* For any dataset and any answers, a site that refuses to answer, or answers as it does
\* for an account that does not exist, is never reported (usernames.py:238-248).
THEOREM OnlyRealHits == Spec => []NoFalseHit
BY InitReports, NextReports, NoFalseHitFromReports, PTL DEF Spec
=============================================================================
