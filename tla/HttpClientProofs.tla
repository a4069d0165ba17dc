-------------------------- MODULE HttpClientProofs --------------------------
(***************************************************************************)
(* Theorems about HttpClient, for any hosts, URLs and callers, any         *)
(* threshold, cooldown, time to live and number of attempts.               *)
(***************************************************************************)
EXTENDS HttpClient, FiniteSetTheorems, TLAPS

\* Every caller asks some host, which allows it at least one attempt.
LEMMA CallersHost ==
  ASSUME NEW c \in Caller
  PROVE  UrlOf[c] \in Url /\ HostFor(c) \in Host /\ MaxAttempts[HostFor(c)] \in Nat \ {0}
  BY ClientAssumption DEF HostFor

\* A request that waits to be retried has attempts left.  Nothing in the step that resumes
\* it says so: the bound on its attempts rests on this.
BackoffHasMore ==
    \A c \in Caller : call[c].phase = "backoff" => call[c].attempt < MaxAttempts[HostFor(c)]

\* The types hold at the start: nothing cached, nothing asked, every circuit closed.
LEMMA ClientTypesInit == Init => TypeOK
  <1> SUFFICES ASSUME Init PROVE TypeOK
    OBVIOUS
  <1>1. call \in [Caller -> [phase : {"idle", "sending", "backoff"}, attempt : Nat,
                            trial : BOOLEAN,
                            outcome : {"none", "answered", "failed", "escaped"}]]
    BY DEF Init, Idle
  <1>2. \A c \in Caller : call[c].attempt \in 0..MaxAttempts[HostFor(c)]
    BY CallersHost DEF Init, Idle
  <1>3. /\ failures \in [Host -> 0..Threshold]
        /\ opened \in [Host -> BOOLEAN]
        /\ since \in [Host -> 0..Cooldown]
        /\ halfOpen \in [Host -> BOOLEAN]
        /\ up \subseteq Host
        /\ unreported \in 0..MaxUnreported
        /\ quiet \in [Host -> 0..Cooldown]
        /\ load \in [Host -> Nat]
    BY ClientAssumption DEF Init
  <1>4. /\ cache \in [Url -> [kind : {"none", "torn"} \cup Definitive, age : 0..(Ttl + 1)]]
        /\ last \in [Url -> [kind : {"none"} \cup Definitive, age : 0..(Ttl + 1)]]
    BY ClientAssumption DEF Init, Missing, Entry
  <1> QED BY <1>1, <1>2, <1>3, <1>4 DEF TypeOK

\* The breaker keeps its types whatever is reported to it.
LEMMA BreakerTypes ==
  ASSUME TypeOK, NEW h \in Host, BeforeRequest(h) \/ RecordSuccess(h) \/ RecordFailure(h)
  PROVE  /\ failures' \in [Host -> 0..Threshold]
         /\ opened' \in [Host -> BOOLEAN]
         /\ since' \in [Host -> 0..Cooldown]
         /\ halfOpen' \in [Host -> BOOLEAN]
  <1>1. CASE BeforeRequest(h)
    BY <1>1 DEF TypeOK, BeforeRequest
  <1>2. CASE RecordSuccess(h)
    BY <1>2, ClientAssumption DEF TypeOK, RecordSuccess
  <1>3. CASE RecordFailure(h)
    <2>1. CASE Threshold = 0
      BY <1>3, <2>1 DEF TypeOK, RecordFailure, breaker
    <2>2. CASE Threshold # 0
      <3> DEFINE count == IF failures[h] < Threshold THEN failures[h] + 1 ELSE Threshold
      <3>1. count \in 0..Threshold
        BY ClientAssumption DEF TypeOK
      <3>2. /\ failures' = [failures EXCEPT ![h] = count]
            /\ halfOpen' = [halfOpen EXCEPT ![h] = FALSE]
        BY <1>3, <2>2 DEF RecordFailure
      <3>3. \/ opened' = [opened EXCEPT ![h] = TRUE] /\ since' = [since EXCEPT ![h] = 0]
            \/ opened' = opened /\ since' = since
        BY <1>3, <2>2 DEF RecordFailure
      <3>4. failures' \in [Host -> 0..Threshold] /\ halfOpen' \in [Host -> BOOLEAN]
        <4> HIDE DEF count
        <4> QED BY <3>1, <3>2 DEF TypeOK
      <3>5. opened' \in [Host -> BOOLEAN]
        BY <3>3 DEF TypeOK
      <3>6. since' \in [Host -> 0..Cooldown]
        BY <3>3, ClientAssumption DEF TypeOK
      <3> QED
        BY <3>4, <3>5, <3>6
    <2> QED BY <2>1, <2>2
  <1> QED BY <1>1, <1>2, <1>3

\* So does the cache: a miss at most removes an entry, and an answer that is kept is
\* a definitive one.
LEMMA CacheTypes ==
  ASSUME TypeOK, NEW u \in Url, NEW kind \in {"ok", "missing", "denied"},
         cache' = cache \/ cache' = AfterMiss(u) \/ cache' = AfterSet(u, kind)
  PROVE  cache' \in [Url -> [kind : {"none", "torn"} \cup Definitive, age : 0..(Ttl + 1)]]
  <1>1. Missing \in [kind : {"none", "torn"} \cup Definitive, age : 0..(Ttl + 1)]
    BY ClientAssumption DEF Missing, Entry
  <1>2. kind \in Definitive =>
          Entry(kind, 0) \in [kind : {"none", "torn"} \cup Definitive, age : 0..(Ttl + 1)]
    BY ClientAssumption DEF Entry
  <1> QED
    BY <1>1, <1>2 DEF TypeOK, AfterMiss, AfterSet, IsCacheable

\* Ageing keeps an entry an entry, and stops just past the time to live.
LEMMA AgeingTypes ==
  ASSUME NEW K, NEW e \in [kind : K, age : 0..(Ttl + 1)]
  PROVE  Older(e) \in [kind : K, age : 0..(Ttl + 1)]
  <1>1. CASE e.kind = "none" \/ e.age > Ttl
    BY <1>1 DEF Older
  <1>2. CASE ~(e.kind = "none" \/ e.age > Ttl)
    BY <1>2, ClientAssumption DEF Older, Entry
  <1> QED BY <1>1, <1>2

\* A step that leaves the counters alone and sets one caller's request to a
\* well-formed one keeps the rest of the types.
LEMMA OneCallTypes ==
  ASSUME TypeOK, NEW c \in Caller,
         NEW r \in [phase : {"idle", "sending", "backoff"}, attempt : Nat, trial : BOOLEAN,
                    outcome : {"none", "answered", "failed", "escaped"}],
         r.attempt \in 0..MaxAttempts[HostFor(c)],
         call' = [call EXCEPT ![c] = r]
  PROVE  /\ call' \in [Caller -> [phase : {"idle", "sending", "backoff"}, attempt : Nat,
                                  trial : BOOLEAN,
                                  outcome : {"none", "answered", "failed", "escaped"}]]
         /\ \A k \in Caller : call'[k].attempt \in 0..MaxAttempts[HostFor(k)]
  BY DEF TypeOK, HostFor

\* A request that begins is counted, or the count is at its bound.
LEMMA DemandTypes ==
  ASSUME TypeOK, NEW h \in Host, Asked(h)
  PROVE  quiet' \in [Host -> 0..Cooldown] /\ load' \in [Host -> Nat]
  BY ClientAssumption DEF TypeOK, Asked

\* Every step keeps the types.
LEMMA ClientTypesStep == TypeOK /\ BackoffHasMore /\ [Next]_vars => TypeOK'
  <1> SUFFICES ASSUME TypeOK, BackoffHasMore, [Next]_vars PROVE TypeOK'
    OBVIOUS
  <1> DEFINE Calls == [phase : {"idle", "sending", "backoff"}, attempt : Nat, trial : BOOLEAN,
                       outcome : {"none", "answered", "failed", "escaped"}]
             CallTypes == /\ call' \in [Caller -> Calls]
                          /\ \A k \in Caller : call'[k].attempt \in 0..MaxAttempts[HostFor(k)]
             BreakerOK == /\ failures' \in [Host -> 0..Threshold]
                          /\ opened' \in [Host -> BOOLEAN]
                          /\ since' \in [Host -> 0..Cooldown]
                          /\ halfOpen' \in [Host -> BOOLEAN]
             CacheOK == cache' \in [Url -> [kind : {"none", "torn"} \cup Definitive, age : 0..(Ttl + 1)]]
             LastOK == last' \in [Url -> [kind : {"none"} \cup Definitive, age : 0..(Ttl + 1)]]
             RestOK == up' \subseteq Host /\ unreported' \in 0..MaxUnreported
             DemandOK == quiet' \in [Host -> 0..Cooldown] /\ load' \in [Host -> Nat]
  <1>0. CallTypes /\ BreakerOK /\ CacheOK /\ LastOK /\ RestOK /\ DemandOK => TypeOK'
    BY DEF TypeOK, HostFor
  <1>1. ASSUME NEW o \in {"none", "answered", "failed", "escaped"}
        PROVE  Idle(o) \in Calls /\ Idle(o).attempt = 0
    BY DEF Idle
  <1>2. breaker' = breaker => BreakerOK
    BY DEF TypeOK, breaker
  <1>3. (cache' = cache => CacheOK) /\ (last' = last => LastOK) /\ (demand' = demand => DemandOK)
    BY DEF TypeOK, demand
  <1>4. environment' = environment => RestOK
    BY DEF TypeOK, environment
  <1>5. call' = call => CallTypes
    BY DEF TypeOK, HostFor
  <1>6. ASSUME NEW c \in Caller, NEW o \in {"none", "answered", "failed", "escaped"},
               call' = [call EXCEPT ![c] = Idle(o)]
        PROVE  CallTypes
    <2>1. Idle(o) \in Calls /\ Idle(o).attempt \in 0..MaxAttempts[HostFor(c)]
      BY <1>1, CallersHost
    <2> QED
      BY <1>6, <2>1, OneCallTypes
  <1> HIDE DEF CallTypes, BreakerOK, CacheOK, LastOK, RestOK, DemandOK
  <1>7. ASSUME NEW c \in Caller, Ask(c) PROVE TypeOK'
    <2>0. UrlOf[c] \in Url /\ HostFor(c) \in Host
      BY CallersHost
    <2>1. CASE FromCache(c)
      BY <2>1, <1>0, <1>2, <1>3, <1>4, <1>6 DEF FromCache
    <2>2. CASE FailFast(c)
      <3>1. CacheOK
        BY <2>0, <2>2, CacheTypes DEF FailFast, CacheOK
      <3> QED
        BY <2>2, <3>1, <1>0, <1>2, <1>3, <1>4, <1>6 DEF FailFast
    <2>3. CASE Begin(c)
      <3>1. CacheOK
        BY <2>0, <2>3, CacheTypes DEF Begin, CacheOK
      <3>2. BreakerOK
        BY <2>0, <2>3, BreakerTypes DEF Begin, BreakerOK
      <3>3. DemandOK
        BY <2>0, <2>3, DemandTypes DEF Begin, DemandOK
      <3>4. CallTypes
        <4> DEFINE r == [phase |-> "sending", attempt |-> 1, trial |-> opened[HostFor(c)],
                         outcome |-> "none"]
        <4>1. opened[HostFor(c)] \in BOOLEAN
          BY <2>0 DEF TypeOK
        <4>2. r \in Calls /\ r.attempt \in 0..MaxAttempts[HostFor(c)]
          BY <4>1, CallersHost
        <4>3. call' = [call EXCEPT ![c] = r]
          BY <2>3 DEF Begin
        <4> HIDE DEF r
        <4> QED
          BY <4>2, <4>3, OneCallTypes DEF CallTypes
      <3> QED
        BY <2>3, <3>1, <3>2, <3>3, <3>4, <1>0, <1>3, <1>4 DEF Begin, environment
    <2> QED BY <1>7, <2>1, <2>2, <2>3 DEF Ask
  <1>8. ASSUME NEW c \in Caller, CallStep(c) PROVE TypeOK'
    <2>0. UrlOf[c] \in Url /\ HostFor(c) \in Host
      BY CallersHost
    <2>1. ASSUME Retry(c) \/ Resume(c) PROVE CallTypes
      <3>1. PICK r \in Calls : call' = [call EXCEPT ![c] = r]
                              /\ r.attempt \in 0..MaxAttempts[HostFor(c)]
        <4>0. call[c] \in Calls /\ call[c].attempt \in 0..MaxAttempts[HostFor(c)]
          BY DEF TypeOK
        <4>1. CASE Retry(c)
          <5>1. call' = [call EXCEPT ![c] = [call[c] EXCEPT !.phase = "backoff"]]
            BY <4>1 DEF Retry, TypeOK
          <5>2. [call[c] EXCEPT !.phase = "backoff"] \in Calls
            BY <4>0
          <5>3. [call[c] EXCEPT !.phase = "backoff"].attempt = call[c].attempt
            BY <4>0
          <5> QED BY <4>0, <5>1, <5>2, <5>3
        <4>2. CASE Resume(c)
          <5> DEFINE n == call[c].attempt + 1
                     r == [call[c] EXCEPT !.phase = "sending", !.attempt = n]
          <5>1. call' = [call EXCEPT ![c] = r]
            BY <4>2, <4>0 DEF Resume, TypeOK
          <5>2. n \in Nat /\ n \in 0..MaxAttempts[HostFor(c)]
            <6>1. call[c].attempt < MaxAttempts[HostFor(c)]
              BY <4>2 DEF Resume, BackoffHasMore
            <6> QED BY <4>0, <6>1, CallersHost
          <5> HIDE DEF n
          <5>3. r \in Calls /\ r.attempt = n
            BY <4>0, <5>2
          <5> QED BY <5>1, <5>2, <5>3
        <4> QED BY <2>1, <4>1, <4>2
      <3> QED
        BY <3>1, OneCallTypes DEF CallTypes
    <2>2. CASE Retry(c)
      BY <2>2, <2>1, <1>0, <1>2, <1>3, <1>4 DEF Retry
    <2>3. CASE Resume(c)
      BY <2>3, <2>1, <1>0, <1>2, <1>3, <1>4 DEF Resume
    <2>4. CASE GiveUp(c) \/ GiveUpAtOnce(c)
      <3>1. BreakerOK
        BY <2>0, <2>4, BreakerTypes DEF GiveUp, GiveUpAtOnce, BreakerOK
      <3> QED
        BY <2>4, <3>1, <1>0, <1>3, <1>4, <1>6 DEF GiveUp, GiveUpAtOnce
    <2>5. CASE Escape(c)
      <3>1. RestOK
        BY <2>5, ClientAssumption DEF Escape, Unreported, TypeOK, RestOK
      <3> QED
        BY <2>5, <3>1, <1>0, <1>2, <1>3, <1>6 DEF Escape
    <2>6. ASSUME NEW kind \in {"ok", "missing", "denied"}, Succeed(c, kind) PROVE TypeOK'
      <3>1. BreakerOK
        BY <2>0, <2>6, BreakerTypes DEF Succeed, BreakerOK
      <3>2. CacheOK
        BY <2>0, <2>6, CacheTypes DEF Succeed, CacheOK
      <3>3. DemandOK
        BY <2>6, ClientAssumption DEF Succeed, TypeOK, DemandOK
      <3>4. LastOK
        <4>1. kind \in Definitive => Entry(kind, 0) \in [kind : {"none"} \cup Definitive, age : 0..(Ttl + 1)]
          BY ClientAssumption DEF Entry
        <4> QED
          BY <2>6, <4>1 DEF Succeed, TypeOK, LastOK
      <3> QED
        BY <2>6, <3>1, <3>2, <3>3, <3>4, <1>0, <1>4, <1>6 DEF Succeed
    <2> QED BY <1>8, <2>2, <2>3, <2>4, <2>5, <2>6 DEF CallStep
  <1>9. ASSUME NEW c \in Caller, Cancel(c) PROVE TypeOK'
    <2>1. RestOK
      BY <1>9, ClientAssumption DEF Cancel, Unreported, TypeOK, RestOK
    <2> QED
      BY <1>9, <2>1, <1>0, <1>2, <1>3, <1>6 DEF Cancel
  <1>10. CASE Tick
    <2>1. BreakerOK
      <3>1. since' \in [Host -> 0..Cooldown]
        BY <1>10, ClientAssumption DEF Tick, TypeOK
      <3> QED
        BY <1>10, <3>1 DEF Tick, TypeOK, BreakerOK
    <2>2. CacheOK /\ LastOK
      <3>1. \A u \in Url : Older(cache[u]) \in [kind : {"none", "torn"} \cup Definitive, age : 0..(Ttl + 1)]
        BY AgeingTypes DEF TypeOK
      <3>2. \A u \in Url : Older(last[u]) \in [kind : {"none"} \cup Definitive, age : 0..(Ttl + 1)]
        BY AgeingTypes DEF TypeOK
      <3> QED
        BY <1>10, <3>1, <3>2 DEF Tick, CacheOK, LastOK
    <2>3. DemandOK
      BY <1>10, ClientAssumption DEF Tick, TypeOK, DemandOK
    <2> QED
      BY <1>10, <2>1, <2>2, <2>3, <1>0, <1>4, <1>5 DEF Tick
  <1>11. CASE HostFails \/ HostRecovers
    <2>1. RestOK
      BY <1>11 DEF HostFails, HostRecovers, TypeOK, RestOK
    <2> QED
      BY <1>11, <2>1, <1>0, <1>2, <1>3, <1>5 DEF HostFails, HostRecovers
  <1>12. CASE Crash
    <2>1. BreakerOK
      BY <1>12, ClientAssumption DEF Crash, BreakerOK
    <2>2. CacheOK
      <3>1. Entry("torn", 0) \in [kind : {"none", "torn"} \cup Definitive, age : 0..(Ttl + 1)]
        BY ClientAssumption DEF Entry
      <3> QED
        BY <1>12, <3>1 DEF Crash, TypeOK, CacheOK
    <2>3. CallTypes
      BY <1>12, <1>1, CallersHost DEF Crash, CallTypes
    <2>4. DemandOK
      BY <1>12, ClientAssumption DEF Crash, DemandOK
    <2> QED
      BY <1>12, <2>1, <2>2, <2>3, <2>4, <1>0, <1>3, <1>4 DEF Crash
  <1>13. CASE UNCHANGED vars
    BY <1>13, <1>0, <1>2, <1>3, <1>4, <1>5 DEF vars, breaker, environment
  <1> QED
    BY <1>7, <1>8, <1>9, <1>10, <1>11, <1>12, <1>13 DEF Next

\* A request goes into a backoff only if the attempt it has made was not its last one.
LEMMA BackoffStep == TypeOK /\ BackoffHasMore /\ [Next]_vars => BackoffHasMore'
  <1> SUFFICES ASSUME TypeOK, BackoffHasMore, [Next]_vars,
                      NEW k \in Caller, call'[k].phase = "backoff"
               PROVE  call'[k].attempt < MaxAttempts[HostFor(k)]
    BY DEF BackoffHasMore, HostFor
  <1>0. call[k].phase = "backoff" => call[k].attempt < MaxAttempts[HostFor(k)]
    BY DEF BackoffHasMore
  <1>1. ASSUME call'[k] = call[k] PROVE call'[k].attempt < MaxAttempts[HostFor(k)]
    BY <1>0, <1>1
  <1>2. ASSUME NEW c \in Caller, Ask(c) \/ CallStep(c) \/ Cancel(c)
        PROVE  call'[k].attempt < MaxAttempts[HostFor(k)]
    <2>1. CASE c # k
      <3>1. call'[k] = call[k]
        BY <1>2, <2>1 DEF Ask, CallStep, FromCache, FailFast, Begin, Retry, GiveUp,
                          GiveUpAtOnce, Escape, Resume, Cancel, Succeed, TypeOK
      <3> QED BY <1>1, <3>1
    <2>2. CASE c = k
      <3>1. Retry(k)
        BY <1>2, <2>2 DEF Ask, CallStep, FromCache, FailFast, Begin, GiveUp,
                          GiveUpAtOnce, Escape, Resume, Cancel, Succeed, Idle, TypeOK
      <3>2. call'[k].attempt = call[k].attempt /\ call[k].attempt # MaxAttempts[HostFor(k)]
        BY <3>1 DEF Retry, LastAttempt, TypeOK
      <3>3. call[k].attempt \in 0..MaxAttempts[HostFor(k)] /\ MaxAttempts[HostFor(k)] \in Nat
        BY CallersHost DEF TypeOK
      <3> QED BY <3>2, <3>3
    <2> QED BY <2>1, <2>2
  <1>3. CASE Tick \/ HostFails \/ HostRecovers \/ UNCHANGED vars
    BY <1>1, <1>3 DEF Tick, HostFails, HostRecovers, vars
  <1>4. CASE Crash
    BY <1>4 DEF Crash, Idle
  <1> QED BY <1>2, <1>3, <1>4 DEF Next

\* The variables of the client have their types in every state, so a request never
\* makes more than max_attempts attempts: it is only resumed from a backoff, which the
\* last attempt does not lead to (retry.py:45-73).
THEOREM ClientTypes == Spec => []TypeOK
  <1>1. Init => BackoffHasMore
    BY DEF Init, Idle, BackoffHasMore
  <1> QED BY <1>1, ClientTypesInit, ClientTypesStep, BackoffStep, PTL DEF Spec

-----------------------------------------------------------------------------
(* The cache.  What get may serve is not inductive, for a stale entry stays *)
(* in its file; the stronger fact is that a whole entry of any age is the   *)
(* last definitive answer.                                                  *)

EntriesAreLast == \A u \in Url : Caching /\ cache[u].kind \in Definitive => last[u] = cache[u]

\* At the start there is no entry.
LEMMA EntriesInit == Init => EntriesAreLast
  BY DEF Init, EntriesAreLast, Missing, Entry, Definitive

\* Every step keeps each whole entry equal to the last definitive answer: an answer
\* is stored in the step in which it comes, both grow old together, and a crash
\* leaves an entry alone or tears it.
LEMMA EntriesStep == TypeOK /\ EntriesAreLast /\ [Next]_vars => EntriesAreLast'
  <1> SUFFICES ASSUME TypeOK, EntriesAreLast, [Next]_vars,
                      NEW u \in Url, Caching, cache'[u].kind \in Definitive
               PROVE  last'[u] = cache'[u]
    BY DEF EntriesAreLast
  <1>0. cache[u].kind \in Definitive => last[u] = cache[u]
    BY DEF EntriesAreLast
  <1>1. ASSUME cache' = cache, last' = last PROVE last'[u] = cache'[u]
    BY <1>0, <1>1
  <1>2. ASSUME NEW c \in Caller, Ask(c) PROVE last'[u] = cache'[u]
    <2>1. CASE FromCache(c)
      BY <2>1, <1>1 DEF FromCache
    <2>2. CASE FailFast(c) \/ Begin(c)
      <3>1. last' = last /\ cache' = AfterMiss(UrlOf[c])
        BY <2>2 DEF FailFast, Begin
      <3>2. cache'[u] = cache[u]
        BY <3>1 DEF AfterMiss, Missing, Entry, Definitive, TypeOK
      <3> QED BY <3>1, <3>2, <1>0
    <2> QED BY <1>2, <2>1, <2>2 DEF Ask
  <1>3. ASSUME NEW c \in Caller, CallStep(c) PROVE last'[u] = cache'[u]
    <2>1. ASSUME NEW kind \in {"ok", "missing", "denied"}, Succeed(c, kind)
          PROVE  last'[u] = cache'[u]
      <3>1. CASE kind \in Definitive
        BY <2>1, <3>1, <1>0 DEF Succeed, AfterSet, IsCacheable, TypeOK
      <3>2. CASE kind \notin Definitive
        BY <2>1, <3>2, <1>0 DEF Succeed, AfterSet, IsCacheable
      <3> QED BY <3>1, <3>2
    <2>2. CASE Retry(c) \/ GiveUp(c) \/ GiveUpAtOnce(c) \/ Escape(c) \/ Resume(c)
      BY <2>2, <1>1 DEF Retry, GiveUp, GiveUpAtOnce, Escape, Resume
    <2> QED BY <1>3, <2>1, <2>2 DEF CallStep
  <1>4. ASSUME NEW c \in Caller, Cancel(c) PROVE last'[u] = cache'[u]
    BY <1>4, <1>1 DEF Cancel
  <1>5. CASE Tick
    <2>1. last'[u] = Older(last[u]) /\ cache'[u] = Older(cache[u])
      BY <1>5 DEF Tick
    <2>2. Older(cache[u]).kind = cache[u].kind
      BY DEF Older, Entry
    <2> QED BY <2>1, <2>2, <1>0
  <1>6. CASE HostFails \/ HostRecovers
    BY <1>6, <1>1 DEF HostFails, HostRecovers
  <1>7. CASE Crash
    <2>1. last' = last /\ (cache'[u] = cache[u] \/ cache'[u] = Entry("torn", 0))
      BY <1>7 DEF Crash
    <2>2. cache'[u] # Entry("torn", 0)
      BY DEF Entry, Definitive
    <2> QED BY <2>1, <2>2, <1>0
  <1>8. CASE UNCHANGED vars
    BY <1>8, <1>1 DEF vars
  <1> QED
    BY <1>2, <1>3, <1>4, <1>5, <1>6, <1>7, <1>8 DEF Next

\* Whatever the concurrent requests, the crashes and the passing of time, what the
\* cache serves is the last definitive answer of the host
\* (cache.py:26-86, http.py:48-77).
THEOREM CacheIsHonest == Spec => []ServesLastDefinitive
  <1>1. TypeOK /\ EntriesAreLast => ServesLastDefinitive
    BY DEF TypeOK, EntriesAreLast, ServesLastDefinitive, Servable, Definitive
  <1> QED
    BY <1>1, EntriesInit, EntriesStep, ClientTypes, PTL DEF Spec

-----------------------------------------------------------------------------
(* The dead host.  The load alone says nothing of the next step: what is    *)
(* inductive relates it to the failures the breaker has counted and to the  *)
(* requests under way, which may still fail or go unreported.               *)

Flying(h) == {c \in Caller : HostFor(c) = h /\ InFlight(c)}

\* How many requests may have been let through: while the circuit is closed those that
\* failed, those nobody reported on and those under way; while it refuses no more are;
\* after the cooldown only those that are under way count.
Allowed(h) ==
    IF ~opened[h] THEN failures[h] + unreported + Cardinality(Flying(h))
    ELSE IF since[h] < Cooldown THEN Threshold - 1 + Cardinality(Caller) + unreported
    ELSE unreported + Cardinality(Flying(h))

OpenAtThreshold == \A h \in Host : opened[h] <=> failures[h] = Threshold

\* No request has been begun since the circuit opened, until its cooldown is over.
QuietWhileOpen == \A h \in Host : opened[h] /\ since[h] < Cooldown => since[h] <= quiet[h]

WithinAllowed == \A h \in Host : load[h] <= Allowed(h)

SparedInv == OpenAtThreshold /\ QuietWhileOpen /\ WithinAllowed

\* What the counters are.
LEMMA Sizes ==
    ASSUME TypeOK, NEW h \in Host
    PROVE  /\ IsFiniteSet(Flying(h)) /\ Cardinality(Flying(h)) \in Nat
           /\ Cardinality(Flying(h)) <= Cardinality(Caller) /\ Cardinality(Caller) \in Nat
           /\ load[h] \in Nat /\ failures[h] \in 0..Threshold /\ unreported \in Nat
           /\ Threshold \in Nat /\ since[h] \in 0..Cooldown /\ Cooldown \in Nat \ {0}
           /\ quiet[h] \in 0..Cooldown
<1>1. Flying(h) \in SUBSET Caller /\ IsFiniteSet(Caller)
    BY ClientAssumption DEF Flying
<1>2. IsFiniteSet(Flying(h)) /\ Cardinality(Flying(h)) <= Cardinality(Caller)
    BY <1>1, FS_Subset
<1>3. Cardinality(Flying(h)) \in Nat /\ Cardinality(Caller) \in Nat
    BY <1>1, <1>2, FS_CardinalityType
<1>4. /\ load[h] \in Nat /\ failures[h] \in 0..Threshold /\ unreported \in Nat
      /\ Threshold \in Nat /\ since[h] \in 0..Cooldown /\ Cooldown \in Nat \ {0}
      /\ quiet[h] \in 0..Cooldown
    BY ClientAssumption DEF TypeOK
<1> QED BY <1>2, <1>3, <1>4

LEMMA SizesNext == (TypeOK => \A h \in Host : Cardinality(Flying(h)) \in Nat)'
<1>1. TypeOK => \A h \in Host : Cardinality(Flying(h)) \in Nat
    BY Sizes
<1> QED BY <1>1, PTL

\* A step that touches neither the breaker nor the demand, and leaves the same requests
\* under way, disturbs nothing.
LEMMA Undisturbed ==
    ASSUME SparedInv, UNCHANGED <<breaker, unreported, demand>>,
           \A h \in Host : Flying(h)' = Flying(h)
    PROVE  SparedInv'
<1>1. UNCHANGED <<failures, opened, since, unreported, quiet, load>>
    BY DEF breaker, demand
<1>2. OpenAtThreshold' /\ QuietWhileOpen'
    BY <1>1 DEF SparedInv, OpenAtThreshold, QuietWhileOpen
<1>3. ASSUME NEW h \in Host PROVE load'[h] <= Allowed(h)'
    BY <1>1 DEF Allowed, SparedInv, WithinAllowed
<1> QED BY <1>2, <1>3 DEF SparedInv, WithinAllowed

\* A request does not disturb the hosts it is not sent to.
LEMMA Elsewhere ==
    ASSUME TypeOK, WithinAllowed, NEW c \in Caller, NEW r,
           call' = [call EXCEPT ![c] = r], NEW h \in Host, h # HostFor(c),
           failures'[h] = failures[h], opened'[h] = opened[h], since'[h] = since[h],
           load'[h] = load[h], unreported' \in Nat, unreported <= unreported'
    PROVE  load'[h] <= Allowed(h)'
<1>1. \A k \in Caller : HostFor(k) = h => call'[k] = call[k]
    BY DEF TypeOK
<1>2. Flying(h)' = Flying(h)
    BY <1>1 DEF Flying, InFlight, HostFor
<1> DEFINE k == Cardinality(Flying(h))
           n == Cardinality(Caller)
<1>3. /\ k \in Nat /\ n \in Nat /\ Threshold \in Nat /\ failures[h] \in Nat
      /\ unreported \in Nat /\ load[h] \in Nat
    BY Sizes
<1>4. load[h] <= IF ~opened[h] THEN failures[h] + unreported + k
                 ELSE IF since[h] < Cooldown THEN Threshold - 1 + n + unreported
                 ELSE unreported + k
    BY DEF Allowed, WithinAllowed
<1>5. Allowed(h)' = IF ~opened[h] THEN failures[h] + unreported' + k
                    ELSE IF since[h] < Cooldown THEN Threshold - 1 + n + unreported'
                    ELSE unreported' + k
    BY <1>2 DEF Allowed
<1> HIDE DEF k, n
<1> QED BY <1>3, <1>4, <1>5

\* A request that ends is no longer under way.
LEMMA Lands ==
    ASSUME TypeOK, NEW c \in Caller, InFlight(c), NEW o, call' = [call EXCEPT ![c] = Idle(o)]
    PROVE  LET h == HostFor(c)
           IN h \in Host /\ Cardinality(Flying(h))' = Cardinality(Flying(h)) - 1
<1> DEFINE h == HostFor(c)
<1>1. h \in Host /\ c \in Flying(h)
    BY CallersHost DEF Flying
<1>2. \A k \in Caller : call'[k] = IF k = c THEN Idle(o) ELSE call[k]
    BY DEF TypeOK
<1>3. Flying(h)' = Flying(h) \ {c}
    BY <1>2 DEF Flying, InFlight, HostFor, Idle
<1>4. IsFiniteSet(Flying(h))
    BY <1>1, Sizes
<1>5. Cardinality(Flying(h) \ {c}) = Cardinality(Flying(h)) - 1
    BY <1>1, <1>4, FS_RemoveElement
<1> QED BY <1>1, <1>3, <1>5

\* A request that begins is one more under way.
LEMMA TakesOff ==
    ASSUME TypeOK, NEW c \in Caller, Begin(c)
    PROVE  LET h == HostFor(c)
           IN h \in Host /\ Cardinality(Flying(h))' = Cardinality(Flying(h)) + 1
<1> DEFINE h == HostFor(c)
<1>1. h \in Host /\ c \notin Flying(h)
    BY CallersHost DEF Begin, Flying
<1>2. (\A k \in Caller : k # c => call'[k] = call[k]) /\ call'[c].phase = "sending"
    BY DEF Begin, TypeOK
<1>3. Flying(h)' = Flying(h) \cup {c}
    BY <1>2 DEF Flying, InFlight, HostFor
<1>4. IsFiniteSet(Flying(h))
    BY <1>1, Sizes
<1>5. Cardinality(Flying(h) \cup {c}) = Cardinality(Flying(h)) + 1
    BY <1>1, <1>4, FS_AddElement
<1> QED BY <1>1, <1>3, <1>5

\* The circuit is open exactly from the failure that reaches the threshold.
LEMMA OpensAtThreshold ==
    ASSUME TypeOK, OpenAtThreshold, Threshold > 0, NEW h \in Host,
           BeforeRequest(h) \/ RecordSuccess(h) \/ RecordFailure(h)
    PROVE  OpenAtThreshold'
<1>1. Threshold \in Nat
    BY ClientAssumption
<1>2. CASE BeforeRequest(h)
    BY <1>2 DEF OpenAtThreshold, BeforeRequest
<1>3. CASE RecordSuccess(h)
    BY <1>1, <1>3 DEF TypeOK, OpenAtThreshold, RecordSuccess
<1>4. CASE RecordFailure(h)
    <2> DEFINE count == IF failures[h] < Threshold THEN failures[h] + 1 ELSE Threshold
    <2>1. /\ failures' = [failures EXCEPT ![h] = count]
          /\ IF count = Threshold THEN opened' = [opened EXCEPT ![h] = TRUE]
             ELSE opened' = opened
        BY <1>1, <1>4 DEF RecordFailure
    <2>2. failures[h] \in 0..Threshold
        BY DEF TypeOK
    <2> SUFFICES ASSUME NEW g \in Host PROVE (opened[g] <=> failures[g] = Threshold)'
        BY DEF OpenAtThreshold
    <2>3. opened[g] <=> failures[g] = Threshold
        BY DEF OpenAtThreshold
    <2>4. CASE g # h
        BY <2>1, <2>3, <2>4 DEF TypeOK
    <2>5. CASE g = h
        <3>1. failures'[h] = count
            BY <2>1 DEF TypeOK
        <3>2. CASE count = Threshold
            BY <2>1, <2>5, <3>1, <3>2 DEF TypeOK
        <3>3. CASE count # Threshold
            BY <1>1, <2>1, <2>2, <2>3, <2>5, <3>1, <3>3
        <3> QED BY <3>2, <3>3
    <2> QED BY <2>4, <2>5
<1> QED BY <1>2, <1>3, <1>4

\* What a step of the breaker for one host leaves alone.
LEMMA OneHost ==
    ASSUME TypeOK, NEW h \in Host, BeforeRequest(h) \/ RecordSuccess(h) \/ RecordFailure(h)
    PROVE  \A g \in Host : g # h => /\ failures'[g] = failures[g] /\ opened'[g] = opened[g]
                                    /\ since'[g] = since[g]
<1>1. CASE BeforeRequest(h)
    BY <1>1 DEF BeforeRequest
<1>2. CASE RecordSuccess(h)
    BY <1>2 DEF RecordSuccess, TypeOK
<1>3. CASE RecordFailure(h)
    BY <1>3 DEF RecordFailure, breaker, TypeOK
<1> QED BY <1>1, <1>2, <1>3

\* A request that is refused, served from the cache, put off or resumed is none that
\* begins, and none that ends.
LEMMA NoneBegins ==
    ASSUME TypeOK, SparedInv, NEW c \in Caller,
           FromCache(c) \/ FailFast(c) \/ Retry(c) \/ Resume(c)
    PROVE  SparedInv'
<1>1. UNCHANGED <<breaker, unreported, demand>>
    BY DEF FromCache, FailFast, Retry, Resume, environment
<1>2. \A k \in Caller : InFlight(k)' <=> InFlight(k)
    <2>1. CASE FromCache(c) \/ FailFast(c)
        BY <2>1 DEF FromCache, FailFast, InFlight, Idle, TypeOK
    <2>2. CASE Retry(c)
        BY <2>2 DEF Retry, InFlight, TypeOK
    <2>3. CASE Resume(c)
        BY <2>3 DEF Resume, InFlight, TypeOK
    <2> QED BY <2>1, <2>2, <2>3
<1>3. \A h \in Host : Flying(h)' = Flying(h)
    BY <1>2 DEF Flying, HostFor
<1> QED BY <1>1, <1>3, Undisturbed

\* A request that fails, escapes or is cancelled is accounted for: as one failure, or as
\* one nobody reported on.
LEMMA EndsAccounted ==
    ASSUME TypeOK, TypeOK', SparedInv, Threshold > 0, NEW c \in Caller,
           NEW o, InFlight(c), call' = [call EXCEPT ![c] = Idle(o)], demand' = demand,
           \/ RecordFailure(HostFor(c)) /\ unreported' = unreported
           \/ UNCHANGED breaker /\ unreported' = unreported + 1
    PROVE  SparedInv'
<1> DEFINE own == HostFor(c)
           k == Cardinality(Flying(own))
           n == Cardinality(Caller)
<1>1. own \in Host /\ Cardinality(Flying(own))' = k - 1
    BY Lands
<1>2. /\ k \in Nat /\ n \in Nat /\ k <= n /\ Threshold \in Nat /\ Cooldown \in Nat \ {0}
      /\ failures[own] \in 0..Threshold /\ since[own] \in 0..Cooldown
      /\ unreported \in Nat /\ load[own] \in Nat /\ quiet[own] \in Nat
      /\ quiet' = quiet /\ load' = load
    BY <1>1, Sizes DEF demand
<1>3. opened[own] <=> failures[own] = Threshold
    BY <1>1 DEF SparedInv, OpenAtThreshold
<1>4. load[own] <= IF ~opened[own] THEN failures[own] + unreported + k
                   ELSE IF since[own] < Cooldown THEN Threshold - 1 + n + unreported
                   ELSE unreported + k
    BY <1>1 DEF Allowed, SparedInv, WithinAllowed
<1>5. Allowed(own)' = IF ~opened'[own] THEN failures'[own] + unreported' + (k - 1)
                      ELSE IF since'[own] < Cooldown THEN Threshold - 1 + n + unreported'
                      ELSE unreported' + (k - 1)
    BY <1>1 DEF Allowed
<1>6. \A h \in Host : h # own => /\ failures'[h] = failures[h] /\ opened'[h] = opened[h]
                               /\ since'[h] = since[h]
    BY <1>1, OneHost DEF breaker
<1>7. unreported' \in Nat /\ unreported <= unreported'
    BY <1>2
<1>8. ASSUME NEW h \in Host, h # own PROVE load'[h] <= Allowed(h)'
    BY <1>2, <1>6, <1>7, <1>8, Elsewhere DEF SparedInv
<1>9. CASE UNCHANGED breaker /\ unreported' = unreported + 1
    <2>1. UNCHANGED <<failures, opened, since>>
        BY <1>9 DEF breaker
    <2>2. OpenAtThreshold' /\ QuietWhileOpen'
        BY <1>2, <2>1 DEF SparedInv, OpenAtThreshold, QuietWhileOpen
    <2>3. load'[own] <= Allowed(own)'
        <3> HIDE DEF k, n, own
        <3> QED BY <1>2, <1>4, <1>5, <1>9, <2>1
    <2> QED BY <1>8, <2>2, <2>3 DEF SparedInv, WithinAllowed
<1>10. CASE RecordFailure(own) /\ unreported' = unreported
    <2> DEFINE count == IF failures[own] < Threshold THEN failures[own] + 1 ELSE Threshold
    <2>1. /\ failures'[own] = count
          /\ IF count = Threshold THEN opened'[own] /\ since'[own] = 0
             ELSE opened'[own] = opened[own] /\ since'[own] = since[own]
        BY <1>1, <1>2, <1>10 DEF RecordFailure, TypeOK
    <2>2. OpenAtThreshold'
        BY <1>1, <1>10, OpensAtThreshold DEF SparedInv
    <2>3. QuietWhileOpen'
        <3>1. opened[own] /\ since[own] < Cooldown => since[own] <= quiet[own]
            BY <1>1 DEF SparedInv, QuietWhileOpen
        <3>2. opened'[own] /\ since'[own] < Cooldown => since'[own] <= quiet'[own]
            <4>1. quiet'[own] = quiet[own] /\ quiet[own] \in Nat
                BY <1>2
            <4>2. CASE count = Threshold
                <5>1. since'[own] = 0
                    BY <2>1, <4>2
                <5> HIDE DEF k, n, own, count
                <5> QED BY <4>1, <5>1
            <4>3. CASE count # Threshold
                <5>1. opened'[own] = opened[own] /\ since'[own] = since[own]
                    BY <2>1, <4>3
                <5> QED BY <3>1, <4>1, <5>1
            <4> QED BY <4>2, <4>3
        <3> QED BY <1>2, <1>6, <3>2 DEF SparedInv, QuietWhileOpen
    <2>4. load'[own] <= Allowed(own)'
        <3> HIDE DEF k, n, own
        <3>1. CASE opened[own]
            <4>1. count = Threshold
                BY <1>2, <1>3, <3>1
            <4> HIDE DEF count
            <4>2. Allowed(own)' = Threshold - 1 + n + unreported
                BY <1>2, <1>5, <1>10, <2>1, <4>1
            <4> QED BY <1>2, <1>4, <3>1, <4>2
        <3>2. CASE ~opened[own] /\ count = Threshold
            <4>1. Allowed(own)' = Threshold - 1 + n + unreported
                BY <1>2, <1>5, <1>10, <2>1, <3>2
            <4>2. failures[own] <= Threshold - 1
                BY <1>2, <1>3, <3>2
            <4> QED BY <1>2, <1>4, <3>2, <4>1, <4>2
        <3>3. CASE ~opened[own] /\ count # Threshold
            <4>1. Allowed(own)' = failures[own] + 1 + unreported + (k - 1)
                BY <1>2, <1>3, <1>5, <1>10, <2>1, <3>3
            <4> QED BY <1>2, <1>4, <3>3, <4>1
        <3> QED BY <3>1, <3>2, <3>3
    <2> QED BY <1>8, <2>2, <2>3, <2>4 DEF SparedInv, WithinAllowed
<1> QED BY <1>9, <1>10

\* A host that answers starts anew.
LEMMA SucceedSpares ==
    ASSUME TypeOK, TypeOK', SparedInv, Threshold > 0, NEW c \in Caller,
           NEW kind \in {"ok", "missing", "denied"}, Succeed(c, kind)
    PROVE  SparedInv'
<1> DEFINE own == HostFor(c)
<1>1. /\ own \in Host /\ RecordSuccess(own) /\ call' = [call EXCEPT ![c] = Idle("answered")]
      /\ load' = [load EXCEPT ![own] = 0] /\ UNCHANGED <<unreported, quiet>>
    BY CallersHost DEF Succeed, environment
<1>2. /\ load'[own] = 0 /\ failures'[own] = 0 /\ opened'[own] = FALSE
    BY <1>1 DEF RecordSuccess, TypeOK
<1>3. \A h \in Host : h # own => /\ failures'[h] = failures[h] /\ opened'[h] = opened[h]
                               /\ since'[h] = since[h]
    BY <1>1, OneHost
<1>4. OpenAtThreshold'
    BY <1>1, OpensAtThreshold DEF SparedInv
<1>5. QuietWhileOpen'
    BY <1>1, <1>2, <1>3 DEF SparedInv, QuietWhileOpen
<1>6. load'[own] <= Allowed(own)'
    <2> DEFINE k == Cardinality(Flying(own))'
    <2>1. Allowed(own)' = 0 + unreported + k /\ k \in Nat /\ unreported \in Nat
        BY <1>1, <1>2, SizesNext, Sizes DEF Allowed
    <2> HIDE DEF k, own
    <2> QED BY <1>2, <2>1
<1>7. ASSUME NEW h \in Host, h # own PROVE load'[h] <= Allowed(h)'
    <2>1. load'[h] = load[h] /\ unreported' \in Nat /\ unreported <= unreported'
        BY <1>1, <1>7, Sizes DEF TypeOK
    <2> QED BY <1>1, <1>3, <1>7, <2>1, Elsewhere DEF SparedInv
<1> QED BY <1>4, <1>5, <1>6, <1>7 DEF SparedInv, WithinAllowed

\* A request that is let through is one more under way, on a circuit that is closed or has
\* sat out its cooldown.
LEMMA BeginSpares ==
    ASSUME TypeOK, TypeOK', SparedInv, Threshold > 0, NEW c \in Caller, Begin(c)
    PROVE  SparedInv'
<1> DEFINE own == HostFor(c)
           k == Cardinality(Flying(own))
<1>1. /\ own \in Host /\ ~Refuses(own) /\ UNCHANGED <<failures, opened, since, unreported>>
      /\ Asked(own) /\ BeforeRequest(own)
    BY CallersHost DEF Begin, BeforeRequest, environment
<1>2. Cardinality(Flying(own))' = k + 1
    BY TakesOff
<1>3. /\ k \in Nat /\ failures[own] \in Nat /\ unreported \in Nat /\ load[own] \in Nat
      /\ since[own] \in 0..Cooldown /\ Cooldown \in Nat
    BY <1>1, Sizes
<1>4. \A h \in Host : h # own => quiet'[h] = quiet[h] /\ load'[h] = load[h]
    BY <1>1 DEF Asked, TypeOK
<1>5. OpenAtThreshold'
    BY <1>1, OpensAtThreshold DEF SparedInv
<1>6. QuietWhileOpen'
    BY <1>1, <1>4 DEF SparedInv, QuietWhileOpen, Refuses
<1>7. load'[own] <= Allowed(own)'
    <2>1. load'[own] = load[own] + 1 \/ load'[own] = load[own]
        BY <1>1 DEF Asked, TypeOK
    <2>2. /\ load[own] <= IF ~opened[own] THEN failures[own] + unreported + k
                          ELSE unreported + k
          /\ Allowed(own)' = IF ~opened[own] THEN failures[own] + unreported + (k + 1)
                             ELSE unreported + (k + 1)
        BY <1>1, <1>2 DEF Allowed, Refuses, SparedInv, WithinAllowed
    <2> HIDE DEF k, own
    <2> QED BY <1>3, <2>1, <2>2
<1>8. ASSUME NEW h \in Host, h # own PROVE load'[h] <= Allowed(h)'
    <2>1. /\ failures'[h] = failures[h] /\ opened'[h] = opened[h] /\ since'[h] = since[h]
          /\ load'[h] = load[h] /\ unreported' \in Nat /\ unreported <= unreported'
        BY <1>1, <1>3, <1>4, <1>8
    <2>2. call' = [call EXCEPT ![c] = [phase |-> "sending", attempt |-> 1,
                                      trial |-> opened[HostFor(c)], outcome |-> "none"]]
        BY DEF Begin
    <2> QED BY <1>8, <2>1, <2>2, Elsewhere DEF SparedInv
<1> QED BY <1>5, <1>6, <1>7, <1>8 DEF SparedInv, WithinAllowed

\* By the time a circuit's cooldown is over its host has been quiet for as long, and its
\* load is gone; no other load can be above what is allowed then.
LEMMA TickSpares ==
    ASSUME TypeOK, TypeOK', SparedInv, Threshold > 0, Tick
    PROVE  SparedInv'
<1>1. UNCHANGED <<failures, opened, call, unreported>>
    BY DEF Tick, environment
<1>2. ASSUME NEW h \in Host
      PROVE  /\ opened'[h] <=> failures'[h] = Threshold
             /\ opened'[h] /\ since'[h] < Cooldown => since'[h] <= quiet'[h]
             /\ load'[h] <= Allowed(h)'
    <2>1. Flying(h)' = Flying(h)
        BY <1>1 DEF Flying, InFlight
    <2>2. /\ since'[h] = IF opened[h] /\ since[h] < Cooldown THEN since[h] + 1 ELSE since[h]
          /\ quiet'[h] = IF quiet[h] < Cooldown THEN quiet[h] + 1 ELSE Cooldown
          /\ load'[h] = IF quiet[h] >= Cooldown - 1 THEN 0 ELSE load[h]
        BY DEF Tick
    <2> DEFINE k == Cardinality(Flying(h))
               n == Cardinality(Caller)
    <2>3. /\ since[h] \in 0..Cooldown /\ quiet[h] \in 0..Cooldown /\ Cooldown \in Nat \ {0}
          /\ unreported \in Nat /\ k \in Nat /\ n \in Nat /\ load[h] \in Nat
          /\ failures[h] \in Nat /\ Threshold \in Nat
        BY Sizes
    <2>4. /\ opened[h] <=> failures[h] = Threshold
          /\ opened[h] /\ since[h] < Cooldown => since[h] <= quiet[h]
          /\ load[h] <= IF ~opened[h] THEN failures[h] + unreported + k
                        ELSE IF since[h] < Cooldown THEN Threshold - 1 + n + unreported
                        ELSE unreported + k
        BY DEF SparedInv, OpenAtThreshold, QuietWhileOpen, WithinAllowed, Allowed
    <2>5. Allowed(h)' = IF ~opened[h] THEN failures[h] + unreported + k
                        ELSE IF since'[h] < Cooldown THEN Threshold - 1 + n + unreported
                        ELSE unreported + k
        BY <1>1, <2>1 DEF Allowed
    <2> HIDE DEF k, n
    <2>6. opened[h] /\ since'[h] < Cooldown => since'[h] <= quiet'[h]
        BY <2>2, <2>3, <2>4
    <2>7. load'[h] <= Allowed(h)'
        BY <2>2, <2>3, <2>4, <2>5
    <2> QED BY <1>1, <2>4, <2>6, <2>7
<1> QED BY <1>2 DEF SparedInv, OpenAtThreshold, QuietWhileOpen, WithinAllowed

\* A process that has just started has asked nobody.
Started ==
    /\ failures = [h \in Host |-> 0] /\ opened = [h \in Host |-> FALSE]
    /\ call = [c \in Caller |-> Idle("none")] /\ load = [h \in Host |-> 0]

LEMMA FreshStart == Threshold > 0 /\ TypeOK /\ Started => SparedInv
<1> SUFFICES ASSUME Threshold > 0, TypeOK, Started PROVE SparedInv
    OBVIOUS
<1>1. OpenAtThreshold /\ QuietWhileOpen
    BY DEF OpenAtThreshold, QuietWhileOpen, Started
<1>2. ASSUME NEW h \in Host PROVE load[h] <= Allowed(h)
    <2>1. Cardinality(Flying(h)) \in Nat /\ unreported \in Nat
        BY Sizes
    <2>2. Allowed(h) = 0 + unreported + Cardinality(Flying(h)) /\ load[h] = 0
        BY DEF Allowed, Started
    <2> QED BY <2>1, <2>2
<1> QED BY <1>1, <1>2 DEF SparedInv, WithinAllowed

LEMMA FreshRestart == (Threshold > 0 /\ TypeOK /\ Started)' => SparedInv'
<1>1. Threshold > 0 /\ TypeOK /\ Started => SparedInv
    BY FreshStart
<1> QED BY <1>1, PTL

\* What is inductive holds after every step.
LEMMA SparedStep ==
    SparedInv /\ TypeOK /\ TypeOK' /\ Threshold > 0 /\ [Next]_vars => SparedInv'
<1> SUFFICES ASSUME SparedInv, TypeOK, TypeOK', Threshold > 0, [Next]_vars PROVE SparedInv'
    OBVIOUS
<1>1. ASSUME NEW c \in Caller, Ask(c) \/ CallStep(c) \/ Cancel(c) PROVE SparedInv'
    <2>1. CASE FromCache(c) \/ FailFast(c) \/ Retry(c) \/ Resume(c)
        BY <2>1, NoneBegins
    <2>2. CASE GiveUp(c) \/ GiveUpAtOnce(c) \/ Escape(c) \/ Cancel(c)
        <3>1. PICK o \in {"none", "failed", "escaped"} : call' = [call EXCEPT ![c] = Idle(o)]
            BY <2>2 DEF GiveUp, GiveUpAtOnce, Escape, Cancel
        <3>2. /\ InFlight(c) /\ demand' = demand
              /\ \/ RecordFailure(HostFor(c)) /\ unreported' = unreported
                 \/ UNCHANGED breaker /\ unreported' = unreported + 1
            BY <2>2 DEF GiveUp, GiveUpAtOnce, Escape, Cancel, InFlight, environment, Unreported
        <3> QED BY <3>1, <3>2, EndsAccounted
    <2>3. CASE \E kind \in {"ok", "missing", "denied"} : Succeed(c, kind)
        BY <2>3, SucceedSpares
    <2>4. CASE Begin(c)
        BY <2>4, BeginSpares
    <2> QED BY <1>1, <2>1, <2>2, <2>3, <2>4 DEF Ask, CallStep
<1>2. CASE Tick
    BY <1>2, TickSpares
<1>3. CASE Crash
    BY <1>3, FreshRestart DEF Crash, Started
<1>4. CASE HostFails \/ HostRecovers \/ UNCHANGED vars
    <2>1. UNCHANGED <<breaker, call, unreported, demand>>
        BY <1>4 DEF HostFails, HostRecovers, vars, environment
    <2>2. \A h \in Host : Flying(h)' = Flying(h)
        BY <2>1 DEF Flying, InFlight
    <2> QED BY <2>1, <2>2, Undisturbed
<1> QED BY <1>1, <1>2, <1>3, <1>4 DEF Next

\* What is inductive bounds the load: an open circuit is at the threshold, and no more
\* requests are under way than there are callers.
LEMMA SparedBound == SparedInv /\ TypeOK /\ Threshold > 0 => DeadHostIsSpared
<1> SUFFICES ASSUME SparedInv, TypeOK, Threshold > 0, NEW h \in Host
             PROVE  load[h] <= Threshold + Cardinality(Caller) - 1 + unreported
    BY DEF DeadHostIsSpared
<1> DEFINE k == Cardinality(Flying(h))
           n == Cardinality(Caller)
<1>1. /\ k \in Nat /\ n \in Nat /\ k <= n /\ Threshold \in Nat /\ failures[h] \in 0..Threshold
      /\ unreported \in Nat /\ load[h] \in Nat
    BY Sizes
<1>2. load[h] <= IF ~opened[h] THEN failures[h] + unreported + k
                 ELSE IF since[h] < Cooldown THEN Threshold - 1 + n + unreported
                 ELSE unreported + k
    BY DEF Allowed, SparedInv, WithinAllowed
<1>3. opened[h] <=> failures[h] = Threshold
    BY DEF SparedInv, OpenAtThreshold
<1> HIDE DEF k, n
<1>4. load[h] <= Threshold + n - 1 + unreported
    BY <1>1, <1>2, <1>3
<1> QED BY <1>4 DEF n

\* However many callers share a host and however their requests interleave, fail, escape
\* and are cancelled, no more requests than the failures that open its circuit and those
\* under way by then are begun on it before it answers or is asked nothing new for a
\* whole cooldown (circuit.py:36-84, http.py:55-73).
THEOREM HostSpared == Spec => []DeadHostIsSpared
<1>1. CASE Threshold > 0
    <2>1. Init /\ TypeOK => SparedInv
        BY <1>1, FreshStart DEF Init, Started
    <2>2. SparedInv /\ TypeOK /\ TypeOK' /\ [Next]_vars => SparedInv'
        BY <1>1, SparedStep
    <2>3. SparedInv /\ TypeOK => DeadHostIsSpared
        BY <1>1, SparedBound
    <2> QED BY <2>1, <2>2, <2>3, ClientTypes, PTL DEF Spec
<1>2. CASE ~(Threshold > 0)
    <2>1. DeadHostIsSpared
        BY <1>2 DEF DeadHostIsSpared
    <2> QED BY <2>1, PTL
<1> QED BY <1>1, <1>2
=============================================================================
