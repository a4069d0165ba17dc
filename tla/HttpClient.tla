----------------------------- MODULE HttpClient -----------------------------
(***************************************************************************)
(* RateLimitedAsyncClient.request (src/osint/util/http.py) as the          *)
(* connectors' tasks call it concurrently: the disk cache, the per-host    *)
(* circuit breaker and the retry policy.  Every request of a connector is  *)
(* a GET.  All the code between two awaits is one step.                    *)
(*                                                                         *)
(* Time is kept as ages that stop growing where the code stops telling     *)
(* them apart: the time since a circuit opened at its cooldown, the age of *)
(* a cache entry just past its time to live.  A caller always asks for the *)
(* same URL.  The wait for the rate limiter is part of a request under     *)
(* way; a crash kills the process and a new one starts on the same cache   *)
(* directory.                                                              *)
(***************************************************************************)
EXTENDS Naturals, FiniteSets

CONSTANTS
    Host, Url, Caller,
    UrlOf,         \* [Caller -> Url]
    HostOf,        \* [Url -> Host]
    Caching,       \* whether the run has a disk cache
    Threshold,     \* failure_threshold; 0 disables the breaker
    Cooldown,      \* cooldown_seconds
    Ttl,           \* ttl_seconds
    MaxAttempts,   \* [Host -> Nat]: the attempts _policy_for allows
    Garbled,       \* the hosts whose Retry-After header may be unparsable
    MaxUnreported  \* bound: requests in a behaviour whose end the breaker does not see

ASSUME ClientAssumption ==
    /\ UrlOf \in [Caller -> Url]
    /\ HostOf \in [Url -> Host]
    /\ Caching \in BOOLEAN
    /\ Threshold \in Nat
    /\ Cooldown \in Nat \ {0}
    /\ Ttl \in Nat
    /\ MaxAttempts \in [Host -> Nat \ {0}]
    /\ Garbled \subseteq Host
    /\ MaxUnreported \in Nat
    /\ IsFiniteSet(Caller)

VARIABLES
    failures,   \* _HostState.failures, no further than Threshold
    opened,     \* whether _HostState.opened_at is set
    since,      \* the time since then, no further than Cooldown
    halfOpen,   \* _HostState.half_open
    cache,      \* the file of each URL in the cache directory
    call,       \* the request each caller is making, or its last outcome
    up,         \* environment: the hosts that answer
    unreported, \* bound: requests so far that were cancelled or escaped
    last,       \* history: the last definitive answer for each URL
    quiet,      \* history: the time since a request was last begun on the host, no
                \* further than Cooldown
    load        \* history: requests begun since the host last answered or was quiet for
                \* as long as the cooldown

breaker == <<failures, opened, since, halfOpen>>
environment == <<up, unreported>>
demand == <<quiet, load>>
vars == <<breaker, cache, call, environment, last, demand>>

HostFor(c) == HostOf[UrlOf[c]]

Entry(kind, age) == [kind |-> kind, age |-> age]
Missing == Entry("none", 0)

\* A request returns a response ("answered"), or it returns a retryable one or raises
\* an HTTPError ("failed"), or another exception leaves it ("escaped").
Idle(outcome) == [phase |-> "idle", attempt |-> 0, trial |-> FALSE, outcome |-> outcome]
InFlight(c) == call[c].phase \in {"sending", "backoff"}

\* 2xx ("ok") and 404 ("missing"); "denied" is any other answer that is not worth a
\* retry, such as 403.
Definitive == {"ok", "missing"}

\* Fault: whatever is not worth a retry is cached.
IsCacheableUnlessRetryable(kind) == kind \in Definitive \cup {"denied"}

IsCacheable(kind) == kind \in Definitive

\* The most load is counted: one more than the code allows, so that an excess shows.
LoadBound == Threshold + Cardinality(Caller) + MaxUnreported

-----------------------------------------------------------------------------
(* DiskHttpCache *)

\* get finds an entry that is neither stale nor torn.
Servable(u) == Caching /\ cache[u].kind \in {"ok", "missing", "denied"} /\ cache[u].age <= Ttl

\* get unlinks a file it cannot read; a stale one stays.
AfterMiss(u) ==
    IF Caching /\ cache[u].kind = "torn" THEN [cache EXCEPT ![u] = Missing] ELSE cache

AfterSet(u, kind) ==
    IF Caching /\ IsCacheable(kind) THEN [cache EXCEPT ![u] = Entry(kind, 0)] ELSE cache

-----------------------------------------------------------------------------
(* HostCircuitBreaker *)

\* Fault: a trial nobody reported on blocks the ones after it.
RefusesWhileHalfOpen(h) == opened[h] /\ (since[h] < Cooldown \/ halfOpen[h])

Refuses(h) == opened[h] /\ since[h] < Cooldown

BeforeRequest(h) ==
    /\ ~Refuses(h)
    /\ halfOpen' = [halfOpen EXCEPT ![h] = @ \/ opened[h]]
    /\ UNCHANGED <<failures, opened, since>>

RecordSuccess(h) ==
    /\ failures' = [failures EXCEPT ![h] = 0]
    /\ opened' = [opened EXCEPT ![h] = FALSE]
    /\ since' = [since EXCEPT ![h] = 0]
    /\ halfOpen' = [halfOpen EXCEPT ![h] = FALSE]

\* Fault: the circuit opens only when the count has gone past the threshold.
RecordFailureLate(h) ==
    IF Threshold = 0
    THEN UNCHANGED breaker
    ELSE /\ failures' = [failures EXCEPT ![h] = IF @ < Threshold THEN @ + 1 ELSE @]
         /\ halfOpen' = [halfOpen EXCEPT ![h] = FALSE]
         /\ IF failures[h] >= Threshold
            THEN opened' = [opened EXCEPT ![h] = TRUE] /\ since' = [since EXCEPT ![h] = 0]
            ELSE UNCHANGED <<opened, since>>

RecordFailure(h) ==
    IF Threshold = 0
    THEN UNCHANGED breaker
    ELSE LET count == IF failures[h] < Threshold THEN failures[h] + 1 ELSE Threshold
         IN /\ failures' = [failures EXCEPT ![h] = count]
            /\ halfOpen' = [halfOpen EXCEPT ![h] = FALSE]
            /\ IF count = Threshold
               THEN opened' = [opened EXCEPT ![h] = TRUE] /\ since' = [since EXCEPT ![h] = 0]
               ELSE UNCHANGED <<opened, since>>

-----------------------------------------------------------------------------
(* request *)

Init ==
    /\ failures = [h \in Host |-> 0]
    /\ opened = [h \in Host |-> FALSE]
    /\ since = [h \in Host |-> 0]
    /\ halfOpen = [h \in Host |-> FALSE]
    /\ cache = [u \in Url |-> Missing]
    /\ call = [c \in Caller |-> Idle("none")]
    /\ up = Host
    /\ unreported = 0
    /\ last = [u \in Url |-> Missing]
    /\ quiet = [h \in Host |-> Cooldown]
    /\ load = [h \in Host |-> 0]

\* One more request for the host, counted no further than the bound.
Asked(h) ==
    /\ quiet' = [quiet EXCEPT ![h] = 0]
    /\ load' = [load EXCEPT ![h] = IF @ < LoadBound THEN @ + 1 ELSE @]

FromCache(c) ==
    /\ ~InFlight(c)
    /\ Servable(UrlOf[c])
    /\ call' = [call EXCEPT ![c] = Idle("answered")]
    /\ UNCHANGED <<breaker, cache, environment, last, demand>>

\* CircuitOpenError: raised before the try, so it is no failure of the host.
FailFast(c) ==
    /\ ~InFlight(c)
    /\ ~Servable(UrlOf[c])
    /\ Refuses(HostFor(c))
    /\ cache' = AfterMiss(UrlOf[c])
    /\ call' = [call EXCEPT ![c] = Idle("failed")]
    /\ UNCHANGED <<breaker, environment, last, demand>>

Begin(c) ==
    /\ ~InFlight(c)
    /\ ~Servable(UrlOf[c])
    /\ BeforeRequest(HostFor(c))
    /\ cache' = AfterMiss(UrlOf[c])
    /\ call' = [call EXCEPT ![c] =
            [phase |-> "sending", attempt |-> 1, trial |-> opened[HostFor(c)], outcome |-> "none"]]
    /\ Asked(HostFor(c))
    /\ UNCHANGED <<environment, last>>

\* A response that is not worth a retry ends the request and is offered to the cache.
Succeed(c, kind) ==
    /\ call[c].phase = "sending"
    /\ HostFor(c) \in up
    /\ RecordSuccess(HostFor(c))
    /\ cache' = AfterSet(UrlOf[c], kind)
    /\ call' = [call EXCEPT ![c] = Idle("answered")]
    /\ last' = IF kind \in Definitive THEN [last EXCEPT ![UrlOf[c]] = Entry(kind, 0)] ELSE last
    /\ load' = [load EXCEPT ![HostFor(c)] = 0]
    /\ UNCHANGED <<environment, quiet>>

\* Fault: a request is retried for as long as its host fails.
NeverLastAttempt(c) == FALSE

LastAttempt(c) == call[c].attempt = MaxAttempts[HostFor(c)]

\* A retryable status, a timeout or a transport error.
Retry(c) ==
    /\ call[c].phase = "sending"
    /\ HostFor(c) \notin up
    /\ ~LastAttempt(c)
    /\ call' = [call EXCEPT ![c].phase = "backoff"]
    /\ UNCHANGED <<breaker, cache, environment, last, demand>>

\* The same on the last attempt: the response is returned or the error raised, and
\* either is one failure of the host.
GiveUp(c) ==
    /\ call[c].phase = "sending"
    /\ HostFor(c) \notin up
    /\ LastAttempt(c)
    /\ RecordFailure(HostFor(c))
    /\ call' = [call EXCEPT ![c] = Idle("failed")]
    /\ UNCHANGED <<cache, environment, last, demand>>

\* An HTTPError the policy does not retry, such as too many redirects.
GiveUpAtOnce(c) ==
    /\ call[c].phase = "sending"
    /\ HostFor(c) \notin up
    /\ RecordFailure(HostFor(c))
    /\ call' = [call EXCEPT ![c] = Idle("failed")]
    /\ UNCHANGED <<cache, environment, last, demand>>

\* The breaker is told nothing of how the request ended.
Unreported == unreported < MaxUnreported /\ unreported' = unreported + 1

\* A 429 or 503 whose Retry-After is neither a number nor a date: the ValueError is
\* no HTTPError, so it leaves the request without a retry and past the breaker.
Escape(c) ==
    /\ call[c].phase = "sending"
    /\ HostFor(c) \in Garbled \ up
    /\ ~LastAttempt(c)
    /\ Unreported
    /\ call' = [call EXCEPT ![c] = Idle("escaped")]
    /\ UNCHANGED <<breaker, cache, up, last, demand>>

\* Fault: the attempt is not counted.
ResumeUncounted(c) ==
    /\ call[c].phase = "backoff"
    /\ call' = [call EXCEPT ![c].phase = "sending"]
    /\ UNCHANGED <<breaker, cache, environment, last, demand>>

Resume(c) ==
    /\ call[c].phase = "backoff"
    /\ call' = [call EXCEPT ![c].phase = "sending", ![c].attempt = @ + 1]
    /\ UNCHANGED <<breaker, cache, environment, last, demand>>

\* The caller's task is cancelled: CancelledError passes the breaker by, and nobody is
\* left to see an outcome.
Cancel(c) ==
    /\ InFlight(c)
    /\ Unreported
    /\ call' = [call EXCEPT ![c] = Idle("none")]
    /\ UNCHANGED <<breaker, cache, up, last, demand>>

CallStep(c) ==
    \/ Retry(c) \/ GiveUp(c) \/ GiveUpAtOnce(c) \/ Escape(c) \/ Resume(c)
    \/ \E kind \in {"ok", "missing", "denied"} : Succeed(c, kind)

Ask(c) == FromCache(c) \/ FailFast(c) \/ Begin(c)

-----------------------------------------------------------------------------
(* The environment. *)

Older(e) == IF e.kind = "none" \/ e.age > Ttl THEN e ELSE Entry(e.kind, e.age + 1)

Tick ==
    /\ since' = [h \in Host |-> IF opened[h] /\ since[h] < Cooldown THEN since[h] + 1 ELSE since[h]]
    /\ cache' = [u \in Url |-> Older(cache[u])]
    /\ last' = [u \in Url |-> Older(last[u])]
    /\ quiet' = [h \in Host |-> IF quiet[h] < Cooldown THEN quiet[h] + 1 ELSE Cooldown]
    /\ load' = [h \in Host |-> IF quiet[h] >= Cooldown - 1 THEN 0 ELSE load[h]]
    /\ UNCHANGED <<failures, opened, halfOpen, call, environment>>

HostFails == \E h \in up :
    /\ up' = up \ {h}
    /\ UNCHANGED <<breaker, cache, call, unreported, last, demand>>

HostRecovers == \E h \in Host \ up :
    /\ up' = up \cup {h}
    /\ UNCHANGED <<breaker, cache, call, unreported, last, demand>>

\* The process is killed and started again.  write_text is no atomic replacement: a
\* file that was being written when an answer had come is left torn.
Crash ==
    /\ \E torn \in SUBSET {UrlOf[c] : c \in {k \in Caller : call[k].phase = "sending"}} :
          /\ torn # {} => Caching
          /\ Cardinality(torn) <= 1
          /\ cache' = [u \in Url |-> IF u \in torn THEN Entry("torn", 0) ELSE cache[u]]
    /\ failures' = [h \in Host |-> 0]
    /\ opened' = [h \in Host |-> FALSE]
    /\ since' = [h \in Host |-> 0]
    /\ halfOpen' = [h \in Host |-> FALSE]
    /\ call' = [c \in Caller |-> Idle("none")]
    /\ quiet' = [h \in Host |-> Cooldown]
    /\ load' = [h \in Host |-> 0]
    /\ UNCHANGED <<environment, last>>

Next ==
    \/ \E c \in Caller : Ask(c) \/ CallStep(c) \/ Cancel(c)
    \/ Tick \/ HostFails \/ HostRecovers \/ Crash

Spec == Init /\ [][Next]_vars

\* Time passes; an attempt ends, for httpx gives it a timeout, and so does a backoff.
Fairness ==
    /\ WF_vars(Tick)
    /\ \A c \in Caller : WF_vars(CallStep(c))

FairSpec == Spec /\ Fairness

-----------------------------------------------------------------------------
(* Properties. *)

TypeOK ==
    /\ failures \in [Host -> 0..Threshold]
    /\ opened \in [Host -> BOOLEAN]
    /\ since \in [Host -> 0..Cooldown]
    /\ halfOpen \in [Host -> BOOLEAN]
    /\ cache \in [Url -> [kind : {"none", "torn"} \cup Definitive, age : 0..(Ttl + 1)]]
    /\ call \in [Caller ->
          [phase : {"idle", "sending", "backoff"},
           attempt : Nat,
           trial : BOOLEAN,
           outcome : {"none", "answered", "failed", "escaped"}]]
    /\ \A c \in Caller : call[c].attempt \in 0..MaxAttempts[HostFor(c)]
    /\ up \subseteq Host
    /\ unreported \in 0..MaxUnreported
    /\ last \in [Url -> [kind : {"none"} \cup Definitive, age : 0..(Ttl + 1)]]
    /\ quiet \in [Host -> 0..Cooldown]
    /\ load \in [Host -> Nat]

\* What get would serve is the last definitive answer the host gave for that URL: never a
\* refusal or a failure, never an answer that a later one of a concurrent request has
\* replaced, never half a file (cache.py:26-86, http.py:48-77).
ServesLastDefinitive ==
    \A u \in Url : Servable(u) => last[u] = cache[u]

\* However many connectors share a host and however its requests end, at most
\* (threshold + callers - 1) requests are begun on it, those that were cancelled or
\* escaped aside, before it answers or is asked nothing new for a whole cooldown: the
\* failures that open the circuit, and the requests the other callers had under way by
\* then.  Those still make the attempts they have left, which the breaker does not see,
\* so it is new requests the host is spared, not every attempt (circuit.py:36-84,
\* http.py:55-73).
DeadHostIsSpared ==
    Threshold > 0 =>
        \A h \in Host : load[h] <= Threshold + Cardinality(Caller) - 1 + unreported

\* A request ends, whatever the host does: attempts are bounded, and time spent in a
\* backoff is too (retry.py:45-83).
EveryRequestEnds == \A c \in Caller : InFlight(c) ~> ~InFlight(c)

CallersKeepAsking == \A c \in Caller : WF_vars(Ask(c))

\* A host that has come back is asked again: as long as callers keep asking, its
\* circuit closes, even if an earlier trial was cancelled before it reported
\* (circuit.py:36-67).
Recovers ==
    CallersKeepAsking => \A h \in Host : <>[](h \in up) => <>[](~opened[h])

\* DESIGN.md:234 "After a cooldown, the breaker allows one half-open trial".
OneHalfOpenTrial ==
    \A h \in Host :
        Cardinality({c \in Caller : HostFor(c) = h /\ InFlight(c) /\ call[c].trial}) <= 1

\* DESIGN.md:232 "The retry policy retries 429, 500, 502, 503, 504": a request whose
\* every answer was retryable has used its attempts.
RetryableIsRetried == \A c \in Caller : call[c].outcome # "escaped"
=============================================================================
