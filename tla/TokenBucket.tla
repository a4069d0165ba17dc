---------------------------- MODULE TokenBucket ----------------------------
(***************************************************************************)
(* AsyncTokenBucketLimiter.acquire (src/osint/util/ratelimit.py) for one   *)
(* source key; the keys share nothing.  A token is Unit units, of which    *)
(* Rate come back in a tick of the clock.  The clock is read only when a   *)
(* caller looks into the bucket, so what came back since is kept as the    *)
(* time elapsed, which stops growing once it fills the bucket.             *)
(***************************************************************************)
EXTENDS Integers, Sequences, SequencesExt

CONSTANTS
    Caller,     \* the tasks that acquire
    Capacity,   \* tokens in a full bucket
    Unit,       \* units in a token
    Rate        \* units that come back in a tick

ASSUME BucketAssumption ==
    /\ Capacity \in Nat \ {0}
    /\ Unit \in Nat \ {0}
    /\ Rate \in Nat \ {0}

VARIABLES
    tokens,     \* _tokens, in units
    elapsed,    \* the ticks since _updated_at
    line,       \* the callers in acquire; the first one holds the lock
    sleep,      \* ticks the holder has still to sleep
    level       \* history: a meter that drains by Rate and rises by Unit with a grant

vars == <<tokens, elapsed, line, sleep, level>>

Full == Capacity * Unit
AtMost(x, bound) == IF x < bound THEN x ELSE bound

\* Fault: what came back is not capped at the capacity.
RefilledUncapped == tokens + elapsed * Rate

\* _refill
Refilled == AtMost(tokens + elapsed * Rate, Full)

\* Fault: the time of the refill is not kept.
UpdatedNever == elapsed

Updated == 0

\* _updated_at is first set after the time it is compared with was read, so that the
\* first refill may find the bucket a hair less than full.
Init ==
    /\ tokens \in {Full, Full - 1}
    /\ elapsed = 0
    /\ line = <<>>
    /\ sleep = 0
    /\ level = 0

\* Fault: a newcomer is served right after the holder.
JoinedAhead(c) == IF line = <<>> THEN <<c>> ELSE <<Head(line), c>> \o Tail(line)

\* asyncio.Lock is fair.
Joined(c) == Append(line, c)

Acquire(c) ==
    /\ c \notin Range(line)
    /\ line' = Joined(c)
    /\ UNCHANGED <<tokens, elapsed, sleep, level>>

\* The holder looks into the bucket: a token is there, it leaves with it.
Grant ==
    /\ line # <<>> /\ sleep = 0
    /\ Refilled >= Unit
    /\ tokens' = Refilled - Unit
    /\ elapsed' = Updated
    /\ line' = Tail(line)
    /\ level' = level + Unit
    /\ UNCHANGED sleep

\* Or it is not, and the holder sleeps, with the lock, until it should be.
Wait ==
    /\ line # <<>> /\ sleep = 0
    /\ Refilled < Unit
    /\ tokens' = Refilled
    /\ elapsed' = Updated
    /\ sleep' = (Unit - Refilled + Rate - 1) \div Rate
    /\ UNCHANGED <<line, level>>

\* The caller's task is cancelled while it waits for the lock, sleeps or has not run
\* yet; async with releases the lock to the caller that has waited for it longest.
Cancel(i) ==
    /\ line' = RemoveAt(line, i)
    /\ sleep' = IF i = 1 THEN 0 ELSE sleep
    /\ UNCHANGED <<tokens, elapsed, level>>

Tick ==
    /\ elapsed' = IF elapsed * Rate < Full THEN elapsed + 1 ELSE elapsed
    /\ sleep' = IF sleep > 0 THEN sleep - 1 ELSE 0
    /\ level' = IF level > Rate THEN level - Rate ELSE 0
    /\ UNCHANGED <<tokens, line>>

Next ==
    \/ \E c \in Caller : Acquire(c)
    \/ \E i \in 1..Len(line) : Cancel(i)
    \/ Grant \/ Wait \/ Tick

Spec == Init /\ [][Next]_vars

\* The event loop runs the holder when it can run, and time passes.
Fairness == WF_vars(Grant) /\ WF_vars(Wait) /\ WF_vars(Tick)

FairSpec == Spec /\ Fairness

-----------------------------------------------------------------------------
(* Properties. *)

TypeOK ==
    /\ tokens \in 0..Full
    /\ elapsed \in Nat
    /\ line \in Seq(Caller)
    /\ sleep \in Nat
    /\ level \in Nat

\* Over any stretch of time a source is asked at most capacity times and once more for
\* every 1/rate seconds of it, although the bucket is refilled only when someone looks
\* (ratelimit.py:20-40).  The meter drains all the time: it is above Full only if in
\* some stretch more was granted than came back plus the capacity.
RateRespected == level <= Full

\* Nobody is skipped over, or waits for a lock a cancelled caller has kept: whoever
\* waits gets a token or gives up (ratelimit.py:20-30).
EveryoneServed == \A c \in Caller : c \in Range(line) ~> c \notin Range(line)
=============================================================================
