--------------------------- MODULE UsernameChecks ---------------------------
(***************************************************************************)
(* UsernamesConnector.collect (src/osint/connectors/usernames.py): one     *)
(* task per site of the dataset, at most MaxConcurrency of them asking at  *)
(* a time, whose findings are yielded in the order the tasks finish, while *)
(* the engine that consumes them may fail or be cancelled.                 *)
(*                                                                         *)
(* A response is its status code and whether the two marker strings of the *)
(* site are in its text.  The account sought is the same throughout.       *)
(***************************************************************************)
EXTENDS Naturals, Sequences, FiniteSets, Selection

CONSTANTS
    Dataset,         \* the entries of the file: a sequence of records
    Responses,       \* what a site may answer
    MaxConcurrency,  \* max(1, max_concurrency)
    MaxSites,        \* max_sites
    Junk, None

ASSUME UsernameAssumption ==
    /\ MaxConcurrency \in Nat \ {0} /\ MaxSites \in Nat
    /\ IsList(Dataset)

\* _site_from_raw: what asks by POST, has no place for the account or lacks a code or a
\* string is left out.
Usable(raw) ==
    /\ raw.post_body = None
    /\ raw.account
    /\ raw.e_code # Junk /\ raw.m_code # Junk
    /\ raw.strings

Sites ==
    LET loaded == Selected(Dataset, {i \in DOMAIN Dataset : Usable(Dataset[i])})
    IN SubSeq(loaded, 1, IF MaxSites < Len(loaded) THEN MaxSites ELSE Len(loaded))

Check == DOMAIN Sites

VARIABLES
    check,      \* the task of each site
    response,   \* history: what each site answered, None without an answer
    order,      \* the tasks that have finished, in that order
    consumed,   \* how many of them as_completed has handed over
    reported,   \* the sites whose findings were yielded
    generator   \* "open", or "abandoned" at a yield, or how the generator ended

vars == <<check, response, order, consumed, reported, generator>>

Pending == {"queued", "asking"}

-----------------------------------------------------------------------------
(* _status_for_response. *)

\* Fault: the marker of an existing account is looked for first.
StatusExpectedFirst(r, site) ==
    CASE r.code \in {401, 403, 429, 503} -> "indeterminate"
      [] r.code = site.e_code /\ r.expected -> "exists"
      [] OTHER -> "not_found"

Status(r, site) ==
    CASE r.code \in {401, 403, 429, 503} -> "indeterminate"
      [] r.code \notin {401, 403, 429, 503} /\ (r.code = site.m_code \/ r.missing) -> "not_found"
      [] OTHER -> IF r.code = site.e_code /\ r.expected THEN "exists" ELSE "indeterminate"

-----------------------------------------------------------------------------
Init ==
    /\ check = [i \in Check |-> "queued"]
    /\ response = [i \in Check |-> None]
    /\ order = <<>>
    /\ consumed = 0
    /\ reported = <<>>
    /\ generator = "open"

\* Fault: a check that ends in an error keeps its permit.
PermitsTakenAfterError == {i \in Check : check[i] \in {"asking", "failed", "gave up"}}

PermitsTaken == {i \in Check : check[i] = "asking"}

\* The semaphore serves the tasks in the order in which they were created.
Start(i) ==
    /\ check[i] = "queued"
    /\ \A j \in Check : j < i => check[j] # "queued"
    /\ Cardinality(PermitsTaken) < MaxConcurrency
    /\ check' = [check EXCEPT ![i] = "asking"]
    /\ UNCHANGED <<response, order, consumed, reported, generator>>

Finish(i, how) ==
    /\ check[i] = "asking"
    /\ check' = [check EXCEPT ![i] = how]
    /\ order' = Append(order, i)
    /\ UNCHANGED <<consumed, reported, generator>>

Respond(i, r) ==
    /\ Finish(i, IF Status(r, Sites[i]) = "exists" THEN "hit" ELSE "no hit")
    /\ response' = [response EXCEPT ![i] = r]

\* httpx.HTTPError, ValueError and TypeError are a site that told nothing.
GiveUp(i) == Finish(i, "gave up") /\ UNCHANGED response

\* Any other exception, such as an OSError of the response cache, is the task's result.
Fail(i) == Finish(i, "failed") /\ UNCHANGED response

\* Fault: the tasks still waiting for a permit are forgotten.
CancelledAsking == [i \in Check |-> IF check[i] = "asking" THEN "cancelled" ELSE check[i]]

\* The finally clause: a cancelled task drops its request, or never makes it.
Cancelled == [i \in Check |-> IF check[i] \in Pending THEN "cancelled" ELSE check[i]]

Leave(how) ==
    /\ generator' = how
    /\ check' = Cancelled
    /\ UNCHANGED <<response, order>>

NextDone == order[consumed + 1]

\* Fault: what comes after a check that told nothing is not looked at any more.
HandOverHits ==
    consumed' = IF check[NextDone] = "hit" THEN consumed + 1 ELSE Len(order)

\* Fault: the tasks are taken in batches.
HandOverBatch == consumed' = consumed + MaxConcurrency

HandOver == consumed' = consumed + 1

\* The consumer stores a finding without awaiting and comes back for the next one.
Consume ==
    /\ generator = "open"
    /\ consumed < Len(order)
    /\ check[NextDone] # "failed"
    /\ HandOver
    /\ reported' = IF check[NextDone] = "hit" THEN Append(reported, NextDone) ELSE reported
    /\ UNCHANGED <<check, response, order, generator>>

Raise ==
    /\ generator = "open"
    /\ consumed < Len(order)
    /\ check[NextDone] = "failed"
    /\ HandOver
    /\ Leave("raised")
    /\ UNCHANGED reported

End ==
    /\ generator = "open"
    /\ consumed = Len(Sites)
    /\ Leave("ended")
    /\ UNCHANGED <<consumed, reported>>

\* The store raises on a finding: the generator stays suspended at its yield, and the
\* checks go on.
Abandon ==
    /\ generator = "open"
    /\ consumed < Len(order)
    /\ check[NextDone] = "hit"
    /\ HandOver
    /\ reported' = Append(reported, NextDone)
    /\ generator' = "abandoned"
    /\ UNCHANGED <<check, response, order>>

\* Another connector has raised, or this one's consumer has: asyncio.run, on its way
\* out, cancels every task left and closes the generator.
Shutdown ==
    /\ generator \in {"open", "abandoned"}
    /\ Leave("cancelled")
    /\ UNCHANGED <<consumed, reported>>

Ended ==
    /\ generator \in {"ended", "raised", "cancelled"}
    /\ \A i \in Check : check[i] \notin Pending
    /\ UNCHANGED vars

CheckStep(i) == Start(i) \/ (\E r \in Responses : Respond(i, r)) \/ GiveUp(i) \/ Fail(i)

GeneratorStep == Consume \/ Raise \/ End \/ Abandon

Next == (\E i \in Check : CheckStep(i)) \/ GeneratorStep \/ Shutdown \/ Ended

Spec == Init /\ [][Next]_vars

\* The event loop runs a task that can run, and a request ends, by its timeout at the
\* latest; a run whose consumer has failed is on its way out.
Fairness ==
    /\ \A i \in Check : WF_vars(CheckStep(i))
    /\ WF_vars(GeneratorStep)
    /\ WF_vars(generator = "abandoned" /\ Shutdown)

FairSpec == Spec /\ Fairness
-----------------------------------------------------------------------------
(* Properties. *)

CheckState == Pending \cup {"hit", "no hit", "gave up", "failed", "cancelled"}

TypeOK ==
    /\ check \in [Check -> CheckState]
    /\ response \in [Check -> Responses \cup {None}]
    /\ order \in Seq(Check)
    /\ consumed \in 0..Len(order)
    /\ reported \in Seq(Check)
    /\ generator \in {"open", "abandoned", "ended", "raised", "cancelled"}

\* Once the generator has ended, in whichever way, no check is asking a site and none
\* will, the ones still waiting for a permit included (usernames.py:74-82).
NothingOutlivesCollection ==
    generator \in {"ended", "raised", "cancelled"} => \A i \in Check : check[i] \notin Pending

Hits(tasks) == Selected(tasks, {k \in DOMAIN tasks : check[tasks[k]] = "hit"})

\* What is yielded are the hits in the order in which the sites answered, each once; a
\* collection that ends has handed over every site, and one that raises, every site
\* that finished before the one that failed (usernames.py:74-82).
ReportsFollowAnswers ==
    /\ reported = Hits(SubSeq(order, 1, consumed))
    /\ generator = "ended" => {order[k] : k \in 1..consumed} = Check
    /\ generator = "raised" =>
        \A k \in 1..Len(order) : check[order[k]] = "failed" => k >= consumed

\* A site that refuses to answer, or answers as it does for an account that does not
\* exist, is never reported, whatever else is in its page (usernames.py:238-248).
NoFalseHit ==
    \A k \in DOMAIN reported :
        LET site == Sites[reported[k]]
            r == response[reported[k]]
        IN r.code \notin {401, 403, 429, 503} /\ r.code # site.m_code /\ ~r.missing

\* At most max_concurrency sites are asked at a time, and all are waited for: however
\* the checks end, their permits come back and every check ends (usernames.py:69-82,
\* 108-118).
CollectionEnds ==
    /\ [](Cardinality({i \in Check : check[i] = "asking"}) <= MaxConcurrency)
    /\ <>[](generator # "open" /\ \A i \in Check : check[i] \notin Pending)

\* usernames.py:39 "Public account-existence checks by username (WMN dataset)": a site
\* that answers as the dataset says it does for an existing account is reported by a
\* collection that ends.
ExistingAccountsFound ==
    generator = "ended" =>
        \A i \in Check :
            LET r == response[i]
            IN r # None /\ r.code = Sites[i].e_code /\ r.expected /\ ~r.missing
               => i \in {reported[k] : k \in DOMAIN reported}
=============================================================================
