----------------------------- MODULE PivotCrawl -----------------------------
(***************************************************************************)
(* The engine implements the crawl: its deque, its tasks and its counters  *)
(* are hidden, the seeds it has processed are the leads pursued, and the   *)
(* audit log tells a complete crawl from a truncated one.                  *)
(***************************************************************************)
EXTENDS PivotEngine

Outcome ==
    CASE status = "raised" -> "aborted"
      [] status = "done" ->
            IF \E a \in audit : a.event = "budget_stop" THEN "truncated" ELSE "complete"
      [] OTHER -> "running"

Crawl == INSTANCE ScopedCrawl WITH
    start <- root,
    pursued <- reached,
    learned <- answers,
    outcome <- Outcome,
    Replies <- [s \in Entity |-> UNION {World[c][s] : c \in Permitted(s)}],
    Leads <- [s \in Entity |-> {e \in Entity : CanEnqueue(e, s)}],
    Depth <- MaxDepth,
    Bound <- MaxSeeds

\* Every behaviour of the engine is one of the crawl: no lead is pursued twice, off
\* the policy or at a depth it was not reported at; nothing is learned that the gate
\* forbids asking; a run that ends without a budget stop has pursued every lead; and
\* it does end (engine.py:60-239).
ImplementsCrawl == Crawl!CrawlSpec
=============================================================================
