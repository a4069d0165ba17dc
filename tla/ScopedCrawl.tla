---------------------------- MODULE ScopedCrawl ----------------------------
(***************************************************************************)
(* What Engine.run promises its caller, without the deque, the tasks or    *)
(* the counters: a crawl pursues leads, each at most once and at a depth   *)
(* it was really reported at, learns only what may be learned about what   *)
(* it has pursued, and ends either complete - every lead pursued - or      *)
(* saying that it was cut short, or with an error.                         *)
(***************************************************************************)
EXTENDS Naturals, FiniteSets

CONSTANTS
    Entity,
    Seeds,      \* where a crawl may start
    Replies,    \* Replies[s]: what the questions permitted about s may teach
    Leads,      \* Leads[s]: the entities worth pursuing when reported about s
    Depth,      \* leads reported deeper than this are not pursued
    Bound       \* how many leads a crawl may pursue

VARIABLES
    start,      \* the seed of the crawl
    pursued,    \* the leads pursued, with their depths
    learned,    \* the lead asked about and the entity learned
    outcome     \* "running", "complete", "truncated" or "aborted"

crawlVars == <<start, pursued, learned, outcome>>

Lead(e, d) == [id |-> e, depth |-> d]

Known ==
    {Lead(start, 0)} \cup
    {Lead(a[2], a[1].depth + 1) :
        a \in {b \in learned : b[1].depth < Depth /\ b[2] \in Leads[b[1].id]}}

Pursued(e) == \E p \in pursued : p.id = e

Fresh == {l \in Known : ~Pursued(l.id)}

CrawlInit ==
    /\ start \in Seeds
    /\ pursued = {}
    /\ learned = {}
    /\ outcome = "running"

Pursue ==
    /\ outcome = "running"
    /\ Cardinality(pursued) < Bound
    /\ \E l \in Fresh : pursued' = pursued \cup {l}
    /\ UNCHANGED <<start, learned, outcome>>

\* Answers still under way when the crawl is aborted may be learned afterwards.
Learn ==
    /\ outcome \in {"running", "aborted"}
    /\ \E l \in pursued : \E some \in SUBSET Replies[l.id] :
            learned' = learned \cup {<<l, e>> : e \in some}
    /\ UNCHANGED <<start, pursued, outcome>>

Complete ==
    /\ outcome = "running"
    /\ Fresh = {}
    /\ outcome' = "complete"
    /\ UNCHANGED <<start, pursued, learned>>

\* The lead at which the budget runs out may be counted although nothing is asked.
Truncate ==
    /\ outcome = "running"
    /\ \/ pursued' = pursued
       \/ \E l \in Fresh : pursued' = pursued \cup {l}
    /\ Cardinality(pursued') <= Bound
    /\ outcome' = "truncated"
    /\ UNCHANGED <<start, learned>>

\* A last answer may be learned in the step that fails.
Abort ==
    /\ outcome \in {"running", "aborted"}
    /\ \E l \in pursued : \E some \in SUBSET Replies[l.id] :
            learned' = learned \cup {<<l, e>> : e \in some}
    /\ outcome' = "aborted"
    /\ UNCHANGED <<start, pursued>>

CrawlNext == Pursue \/ Learn \/ Complete \/ Truncate \/ Abort

\* What a crawl may do, and that it ends.
CrawlSteps == CrawlInit /\ [][CrawlNext]_crawlVars

CrawlSpec == CrawlSteps /\ <>(outcome # "running")
=============================================================================
