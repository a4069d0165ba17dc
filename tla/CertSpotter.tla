---------------------------- MODULE CertSpotter ----------------------------
(***************************************************************************)
(* CertSpotterConnector.collect (src/osint/connectors/certspotter.py): the *)
(* issuances for a domain are fetched page by page, each page asked for by *)
(* the last id of the one before.  Meanwhile the source goes on logging,   *)
(* and a page may come from the disk cache (src/osint/util/cache.py),      *)
(* where every page of an earlier collection is kept for ttl_seconds, the  *)
(* empty one at the end included.                                          *)
(*                                                                         *)
(* The source numbers what it logs: an id is a position in the log.  A     *)
(* page is known by where it starts and ends.  The findings of a page are  *)
(* recorded before the next one is asked for.                              *)
(***************************************************************************)
EXTENDS Naturals, Sequences

CONSTANTS
    Issuance,   \* the items a page may hold
    Readable,   \* those that are JSON objects; the others are passed over
    WithId,     \* those of them with an id
    PageSize,   \* the most the source puts on a page
    MaxPages,   \* max_pages
    Ttl,        \* ttl_seconds of the cache
    MaxLog      \* bound: issuances in a behaviour

ASSUME PagingAssumption ==
    /\ WithId \subseteq Readable
    /\ Readable \subseteq Issuance
    /\ PageSize \in Nat \ {0}
    /\ MaxPages \in Nat \ {0}
    /\ Ttl \in Nat
    /\ MaxLog \in Nat

VARIABLES
    log,        \* environment: what the source has logged for the domain
    logAge,     \* environment: how long ago, no further than just past Ttl
    pages,      \* the pages in the cache, by the id they were asked after
    after,      \* the id to ask after; 0 on the first page
    pageIndex,  \* the pages read
    yielded,    \* the positions of the issuances whose findings were yielded
    outcome     \* "collecting", or how the collection ended

source == <<log, logAge>>
pagingVars == <<source, pages, after, pageIndex, yielded, outcome>>

\* A page in the cache: the position of its last item, and its age.
Page(to, age) == [to |-> to, age |-> age]
NoPage == Page(0, Ttl + 1)

PagingInit ==
    /\ log = <<>>
    /\ logAge = <<>>
    /\ pages = [a \in 0..MaxLog |-> NoPage]
    /\ after = 0
    /\ pageIndex = 0
    /\ yielded = {}
    /\ outcome = "collecting"

ReadableWithin(a, b) == {i \in (a + 1)..b : log[i] \in Readable}
IdsWithin(a, b) == {i \in (a + 1)..b : log[i] \in WithId}

\* Fault: pages are taken to be full.
LastIssuanceIdBySize(a, b) == a + PageSize

\* _last_issuance_id: the last item that has one.
LastIssuanceId(a, b) == CHOOSE i \in IdsWithin(a, b) : \A j \in IdsWithin(a, b) : j <= i

\* What collect does with the page from after to the position to.
Read(to) ==
    /\ pageIndex' = pageIndex + 1
    /\ yielded' = yielded \cup ReadableWithin(after, to)
    /\ IF to = after
       THEN outcome' = "exhausted" /\ UNCHANGED after
       ELSE IF IdsWithin(after, to) = {}
       THEN outcome' = "no id" /\ UNCHANGED after
       ELSE /\ after' = LastIssuanceId(after, to)
            /\ outcome' = IF pageIndex' = MaxPages THEN "page cap" ELSE "collecting"

\* Fault: what was cached is served for ever.
ServableForEver(a) == pages[a] # NoPage

Servable(a) == pages[a].age <= Ttl

FromCache ==
    /\ outcome = "collecting"
    /\ Servable(after)
    /\ Read(pages[after].to)
    /\ UNCHANGED <<source, pages>>

\* The source answers with what it has logged after that id, a page of it at most.
Fetch ==
    LET to == IF Len(log) <= after + PageSize THEN Len(log) ELSE after + PageSize
    IN /\ outcome = "collecting"
       /\ ~Servable(after)
       /\ Read(to)
       /\ pages' = [pages EXCEPT ![after] = Page(to, 0)]
       /\ UNCHANGED source

\* The request fails, or what comes back is a 404 or no list: the pages read so far
\* stand.
Incomplete ==
    /\ outcome = "collecting"
    /\ ~Servable(after)
    /\ outcome' = "incomplete"
    /\ UNCHANGED <<source, pages, after, pageIndex, yielded>>

\* The domain is asked about again: by a later run on the same cache directory, after
\* the collection has ended or its process was killed.
CollectAgain ==
    /\ after' = 0
    /\ pageIndex' = 0
    /\ yielded' = {}
    /\ outcome' = "collecting"
    /\ UNCHANGED <<source, pages>>

LogIssuance ==
    /\ Len(log) < MaxLog
    /\ \E x \in Issuance : log' = Append(log, x)
    /\ logAge' = Append(logAge, 0)
    /\ UNCHANGED <<pages, after, pageIndex, yielded, outcome>>

Older(age) == IF age <= Ttl THEN age + 1 ELSE age

Tick ==
    /\ logAge' = [i \in DOMAIN logAge |-> Older(logAge[i])]
    /\ pages' = [a \in 0..MaxLog |-> Page(pages[a].to, Older(pages[a].age))]
    /\ UNCHANGED <<log, after, pageIndex, yielded, outcome>>

Paging ==
    \/ FromCache \/ Fetch \/ Incomplete \/ CollectAgain
    \/ LogIssuance \/ Tick

PagingSpec == PagingInit /\ [][Paging]_pagingVars

-----------------------------------------------------------------------------
(* Properties. *)

PagingTypeOK ==
    /\ log \in Seq(Issuance)
    /\ Len(log) <= MaxLog
    /\ logAge \in [DOMAIN log -> 0..(Ttl + 1)]
    /\ pages \in [0..MaxLog -> [to : 0..Len(log), age : 0..(Ttl + 1)]]
    /\ after \in 0..Len(log)
    /\ pageIndex \in 0..MaxPages
    /\ yielded \subseteq DOMAIN log
    /\ outcome \in {"collecting", "exhausted", "no id", "page cap", "incomplete"}

\* However the log grows between two pages, and whichever pages come from the cache, of
\* whatever age and length: what a collection has yielded is all that could be read in
\* a prefix of the log, with nothing missing in the middle (certspotter.py:33-90).
PagesLeaveNoGap ==
    \E n \in after..Len(log) : yielded = ReadableWithin(0, n)

\* A collection that ends on an empty page has yielded everything logged longer ago
\* than the cache's time to live, even if that empty page is an old one
\* (certspotter.py:64-67, cache.py:26-69).
ExhaustedIsCurrent ==
    [][outcome = "collecting" /\ outcome' = "exhausted" =>
          \A i \in ReadableWithin(0, Len(log)) : logAge[i] > Ttl => i \in yielded']_pagingVars
=============================================================================
