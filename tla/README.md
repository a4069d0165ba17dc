# A formal model of osint-engine

osint-engine takes a seed (a domain, an address, a username), asks public sources about
it through *connectors*, merges what they report into an entity graph, pivots on what it
has found within a depth and two budgets, and lets an agent describe the graph. These
modules model the parts of it whose correctness depends on order, concurrency, failure
and limits. They were written from the code under `src/src/osint` (paths below are
relative to it); `DESIGN.md` is quoted only where a run compares the code with it.

    tlc -workers 2 -config Pivot.cfg MCPivotEngine.tla            # a run
    tlapm PivotEngineProofs.tla                                   # the proofs

`PROJECT.json` lists the components, the runs, for each property a mutation of the code
that breaks it, the source lines of every definition, the hazards and the theorems.

## The system

| component | state | operations | interacts with |
|---|---|---|---|
| frontier loop `orchestrator/engine.py` | deque of (seed, depth), visited ids, two counters, audit log | `run`, its permission gate, `_collect_into_store` (one task per connector under `asyncio.gather`) | calls connectors, upserts into the store, owns the audit log |
| pivot policy, authorization `orchestrator/pivot.py`, `authorization.py` | none | is an entity worth pursuing; is it covered | read by the loop |
| connectors `connectors/*.py` | none between calls | `collect`, an async generator of findings | ask sources through `ctx.http`, except dns and asn |
| HTTP client `util/http.py` | none of its own | `request` | cache, breaker, then retry policy around limiter and httpx |
| circuit breaker `util/circuit.py` | failures, opened_at, half_open of each host | `before_request`, `record_success`, `record_failure` | called before and after the await |
| retry policy `util/retry.py` | attempt index | `run`, `_delay` | wraps each request |
| cache `util/cache.py` | one file per URL | `get`, `set` | survives the process |
| limiter `util/ratelimit.py` | tokens, time of refill, lock of each host | `acquire` | awaited before every attempt |
| merge `store/merge.py` | none | confidences, noisy-or, provenance, attributes with conflicts | used by both stores |
| sources `connectors/crtsh.py`, `certspotter.py`, `wayback.py`, `dns.py`, `asn.py`, `internetdb.py`, `cvedb.py`, labels in `domains.py` | the id to page after, while a collection lasts | `collect`: a question, pages, or lookups in turn, and the findings made of them | ask through the client and its cache, or resolve in a thread |
| stores `store/memory.py`, `neo4j_store.py` | records of entities and relationships | the two upserts | written by the tasks; Neo4j outlives the process |
| username checks `connectors/usernames.py` | a task per site, a semaphore | `collect`, `_check_site` | asks through the client; consumed by a task of the gather |
| agent `agent/*.py` | messages | tool loop, coercion and validation of what a language model answers | reads a finished store, calls a provider |
| command line `cli.py` | none | builds engine and store, runs, runs the agent | everything |

What is hard in it: the tasks of a gather interleave and one may raise while the others
live on; leads come back duplicated, at several depths, and are re-checked after whole
gathers; two budgets stop the loop at different places; requests outlive the breaker's
decision that let them through; caches and graphs survive kills in mid-write; the order
of reports decides who is first in a merge; a generator may be left while dozens of its
tasks are still asking; a log is paged while it grows and old pages of it are served from
the cache; any part of a payload may be garbled; a language model may answer anything.
What makes each part correct:

- the loop stays in scope, in budget and in depth, dispatches nothing twice, loses no
  lead silently, and its result does not depend on the order of the answers;
- the client ends every request, begins only so many on a dead host, gets back to a host that has
  recovered, and never serves what is not the last good answer;
- the limiter keeps the rate over *every* stretch of time and serves everybody in line;
- a record is what its reports say together, whatever their order and however often they
  are repeated; nothing a source said disappears;
- a source's findings say what its answers say, a garbled part costs only itself, and a
  paged collection has no gap;
- a username collection yields what was found, in order, and leaves nothing running;
- the agent's report is grounded in the graph, accounts for all the model said, and the
  conversation with the model keeps the APIs' protocol.

## Modules

| module | what it models |
|---|---|
| `ScopedCrawl` | abstract: what a run promises. Leads are pursued once, at a depth they were reported at; only permitted questions teach something; the crawl ends complete, truncated (and says so) or aborted |
| `PivotEngine` | `Engine.run` with gate, pivot policy, deque, budgets, audit log and collection tasks |
| `PivotCrawl` | the refinement mapping from `PivotEngine` to `ScopedCrawl` |
| `PivotEngineProofs` | theorems about `PivotEngine` |
| `HttpClient` | `request` for concurrent callers: cache, breaker, retries, cancellation, outages, kills |
| `HttpClientProofs` | theorems about `HttpClient` |
| `TokenBucket`, `TokenBucketProofs` | the limiter for one source key, and theorems about it |
| `StoreMerge` | the pure merge functions and the reference `Union` they are compared with |
| `EntityStore` | abstract: upserts that take place at once, by concurrent tasks over repeated runs |
| `Stores` | the memory store and Neo4j's two-statement transactions on a graph that outlives the process; both refine `EntityStore` |
| `StoresProofs` | theorems about both stores, the merge and its arithmetic |
| `CertSpotter` | paging through a growing log, partly from the cache |
| `SourceFindings` | the finding each connector makes of an answer (operators only) |
| `Sources`, `SourcesProofs` | a collection by any of the seven sources, and theorems about it, its findings and the paging |
| `UsernameChecks`, `UsernameChecksProofs` | the concurrent site checks of a username and the generator around them, and theorems |
| `AgentLoop`, `AgentLoopProofs` | tool loop, provider clients, coercion, graph tools and validator, and theorems |
| `Selection` | a list comprehension with a condition, in a form the provers can be given |
| `SequenceLemmas` | induction over numbers and over finite sets, and facts about lists; the other proof modules use it |
| `MC*` | small instances for TLC |

Definitions whose comment begins with "Fault:" are deliberate mutations of the definition
that follows them. No specification uses them; they show that a property can fail.

### PivotEngine

An entity is its id. `World[c][s]` is what connector `c` may report about `s`; an answer
is any subset of it, the empty one being a source that failed and whose connector gave up
quietly, so partial and failed answers need no action of their own. `Dispatch` is an
iteration of the loop up to `gather` (pop, visit, gate, refusals, budget), `Gathered` the
rest of it (count, filter, enqueue); between the two each permitted connector runs `Ask`,
then any number of `Page`s if it is paged, then `Answer` or `Raise`. `SkipVisited`,
`StopOnCalls` and `LeaveLoop` are the other ways through the loop. The deque is a
sequence: addresses are pushed on the left one by one, hence in descending order, names
appended on the right, in the stable order of ids, duplicates included, as in the code;
only what one connector reports twice is queued once, where the code queues and then skips it.
The `status` is "raised" once an exception has left `run`; the tasks `gather` leaves
behind then go on until `Cancel`, which is `asyncio.run` closing its loop. The audit log
is a set: no property needs its timestamps. `asked`, `dispatched`, `reached` and
`answers` are history variables.

An authorization is its targets. `TargetCoversSeed` is `covers` for one of them: a domain
is compared with the targets that are no networks, an address with those that are, and
nothing else is ever covered. `Spans[t]` stands for the arithmetic, the addresses in a
network or the names at or under a name. Abstracted besides: `Under` for "is, or is a
dotted child of" (reflexive and transitive, `UnderAssumption`), `Rank` for the order of
ids.

### HttpClient

All the code between two awaits is one action: `FromCache`, `FailFast` and `Begin` run
from the call of `request` to the first await, `Succeed`, `Retry`, `GiveUp`,
`GiveUpAtOnce` and `Escape` from the end of an attempt to the next await or the end of
the request. `Escape` is the `ValueError` of an unparsable Retry-After. Time is kept as
ages that stop growing where the code no longer tells them apart (`since` at the
cooldown, cache ages just past the time to live), which makes the state finite without a
bound on time. `Crash` kills the process: what is in memory is lost, the cache
directory stays, and one file that was being written may be torn. `load` and `quiet` are
history: the requests begun on a host since it last answered or was asked nothing new for
a whole cooldown, and the time since the last one was begun. They are kept apart from the
breaker's own clock, `since`, which late failures restart. Only the beginning of a request
counts: the retries of one under way are made without asking the breaker, so a host may
well be sent some of them while its circuit is open.

### TokenBucket

A token is `Unit` units of which `Rate` come back in a tick, so fractions of a token
exist. `elapsed` is the time since the last refill: as in the code, nothing comes back
until somebody looks. The line of callers is the asyncio lock's queue, its head the
holder. `level` is a leaky-bucket meter that drains all the time; `level <= Full` says
that *no* stretch of time had more grants than the capacity plus what came back in it,
which a window of fixed length could not say.

### StoreMerge, EntityStore, Stores

Confidences are tenths and products exact, so that noisy-or has no rounding. Attributes
are taken path by path with the conflicts recorded for the path. `EntityStore` is what
both stores promise: `Record` takes the next report of a task in one step, a batch (the
findings of one answer) is recorded without giving way, as the synchronous loop in
`_collect_into_store` does, and between batches any other task may come. `Rerun` ends or
kills a run and starts it again; the graph of a memory store is then empty, that of a
durable one is not.

`Stores` is what the code does. `InMemory` is the memory store's upsert. On Neo4j an
upsert is `Read` and `Commit`, with `Restart` for the driver's retry of the whole
transaction and `NextRun` for a kill at any point; because the driver is synchronous,
other tasks of the process cannot come between. Other processes could: the model has one
at a time. Its mapping to `EntityStore` is the identity on the shared variables; the
property `ImplementsStore` says that a transaction, however often it is retried, is one
atomic upsert or none.

### CertSpotter, SourceFindings, Sources

`CertSpotter` is the connector's loop over pages. The source's log is an environment that
grows at any time; an id is a position in it. `Fetch` asks for what comes after an id and
stores the page in the cache, `FromCache` takes the page an earlier collection left there,
which may be shorter than today's, or empty. `Read` is the body of the loop for either,
with its four ways on: an empty page ends the collection, so does a page without an id or
the page cap, and otherwise the last id is the next `after`. `Incomplete` is a failed
request, a 404 or a payload that is no list. The same collection is repeated
(`CollectAgain`) by later runs on the same cache directory.

`SourceFindings` says what each connector makes of a payload. An entity is its type and
canonical value, of attributes and tags the labels that properties are about are kept
(`co-san`, `wildcard`, the name of an ASN, InternetDB's tags, CVEDB's severity). `Junk`
stands for a value of another type than the code looks for, at each level at which the code
looks: payload, item, field. The JSON value true among InternetDB's ports is no `Junk`: a
bool is an int in Python, so it is `JsonTrue`, equal to 1 and written "True".

`Sources` is a collection by one of the connectors: Cert Spotter by `CollectPages`, the
one-question sources by `Answer`, Team Cymru's lookups by `AnswerOrigins` and one
`Describe` for each origin in turn, and any of them by `GiveUp`. The semaphores of dns and
asn are left out: the engine runs one task of a connector at a time, so there is always a
permit.

### UsernameChecks

A check is the task of one site: `Start` is its passing of the semaphore, which serves in
the order of creation, `Respond`, `GiveUp` and `Fail` its end by an answer, a caught and
an uncaught exception. `order` is as_completed's queue. The generator is "open" while it
or its consumer runs; it leaves by `End`, `Raise` or `Shutdown`, each of which runs the
finally clause. `Abandon` is a consumer that fails at a yield: the traceback keeps the
generator alive, its finally clause has not run, and the checks go on until asyncio.run
cancels them. `Usable` and `Sites` select the entries of the dataset.

### AgentLoop

There is no await between an answer of the provider and the next request, so a turn is a
step: `UseTools`, or the end by `Conclude`, `RequestFails` or `Escape`. The language model
is the environment. A raw finding or action is a record of what decides its fate: which
ids it names and where, which checks it asks for, what kinds of work its words stand for,
and `Junk` wherever a value has the wrong type. `KeptCalls`, `CoerceFinding` and
`CoerceAction` are what the clients make of it, `ValidateAgentOutput` what the validator
does. Tool results are the items they show, in their JSON form, so that properties can
relate what the model was shown to what it is later held to. `messages` leaves out the
system and the first user message. The order of ids in a list and the wording of reasons
and warnings are left out, as is the copy of the last answer that the client leaves in
`gemini-raw-output.json`, which nothing reads.

## Runs

| run | distinct states | shows |
|---|---|---|
| `pivot` | 74 000 | from an apex, a subdomain and a username, for every interleaving, partial answer, page and failure: the safety properties of the loop below; the engine refines `ScopedCrawl`; `Termination` |
| `http` | 54 000 | two callers of one page: the cache is honest, a dead host is spared new requests, every request ends, the circuit of a host that stays up closes |
| `bucket` | 2 300 | rate and fairness of the limiter |
| `stores` | 160 000 | on either store: records add up, no value is lost, repeats teach nothing, the memory store misses nothing, and both implement `EntityStore` through retries and kills |
| `sources` | 757 000 | pages leave no gap, an exhausted collection is current, findings say all that the answers say and no more, a failed lookup costs only itself |
| `usernames` | 12 000 | hits are yielded in the order of the answers, nothing outlives the collection, refusing and missing pages are no hits, every check ends |
| `agent_loop` | 96 000 | see below |

The properties of `pivot`: `QuestionsInScope` (no chain of discoveries makes a
connector ask about a name outside the root, or an exposure or active source about an
uncovered target), `BudgetsRespected` (dispatched connectors are counted exactly, in
flight included), `CompleteOrReported` (no silent truncation), `DispatchedOrRefused`
(each eligible connector is dispatched or its refusal logged, never both),
`ShallowestFirst` (the left pushes of addresses never cost depth, for what connectors
declare to produce), `ExactClosure` (an
unhindered run visits exactly the bounded-depth closure, defined by recursion on depth
and without any order) and the type invariant.

The properties of `stores`: `RecordsAddUp` (a record is the union of its reports, by a
reference that knows no order; its confidence grows with sources and not with repeats),
`NoValueLost` (every value a source reported is the attribute or one of its conflicts),
`RepeatsTeachNothing` (an action property), `MemoryStoresEverything` and
`ImplementsStore`.

The properties of `sources`: `PagesLeaveNoGap` (what was yielded is all that is readable
in a prefix of the log, whatever the mixture of fresh and cached pages),
`ExhaustedIsCurrent` (a collection that ends on an empty page has everything older than
the time to live), `FindingsSupported` and `OriginsSurvive` (each origin of an address is
reported however many descriptions fail). `FindingsSupported` compares the names with their
labels, the subdomains, addresses, ports, vulnerabilities, tags and severities reported
with what the readable parts of the answers list, as equalities: a garbled item that took
the rest of its list with it would violate it as much as one made up. It also says that no
relationship lacks an end. What certificates secure is left to `SecuresWhatItLists`.

The properties of `agent_loop`: `ReportIsGrounded` (every finding of the report cites
something, all of it exists, and no check contradicts the graph, stated of the raw
answer), `AnswerAccountedFor` (nothing the model said is lost between coercion and
validation), `HonestFindingsKept` (a finding that cites only what the tools have shown is
never rejected), `EveryCallAnswered` (the converted conversation pairs every tool call
with its result for both APIs), `RequirementStatedOrInferred` (the requirement of an
action is the model's own, unchanged, or the inferred one where active work has none;
the answer false is left out, see below) and `UnwarnedActionsAreReal`.

Five runs end in a violation, because the code does something else than its
documentation says:

| run | the documentation | the code |
|---|---|---|
| `http_trial` | DESIGN.md:234 "allows one half-open trial" | `half_open` is never read: every caller is a trial (`util/circuit.py:44`). `DeadHostIsSpared` states the bound that does hold |
| `http_retry_after` | DESIGN.md:232 "retries 429 ... Retry-After support" | an unparsable Retry-After raises `ValueError` out of the request (`util/retry.py:105`) |
| `store_dangling` | DESIGN.md:222 "Every discovered entity and relationship is stored" | Neo4j drops an edge whose endpoint is not stored yet; dns reports edges from a seed it does not store (`store/neo4j_store.py:206`) |
| `sources_secures` | DESIGN.md:115 "`SECURES` \| Certificate -> Domain \| Cert SAN/CN covers this domain" | the seed is put among a certificate's domains whether it lists it or not, so a certificate for `www.example.com` alone secures `example.com` (`connectors/crtsh.py:110`) |
| `usernames_same_code` | README.md:25 "Username existence checks via a vendored WhatsMyName dataset" | on the 166 of 737 entries whose two status codes are equal no account is ever found, for the code is compared before the strings (`connectors/usernames.py:242`) |

More observations, without a run of their own:

- DESIGN.md:26 says that every query is logged; dns and asn resolve names in a thread,
  past the audited client, and leave no entry (`connectors/dns.py:39`).
- `Neo4jEntityStore` reads, merges in Python and writes back without a lock on the read:
  two processes on one database would lose each other's updates (`neo4j_store.py:137`).
- Inside a nested dict a second conflict replaces the first (`store/merge.py:65`), although
  DESIGN.md:131 promises that conflicts are kept; `NoValueLost` leaves out the paths in
  `Nested`, for no connector reports nested dicts today.
- For a certificate that lists `*.example.com` alone and the seed `example.com`, Cert
  Spotter labels the root as a wildcard and crt.sh does not, although DESIGN.md:182 says
  that their labels cannot drift; a name listed plain and as a wildcard keeps the label of
  the listing that comes last.
- A page that fails, or is no list, ends Cert Spotter's collection like an exhausted one:
  only the log tells (`connectors/certspotter.py:50`). `PagesLeaveNoGap` says what is then
  left: a prefix.
- 404s and empty pages are cached like any answer, so news can be late by the whole time
  to live; `ExhaustedIsCurrent` states exactly that bound.
- An exception that leaves `run` takes the audit log of everything asked so far with it
  (`orchestrator/engine.py:145`).
- The `co-san` tag is relative to the hop (`connectors/domains.py:27`): asked about
  `www.example.com`, a source that reports `example.com` tags the root itself as foreign.
- A tool shows tags, dates and sources as JSON, the validator compares Python objects: a
  check that repeats what was shown of them is rejected as a mismatch
  (`agent/validator.py:74`); `HonestFindingsKept` leaves these fields out.
- `authorization_required: false` becomes the text "False" (`agent/llm.py:641`), which
  counts as a requirement and keeps the real one from being inferred: for that answer
  DESIGN.md:244, "active work must surface its authorization requirement", does not hold.
  `RequirementStatedOrInferred` leaves it out.
- A `true` among InternetDB's ports passes `isinstance(item, int)` (`internetdb.py:168`):
  the service "ip:True" is reported, unless a 1 comes before it in the list; a 1 after it
  is lost. `FindingsSupported` says of ports what `Number` says, so it admits this.
- DESIGN.md:244 says that recommended actions must reference real entities; the code adds
  a warning. `UnwarnedActionsAreReal` states what holds.
- A provider's body that is JSON but no object raises out of the agent
  (`agent/llm.py:242`), while any other failure ends in an empty result.

### Bounds

- Engine: nine entities that include two names below the root, one beside it, a covered
  and an uncovered address and a vulnerability; seven connectors that include an active
  one, two that yield page by page, three that may raise, both enrichment classes and
  dns; depth 3, 5 seeds, 10 calls; an
  authorization of one name and one network. The world reaches
  past each of the three limits, by several routes of different length, so that each
  limit is hit in some behaviours and not in others.
- HTTP: two callers contend for a cache entry and for a circuit; two attempts, so that
  first and last differ; threshold 2, so that the count below the threshold matters;
  cooldown 2, so that there is a moment within it, lifetime 1; two requests whose end the
  breaker does not see, so that both callers can be cancelled or escape. Hosts share no
  state, so one is enough.
- Limiter: three callers make a line with a middle; 8 units and a rate of 3 make sleeps
  that do not come out even; capacity 2 tells a burst from a token (the client uses 1).
- Stores: three runs are the least for a third value of a path; two sources share a
  record, one of them reports it on two pages of a run; one edge has an end its task does
  not report; the third run has two sources.
- Sources: pages of two and at most three of them on a log of up to four items, so that
  a page may be full, short or empty and the cap may come first; lifetime 1, so that a page
  may be fresh, old or stale. Payloads of up to two records (three hosts, three origins)
  with each kind of garbling; ports at both ends of the range and just outside it, with
  true and 1 in either order; scores on both sides of every band's floor.
- Usernames: three sites and two permits make one site wait, an entry beyond `max_sites`
  and one for each reason to leave an entry out; five kinds of answers.
- Agent: three completions, eight lists of calls that include each tool, each way a call
  can fail and missing ids, and about 1100 answers: each finding on its own, then lists of
  up to three with garbled ones among them.
- Bounds that are no constants of the code: `MaxUnreported` (requests whose end the
  breaker does not see), `MaxRuns` and `MaxLog`. Nothing else is cut off.

The store and source runs do not check deadlock: the tasks of the last run, or the one
collection of a source that answers once, are simply done.

### Fairness

`PivotEngine`: weak fairness of the loop, of `Ask` and of `Answer`, because the event
loop runs what can run and every await ends (httpx timeouts, finitely many pages).
`Raise`, `Page` and `Cancel` are never forced. `HttpClient`: weak fairness of `Tick` and
of the end of attempts and backoffs, for the same reason; that hosts stay up and that
callers keep asking are premises of `Recovers`, not fairness. `UsernameChecks`: weak
fairness of each check and of the generator, and of `Shutdown` once the generator has been
abandoned, since the error that did it is on its way out of `run`. `TokenBucket`: weak
fairness of the holder and of time; nobody is forced to acquire or to give up. The other
specifications have none.

## Proofs

Every invariant and action property that a passing run checks is also a theorem, for
every value of the constants that satisfies the named assumptions. What is proved of the
two refinements is every step; the crawl's liveness is left to its run.

### Assumptions

The assumptions on constants are typing, finiteness and what data can be in the program:
`Under` is reflexive and transitive and ranks are distinct (`PivotEngine`); confidences
are tenths strictly between 0 and 1 and there are at least two sources (`StoreMerge`); a
task's reports come in non-empty batches (`EntityStore`); the dataset, tool calls, answers
and origin records are lists, since they come from JSON (`UsernameChecks`, `AgentLoop`,
`Sources`); the names of a readable record are listed and ports are a list of numbers,
true and `Junk`, scores numbers or none (`Sources`). TLC evaluates each of them on the instances.

Two theorems have one hypothesis more, `ProducedInLayers`, which is what the connectors
declare in `accepts` and `produces`: an address is reported about a name or about itself
(dns, internetdb), a vulnerability about an address or another vulnerability (internetdb,
cvedb). It is needed: if an address led to an address and that to a third one, all three
would be taken one after the other from the left of the deque, before a name that reports
the third one at a smaller depth. The hypothesis is evaluated in `MCPivotEngine`; the
other theorems about the engine do not use it.

### What the proofs are

- `PivotEngineProofs`
  - `TypeCorrect`: rests on `SortedLists` (the sort of a finite set of discoveries under a
    total order lists each of them and nothing else: the number of discoveries before each
    is an injection into 0..n-1, hence onto it) and on `ExtendedHolds` (what the deque holds after a gather).
  - `ScopeContained`: `QuestionsInScope` alone is not inductive, since the question asked
    now was queued hops ago. `ScopeInv` carries the scope of everything on the deque and
    the permission of every live task; `LeadsStayInScope` is the step from hop to hop.
  - `BudgetsHold`: `BudgetInv` adds to the property that dispatched pairs are about
    visited seeds, so that a new seed's pairs are new and cardinalities add up.
  - `NoSilentTruncation`: `CompleteInv` says that until the run ends every lead is
    visited, on the deque, or among the results of the gather under way.
  - `NothingSkippedSilently`: `GateInv` says of the whole log, not only of the current
    seed, that a refusal is in it exactly when the gate refuses a visited seed.
  - `PursuedAtTheSmallestDepth`: `RungInv`. With an address on the *rung* of the name it
    was found through, that is one below its depth, and a vulnerability one below its
    depth too, the deque is the queue of a breadth-first search: its rungs never fall from
    left to right and span two at most, although addresses are pushed on the left. What
    has been pursued stands on no higher rung than the seed under way, so a new report
    never offers anything at a smaller depth.
  - `ClosureIsExact`: one inclusion by induction on the depth at which a seed was
    pursued, the other by induction on the hops of `Within`, with the theorems on gate,
    completeness and depth. `WithinUnfolds` proves that the recursive function exists.
  - `EngineTakesCrawlSteps`: a step of the engine is a step of `ScopedCrawl` or a stutter,
    under the mapping of `PivotCrawl`. `CrawlInv` says that the deque holds nothing but
    leads and that a seed is processed, counted and recorded once.
- `HttpClientProofs`
  - `ClientTypes`, in particular that no request exceeds its attempts. `Resume` counts
    without a cap; the bound rests on `BackoffHasMore`: who waits in a backoff has an
    attempt left, since the last attempt does not lead to one.
  - `CacheIsHonest`: the inductive part, `EntriesAreLast`, is that an entry is the last
    definitive answer or torn, whether or not it could still be served.
  - `HostSpared`: the load of a host is not inductive, since requests under way may fail
    and open the circuit later. `SparedInv` bounds it by what the breaker's state has let
    through (`Allowed`): the failures counted and the requests under way while the circuit
    is closed, the whole bound while it is open, and the requests under way alone once
    the cooldown is over. That last step needs `QuietWhileOpen`: no request is begun while the
    circuit is open, so when its cooldown ends the host has been quiet for a cooldown too.
- `TokenBucketProofs`
  - `BucketTypes`, and `RateHolds`: the meter alone says nothing of the next step; the
    meter plus what a refill would find is at most a full bucket, and that is inductive.
- `StoresProofs`
  - `DoubtIsAProduct` and what follows it do the arithmetic of noisy-or for any number of
    sources: the fold of the library is a product taken in some order, it stays within
    range, and a single source gives its own confidence.
  - `RecordsAreTheirReports`, `ValuesKept`, `MemoryComplete`, `RecordsTyped`: `StoreInv`
    ties each record to the reports kept for its id (`AddsUp` and `KeepsValues`), which
    `FirstRecordAddsUp`, `MergedAddsUp` and `MergedKeepsValues` show of the pure functions.
  - `NothingLearnedTwice`: an action property from the same invariant; a report already
    in the record leaves every part of the merge alone.
  - `BothStoresImplement`: `TxInv` says that a transaction under way has read the record
    that is still there when it writes, since its driver lets no other task come between;
    a commit is then one upsert of `EntityStore`, and a read, a retry or a kill a stutter
    or the end of the run. The other theorems hold of both stores through it.
- `SourcesProofs`
  - `NoGap`: the property is inductive with the types and with `PagesLeft` (a collection
    that goes on has not reached the cap): every page ends at or past the position it was
    asked after, and the next one is asked after an id on it.
  - `Current`: that an exhausted collection is current needs that every page in the cache
    that ended short held all that was logged when it was cached (`ShortPagesAreRecent`).
  - `CollectionPages`: a collection of `Sources` is one of `CertSpotter` or leaves its
    variables alone, hence both theorems hold of it.
  - `SourcesTyped`, `EveryOriginReported`, `NothingUnsupported`: `CollectionInv` says
    what may have been yielded at each moment of a collection: nothing before the answer,
    afterwards what the connector makes of it, for Team Cymru once the last description
    has been asked for. The rest is about operators: for each connector a lemma says what its finding
    lists and relates, and `SaysTogether` joins the findings of a collection.
- `UsernameChecksProofs`
  - `NoOrphans`: the property is inductive with the type of `check`; each way out of the
    generator goes through `Leave`, and no step of a check makes a pending one.
  - `HitsInOrder`, `OnlyRealHits`, `ChecksTyped`: `ReportInv` adds that `order` lists each
    check that has ended once, that what has been handed over is the hits of a prefix of
    it, and that a hit is what `Respond` made of an answer.
- `AgentLoopProofs`
  - All theorems follow from `AgentInv`: the messages are the turns so far,
    each an answer with calls and the results of these calls in order, and the result is
    the validation of the one answer given. `NothingMadeUp`, `NothingDropped` and the like
    are then facts about coercion and validation, read off by `FindingsReadOff` and
    `ActionsReadOff`. `HonestyIsEnough` needs that tools show nothing but the graph.
  - `NoCallUnanswered`: for the OpenAI form of the messages the turns are flattened;
    `OpenAiComplete` goes by induction over them.
- `SequenceLemmas`: the induction theorems of the library take an operator as a parameter,
  which the provers cannot instantiate. `NatInductionOnASet` and `SubsetInduction` are
  stated of a set instead, from the least element of what is missing; the recursive
  functions the proofs meet are shown to exist by them. `SelectedPlaces` says what a
  selection keeps: each place chosen once, in order.

### Only model-checked

Liveness (`Termination`, `EveryRequestEnds`, `Recovers`, `EveryoneServed`,
`CollectionEnds`) and with it the last conjunct of `ImplementsCrawl`: liveness under
fairness is beyond the prover.

## Not modelled

Parsing of payloads, formatting, environment variables, canonical ids and pydantic
validation: data or I/O without interleaving. `store/serialize.py` is a pure conversion;
`agent/report.py`, `util/urls.py` and the configuration of logging keep no state; the
command line's argument parsing and printing are left out. Two processes on one cache
directory or one database are not modelled (hazards at `util/cache.py:35` and
`store/neo4j_store.py:137`): the program locks neither, so the properties of one process
simply do not hold of two. `clear` of the Neo4j store is called by its tests only. A
budget stop is also reported when only ids already visited are left on the deque
(`engine.py:131`); the model does the same and no property forbids it.

## Plan

Done, in this order: the loop and its abstract crawl, since everything else serves it;
the client; the stores; the limiter; the proofs of the loop's type, scope, budget and
completeness, of the cache's honesty and of the rate; the username checks; the agent;
authorization by targets; both stores against one promise; the sources with their paging,
their findings and the proofs about pages; the proof that a dead host is spared; the
proofs about stores, username checks, agent and findings, and of the loop's gate, order,
closure and refinement.

Next, as modules:

1. Two processes on one cache directory, and the breaker's events, which DESIGN.md:234
   says are logged.
2. An abstract collection that `UsernameChecks` and `Sources` both refine, as the `Page`,
   `Answer` and `Raise` steps of a task of `PivotEngine`.

Next, as proofs: what liveness rests on, as far as it is safety - a measure that every
step of the loop lowers, so that a run can take only so many of them; the same of a
request's attempts and of a collection's pages.
