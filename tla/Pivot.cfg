SPECIFICATION FairSpec
CONSTANTS
    Entity <- MCEntity
    TypeOf <- MCTypeOf
    Under <- MCUnder
    Target = {"api", "192.0.2.0/24"}
    Network = {"192.0.2.0/24"}
    Spans <- MCSpans
    Rank <- MCRank
    Connector = {"crtsh", "dns", "probe", "asn", "internetdb", "cvedb", "usernames"}
    Accepts <- MCAccepts
    Class <- MCClass
    Mode <- MCMode
    Position <- MCPosition
    Dns = {"dns"}
    Http = {"crtsh", "probe", "internetdb", "cvedb", "usernames"}
    Paged = {"crtsh", "usernames"}
    Raising = {"crtsh", "dns", "usernames"}
    World <- MCWorld
    Seeds = {"apex", "www", "alice"}
    MaxDepth = 3
    MaxSeeds = 5
    MaxCalls = 10
INVARIANTS
    TypeOK
    QuestionsInScope
    BudgetsRespected
    CompleteOrReported
    DispatchedOrRefused
    ShallowestFirst
    ExactClosure
PROPERTIES
    ImplementsCrawl
    Termination
