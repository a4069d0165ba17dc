SPECIFICATION FairSpec
CONSTANTS
    Junk = Junk
    None = None
    Dataset <- MCDataset
    Responses <- MCResponses
    MaxConcurrency = 2
    MaxSites = 3
INVARIANTS
    TypeOK
    NothingOutlivesCollection
    ReportsFollowAnswers
    NoFalseHit
PROPERTIES
    CollectionEnds
