SPECIFICATION Spec
CONSTANTS
    Junk = Junk
    None = None
    Dataset <- MCDataset
    Responses <- MCResponses
    MaxConcurrency = 2
    MaxSites = 3
INVARIANTS
    ExistingAccountsFound
