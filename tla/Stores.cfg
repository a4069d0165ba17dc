SPECIFICATION StoresSpec
CONSTANTS
    Source = {"crt.sh", "certspotter", "dns", "cvedb"}
    ConfOf <- MCConfOf
    Field = {"attribute", "detail"}
    Nested = {"detail"}
    Null = "null"
    Id = {"apex", "www", "ip", "cve", "apex-www", "apex-ip"}
    Ends <- MCEnds
    Task = {"crtsh", "certspotter", "dns", "cvedb"}
    Reports <- MCReports
    Answers <- MCAnswers
    Durabilities = {TRUE, FALSE}
    MaxRuns = 3
INVARIANTS
    TypeOK
    RecordsAddUp
    NoValueLost
    MemoryStoresEverything
PROPERTIES
    RepeatsTeachNothing
    ImplementsStore
CHECK_DEADLOCK FALSE
