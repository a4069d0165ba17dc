SPECIFICATION StoresSpec
CONSTANTS
    Source = {"crt.sh", "dns"}
    ConfOf <- MCConfOf
    Field = {"attribute"}
    Nested = {}
    Null = "null"
    Id = {"apex", "www", "ip", "cve", "apex-www", "apex-ip"}
    Ends <- MCEnds
    Task = {"crtsh", "dns"}
    Reports <- MCReports
    Answers <- MCAnswers
    Durabilities = {TRUE}
    MaxRuns = 1
INVARIANT EverythingStored
CHECK_DEADLOCK FALSE
