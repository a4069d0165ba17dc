SPECIFICATION FairSpec
CONSTANTS
    Host = {"crtsh"}
    Url = {"page"}
    Caller = {"first", "second"}
    UrlOf <- MCUrlOf
    HostOf <- MCHostOf
    Caching = TRUE
    Threshold = 2
    Cooldown = 2
    Ttl = 1
    MaxAttempts <- MCMaxAttempts
    Garbled = {"crtsh"}
    MaxUnreported = 2
INVARIANTS
    TypeOK
    ServesLastDefinitive
    DeadHostIsSpared
PROPERTIES
    EveryRequestEnds
    Recovers
