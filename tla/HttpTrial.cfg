SPECIFICATION Spec
CONSTANTS
    Host = {"crtsh"}
    Url = {"page"}
    Caller = {"first", "second"}
    UrlOf <- MCUrlOf
    HostOf <- MCHostOf
    Caching = FALSE
    Threshold = 1
    Cooldown = 1
    Ttl = 0
    MaxAttempts <- MCMaxAttempts
    Garbled = {}
    MaxUnreported = 0
INVARIANTS
    OneHalfOpenTrial
