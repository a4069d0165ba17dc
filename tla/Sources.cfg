SPECIFICATION Spec
CONSTANTS
    first = first
    second = second
    Junk = Junk
    JsonTrue = JsonTrue
    Null = Null
    Issuance <- MCIssuance
    Readable <- MCReadable
    WithId <- MCWithId
    PageSize = 2
    MaxPages = 3
    Ttl = 1
    MaxLog = 4
    Under <- MCUnder
    IPv6 = {"2001:db8::1"}
    SeedsOf <- MCSeedsOf
    AnswersOf <- MCAnswersOf
    Descriptions = {Null, "ACME", "Acme Ltd"}
INVARIANTS
    TypeOK
    PagesLeaveNoGap
    FindingsSupported
    OriginsSurvive
PROPERTY ExhaustedIsCurrent
CHECK_DEADLOCK FALSE
