SPECIFICATION Spec
CONSTANTS
    Junk = Junk
    None = None
    ip = ip
    service = service
    user = user
    gone = gone
    hosts = hosts
    dangling = dangling
    profileOf = profileOf
    ipName = ipName
    serviceName = serviceName
    userName = userName
    open = open
    closed = closed
    tagSet = tagSet
    tagList = tagList
    Entity <- MCEntity
    Relationship <- MCRelationship
    TypeOf <- MCTypeOf
    Facts <- MCFacts
    Json <- MCJson
    Edge <- MCEdge
    Matching <- MCMatching
    NameOf <- MCNameOf
    CallLists <- MCCallLists
    Texts <- MCTexts
    MaxToolIterations = 2
INVARIANTS
    TypeOK
    ReportIsGrounded
    AnswerAccountedFor
    HonestFindingsKept
    EveryCallAnswered
    RequirementStatedOrInferred
    UnwarnedActionsAreReal
