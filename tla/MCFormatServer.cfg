SPECIFICATION FairSpec
CONSTANTS
    c1 = c1
    c2 = c2
    r1 = r1
    r2 = r2
    Clients = {c1, c2}
    Reps <- MCReps
    Hash1 <- MCHash1
    Hash2 <- MCHash2
    Addrs = {11, 12}
    SharedIDs = FALSE
    IPAddr = 1
    Pushed <- MCPushed
    FidModulus = 65536
    MaxFormats = 3
    MaxRequests = 3
    NoID = NoID
    NoRep = NoRep
    NoFormat = NoFormat
    Nobody = Nobody
INVARIANTS
    TypeOK
    IdDeterminesRep
    OneEntryPerRep
    CountMatchesList
    ReplyMatchesRequest
PROPERTIES
    AppendOnly
    AnswersIssued
    ImplementsRegistry
    EveryRequestServed
CHECK_DEADLOCK FALSE
