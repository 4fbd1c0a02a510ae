\* Two openers of the ACM device and a user of AKS; two transaction numbers, so that they run out.
CONSTANTS
    Authorizers = {u1}
    Testers = {u2}
    AksUsers = {k1}
    RegisterAcm = TRUE
    ProbeCapabilities = TRUE
    Transactions = 2
    MaxSkipped = 2
    MaxSessions = 2
    MaxObservations = 1
    MaxNotices = 1
SPECIFICATION FairSpec
CHECK_DEADLOCK FALSE
INVARIANTS OwnReply ContextAccounted ConsumerAuthorized
PROPERTY SessionEnds
