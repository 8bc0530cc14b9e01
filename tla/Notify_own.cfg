\* ANS that forgets the device, sends what does not decrypt and cannot be
\* sent to.  A reach check follows every keep-alive, and one probe decides
\* a step of the search.
SPECIFICATION FairSpec
CONSTANTS
    Server = {s1}
    NoServer = none
    NatTimeout = 28
    MinProbe = 24
    InitProbe = 30
    MaxProbe = 36
    InitProbes = 1
    MaxTry = 1
    ErrLimit = 0
    PollEvery = 0
    Faults = {"forget", "garbage", "send"}
INVARIANTS
    CountsOnLive
    KeepAliveFits
    SearchGoesOn
PROPERTIES
    Promise
    OutageNoticed
CHECK_DEADLOCK FALSE
