SPECIFICATION FairSpec
CONSTANTS
    root = root
    a = a
    b = b
    ax = ax
    x = x
    w1 = w1
    w2 = w2
    NoUrl = NoUrl
    NoJob = NoJob
    NoGen = NoGen
    NoResult = NoResult
    Url <- MCUrl
    Worker <- MCWorker
    Candidates <- MCCandidates
    Answers <- MCAnswers
    Configs <- MCConfigs
    Seeds <- MCSeeds
    Discovered <- MCDiscovered
    MaxDepth = 2
INVARIANTS
    TypeOK
    Accounting
    WithinDepth
    NothingLost
    CleanExit
PROPERTIES
    DispatchedOnce
    RunReturns
