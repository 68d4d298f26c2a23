SPECIFICATION MCSpec
CONSTANTS
    a1 = a1
    a2 = a2
    a3 = a3
    None = None
    Accounts <- MCAccounts
    LockIds <- MCLockIds
    ProjectIds <- MCProjectIds
    ExistentialDeposit = 1
    U32Max = 3000000
    JurorStake = 2
    SlashPercent = 60
    MaxPool <- MCMaxPool
    InitialFree <- MCInitialFree
    InitialUsers <- MCInitialUsers
    InitialJurors <- MCInitialJurors
    Values = {400}
    Ratings = {1000, 5000}
    MaxCalls = 5
INVARIANTS
    RepTypeOK
    PoolsSound
    StakesBacked
    TierNotOverstated
    MeansInRange
    AccuracyTracksVotes
    SelectionCorrect
CHECK_DEADLOCK FALSE
