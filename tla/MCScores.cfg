SPECIFICATION MCSpec
CONSTANTS
    alice = alice
    bob = bob
    charlie = charlie
    dave = dave
    eve = eve
    None = None
    Accounts <- MCAccounts
    LockIds <- MCLockIds
    ProjectIds <- MCProjectIds
    ExistentialDeposit = 1
    U32Max = 2147483647
    JurorStake = 2
    SlashPercent <- RuntimeSlashPercent
    MaxPool <- RuntimeMaxPool
    InitialFree <- MCInitialFree
    InitialUsers <- MCInitialUsers
    InitialJurors <- MCInitialJurors
    Values = {1, 200}
    Ratings = {1000, 5000}
    Jumps <- MCJumps
    Weightings <- MCWeightings
    MaxCalls = 3
INVARIANTS
    ScoresInRange
PROPERTIES
    CompletionNeverHurts
    DisputesScoredFairly
    HarmNeverHelps
CHECK_DEADLOCK FALSE
