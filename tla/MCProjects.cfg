SPECIFICATION ProjSpec
CONSTANTS
    alice = alice
    bob = bob
    None = None
    Accounts <- MCAccounts
    ProjectIds <- MCProjectIds
    LockIds <- MCLockIds
    ExistentialDeposit = 1
    U32Max = 2147483647
    JurorStake = 2
    SlashPercent = 10
    MaxPool <- MCMaxPool
    InitialFree <- MCInitialFree
    InitialUsers <- MCInitialUsers
    InitialJurors <- MCInitialJurors
    MaxProjects = 2
    MaxApplicants = 2
    Clients <- MCAccounts
    Freelancers <- MCAccounts
    Stakers <- MCAccounts
    Budgets = {4}
    Durations = {1}
    StarRatings = {5}
INVARIANTS
    ProjTypeOK
    LocksTrackProjects
    StageCoherent
    FundsConserved
    EarningsExplained
PROPERTIES
    ProjectsSettleOnce
CHECK_DEADLOCK FALSE
