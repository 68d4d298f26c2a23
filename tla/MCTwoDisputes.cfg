SPECIFICATION ArbSpec
CONSTANTS
    alice = alice
    bob = bob
    charlie = charlie
    dave = dave
    eve = eve
    pot = pot
    None = None
    ClientFree = 700
    FreelancerFree = 500
    Accounts <- MCAccounts
    ProjectIds <- MCProjectIds
    LockIds <- MCLockIds
    ExistentialDeposit = 1
    U32Max = 2147483647
    JurorStake = 10
    SlashPercent <- RuntimeSlashPercent
    MaxPool <- RuntimeMaxPool
    InitialFree <- MCInitialFree
    InitialUsers <- MCInitialUsers
    InitialJurors <- GenesisJurors
    MaxProjects = 2
    MaxApplicants <- RuntimeMaxApplicants
    Clients = {alice}
    Freelancers = {bob}
    Stakers = {}
    Budgets = {400}
    Durations = {0}
    StarRatings = {5}
    PalletAccount = pot
    MinJurors = 1
    MaxJurors = 1
    AppealPeriod = 1
    VotingPeriod = 1
INVARIANTS
    ReservesBacked
    FundsConserved
    LocksTrackProjects
    EarningsExplained
PROPERTIES
    EscrowKept
    DocketKept
CHECK_DEADLOCK FALSE
