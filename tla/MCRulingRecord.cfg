SPECIFICATION RecordSpec
CONSTANTS
    alice = alice
    bob = bob
    charlie = charlie
    dave = dave
    eve = eve
    pot = pot
    None = None
    ClientFree = 415
    FreelancerFree = 500
    Accounts <- MCAccounts
    ProjectIds <- MCProjectIds
    LockIds <- MCLockIds
    ExistentialDeposit = 3
    U32Max = 2147483647
    JurorStake = 10
    SlashPercent <- RuntimeSlashPercent
    MaxPool <- MCMaxPool
    InitialFree <- MCInitialFree
    InitialUsers <- MCInitialUsers
    InitialJurors <- GenesisJurors
    MaxProjects = 1
    MaxApplicants = 1
    Clients = {alice}
    Freelancers = {bob}
    Stakers = {bob, charlie}
    Budgets = {40, 400}
    Durations = {1}
    StarRatings = {5}
    PalletAccount = pot
    MinJurors = 2
    MaxJurors = 2
    AppealPeriod = 2
    VotingPeriod = 1
INVARIANTS
    ArbTypeOK
    DisputesMatchProjects
    BooksFollowRounds
    RulingIsVerdict
    PaidAsRuled
PROPERTIES
    EscrowKept
    AppealWindowKept
    VotesStand
    ProjectsSettleOnce
CHECK_DEADLOCK FALSE
