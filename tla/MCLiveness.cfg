SPECIFICATION FairSpec
CONSTANTS
    alice = alice
    bob = bob
    charlie = charlie
    dave = dave
    eve = eve
    pot = pot
    None = None
    ClientFree = 1000
    FreelancerFree = 500
    Accounts <- MCAccounts
    ProjectIds <- MCProjectIds
    LockIds <- MCLockIds
    ExistentialDeposit = 1
    U32Max = 2147483647
    JurorStake = 10
    SlashPercent <- RuntimeSlashPercent
    MaxPool <- RuntimeMaxPool
    InitialFree <- MCInitialFree
    InitialUsers <- MCInitialUsers
    InitialJurors <- GenesisJurors
    MaxProjects = 1
    MaxApplicants <- RuntimeMaxApplicants
    Clients = {alice}
    Freelancers = {bob}
    Stakers = {}
    Budgets = {400}
    Durations = {1}
    StarRatings = {5}
    PalletAccount = pot
    MinJurors = 2
    MaxJurors = 2
    AppealPeriod = 1
    VotingPeriod = 1
PROPERTIES
    SubmittedWorkResolves
CHECK_DEADLOCK FALSE
