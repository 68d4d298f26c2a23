SPECIFICATION ArbSpec
CONSTANTS
    alice = alice
    bob = bob
    charlie = charlie
    dave = dave
    eve = eve
    pot = pot
    None = None
    ClientFree = 100
    FreelancerFree = 500
    Accounts <- MCAccounts
    ProjectIds <- MCProjectIds
    LockIds <- MCLockIds
    ExistentialDeposit = 1
    U32Max = 2147483647
    JurorStake = 10
    SlashPercent <- RuntimeSlashPercent
    MaxPool <- MCFullSilverPool
    InitialFree <- MCInitialFree
    InitialUsers <- MCUsersAtThreshold
    InitialJurors <- GenesisJurors
    MaxProjects = 2
    MaxApplicants <- RuntimeMaxApplicants
    Clients = {alice, charlie}
    Freelancers = {bob}
    Stakers = {}
    Budgets = {10}
    Durations = {0}
    StarRatings = {5}
    PalletAccount = pot
    MinJurors <- RuntimeMinJurors
    MaxJurors = 3
    AppealPeriod = 1
    VotingPeriod = 1
INVARIANT OptedInJurorsPooled
CHECK_DEADLOCK FALSE
