SPECIFICATION FairOracleSpec
CONSTANTS
    None = None
    Cases = {0}
    Users = {client, freelancer}
    Slots = {s1, s2}
    MaxPending = 2
    Answers <- MCAnswers
INVARIANTS
    OracleTypeOK
    SuccessIsOwnExtrinsic
PROPERTIES
    AwaitedRulingComes
CHECK_DEADLOCK FALSE
