CONSTANTS
    Users = {u1}
    Providers = {p1, p2}
    Challengers = {w1}
    Receipts = {r1, r2, r3}
    Challenges = {c1, c2}
    PoolAuthority = pool
    None = None
    StartTime = 43200
    ClockSteps = {43200}
    MaxTime = 86400
    MAX_U64 = 26
    MAX_RECEIPT_USDC_ATOMIC = 12
    GENESIS_TOTAL_SUPPLY = 23
    ParamChoices <- MCParams
    PauseChoices <- MCNoPauses
    Charges = {12}
    Allowances = {}
    ReleaseAmounts = {2}
    InitialAllowance <- MCAllowance
    InitialUsdc <- MCUsdc
    InitialClaw <- MCClaw
SPECIFICATION Spec
SYMMETRY MCSymmetry
INVARIANTS
    TypeOK
    ObligationCounts
    EscrowBacked
    BondsAndStakesBacked
    RewardLedgersAgree
    NetPositionAgrees
    WithheldNeverExceedsSlashed
    ObligationsKeepProviderStaked
    ClawAccounted
    RewardsCovered
