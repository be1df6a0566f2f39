CONSTANTS
    Users = {u1, u2}
    Providers = {}
    Challengers = {w1}
    Receipts = {}
    Challenges = {}
    PoolAuthority = pool
    None = None
    StartTime = 43200
    ClockSteps = {43200}
    MaxTime = 172800
    MAX_U64 = 16
    MAX_RECEIPT_USDC_ATOMIC = 10
    GENESIS_TOTAL_SUPPLY = 5
    ParamChoices <- MCParams
    PauseChoices <- MCNoPauses
    Charges = {}
    Allowances = {}
    ReleaseAmounts = {}
    InitialAllowance <- MCAllowance
    InitialUsdc <- MCUsdc
    InitialClaw <- MCClaw
    DefaultLimits <- MCLimits
    LimitChoices <- MCLimitChoices
    ClaimChoices <- MCClaims
    FundChoices = {4}
SPECIFICATION FaucetSpec
INVARIANT FaucetTypeOK
PROPERTY KeepsDailyAllowance
