CONSTANTS
    Users = {u1}
    Providers = {p1}
    Challengers = {w1}
    Receipts = {r1}
    Challenges = {r1}
    PoolAuthority = pool
    None = None
    StartTime = 43200
    ClockSteps = {43200}
    MaxTime = 129600
    MAX_U64 = 1000
    MAX_RECEIPT_USDC_ATOMIC = 10
    GENESIS_TOTAL_SUPPLY = 12
    ParamChoices <- MCParams
    PauseChoices <- MCNoPauses
    Charges = {7}
    Allowances = {}
    ReleaseAmounts = {1}
    InitialAllowance <- MCAllowance
    InitialUsdc <- MCUsdc
    InitialClaw <- MCNoClaw
    Signers = {s1}
    Attested <- MCAttested
    WindowChoices = {1}
    TimeoutChoices = {1}
    SignerChoices <- MCRegistrations
    Revocable = {}
    StopChoices = {}
    DefaultLimits <- MCLimits
    LimitChoices <- MCNoLimits
    ClaimChoices <- MCClaims
    FundChoices = {12}
SPECIFICATION SystemSpec
INVARIANTS
    ReleasedIsClaimable
