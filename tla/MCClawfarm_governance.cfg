CONSTANTS
    Users = {u1}
    Providers = {p1}
    Challengers = {w1}
    Receipts = {r1}
    Challenges = {r1}
    PoolAuthority = pool
    None = None
    StartTime = 43200
    ClockSteps = {43200}
    MaxTime = 172800
    MAX_U64 = 1000
    MAX_RECEIPT_USDC_ATOMIC = 10
    GENESIS_TOTAL_SUPPLY = 12
    ParamChoices <- MCParamChoices
    PauseChoices <- MCAllOrNothing
    Charges = {7}
    Allowances = {7, 8}
    ReleaseAmounts = {1}
    InitialAllowance <- MCNoAllowance
    InitialUsdc <- MCUsdc
    InitialClaw <- MCNoClaw
    Signers = {s1}
    Attested <- MCAttested
    WindowChoices = {43200}
    TimeoutChoices = {43200}
    SignerChoices <- MCAllSignerChoices
    Revocable = {s1}
    StopChoices = {TRUE, FALSE}
SPECIFICATION ClawfarmSpec
INVARIANTS
    ClawfarmTypeOK
    ReleasedWithinVested
PROPERTIES
    ChargedOnlyWithMandate
