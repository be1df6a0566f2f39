CONSTANTS
    Users = {u1}
    Providers = {p1}
    Challengers = {w1}
    Receipts = {r1}
    Challenges = {r1}
    PoolAuthority = pool
    None = None
    StartTime = 43200
    ClockSteps = {43200}
    MaxTime = 216000
    MAX_U64 = 1000
    MAX_RECEIPT_USDC_ATOMIC = 10
    GENESIS_TOTAL_SUPPLY = 12
    ParamChoices <- MCParams
    PauseChoices <- MCStallingPauses
    Charges = {7}
    Allowances = {}
    ReleaseAmounts = {}
    InitialAllowance <- MCAllowance
    InitialUsdc <- MCUsdc
    InitialClaw <- MCClaw
    Signers = {s1}
    Attested <- MCAttested
    WindowChoices = {43200}
    TimeoutChoices = {43200}
    SignerChoices <- MCSignerChoices
    Revocable = {}
    StopChoices = {}
SPECIFICATION FairClawfarmSpec
PROPERTIES
    EventuallySettled
