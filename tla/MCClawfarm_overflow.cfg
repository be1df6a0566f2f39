CONSTANTS
    Users = {u1}
    Providers = {p1}
    Challengers = {w1}
    Receipts = {r1, r2}
    Challenges = {r1, r2}
    PoolAuthority = pool
    None = None
    StartTime = 43200
    ClockSteps = {43200}
    MaxTime = 216000
    MAX_U64 = 9
    MAX_RECEIPT_USDC_ATOMIC = 7
    GENESIS_TOTAL_SUPPLY = 5
    ParamChoices <- MCParams
    PauseChoices <- MCNoPauses
    Charges = {7}
    Allowances = {}
    ReleaseAmounts = {}
    InitialAllowance <- MCAllowance
    InitialUsdc <- MCUsdc
    InitialClaw <- MCNoClaw
    Signers = {s1}
    Attested <- MCAttested
    WindowChoices = {43200}
    TimeoutChoices = {43200}
    SignerChoices <- MCSignerChoices
    Revocable = {}
    StopChoices = {}
SPECIFICATION ClawfarmSpec
INVARIANTS
    SettlementNeverOverflows
