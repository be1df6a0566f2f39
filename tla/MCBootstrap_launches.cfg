CONSTANTS
    Runs = {a, b, c}
    None = None
    GENESIS_TOTAL_SUPPLY = 12
SPECIFICATION Spec
INVARIANTS
    GenesisStillMintable
    RecordIsTrue
CHECK_DEADLOCK FALSE
