CONSTANTS
    gateway = gateway
    other = other
    m1 = m1
    m2 = m2
    Keys = {gateway, other}
    Messages = {m1, m2}
    Signed <- MCSigned
    Headers <- MCHeaders
    Words <- MCWords
    Programs = {"ed25519", "memo"}
SPECIFICATION SignatureSpec
INVARIANTS
    AcceptedWasSigned
