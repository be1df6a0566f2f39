CONSTANTS
    w1 = w1
    w2 = w2
    gateway = gateway
    claw = claw
    usdc = usdc
    junk = junk
    n1 = n1
    n2 = n2
    k1 = k1
    k2 = k2
    Nonces = {n1, n2}
    Authority = authority
    ChallengeResolver = resolver
    Admin = admin
    None = None
    Wallets <- MCWallets
    Signed <- MCSigned
    Approved <- MCApproved
    Mints <- MCMints
    MintPairs <- MCMintPairs
SPECIFICATION ListsSpec
INVARIANTS
    AccountsAgree
PROPERTIES
    KeepsToParties
