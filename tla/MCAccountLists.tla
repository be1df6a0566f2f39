---------------------------- MODULE MCAccountLists ----------------------------
EXTENDS AccountLists

CONSTANTS w1, w2, gateway, claw, usdc, junk, n1, n2, k1, k2

\* Two wallets that both pay, serve and challenge, in crossed roles, so that an
\* account taken for another of the same owner, or of the same kind, is noticed,
\* and a message that names the pool authority as the payer.
MCWallets == {w1, w2}
MCSigned ==
    {[nonce |-> n1, payer_user |-> w1, provider_wallet |-> w2, signer |-> k1],
     [nonce |-> n1, payer_user |-> PoolAuthority, provider_wallet |-> w2, signer |-> k1],
     [nonce |-> n2, payer_user |-> w2, provider_wallet |-> w1, signer |-> k2]}
MCApproved == [w \in MCWallets |-> gateway]
MCMints == {claw, usdc, junk}
MCMintPairs == {<<claw, usdc>>}
=============================================================================
