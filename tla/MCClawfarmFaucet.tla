--------------------------- MODULE MCClawfarmFaucet ---------------------------
EXTENDS ClawfarmFaucet

DefaultParams ==
    [exchange_rate_claw_per_usdc_e6 |-> 1000000,
     provider_stake_usdc            |-> 3,
     provider_usdc_share_bps        |-> 700,
     treasury_usdc_share_bps        |-> 300,
     user_claw_share_bps            |-> 300,
     provider_claw_share_bps        |-> 700,
     lock_days                      |-> 1,
     provider_slash_claw_amount     |-> 7,
     challenger_reward_bps          |-> 700,
     burn_bps                       |-> 300,
     challenge_bond_claw_amount     |-> 2]

MCParams == {DefaultParams}
MCNoPauses == {}
MCRegistrations == {[attester_types |-> {"Gateway"}, valid_from |-> 0, valid_until |-> 0]}
MCAttested == {SignedMessage(s, r, u, p, 7) :
                 s \in Signers, r \in Receipts, u \in Users, p \in Providers}
MCAllowance == [u \in Users |-> 15]
MCUsdc == [w \in Holders |-> IF w \in Users THEN 9 ELSE IF w \in Providers THEN 3 ELSE 0]
MCNoClaw == [w \in Holders |-> 0]

Each(claw_amount, usdc_amount) ==
    [t \in Tokens |-> IF t = "claw" THEN claw_amount ELSE usdc_amount]

\* A challenger gets its bond from the faucet.
MCLimits ==
    [max_per_claim |-> Each(2, 1), max_per_wallet_per_day |-> Each(2, 1),
     max_global_per_day |-> Each(2, 2)]

MCNoLimits == {}
MCClaims == {Each(2, 1)}
=============================================================================
