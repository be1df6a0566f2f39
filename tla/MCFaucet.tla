------------------------------- MODULE MCFaucet -------------------------------
EXTENDS Faucet

DefaultParams ==
    [exchange_rate_claw_per_usdc_e6 |-> 1000000,
     provider_stake_usdc            |-> 3,
     provider_usdc_share_bps        |-> 700,
     treasury_usdc_share_bps        |-> 300,
     user_claw_share_bps            |-> 300,
     provider_claw_share_bps        |-> 700,
     lock_days                      |-> 1,
     provider_slash_claw_amount     |-> 7,
     challenger_reward_bps          |-> 700,
     burn_bps                       |-> 300,
     challenge_bond_claw_amount     |-> 2]

MCParams == {DefaultParams}
MCNoPauses == {}
MCAllowance == [u \in Users |-> 0]
MCUsdc == [w \in Holders |-> IF w \in Challengers THEN 4 ELSE 0]
MCClaw == [w \in Holders |-> 0]

Each(claw_amount, usdc_amount) ==
    [t \in Tokens |-> IF t = "claw" THEN claw_amount ELSE usdc_amount]

\* In the proportions of constants.rs: several claims per wallet and day, and a
\* global limit that not all wallets can reach on the same day.
MCLimits ==
    [max_per_claim |-> Each(1, 1), max_per_wallet_per_day |-> Each(2, 2),
     max_global_per_day |-> Each(3, 3)]

LowerLimits ==
    [max_per_claim |-> Each(1, 2), max_per_wallet_per_day |-> Each(1, 2),
     max_global_per_day |-> Each(2, 2)]

\* More per wallet than all wallets may have: must be refused.
CrossedLimits == [MCLimits EXCEPT !.max_global_per_day = Each(1, 1)]

MCLimitChoices == {LowerLimits, CrossedLimits}
MCClaims == {Each(1, 1), Each(0, 2)}
=============================================================================
