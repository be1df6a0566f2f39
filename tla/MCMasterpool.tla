----------------------------- MODULE MCMasterpool -----------------------------
EXTENDS MasterpoolInvariants, TLC

\* In the manner of constants.rs, amounts scaled down to a few atomic units.  A receipt
\* earns 10 CLAW, split so that half of either share is a whole number: 6 and 4.  Genesis
\* covers two receipts and a slash, and no more; a slash is less than a provider's
\* share, so part of a share may be withheld.
ScaledParams ==
    [exchange_rate_claw_per_usdc_e6 |-> 840000,
     provider_stake_usdc            |-> 3,
     provider_usdc_share_bps        |-> 700,
     treasury_usdc_share_bps        |-> 300,
     user_claw_share_bps            |-> 600,
     provider_claw_share_bps        |-> 400,
     lock_days                      |-> 1,
     provider_slash_claw_amount     |-> 3,
     challenger_reward_bps          |-> 700,
     burn_bps                       |-> 300,
     challenge_bond_claw_amount     |-> 1]

MCParams == {ScaledParams}
MCNoPauses == {}

MCAllowance == [u \in Users |-> 40]
MCUsdc == [w \in Holders |-> IF w \in Users THEN 36 ELSE IF w \in Providers THEN 3 ELSE 0]
MCClaw == [w \in Holders |-> IF w \in Challengers THEN 2 ELSE 0]

\* Receipts, challenges and providers are interchangeable, and the runs that
\* say so check invariants only.
MCSymmetry ==
    Permutations(Receipts) \cup Permutations(Challenges) \cup Permutations(Providers)
=============================================================================
