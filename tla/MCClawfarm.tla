------------------------------ MODULE MCClawfarm ------------------------------
EXTENDS ClawfarmInvariants

\* The defaults of constants.rs, amounts scaled down to a few atomic units.
DefaultParams ==
    [exchange_rate_claw_per_usdc_e6 |-> 1000000,
     provider_stake_usdc            |-> 3,
     provider_usdc_share_bps        |-> 700,
     treasury_usdc_share_bps        |-> 300,
     user_claw_share_bps            |-> 300,
     provider_claw_share_bps        |-> 700,
     lock_days                      |-> 1,
     provider_slash_claw_amount     |-> 7,
     challenger_reward_bps          |-> 700,
     burn_bps                       |-> 300,
     challenge_bond_claw_amount     |-> 2]

\* Another legal choice: every share, the slash, the bond and the lock differ.
OtherParams ==
    [DefaultParams EXCEPT
       !.exchange_rate_claw_per_usdc_e6 = 500000,
       !.treasury_usdc_share_bps = 1000, !.provider_usdc_share_bps = 0,
       !.user_claw_share_bps = 500, !.provider_claw_share_bps = 500,
       !.lock_days = 2,
       !.provider_slash_claw_amount = 3,
       !.challenge_bond_claw_amount = 1]

\* A choice validate_phase1_params must reject.
BadSplitParams == [DefaultParams EXCEPT !.treasury_usdc_share_bps = 400]

MCParams == {DefaultParams}
MCParamChoices == {DefaultParams, OtherParams, BadSplitParams}

MCNoPauses == {}
MCStallingPauses == {{}, {"challenge_processing"}, {"finalization"}}
MCAllOrNothing == {{}, PauseFlags}

GatewayKey == [attester_types |-> {"Gateway"}, valid_from |-> 0, valid_until |-> 0]
MCSignerChoices == {GatewayKey}

\* A key that expires, one of another type, and two that must be refused.
ExpiringKey == [GatewayKey EXCEPT !.valid_until = 86400]
ProviderKey == [GatewayKey EXCEPT !.attester_types = {"Provider"}]
UselessKey == [GatewayKey EXCEPT !.attester_types = {}]
BackwardKey == [GatewayKey EXCEPT !.valid_from = 2, !.valid_until = 1]
MCAllSignerChoices == {ExpiringKey, ProviderKey, UselessKey, BackwardKey}

\* The gateway's key has signed one charge per nonce.
MCAttested == {SignedMessage(s, r, u, p, charge) :
                 s \in Signers, r \in Receipts, u \in Users, p \in Providers, charge \in {7}}

MCNoAllowance == [u \in Users |-> 0]
MCAllowance == [u \in Users |-> 15]
MCUsdc == [w \in Holders |-> IF w \in Wallets THEN 17 ELSE 0]
MCNoClaw == [w \in Holders |-> 0]
MCClaw == [w \in Holders |-> IF w \in Challengers THEN 4 ELSE 0]
=============================================================================
