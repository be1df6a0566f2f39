---------------------------- MODULE ClawfarmFaucet ----------------------------
(***************************************************************************)
(* The whole system: both programs and the faucet.  The faucet shares the  *)
(* masterpool's reward vault, its mints and the wallets, so this is where  *)
(* the books of both tokens have to close.                                 *)
(***************************************************************************)
EXTENDS ClawfarmInvariants, Faucet

system_vars == <<now, masterpool_vars, attestation_vars, faucet_vars>>

SystemInit == Init /\ FaucetInit

SystemNext ==
    \/ ClawfarmNext /\ UNCHANGED faucet_vars
    \/ FaucetStep /\ UNCHANGED attestation_vars

SystemSpec == SystemInit /\ [][SystemNext]_system_vars

-----------------------------------------------------------------------------

\* No instruction of either program creates or loses a token, whoever holds it:
\* the USDC of the wallets, the three USDC vaults and the faucet is what the
\* wallets started with, and the CLAW of the wallets, the two CLAW vaults and
\* the faucet is what was ever minted less what resolved challenges burned.
TokensConserved ==
    /\ Total(Holders, usdc) + vault.treasury + vault.provider_stake
         + vault.provider_pending + faucet_vault["usdc"] = Total(Holders, InitialUsdc)
    /\ Total(Holders, claw) + vault.reward + vault.challenge_bond + faucet_vault["claw"]
         = Total(Holders, InitialClaw) + Minted - Burned
    /\ claw_supply = Total(Holders, InitialClaw) + Minted - Burned

\* A sentence of the documents the code does not keep: "WHEN a reward-account
\* owner invokes the claim instruction and the account has released but
\* unclaimed CLAW THEN the program transfers exactly the released-but-unclaimed
\* amount from reward inventory".  Asked only after genesis, while claims run,
\* and while the rewards booked and the slashes taken fit in what genesis minted.
ReleasedIsClaimable ==
    Minted > 0 /\ Running("claims") /\ BookedRewards + AllSlashed <= Minted =>
        /\ \A u \in Users : user_reward[u].released > user_reward[u].claimed =>
             ENABLED ClaimUserClaw(u)
        /\ \A p \in Providers : provider_reward[p].released > provider_reward[p].claimed =>
             ENABLED ClaimProviderClaw(p)
=============================================================================
