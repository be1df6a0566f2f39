------------------------- MODULE MasterpoolInvariants -------------------------
(***************************************************************************)
(* What the masterpool's ledgers must satisfy.  The program never sums     *)
(* over receipts: it keeps running totals in the provider accounts, the    *)
(* reward accounts and the token vaults, each updated by several           *)
(* instructions.  The invariants say that every running total is, at all   *)
(* times, the sum over the receipts and bonds it stands for.               *)
(***************************************************************************)
EXTENDS Masterpool

\* The type invariant: every account has the layout of state/accounts.rs.
TypeOK ==
    /\ now \in Nat \ {0}
    /\ config \in GlobalConfig \cup {None}
    /\ config # None => ValidParams(config.params)
    /\ provider \in [Providers -> ProviderAccount \cup {None}]
    /\ user_reward \in [Users -> RewardAccount]
    /\ provider_reward \in [Providers -> RewardAccount]
    /\ settlement \in [Receipts -> ReceiptSettlement \cup {None}]
    /\ bond \in [Challenges -> ChallengeBondRecord \cup {None}]
    /\ vault \in Vaults
    /\ usdc \in [Holders -> Nat]
    /\ claw \in [Holders -> Nat]
    /\ claw_supply \in U64
    /\ allowance \in [Users -> Nat]

-----------------------------------------------------------------------------
(* Sums over the receipts and the bonds *)

\* Receipts of provider p, or of user u.
OfProvider(r, p) == settlement[r] # None /\ settlement[r].provider_wallet = p
OfUser(r, u) == settlement[r] # None /\ settlement[r].payer_user = u

Escrowed(p) == Total(Receipts, [r \in Receipts |->
    IF Recorded(r) /\ OfProvider(r, p) THEN settlement[r].usdc_to_provider ELSE 0])

AllEscrowed == Total(Receipts, [r \in Receipts |->
    IF Recorded(r) THEN settlement[r].usdc_to_provider ELSE 0])

UserPending(u) == Total(Receipts, [r \in Receipts |->
    IF Recorded(r) /\ OfUser(r, u) THEN settlement[r].claw_to_user ELSE 0])

UserLocked(u) == Total(Receipts, [r \in Receipts |->
    IF FinalizedSettled(r) /\ OfUser(r, u)
    THEN settlement[r].claw_to_user - settlement[r].user_claw_released ELSE 0])

UserReleased(u) == Total(Receipts, [r \in Receipts |->
    IF OfUser(r, u) THEN settlement[r].user_claw_released ELSE 0])

ProviderPending(p) == Total(Receipts, [r \in Receipts |->
    IF Recorded(r) /\ OfProvider(r, p) THEN settlement[r].claw_to_provider_locked ELSE 0])

ProviderLocked(p) == Total(Receipts, [r \in Receipts |->
    IF FinalizedSettled(r) /\ OfProvider(r, p)
    THEN settlement[r].claw_to_provider_locked - settlement[r].provider_claw_released ELSE 0])

ProviderReleased(p) == Total(Receipts, [r \in Receipts |->
    IF OfProvider(r, p) THEN settlement[r].provider_claw_released ELSE 0])

\* What the provider has earned, and what was withheld of it, on receipts that
\* were not reverted.
Earned(p) == Total(Receipts, [r \in Receipts |->
    IF OfProvider(r, p) /\ ~ChallengedReverted(r)
    THEN settlement[r].claw_to_provider_total ELSE 0])

Withheld(p) == Total(Receipts, [r \in Receipts |->
    IF OfProvider(r, p) /\ ~ChallengedReverted(r)
    THEN settlement[r].claw_provider_debt_offset ELSE 0])

\* What upheld challenges charged the provider.
Slashed(p) == Total(Challenges, [c \in Challenges |->
    IF HasStatus(bond[c], "Returned") /\ bond[c].provider_wallet = p
    THEN bond[c].slash_claw_amount_snapshot ELSE 0])

AllSlashed == Total(Challenges, [c \in Challenges |->
    IF HasStatus(bond[c], "Returned") THEN bond[c].slash_claw_amount_snapshot ELSE 0])

BondsHeld == Total(Challenges, [c \in Challenges |->
    IF BondLocked(c) THEN bond[c].bond_amount ELSE 0])

Burned == Total(Challenges, [c \in Challenges |->
    IF HasStatus(bond[c], "Burned") THEN bond[c].bond_amount
    ELSE IF HasStatus(bond[c], "Returned") THEN bond[c].burn_amount ELSE 0])

Staked == Total(Providers, [p \in Providers |->
    IF provider[p] # None THEN provider[p].staked_usdc_amount ELSE 0])

Claimed == Total(Users, [u \in Users |-> user_reward[u].claimed])
           + Total(Providers, [p \in Providers |-> provider_reward[p].claimed])

\* The rewards of the receipts that stand, whether pending, locked, released or claimed.
BookedToUsers == Total(Receipts, [r \in Receipts |->
    IF settlement[r] # None /\ ~ChallengedReverted(r)
    THEN settlement[r].claw_to_user ELSE 0])

BookedToProviders == Total(Receipts, [r \in Receipts |->
    IF settlement[r] # None /\ ~ChallengedReverted(r)
    THEN settlement[r].claw_to_provider_locked ELSE 0])

BookedRewards == BookedToUsers + BookedToProviders

\* What an account was promised and has not been paid.
OwedTo(account) == account.pending + account.locked + account.released - account.claimed

Owed == Total(Users, [u \in Users |-> OwedTo(user_reward[u])])
        + Total(Providers, [p \in Providers |-> OwedTo(provider_reward[p])])

Minted == IF config # None /\ config.genesis_minted THEN GENESIS_TOTAL_SUPPLY ELSE 0

-----------------------------------------------------------------------------
(* Safety *)

\* exit_provider decides on two counters: they count exactly the receipts still
\* Recorded and the bonds still Locked of that provider.
ObligationCounts ==
    \A p \in Providers : provider[p] # None =>
        /\ provider[p].unsettled_receipt_count =
             Cardinality({r \in Receipts : Recorded(r) /\ OfProvider(r, p)})
        /\ provider[p].unresolved_challenge_count =
             Cardinality({c \in Challenges : BondLocked(c) /\ bond[c].provider_wallet = p})

\* The USDC of all providers sits in ONE vault.  The vault holds exactly the
\* shares of the receipts that may still be paid out or refunded, and each
\* provider's pending_provider_usdc is its part of them, so paying one provider
\* or refunding one payer never spends the escrow of another receipt.
\* What anyone else gives to a vault on top is not counted.
EscrowBacked ==
    /\ vault.provider_pending = AllEscrowed
    /\ \A p \in Providers : provider[p] # None =>
         provider[p].pending_provider_usdc = Escrowed(p)

\* The bond vault holds exactly the bonds whose challenge is not resolved, and
\* the stake vault exactly the stakes of the providers that have not exited.
BondsAndStakesBacked ==
    /\ vault.challenge_bond = BondsHeld
    /\ vault.provider_stake = Staked

\* pending, locked and released CLAW of every reward account are the sums over
\* the receipts in the corresponding state, although settle, resolve and
\* release move them receipt by receipt.
RewardLedgersAgree ==
    /\ \A u \in Users :
         /\ user_reward[u].pending = UserPending(u)
         /\ user_reward[u].locked = UserLocked(u)
         /\ user_reward[u].released = UserReleased(u)
         /\ user_reward[u].claimed <= user_reward[u].released
    /\ \A p \in Providers :
         /\ provider_reward[p].pending = ProviderPending(p)
         /\ provider_reward[p].locked = ProviderLocked(p)
         /\ provider_reward[p].released = ProviderReleased(p)
         /\ provider_reward[p].claimed <= provider_reward[p].released

\* The signed net position of a provider is what it earned on receipts that
\* stand, less what upheld challenges charged it.
NetPositionAgrees ==
    \A p \in Providers : provider[p] # None =>
        provider[p].claw_net_position = Earned(p) - Slashed(p)

\* Debt offsets are computed from a position that later reverts change.  Over
\* any history they never withhold more reward than the provider was slashed.
WithheldNeverExceedsSlashed ==
    \A p \in Providers : Withheld(p) <= Slashed(p)

\* A provider that still owes something on a receipt or a challenge has not
\* left with its stake: no order of recording, settling, challenging and
\* exiting strands an obligation on an exited provider.
ObligationsKeepProviderStaked ==
    /\ \A r \in Receipts : Recorded(r) =>
         HasStatus(provider[settlement[r].provider_wallet], "Active")
    /\ \A c \in Challenges : BondLocked(c) =>
         HasStatus(provider[bond[c].provider_wallet], "Active")
    /\ \A p \in Providers : HasStatus(provider[p], "Exited") =>
         provider[p].claw_net_position >= 0

\* Nothing is released before the receipt is settled, and never more than has
\* vested by now under the lock period in force when the receipt was recorded.
ReleasedWithinVested ==
    \A r \in Receipts : settlement[r] # None =>
        LET s == settlement[r] IN
        /\ ~FinalizedSettled(r) => s.user_claw_released = 0 /\ s.provider_claw_released = 0
        /\ FinalizedSettled(r) =>
             /\ s.user_claw_released <=
                  Vested(s.claw_to_user, s.reward_lock_started_at, now, s.lock_days_snapshot)
             /\ s.provider_claw_released <=
                  Vested(s.claw_to_provider_locked, s.reward_lock_started_at, now,
                         s.lock_days_snapshot)

\* Every CLAW is accounted for: the supply is what was minted less the burned
\* bonds and slashes, wallets and vaults hold all of it, and the reward vault
\* has lost exactly what was claimed and slashed.
ClawAccounted ==
    /\ claw_supply = Total(Holders, InitialClaw) + Minted - Burned
    /\ claw_supply = Total(Holders, claw) + vault.reward + vault.challenge_bond
    /\ vault.reward = Minted - Claimed - AllSlashed

\* No instruction sets CLAW aside for a receipt: claims and slashes are paid out
\* of one reward vault, which no account of the program compares with what it
\* owes.  It covers all that is owed as long as what was booked and slashed is
\* no more than what was minted.
RewardsCovered == BookedRewards + AllSlashed <= Minted => Owed <= vault.reward
=============================================================================
