------------------------------ MODULE Masterpool ------------------------------
(***************************************************************************)
(* The clawfarm-masterpool program: the economic authority.  It registers  *)
(* providers against a USDC stake, books the USDC and CLAW of every        *)
(* receipt the attestation program reports, keeps the provider's share in  *)
(* escrow until the receipt is settled or reverted, holds the bonds of     *)
(* challengers, and releases vested CLAW for claiming.  (The faucet is a   *)
(* component of its own.)                                                  *)
(*                                                                         *)
(* One action per instruction.  Next takes the four instructions only the  *)
(* attestation program may call in ANY order their own guards allow;       *)
(* Clawfarm restricts them to the calls the attestation program makes.     *)
(* created_at and updated_at, which nothing reads, are left out.           *)
(***************************************************************************)
EXTENDS Chain, Phase1Math, AtomicSums

CONSTANTS
    Challenges,            \* challenge addresses
    GENESIS_TOTAL_SUPPLY,  \* CLAW minted into the reward vault at genesis
    ParamChoices,          \* governance parameters an admin may propose
    PauseChoices,          \* sets of pause flags an admin may raise
    Charges,               \* charges a receipt may report
    Allowances,            \* amounts a user may approve to the gateway
    ReleaseAmounts,        \* amounts an admin may release at once
    InitialAllowance,      \* what each user has already approved
    InitialUsdc,           \* USDC each wallet starts with
    InitialClaw            \* CLAW each wallet starts with, minted before genesis

PauseFlags == {"receipt_recording", "challenge_processing", "finalization", "claims"}
ReceiptStatuses == {"Submitted", "Challenged", "Finalized", "Rejected", "Slashed"}
UpheldCodes == {"Accepted", "ReceiptInvalidated", "SignerRevoked"}
ResolutionCodes == UpheldCodes \cup {"Rejected"}
ReleaseTargets == {"User", "Provider"}

ASSUME MasterpoolAssumption ==
    /\ IsFiniteSet(Receipts) /\ IsFiniteSet(Challenges)
    /\ IsFiniteSet(Holders)
    /\ GENESIS_TOTAL_SUPPLY \in Nat
    /\ ParamChoices \subseteq Phase1ConfigParams
    /\ PauseChoices \subseteq SUBSET PauseFlags
    /\ Charges \subseteq Nat /\ Allowances \subseteq Nat /\ ReleaseAmounts \subseteq Nat
    /\ InitialAllowance \in [Users -> Nat]
    /\ InitialUsdc \in [Holders -> Nat]
    /\ InitialClaw \in [Holders -> Nat]
    /\ FitsU64(Total(Holders, InitialClaw))

VARIABLES
    config,           \* GlobalConfig, or None
    provider,         \* ProviderAccount of each provider, or None
    user_reward,      \* RewardAccount (kind User) of each user
    provider_reward,  \* RewardAccount (kind Provider) of each provider
    settlement,       \* ReceiptSettlement of each receipt, or None
    bond,             \* ChallengeBondRecord of each challenge, or None
    vault,            \* what the program has put into each of its token vaults
    usdc, claw,       \* token balances of the wallets; PoolAuthority's is what its
                      \* vaults were given on top, which nothing is ever paid from
    claw_supply,      \* supply of the CLAW mint
    allowance         \* what each user's USDC account delegates to the gateway

tokens == <<vault, usdc, claw, claw_supply, allowance>>
masterpool_vars ==
    <<config, provider, user_reward, provider_reward, settlement, bond, tokens>>
mvars == <<now, masterpool_vars>>

-----------------------------------------------------------------------------
(* Accounts *)

GlobalConfig ==
    [params : Phase1ConfigParams, genesis_minted : BOOLEAN, paused : SUBSET PauseFlags]

ProviderAccount ==
    [staked_usdc_amount         : U64,
     pending_provider_usdc      : U64,
     claw_net_position          : Int,     \* i128; taken as unbounded
     unsettled_receipt_count    : U64,
     unresolved_challenge_count : U64,
     status                     : {"Active", "Exited"}]

RewardAccount == [pending : U64, locked : U64, released : U64, claimed : U64]

NoRewards == [pending |-> 0, locked |-> 0, released |-> 0, claimed |-> 0]

ReceiptSettlement ==
    [payer_user                : Users,
     provider_wallet           : Providers,
     usdc_total_paid           : U64,
     usdc_to_provider          : U64,
     usdc_to_treasury          : U64,
     claw_to_user              : U64,
     claw_to_provider_total    : U64,
     claw_provider_debt_offset : U64,
     claw_to_provider_locked   : U64,
     lock_days_snapshot        : Nat \ {0},
     reward_lock_started_at    : Nat,
     user_claw_released        : U64,
     provider_claw_released    : U64,
     status                    : {"Recorded", "FinalizedSettled", "ChallengedReverted"}]

ChallengeBondRecord ==
    [attestation_receipt        : Receipts,
     challenger                 : Challengers,
     provider_wallet            : Providers,
     bond_amount                : U64,
     slash_claw_amount_snapshot : U64,
     challenger_reward_amount   : U64,
     burn_amount                : U64,
     status                     : {"Locked", "Returned", "Burned"}]

Vaults == [reward : Nat, challenge_bond : Nat, treasury : Nat,
           provider_stake : Nat, provider_pending : Nat]

ASSUME NoneAssumption ==
    /\ None \notin GlobalConfig
    /\ None \notin ProviderAccount
    /\ None \notin ReceiptSettlement
    /\ None \notin ChallengeBondRecord

HasStatus(account, status) == account # None /\ account.status = status

Recorded(r) == HasStatus(settlement[r], "Recorded")
FinalizedSettled(r) == HasStatus(settlement[r], "FinalizedSettled")
ChallengedReverted(r) == HasStatus(settlement[r], "ChallengedReverted")
BondLocked(c) == HasStatus(bond[c], "Locked")

Running(flag) == config # None /\ flag \notin config.paused

MasterpoolInit ==
    /\ ClockInit
    /\ config = None
    /\ provider = [p \in Providers |-> None]
    /\ user_reward = [u \in Users |-> NoRewards]
    /\ provider_reward = [p \in Providers |-> NoRewards]
    /\ settlement = [r \in Receipts |-> None]
    /\ bond = [c \in Challenges |-> None]
    /\ vault = [reward |-> 0, challenge_bond |-> 0, treasury |-> 0,
                provider_stake |-> 0, provider_pending |-> 0]
    /\ usdc = InitialUsdc
    /\ claw = InitialClaw
    /\ claw_supply = Total(Holders, InitialClaw)
    /\ allowance = InitialAllowance

-----------------------------------------------------------------------------
(* Governance: instructions/config.rs *)

InitializeMasterpool(params) ==
    /\ config = None
    /\ ValidParams(params)
    /\ config' = [params |-> params, genesis_minted |-> FALSE, paused |-> {}]
    /\ UNCHANGED <<now, provider, user_reward, provider_reward, settlement, bond, tokens>>

\* The pool holds the mint authority until this instruction gives it up, so the
\* authority checks succeed exactly when genesis has not been minted.
MintGenesisSupply ==
    /\ config # None
    /\ ~config.genesis_minted
    /\ FitsU64(claw_supply + GENESIS_TOTAL_SUPPLY)
    /\ config' = [config EXCEPT !.genesis_minted = TRUE]
    /\ vault' = [vault EXCEPT !.reward = @ + GENESIS_TOTAL_SUPPLY]
    /\ claw_supply' = claw_supply + GENESIS_TOTAL_SUPPLY
    /\ UNCHANGED <<now, provider, user_reward, provider_reward, settlement, bond,
                   usdc, claw, allowance>>

\* Slip: update_config stores what it is given.
UpdateConfigUnchecked(params) ==
    /\ config # None
    /\ config' = [config EXCEPT !.params = params]
    /\ UNCHANGED <<now, provider, user_reward, provider_reward, settlement, bond, tokens>>

UpdateConfig(params) ==
    /\ config # None
    /\ ValidParams(params)
    /\ config' = [config EXCEPT !.params = params]
    /\ UNCHANGED <<now, provider, user_reward, provider_reward, settlement, bond, tokens>>

SetPauseFlags(flags) ==
    /\ config # None
    /\ config' = [config EXCEPT !.paused = flags]
    /\ UNCHANGED <<now, provider, user_reward, provider_reward, settlement, bond, tokens>>

-----------------------------------------------------------------------------
(* Providers: instructions/provider.rs *)

RegisterProvider(p) ==
    LET stake == config.params.provider_stake_usdc IN
    /\ config # None
    /\ provider[p] = None
    /\ usdc[p] >= stake
    /\ usdc' = [usdc EXCEPT ![p] = @ - stake]
    /\ vault' = [vault EXCEPT !.provider_stake = @ + stake]
    /\ provider' = [provider EXCEPT ![p] =
                      [staked_usdc_amount         |-> stake,
                       pending_provider_usdc      |-> 0,
                       claw_net_position          |-> 0,
                       unsettled_receipt_count    |-> 0,
                       unresolved_challenge_count |-> 0,
                       status                     |-> "Active"]]
    /\ UNCHANGED <<now, config, user_reward, provider_reward, settlement, bond,
                   claw, claw_supply, allowance>>

\* Slip: open challenges are not looked at.
MayExitWhileChallenged(account) ==
    /\ HasStatus(account, "Active")
    /\ account.pending_provider_usdc = 0
    /\ account.unsettled_receipt_count = 0
    /\ account.claw_net_position >= 0

MayExit(account) ==
    /\ HasStatus(account, "Active")
    /\ account.pending_provider_usdc = 0
    /\ account.unsettled_receipt_count = 0
    /\ account.unresolved_challenge_count = 0
    /\ account.claw_net_position >= 0

\* The destination may be any USDC account, a vault too: the code does not ask
\* who owns it.  What a vault is given in this way comes on top of its stakes.
ExitProvider(p, destination) ==
    LET account == provider[p] IN
    /\ MayExit(account)
    /\ vault.provider_stake >= account.staked_usdc_amount
    /\ vault' = [vault EXCEPT !.provider_stake = @ - account.staked_usdc_amount]
    /\ usdc' = [usdc EXCEPT ![destination] = @ + account.staked_usdc_amount]
    /\ provider' = [provider EXCEPT ![p].staked_usdc_amount = 0, ![p].status = "Exited"]
    /\ UNCHANGED <<now, config, user_reward, provider_reward, settlement, bond,
                   claw, claw_supply, allowance>>

-----------------------------------------------------------------------------
(* Receipts: instructions/receipt.rs, called by the attestation program *)

\* How much of a reward is withheld to pay off a negative net position.
DebtOffset(net_position, provider_claw_total) ==
    IF net_position < 0 THEN Least(-net_position, provider_claw_total) ELSE 0

\* The treasury's part is rounded down and the provider gets the rest.
ProviderShare(params, total) == total - BpsAmount(total, params.treasury_usdc_share_bps)

\* Slip: only what is not withheld counts as earned, so debts are never repaid.
PositionCreditNet(s) == s.claw_to_provider_locked

\* What a receipt adds to the provider's net position, and a revert takes back.
PositionCredit(s) == s.claw_to_provider_total

\* The settlement record_mining_from_receipt writes: every amount is computed
\* now, from the configuration and the provider's position now.
NewSettlement(u, p, total) ==
    LET params == config.params
        provider_share == ProviderShare(params, total)
        total_claw == ClawAmount(total, params.exchange_rate_claw_per_usdc_e6)
        user_claw == BpsAmount(total_claw, params.user_claw_share_bps)
        provider_claw == total_claw - user_claw
        debt_offset == DebtOffset(provider[p].claw_net_position, provider_claw)
    IN  [payer_user                |-> u,
         provider_wallet           |-> p,
         usdc_total_paid           |-> total,
         usdc_to_provider          |-> provider_share,
         usdc_to_treasury          |-> BpsAmount(total, params.treasury_usdc_share_bps),
         claw_to_user              |-> user_claw,
         claw_to_provider_total    |-> provider_claw,
         claw_provider_debt_offset |-> debt_offset,
         claw_to_provider_locked   |-> provider_claw - debt_offset,
         lock_days_snapshot        |-> params.lock_days,
         reward_lock_started_at    |-> 0,
         user_claw_released        |-> 0,
         provider_claw_released    |-> 0,
         status                    |-> "Recorded"]

\* Slip: an existing settlement is reused, as init_if_needed would.
RecordableTwice(r, total) ==
    /\ Running("receipt_recording")
    /\ total \in 1..MAX_RECEIPT_USDC_ATOMIC

\* The account of the settlement is created by the instruction and never closed.
Recordable(r, total) ==
    /\ Running("receipt_recording")
    /\ total \in 1..MAX_RECEIPT_USDC_ATOMIC
    /\ settlement[r] = None

\* Slip: only the receipt's own total is checked.
TotalsUnchecked(s) == FitsU64(s.claw_to_user + s.claw_to_provider_total)

\* The checked additions to the running totals.
TotalsFit(s) ==
    LET u == s.payer_user
        p == s.provider_wallet
    IN
    /\ FitsU64(s.claw_to_user + s.claw_to_provider_total)
    /\ FitsU64(user_reward[u].pending + s.claw_to_user)
    /\ FitsU64(provider_reward[p].pending + s.claw_to_provider_locked)
    /\ FitsU64(provider[p].pending_provider_usdc + s.usdc_to_provider)
    /\ FitsU64(provider[p].unsettled_receipt_count + 1)

\* Two transfers by the gateway, the user's payment delegate.  The token program
\* drops the delegate when its allowance reaches 0, so the first transfer must
\* leave something for the second even when the second moves nothing.
RecordMiningFromReceipt(r, u, p, total) ==
    LET s == NewSettlement(u, p, total) IN
    /\ Recordable(r, total)
    /\ HasStatus(provider[p], "Active")
    /\ usdc[u] >= total
    /\ allowance[u] >= total
    /\ allowance[u] > s.usdc_to_treasury
    /\ TotalsFit(s)
    /\ usdc' = [usdc EXCEPT ![u] = @ - (s.usdc_to_treasury + s.usdc_to_provider)]
    /\ allowance' = [allowance EXCEPT ![u] = @ - (s.usdc_to_treasury + s.usdc_to_provider)]
    /\ vault' = [vault EXCEPT !.treasury = @ + s.usdc_to_treasury,
                              !.provider_pending = @ + s.usdc_to_provider]
    /\ user_reward' = [user_reward EXCEPT ![u].pending = @ + s.claw_to_user]
    /\ provider_reward' =
         [provider_reward EXCEPT ![p].pending = @ + s.claw_to_provider_locked]
    /\ provider' = [provider EXCEPT
                      ![p].claw_net_position = @ + PositionCredit(s),
                      ![p].pending_provider_usdc = @ + s.usdc_to_provider,
                      ![p].unsettled_receipt_count = @ + 1]
    /\ settlement' = [settlement EXCEPT ![r] = s]
    /\ UNCHANGED <<now, config, bond, claw, claw_supply>>

\* Slip: the settlement's own status is not looked at.
SettleableTwice(r, attestation_receipt_status) ==
    /\ Running("finalization")
    /\ attestation_receipt_status = "Finalized"
    /\ settlement[r] # None

Settleable(r, attestation_receipt_status) ==
    /\ Running("finalization")
    /\ attestation_receipt_status = "Finalized"
    /\ Recorded(r)

\* What is subtracted when a receipt is settled, or when it is reverted, is there.
Covered(r) ==
    LET s == settlement[r]
        u == s.payer_user
        p == s.provider_wallet
    IN
    /\ user_reward[u].pending >= s.claw_to_user
    /\ provider_reward[p].pending >= s.claw_to_provider_locked
    /\ vault.provider_pending >= s.usdc_to_provider
    /\ provider[p].pending_provider_usdc >= s.usdc_to_provider
    /\ provider[p].unsettled_receipt_count >= 1

\* The checked additions to the locked totals.
LockedFits(s) ==
    /\ FitsU64(user_reward[s.payer_user].locked + s.claw_to_user)
    /\ FitsU64(provider_reward[s.provider_wallet].locked + s.claw_to_provider_locked)

\* The rewards start vesting now and the provider is paid from the escrow.
SettleFinalizedReceipt(r, attestation_receipt_status) ==
    LET s == settlement[r]
        u == s.payer_user
        p == s.provider_wallet
    IN
    /\ Settleable(r, attestation_receipt_status)
    /\ Covered(r)
    /\ LockedFits(s)
    /\ user_reward' = [user_reward EXCEPT ![u].pending = @ - s.claw_to_user,
                                          ![u].locked = @ + s.claw_to_user]
    /\ provider_reward' =
         [provider_reward EXCEPT ![p].pending = @ - s.claw_to_provider_locked,
                                 ![p].locked = @ + s.claw_to_provider_locked]
    /\ vault' = [vault EXCEPT !.provider_pending = @ - s.usdc_to_provider]
    /\ usdc' = [usdc EXCEPT ![p] = @ + s.usdc_to_provider]
    /\ provider' = [provider EXCEPT
                      ![p].pending_provider_usdc = @ - s.usdc_to_provider,
                      ![p].unsettled_receipt_count = @ - 1]
    /\ settlement' = [settlement EXCEPT ![r].reward_lock_started_at = now,
                                        ![r].status = "FinalizedSettled"]
    /\ UNCHANGED <<now, config, bond, claw, claw_supply, allowance>>

-----------------------------------------------------------------------------
(* Challenges: instructions/challenge.rs, called by the attestation program *)

\* Slash, reward and burn are fixed when the bond is posted.
RecordChallengeBond(c, r, challenger) ==
    LET params == config.params
        reward == BpsAmount(params.provider_slash_claw_amount, params.challenger_reward_bps)
        p == settlement[r].provider_wallet
    IN
    /\ Running("challenge_processing")
    /\ Recorded(r)
    /\ bond[c] = None
    /\ claw[challenger] >= params.challenge_bond_claw_amount
    /\ FitsU64(provider[p].unresolved_challenge_count + 1)
    /\ claw' = [claw EXCEPT ![challenger] = @ - params.challenge_bond_claw_amount]
    /\ vault' = [vault EXCEPT !.challenge_bond = @ + params.challenge_bond_claw_amount]
    /\ bond' = [bond EXCEPT ![c] =
                  [attestation_receipt        |-> r,
                   challenger                 |-> challenger,
                   provider_wallet            |-> p,
                   bond_amount                |-> params.challenge_bond_claw_amount,
                   slash_claw_amount_snapshot |-> params.provider_slash_claw_amount,
                   challenger_reward_amount   |-> reward,
                   burn_amount                |-> params.provider_slash_claw_amount - reward,
                   status                     |-> "Locked"]]
    /\ provider' = [provider EXCEPT ![p].unresolved_challenge_count = @ + 1]
    /\ UNCHANGED <<now, config, user_reward, provider_reward, settlement,
                   usdc, claw_supply, allowance>>

\* Slip: a bond may be resolved again.
ResolvableTwice(c, r) ==
    /\ Running("challenge_processing")
    /\ Recorded(r)
    /\ bond[c] # None
    /\ bond[c].attestation_receipt = r
    /\ provider[settlement[r].provider_wallet].unresolved_challenge_count >= 1
    /\ vault.challenge_bond >= bond[c].bond_amount

\* What both branches of resolve_challenge_economics require.
Resolvable(c, r) ==
    /\ Running("challenge_processing")
    /\ Recorded(r)
    /\ BondLocked(c)
    /\ bond[c].attestation_receipt = r
    /\ provider[settlement[r].provider_wallet].unresolved_challenge_count >= 1
    /\ vault.challenge_bond >= bond[c].bond_amount

\* Slip: slash and bond are read from the configuration of the day.
CurrentTerms(b) ==
    [b EXCEPT !.bond_amount = config.params.challenge_bond_claw_amount,
              !.slash_claw_amount_snapshot = config.params.provider_slash_claw_amount]

\* A challenge is resolved on the terms fixed when its bond was posted.
Terms(b) == b

\* Slip: the forfeited bond goes to the reward vault and is not burned.
KeepBond(c, r) ==
    LET p == settlement[r].provider_wallet IN
    /\ vault' = [vault EXCEPT !.challenge_bond = @ - bond[c].bond_amount,
                              !.reward = @ + bond[c].bond_amount]
    /\ provider' = [provider EXCEPT ![p].unresolved_challenge_count = @ - 1]
    /\ bond' = [bond EXCEPT ![c].status = "Burned"]
    /\ UNCHANGED <<claw_supply, user_reward, provider_reward, settlement, usdc, claw>>

\* The challenge failed: the bond is burned and the settlement stays Recorded.
BurnBond(c, r) ==
    LET p == settlement[r].provider_wallet
        b == Terms(bond[c])
    IN
    /\ vault' = [vault EXCEPT !.challenge_bond = @ - b.bond_amount]
    /\ claw_supply' = claw_supply - b.bond_amount
    /\ provider' = [provider EXCEPT ![p].unresolved_challenge_count = @ - 1]
    /\ bond' = [bond EXCEPT ![c].status = "Burned"]
    /\ UNCHANGED <<user_reward, provider_reward, settlement, usdc, claw>>

\* The challenge was upheld: the escrow goes back to the payer, the pending
\* rewards are dropped, the challenger gets the bond and a reward from the
\* reward vault, the rest of the slash is burned, and the provider owes both
\* the reverted reward and the slash.
RevertReceipt(c, r) ==
    LET s == settlement[r]
        b == Terms(bond[c])
        u == s.payer_user
        p == s.provider_wallet
    IN
    /\ Covered(r)
    /\ vault.reward >= b.challenger_reward_amount + b.burn_amount
    /\ user_reward' = [user_reward EXCEPT ![u].pending = @ - s.claw_to_user]
    /\ provider_reward' =
         [provider_reward EXCEPT ![p].pending = @ - s.claw_to_provider_locked]
    /\ vault' = [vault EXCEPT
                   !.challenge_bond = @ - b.bond_amount,
                   !.reward = @ - (b.challenger_reward_amount + b.burn_amount),
                   !.provider_pending = @ - s.usdc_to_provider]
    /\ claw' = [claw EXCEPT
                  ![b.challenger] = @ + b.bond_amount + b.challenger_reward_amount]
    /\ claw_supply' = claw_supply - b.burn_amount
    /\ usdc' = [usdc EXCEPT ![u] = @ + s.usdc_to_provider]
    /\ provider' = [provider EXCEPT
                      ![p].pending_provider_usdc = @ - s.usdc_to_provider,
                      ![p].unsettled_receipt_count = @ - 1,
                      ![p].unresolved_challenge_count = @ - 1,
                      ![p].claw_net_position =
                          @ - PositionCredit(s) - b.slash_claw_amount_snapshot]
    /\ settlement' = [settlement EXCEPT ![r].status = "ChallengedReverted"]
    /\ bond' = [bond EXCEPT ![c].status = "Returned"]

ResolveChallengeEconomics(c, r, resolution_code) ==
    /\ Resolvable(c, r)
    /\ \/ resolution_code = "Rejected" /\ BurnBond(c, r)
       \/ resolution_code \in UpheldCodes /\ RevertReceipt(c, r)
    /\ UNCHANGED <<now, config, allowance>>

-----------------------------------------------------------------------------
(* Rewards: instructions/reward.rs *)

\* The admin turns vested CLAW of one receipt into claimable CLAW.
ReleaseToUser(r, amount) ==
    LET s == settlement[r]
        u == s.payer_user
    IN
    /\ amount <= Releasable(s.claw_to_user, s.user_claw_released,
                            s.reward_lock_started_at, now, s.lock_days_snapshot)
    /\ user_reward[u].locked >= amount
    /\ FitsU64(user_reward[u].released + amount)
    /\ user_reward' = [user_reward EXCEPT ![u].locked = @ - amount,
                                          ![u].released = @ + amount]
    /\ settlement' = [settlement EXCEPT ![r].user_claw_released = @ + amount]
    /\ UNCHANGED provider_reward

ReleaseToProvider(r, amount) ==
    LET s == settlement[r]
        p == s.provider_wallet
    IN
    /\ amount <= Releasable(s.claw_to_provider_locked, s.provider_claw_released,
                            s.reward_lock_started_at, now, s.lock_days_snapshot)
    /\ provider_reward[p].locked >= amount
    /\ FitsU64(provider_reward[p].released + amount)
    /\ provider_reward' = [provider_reward EXCEPT ![p].locked = @ - amount,
                                                  ![p].released = @ + amount]
    /\ settlement' = [settlement EXCEPT ![r].provider_claw_released = @ + amount]
    /\ UNCHANGED user_reward

MaterializeRewardRelease(r, target, amount) ==
    /\ config # None
    /\ amount > 0
    /\ FinalizedSettled(r)
    /\ settlement[r].reward_lock_started_at > 0
    /\ \/ target = "User" /\ ReleaseToUser(r, amount)
       \/ target = "Provider" /\ ReleaseToProvider(r, amount)
    /\ UNCHANGED <<now, config, provider, bond, tokens>>

\* Everything released and not yet claimed, out of the shared reward vault.
ClaimUserClaw(u) ==
    LET claimable == user_reward[u].released - user_reward[u].claimed IN
    /\ Running("claims")
    /\ claimable > 0
    /\ vault.reward >= claimable
    /\ vault' = [vault EXCEPT !.reward = @ - claimable]
    /\ claw' = [claw EXCEPT ![u] = @ + claimable]
    /\ user_reward' = [user_reward EXCEPT ![u].claimed = @ + claimable]
    /\ UNCHANGED <<now, config, provider, provider_reward, settlement, bond,
                   usdc, claw_supply, allowance>>

ClaimProviderClaw(p) ==
    LET claimable == provider_reward[p].released - provider_reward[p].claimed IN
    /\ Running("claims")
    /\ claimable > 0
    /\ vault.reward >= claimable
    /\ vault' = [vault EXCEPT !.reward = @ - claimable]
    /\ claw' = [claw EXCEPT ![p] = @ + claimable]
    /\ provider_reward' = [provider_reward EXCEPT ![p].claimed = @ + claimable]
    /\ UNCHANGED <<now, config, provider, user_reward, settlement, bond,
                   usdc, claw_supply, allowance>>

-----------------------------------------------------------------------------
(* The token program, outside the repository: a user approves the gateway. *)

Approve(u, amount) ==
    /\ allowance' = [allowance EXCEPT ![u] = amount]
    /\ UNCHANGED <<now, config, provider, user_reward, provider_reward, settlement,
                   bond, vault, usdc, claw, claw_supply>>

MasterpoolTick == Tick /\ UNCHANGED masterpool_vars

\* Instructions wallets and the admin send to the masterpool directly.
DirectStep ==
    \/ \E params \in ParamChoices : InitializeMasterpool(params) \/ UpdateConfig(params)
    \/ MintGenesisSupply
    \/ \E flags \in PauseChoices : SetPauseFlags(flags)
    \/ \E p \in Providers : RegisterProvider(p) \/ ClaimProviderClaw(p)
    \/ \E p \in Providers, destination \in Holders : ExitProvider(p, destination)
    \/ \E u \in Users : ClaimUserClaw(u)
    \/ \E r \in Receipts, target \in ReleaseTargets, amount \in ReleaseAmounts :
         MaterializeRewardRelease(r, target, amount)
    \/ \E u \in Users, amount \in Allowances : Approve(u, amount)

\* Instructions only the attestation program may call.
AttestationCall ==
    \/ \E r \in Receipts, u \in Users, p \in Providers, total \in Charges :
         RecordMiningFromReceipt(r, u, p, total)
    \/ \E r \in Receipts, status \in ReceiptStatuses : SettleFinalizedReceipt(r, status)
    \/ \E c \in Challenges, r \in Receipts, w \in Challengers :
         RecordChallengeBond(c, r, w)
    \/ \E c \in Challenges, r \in Receipts, code \in ResolutionCodes :
         ResolveChallengeEconomics(c, r, code)

Next == DirectStep \/ AttestationCall \/ MasterpoolTick

Spec == MasterpoolInit /\ [][Next]_mvars
=============================================================================
