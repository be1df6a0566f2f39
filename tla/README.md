# Clawfarm in TLA+

A verification project for the two Solana programs of this repository,
`clawfarm-masterpool` (the economic authority) and `clawfarm-attestation`
(receipts and challenges), and for the script that deploys them: TLA+ modules
translated from the source, TLC configurations that check them on small instances, and theorems that TLAPS
proves for every instance.

All paths below are relative to the repository root (`src/...`) or to this
directory.

## 1. The system

A user buys requests from a provider through a gateway. The gateway signs a
receipt; the attestation program checks the signature, opens a challenge
window, and reports the receipt to the masterpool, which charges the user,
keeps the provider's part in escrow and books CLAW rewards for both sides. After
an undisputed window the receipt is settled. Inside the window anybody may
challenge it with a bond; the challenge resolver decides, or the authority
rejects the challenge when the resolver lets a timeout pass.

| Component | Source | State it keeps | Operations |
|---|---|---|---|
| Governance and genesis | `masterpool/.../instructions/config.rs`, `utils.rs` | `GlobalConfig`: parameters, genesis flag, four pause flags; the CLAW mint and the reward vault | `initialize_masterpool`, `mint_genesis_supply`, `update_config`, `set_pause_flags` |
| Providers | `instructions/provider.rs` | `ProviderAccount`: stake, pending USDC, signed net CLAW position, two obligation counters, status | `register_provider`, `exit_provider` |
| Receipt settlement | `instructions/receipt.rs` | `ReceiptSettlement` per receipt, reward accounts, treasury and escrow vaults | `record_mining_from_receipt`, `settle_finalized_receipt` |
| Challenge economics | `instructions/challenge.rs` | `ChallengeBondRecord` per challenge, the bond vault | `record_challenge_bond`, `resolve_challenge_economics` |
| Rewards | `instructions/reward.rs` | `RewardAccount` (pending, locked, released, claimed) per user and provider | `materialize_reward_release`, `claim_released_claw` |
| Faucet | `instructions/faucet.rs` | faucet configuration, global and per-recipient counters per UTC day, two vaults | `initialize_faucet`, `update_faucet_limits`, `set_faucet_enabled`, `fund_faucet_claw`, `claim_faucet` |
| Attestation administration | `attestation/.../instructions/admin.rs` | `Config`: window, timeout, pause; `ProviderSigner` keys | `initialize_config`, `upsert_provider_signer`, `revoke_provider_signer`, `set_pause` |
| Attestation receipts | `instructions/receipt.rs`, `utils.rs` | `Receipt` per request nonce | `submit_receipt`, `finalize_receipt`, `close_receipt` |
| Attestation challenges | `instructions/challenge.rs` | `Challenge` per receipt | `open_challenge`, `resolve_challenge`, `timeout_reject_challenge`, `close_challenge` |
| Signature check | `attestation/.../utils.rs` | none; it reads the preceding ed25519 instruction | `verify_preceding_ed25519_instruction` |
| Account lists | the `#[derive(Accounts)]` structs and account checks of all instructions | which address holds which account | every instruction, with any list of addresses |
| Deployment | `scripts/phase1/bootstrap-testnet.ts` | mints, configurations, the deployment record | one launch of the script, step by step |

**How they interact.** Five attestation instructions end in a cross-program call:
`submit_receipt` calls `record_mining_from_receipt`, `finalize_receipt` calls
`settle_finalized_receipt`, `open_challenge` calls `record_challenge_bond`, and
`resolve_challenge` and `timeout_reject_challenge` call
`resolve_challenge_economics`. The masterpool accepts these four only when the
attestation program's own address signs. Everything else is sent by wallets and
administrators. The programs share no account they both write: each has its own
record of a receipt and of its challenge. Inside the masterpool the components
share the reward vault (rewards, slashes, faucet funding), the escrow vault (all
providers) and the provider and reward accounts.

**What is hard.** A Solana transaction is atomic, so there are no torn steps;
the difficulty is in long sequences of legal transactions of many parties, in any
order, between which parameters change, keys expire, pause flags toggle, the
clock passes deadlines and accounts are closed. The running totals are never
recomputed, so an error shows only when some later subtraction fails, and then
for good. `PROJECT.json` lists every hazard with its line and the properties
that cover it.

**What makes each component correct**

* governance: only validated parameters are ever in force; genesis is minted once;
* providers: nobody leaves with its stake while a receipt or challenge is open;
* settlement: the escrow vault holds exactly what open receipts may still pay or
  refund, and each receipt leaves it once;
* challenges: a bond is resolved once, on the terms in force when it was posted;
* rewards: each total is the sum over receipts, releases stay within vesting;
* faucet: per claim, per recipient and day, and per day limits, across midnights;
* attestation: its record of each receipt agrees with the masterpool's, a payer is
  charged once per nonce and only for what a usable key signed;
* signatures: the bytes the program compares are the bytes the ed25519 program
  verified;
* account lists: the records of one receipt are only ever booked on the accounts of
  its own parties;
* deployment: no aborted or overlapping launch leaves a masterpool that can never be
  given its supply, or a record of something that is not deployed;
* together: the escrow contract of `ReceiptContract`, and no receipt stays in
  escrow for ever.

## 2. The modules

| Module | What it is |
|---|---|
| `Chain` | wallets, receipts, the cluster clock |
| `AtomicSums` | sums of token amounts, as the number of atomic units |
| `Phase1Math` | the arithmetic and the parameter validation of `utils.rs` |
| `Masterpool` | the masterpool without the faucet: 13 instructions, `Spec` |
| `MasterpoolInvariants` | what its ledgers must satisfy |
| `Attestation` | the attestation program: 11 instructions, without the calls |
| `Clawfarm` | both programs: each calling instruction is the conjunction of the two handlers |
| `ClawfarmInvariants` | what the programs keep true together, fairness, the refinement mapping |
| `ReceiptContract` | abstract specification: the escrow of one receipt |
| `Faucet` | the faucet on top of the masterpool |
| `DailyAllowance` | abstract specification: daily limits and a pot |
| `ClawfarmFaucet` | the whole system: both programs and the faucet |
| `AccountLists` | which lists of addresses each instruction runs with |
| `ReceiptParties` | abstract specification: who takes part in an instruction |
| `SignatureCheck` | how `submit_receipt` learns that a key signed |
| `Bootstrap` | launches of the bootstrap script |
| `AmountProofs` | lemmas about sums and about the arithmetic |
| `MasterpoolProofs` | type correctness of the masterpool; the stake, bond and escrow vaults are backed |
| `MasterpoolAccountProofs` | exit obligations, the signed CLAW position, vesting, the reward ledgers, the CLAW supply, the cover of what is owed |
| `ClawfarmProofs` | both programs: they implement the masterpool, agree on every receipt and implement `ReceiptContract` |
| `SystemProofs` | the faucet implements `DailyAllowance`; the whole system conserves tokens, keeps every ledger and agreement, and can always close, release and pay what it opened |
| `AccountListsProofs` | the account constraints implement `ReceiptParties` |
| `SignatureCheckProofs` | what is accepted for signed was signed |
| `BootstrapProofs` | launches of the script, any number of them |
| `MCMasterpool`, `MCClawfarm`, `MCFaucet`, `MCClawfarmFaucet`, `MCAccountLists`, `MCSignatureCheck`, `MCBootstrap` | instances for TLC |

`Masterpool` EXTENDS `Chain`, `Phase1Math` and `AtomicSums`; `Clawfarm` EXTENDS
`MasterpoolInvariants` and `Attestation`; `ClawfarmInvariants` instantiates
`ReceiptContract`; `Faucet` EXTENDS `Masterpool` and instantiates
`DailyAllowance`; `ClawfarmFaucet` EXTENDS `ClawfarmInvariants` and `Faucet`.
`AccountLists`, which instantiates `ReceiptParties`, `SignatureCheck` and `Bootstrap`
stand alone: each states what another part takes for granted. `Masterpool` and
`Attestation` index their state by receipt, provider and user: `AccountLists`
shows that the addresses a sender may pass amount to that. `Attestation` takes the
signed messages for a set: `SignatureCheck` shows that what the program reads of
another instruction is one of them. `Masterpool` starts from a mint only the pool
can mint: `Bootstrap` shows how that comes about.

**Correspondence to the code.** One action per instruction, with the
instruction's name; its guards are the `require!`s, the account constraints and
the checked operations that can fail (`FitsU64`, `>=` before a subtraction), and
a failing instruction is a disabled action, because the runtime undoes the whole
transaction. `None` is an account that does not exist. Derived addresses are the
keys of functions: one provider account per wallet, one settlement per receipt,
one challenge per receipt (`ClawfarmAssumption`). Roles are implicit: an action
that needs the admin is what the admin sends.

`Masterpool`'s own `Next` takes the four attestation-only instructions in any
order their own guards allow. Its invariants therefore hold without any trust in
the attestation program's ordering; `Clawfarm` then restricts those four to the
calls the attestation program makes, and what needs both programs is stated
there.

`MasterpoolInvariants!TypeOK` and the `ASSUME`s carry the preconditions;
operators introduced by a comment "Slip:" are wrong variants of the definition
that follows them. They are used by no specification: putting one in the place of
the definition is how each property is shown to depend on it.

### Abstractions

* Amounts are natural numbers with the width `MAX_U64`, a constant, so that TLC
  meets overflow with small numbers. The exchange rate and the basis points are
  unbounded: they are multiplied in u128. The signed net position (i128) is `Int`.
* `AtomicSums!Total` counts units instead of folding `+`; the two are equal, and
  this form is provable from the cardinality theorems.
* In `Attestation` the ed25519 check is membership in `Attested`, the set of
  messages keys have signed. The message binds nonce, provider, payer and charge, as
  the receipt hash does. `SignatureCheck` has the header of the ed25519 instruction
  field by field; the contents behind its offsets are whole words (a key, a
  message), and the ed25519 program is modelled from what it is documented to
  verify.
* `AccountLists` keeps of each account only the fields that name other accounts,
  and lets every instruction run at any time its account list allows: statuses,
  amounts and deadlines would only remove behaviours. An account whose address the
  seeds or the configuration leave no choice about is named directly. Who does not
  sign may be anyone, the pool authority with its vaults included: the recipient of a
  faucet claim, and the payer a signed message names. A vault has no delegate, which is
  why no receipt charges one.
* Token accounts: one balance per wallet and mint. The token program's rule that
  a delegate is dropped when its allowance reaches 0 is modelled, because the
  payment makes two delegated transfers.
* `exit_provider` does not ask who owns the destination account, and `claim_faucet`
  takes any recipient, so both may pay into the program's own vaults. `Holders` is the
  wallets and the pool authority: `usdc[PoolAuthority]` and `claw[PoolAuthority]` are
  what vaults were given that way, and `vault` counts what the program booked into
  them. No instruction pays out of the former, because guards read the booked
  amounts; the code reads the balance of the token account, which is at least that, and
  the theorems on backing and on passing checks say where the booked amount is always
  enough. Two cases do come back: a claim paid into a faucet vault stays in it (`kept`),
  and one into the reward vault can be claimed as a reward (`refund`). Exiting into the
  faucet's USDC vault is an exit to the provider's own account followed by
  `FundFaucetUsdc`. Plain transfers to a vault by outsiders are not modelled.
* Left out because nothing reads them: `created_at`, `updated_at`, `submitted_at`,
  `finalized_at`, `resolved_at`, hashes of metadata and evidence, the payer and
  basis points copied into the bond record, `RewardAccount.initialized` (an
  absent reward account and one with zeros behave alike).
* Deadlines are sums of natural numbers; the saturation of i64 is not modelled.

## 3. The runs

Amounts are scaled down from `constants.rs`: a charge is 7 units, the stake 3, the
slash 7, the bond 2, genesis 12, the splits 70/30 as in the code, the lock one
day. The clock moves by half a day, and deadlines are chosen so that "at the
deadline" and "just after it" both happen. 7 is chosen because it does not divide
evenly: rounding matters. `masterpool_ledgers` has amounts of its own: a charge of 12
earns 10 CLAW, split 6 to 4, so that half of either share can be released; a slash is
3, of which the challenger gets 2, and the bond 1; genesis is 23, two receipts and a
slash exactly.

| Run | Checks | What it shows | Bounds |
|---|---|---|---|
| `masterpool_ledgers` | `TypeOK`, `ObligationCounts`, `EscrowBacked`, `BondsAndStakesBacked`, `RewardLedgersAgree`, `NetPositionAgrees`, `WithheldNeverExceedsSlashed`, `ObligationsKeepProviderStaked`, `ClawAccounted`, `RewardsCovered` | every running total is the sum it stands for and fits its width, and the reward vault covers what the accounts are owed, in any order of the calls | 3 receipts, 2 providers, 2 challenges: a provider is slashed, has the debt withheld from a second receipt, has that one reverted too and the debt withheld again from a third, while another provider's escrow and rewards are in the same vaults. The reward vault pays two slashes out of genesis, or one while two receipts' rewards are owed, released and claimed. `MAX_U64` = 26: what a provider has pending for three receipts, 27 USDC, does not fit, so checked additions fail. Symmetric in receipts, challenges, providers |
| `clawfarm_lifecycle` | `LifecycleAgreement`, `OneSignedChargePerNonce`, `DisputesResolvable`, `KeepsContract` | the programs agree on every receipt, charges are signed and unique, disputes can always be closed, the escrow contract is implemented | 2 receipts, 1 provider, time for window, timeout and one step more |
| `clawfarm_governance` | `ClawfarmTypeOK`, `ReleasedWithinVested`, `ChargedOnlyWithMandate` | under changing parameters, pauses, keys and approvals | 1 receipt, keys that expire, are revoked, of the wrong type or malformed; lock of one and two days |
| `clawfarm_repricing` | `NetPositionAgrees`, `ClawAccounted` | changing parameters between record, challenge and resolution does not disturb the ledgers | 2 receipts, two legal and one illegal parameter set |
| `clawfarm_liveness` | `EventuallySettled` | no receipt stays in escrow for ever | 1 receipt, pauses of finalization and of challenge processing |
| `faucet_limits` | `FaucetTypeOK`, `KeepsDailyAllowance` | the faucet implements daily allowances across midnights and limit changes | 2 users, a third wallet and the pool authority as recipients, 3 days, limits two claims can reach |
| `system_books` | `TokensConserved` | both programs and the faucet, which compete for the reward vault and share the wallets, neither create nor lose a token | 1 receipt through every outcome; the challenger gets its bond from the faucet, which is funded 4 units at a time; the pool authority may claim too, into any vaults |
| `account_bindings` | `AccountsAgree`, `KeepsToParties` | whatever addresses are passed, an instruction moves and books only what belongs to the receipt's parties, and the programs' copies of an identity agree | 2 wallets that pay, serve and challenge in crossed roles, 2 nonces, 2 keys, 3 mints: every wrong account of the right kind exists, vaults for the recipient's accounts included; one message names the pool authority as payer |
| `signature_header` | `AcceptedWasSigned` | a message is taken for signed only when the registered key signed those 32 bytes | transactions of up to two earlier instructions; every count, size and index the check tells apart |
| `bootstrap_launches` | `GenesisStillMintable`, `RecordIsTrue` | aborted, repeated and overlapping launches | 3 launches: one may have bound the masterpool, one be half way, one start afresh |
| `docs_released_is_claimable` (violation) | `ReleasedIsClaimable` | see below | as `system_books`, the whole vault moved to the faucet |
| `docs_config_never_overflows` (violation) | `SettlementNeverOverflows` | see below | |

`MaxTime` bounds the clock. `ReleaseAmounts`, `Revocable`, `StopChoices`,
`Allowances` and the other choice sets bound what administrators send; a
configuration that leaves one empty leaves that instruction out. Every run but one
checks for deadlock: administrators and senders can always act, so a state without a
successor would be an error of the model. `bootstrap_launches` does not, because
launches end.

### Fairness

`Fairness` in `ClawfarmInvariants` assumes that the clock advances (weakly fair),
that an administrator who paused the pool eventually resumes it (weakly fair),
and that the authority keeps sending `finalize_receipt` and
`timeout_reject_challenge` (strongly fair: a pause disables them again and again,
so a keeper that retries is what the operator has to run). Nothing is assumed of
users, providers, challengers and of the challenge resolver: the property holds
when the resolver never answers. `EventuallySettled` leaves out receipts whose
window and timeout end after `MaxTime`, at which the model's clock stops.

### Where documents and code disagree

* `ReleasedIsClaimable`: `openspec/specs/locked-reward-accounting/spec.md` says a
  claim transfers exactly what was released and not yet claimed. The claim is paid
  out of the reward vault, and `fund_faucet_claw` may move all of that vault to the
  faucet. The run asks this only while genesis minted as much as all rewards ever
  booked and slashes ever taken together. That the shortage is the faucet's doing, and
  exactly what it was given and did not pay back, is a theorem (`SystemShortOfFaucet`,
  `SystemRewardsAccounted`). `PROJECT.json` quotes the lines.
* `SettlementNeverOverflows`: the bounded-economic-parameters specification says
  no accepted configuration can overflow a stored value. The validation looks at
  one receipt; totals accumulate over receipts. With real widths it takes on the
  order of 2^64 atomic units, which genesis does not even mint, but bookings are
  not limited by genesis. `SystemSettlementsFit` proves the other half: while all
  rewards booked fit one u64, no settlement overflows. For one receipt the
  validation is exact (`BoundsAreExact`).

Two more, seen while reading and not worth a run: `README.md:31` and
`openspec/specs/receipt-settlement/spec.md:25` say that rewards are booked as
*locked* when a receipt is recorded, while `receipt.rs:111-130` books them as
*pending* and settlement locks them; and `post-smoke-validation.ts`, run a second
time on the same receipt, compares balances that its first run has spent, which
the checklist does not expect.

## 4. What is proved

Theorems hold for every set of wallets, receipts, challenges and keys, every integer
width and every choice of parameters, windows, limits and claims. Below, the first
three are about the arithmetic of `utils.rs`; the next part is about `Masterpool!Spec`, the masterpool program without its faucet, in which
the four instructions of the attestation program come in any order their own guards
allow; then come `ClawfarmSpec`, both programs; `FaucetSpec`,
the faucet with the masterpool it draws from; and `SystemSpec`, all of
them together; the last about the three modules that stand alone.

| Theorem | Property |
|---|---|
| `VestedGrows` | what has vested is within what was locked and never shrinks with time |
| `VestsInFull` | after the lock period everything has vested: rounding down leaves no dust |
| `BoundsAreExact` | `validate_phase1_param_bounds`, which recomputes at the largest charge only, accepts exactly the parameters under which no charge overflows |
| `MasterpoolTypeCorrect` | `TypeOK` |
| `StakesAndBondsAlwaysBacked` | `BondsAndStakesBacked` |
| `EscrowAlwaysBacked` | `EscrowBacked` |
| `CountersAlwaysExact` | `ObligationCounts` |
| `ExitLeavesNothingOpen` | `ObligationsKeepProviderStaked` |
| `NetPositionAlwaysAgrees` | `NetPositionAgrees` |
| `NeverWithheldBeyondSlashes` | `WithheldNeverExceedsSlashed` |
| `NeverReleasedEarly` | `ReleasedWithinVested` |
| `RewardLedgersAlwaysAgree` | `RewardLedgersAgree` |
| `ClawAlwaysAccounted` | `ClawAccounted` |
| `RewardsAlwaysBooked` | what accounts are owed and have claimed is what standing receipts promised |
| `RewardsAlwaysCovered` | `RewardsCovered` |
| `ClawfarmImplementsMasterpool` | `Masterpool!Spec`: the twelve above hold of both programs too |
| `ClawfarmTypeCorrect` | `ClawfarmTypeOK` |
| `ProgramsAlwaysAgree` | `LifecycleAgreement` |
| `ChargesAlwaysSigned` | `OneSignedChargePerNonce` |
| `ChargesNeedMandate` | `ChargedOnlyWithMandate` |
| `ClawfarmKeepsContract` | `KeepsContract`, the refinement of `ReceiptContract` |
| `FaucetTypeCorrect` | `FaucetTypeOK` |
| `FaucetKeepsDailyAllowance` | `KeepsDailyAllowance`, the refinement of `DailyAllowance` |
| `SystemImplementsFaucet` | `FaucetSpec`: the two above hold of the whole system too |
| `SystemConservesTokens` | `TokensConserved` |
| `SystemLedgersAgree` | `BondsAndStakesBacked`, `EscrowBacked`, `ObligationCounts`, `ObligationsKeepProviderStaked`, `NetPositionAgrees`, `WithheldNeverExceedsSlashed`, `ReleasedWithinVested`, `RewardLedgersAgree`, with the faucet at work |
| `SystemRewardsAccounted` | `RewardsAlwaysBooked` with the faucet at work; the vault covers every claim while what was booked, slashed and given to the faucet fits in what was minted |
| `SystemShortOfFaucet` | the reward vault falls short of the books only by `fund_faucet_claw`, and what is missing is made good only by a faucet claim in the pool's own name, each by exactly what it moves |
| `SystemAgrees` | `LifecycleAgreement`, `OneSignedChargePerNonce`, with the faucet at work |
| `SystemKeepsContract`, `SystemKeepsDailyAllowance` | `KeepsContract` and `KeepsDailyAllowance` of the whole system |
| `SystemChargesNeedMandate` | `ChargedOrGiven`: `ChargedOnlyWithMandate`, with USDC given to the faucet as a second exception |
| `SystemDisputesPass` | no check on resolving an open challenge can fail: the content of `DisputesResolvable` without `ENABLED` |
| `SystemSlashesCovered` | the check the row above leaves out: when the vault holds the slash |
| `SystemFinalizationsPass` | no subtraction in settling what `finalize_receipt` accepts can fail |
| `SystemSettlementsFit` | the check the row above leaves out: when the locked totals have room |
| `SystemNeverStrands` | a receipt in escrow is in its window, can be finalized, or has an open challenge |
| `SystemReleasesPass` | what has vested and is not released can be released |
| `SystemExitsPass` | the stake vault holds the stake of any provider that may exit |
| `SystemRecordingsFit` | no running total overflows when a receipt is recorded, before rewards, USDC or receipts outgrow a u64 |
| `ListsAccountsAgree` | `AccountsAgree` |
| `ListsKeepToParties` | `KeepsToParties`, the refinement of `ReceiptParties` |
| `SignatureAcceptedWasSigned` | `AcceptedWasSigned` |
| `BootstrapGenesisStillMintable`, `BootstrapRecordIsTrue` | `GenesisStillMintable`, `RecordIsTrue` |

**Assumptions**, which TLC evaluates in the runs that use these modules:
`ChainAssumption` (times are natural numbers, the clock moves forward),
`Phase1MathAssumption` (the largest charge of a receipt fits the integer width),
`MasterpoolAssumption` and `FaucetAssumption` (the sets are finite, what
administrators and users may send has the types of the instruction arguments, the
CLAW that exists at the start fits the width), `ClawfarmAssumption` (a challenge's
address derives from its receipt's) and `NoneAssumption`,
`AttestationNoneAssumption`, `FaucetNoneAssumption`, `BootstrapNoneAssumption` (an
absent account is no account). `ListsAssumption` says that signed messages name
known nonces, and anyone as payer and provider; that the pool's authority is not among
the wallets, which are the keys that can sign (a derived address has none); and that
the masterpool is set up with two different mints. The last is what
`bootstrap-testnet.ts` does; `initialize_masterpool` itself compares only decimals,
which are equal.

**Sums.** `AtomicSums!Total(S, f)` is the number of units of an amount, the
cardinality of the pairs `<<s, i>>` with `i` up to `f[s]`. `AmountProofs`
derives from the library's cardinality theorems that a change at one place changes
the total by the same amount, that a total bounds each of its parts, and that
totals are monotone; and that the total of a sum is the sum of the totals
(`TotalPlus`, by a bijection of units), which lets what users and what providers hold
be compared with what receipts book. It also shows that under validated
parameters no share exceeds what it is a share of, that amounts are monotone in the
charge, which makes the largest charge decide (`BoundsAreExact`), and that rounding
the vested part down is exact at the end of the lock (`DivisionExact`).

**Type correctness.** `TypeOK` is not inductive. Burning a bond or a slash lowers
the supply without a lower bound of its own, and settlement and resolution update
a provider account they only know from the receipt. `TypeInv` therefore adds
`ClawWithin` (the supply is at least what wallets and the two CLAW vaults hold; the
faucet may hold the rest) and
`ProvidersKnown` (a recorded receipt names a registered provider). There is one
lemma for every instruction.

**Vaults.** For every instruction `MasterpoolProofs` has a lemma saying
which part of the state it leaves alone or how the totals move (`StepCases` puts
them together); the vault and the sum then move by the same amount.
`BondsAndStakesBacked` and `EscrowBacked` are each inductive over `TypeInv`.

**Exit.** `ExitInv` is `ObligationCounts`, `ObligationsKeepProviderStaked` and
`BondsKnown`: a bond belongs to the provider of its receipt. Without the last
one, resolving a challenge could lower the counter of one provider for the bond
of another. The argument is that exit demands both counters at zero, and the
counters are the numbers of open receipts and challenges.

**Position.** `PositionInv` is `NetPositionAgrees`, `WithheldNeverExceedsSlashed`
and `OffsetsBounded`: a receipt withholds no more than it earns. When it is recorded
the offset is at most the debt, which by `NetPositionAgrees` is what was slashed
less what was earned; the part withheld so far is within the part earned
(`OffsetsBounded` and monotonicity), so withholding more stays within the
slashes. A reverted receipt takes its offset out with its earnings.

**Vesting.** `ReleasedWithinVested` is inductive over `TypeInv`: a release adds to
one receipt at most what has vested and was not yet released, and `VestedGrows`
says that time never takes vested CLAW back. `lock_days` does not matter because
the snapshot in the settlement never changes.

**Reward ledgers.** The users' part and the providers' part of `RewardLedgersAgree`
are the same argument over different fields: each instruction moves one receipt of
one account between pending, locked and released, and the running total and the
sum over the account's receipts move alike.

**Rewards.** `RewardLedgersAgree` compares one account with its receipts; the vault
is shared by all of them. `BookedInv` says that what all accounts together have
pending, locked and released (`Holdings`) is what the receipts that stand have booked.
To add the equation of `RewardLedgersAgree` up over the accounts would take an induction
over them; as an invariant of its own the total is moved by each instruction at one
account and one receipt alike. Then what is owed is what was booked less what was
claimed (`OwedIsBooked`), and with `ClawAccounted`, which says what the vault lost,
`RewardsCovered` follows: the vault holds what was minted less what was claimed and
slashed. The same invariant bounds each account's totals by all that was booked, so
that the width of a u64 becomes a question about one number (`LockedWithin`,
`UserReleaseWithin`, `ProviderReleaseWithin`, `NewRewardsFit`).

**Supply.** `ClawInv` is two facts: a slash is split into what burned and what the
challenger got, and the supply is what was minted less what was burned. What the
faucet may change is kept apart: `ClawElsewhere`, the supply that is in no wallet and
no vault of the masterpool, and `VaultShort`, what left the reward vault without
being claimed or slashed. No instruction of the masterpool changes either number
(`KeepsClaw`, `KeepsVault`), and both start at zero; `ClawAccounted` follows. With
the faucet, `ClawElsewhere` is what its vault holds.

**Both programs.** `ClawfarmInv` is the masterpool's `TypeInv`, `AttestationTypeOK`,
`WindowsLast` (the configured challenge window is never empty) and, for each
receipt, `Agree(r)`: which statuses of the two programs' records go together. The
statuses of closed accounts are part of it, since the masterpool's records outlive
them. Every instruction touches one receipt, so the proof shows `Agree` for that
receipt and that all others keep their view. The same view of a receipt gives the
refinement: `submit_receipt` is `Take`, `finalize_receipt` `Pay`, `open_challenge`
`Dispute`, a resolution or timeout `Dismiss` or `Uphold`, the clock `Pass`; every
other instruction changes no receipt the contract sees.

**Mandates.** `ChargesNeedMandate` is about steps: only `submit_receipt` and
`register_provider` take USDC from a wallet, and the guards of both programs
together are the mandate. That the provider's stake is still in the pool needs an
invariant, `ServersStaked`: only exit takes the stake, and it ends the status
`record_mining_from_receipt` asks for. Wallets may be users and providers at once,
which is why a stake is excepted. In the whole system whoever funds the faucet may be
a payer as well: `SystemChargesNeedMandate` excepts what the faucet's vault gains, and
shows that no other transaction of the faucet takes USDC from a wallet.

**Faucet.** `FaucetTypeOK` is not enough for the refinement. A claim is checked
against the global counter, whereas the allowance speaks of the sum of what wallets
were given today; the counters are reset at different times, so their stored
values do not add up. `FaucetInv` adds `CountsAgree`: what the global counter says
*of today*, which is nothing when it is of another day, is the sum of what the
wallets' counters say of today. It holds because no wallet's counter is ahead of
the global one, which in turn is not ahead of the clock: at midnight all of them
mean nothing at once. A claim in the pool's own name is counted like any other, though
some of it may not leave the vaults; `DailyAllowance` allows that to its `Owner` only.

**Both programs and the faucet.** `BooksInv` is the masterpool's `TypeInv`, all of
its ledger invariants (`LedgerInv`) and `BooksClose`: the faucet's CLAW is
`ClawElsewhere`, and the USDC of all wallets and vaults is what existed at the start.
A step of the masterpool moves USDC between wallets and its own vaults only
(`UsdcStep`, one case for each instruction) and keeps `ClawElsewhere`; a transaction
of the faucet moves as much into a vault or to a holder as it takes elsewhere, and of
what the ledgers speak of it touches the reward vault only (`FaucetSpares`). Every step of the system
is a step of the masterpool with its faucet (`StepOfFaucet`), which gives
`TokensConserved` and the ledgers for the whole system. `ClawAccounted` is not
among them and does not hold there: funding the faucet takes CLAW from the vault
without a claim, and a faucet claim in the pool's own name may put some of it back.
What holds instead is that nothing else moves `VaultShort`: `SystemShortOfFaucet` is a
property of steps, and every condition on the reward vault is stated with `VaultShort`
added to what must fit. It is never negative, because it is at least what the faucet
still holds (`FaucetOwes`). `AgreementInv` carries what the two programs agree on over the
faucet's transactions in the same way; the contract does not see them at all.

**Disputes and settlements can be closed.** `DisputesPassChecks` lists what
`resolve_challenge` and `timeout_reject_challenge` check in both programs on an
open challenge, and `FinalizationsPassChecks` what `settle_finalized_receipt`
subtracts once `finalize_receipt` has accepted; everything else in these actions is
what they write. The argument is the same for both: a recorded receipt is one term
of the sum that each running total is equal to, so no total is smaller than the
receipt's part, and each counter counts it (`RecordedCovered`,
`OpenDisputeBacked`). That the bond on the receipt's challenge is of that receipt
(`BondsPaired`) needs both programs: the masterpool alone accepts any pair. What
may still fail is named: a reward vault without the slash, and the width of the
locked totals. Both are characterised. `SystemSlashesCovered` says that claims never
use up a slash, because they only pay what was booked; only new bookings, earlier
slashes and the faucet do. `SystemSettlementsFit` says when the locked totals have room.

**Nothing is left behind.** That the checks pass is worth nothing when no instruction
reaches the receipt any more. `NeverStranded` follows from `Agree`: while the
masterpool has a receipt in escrow the attestation receipt is neither closed nor
final in any other way than through a rejected challenge. After settlement
`ReleasesPassChecks` covers the release of whatever has vested; that the lock has
started, which `materialize_reward_release` asks for with `> 0`, is an invariant of
its own (`LocksStarted`). `ExitsPassChecks` covers the stake and `RecordingsFit` the
totals `record_mining_from_receipt` adds to, each of which is bounded by the rewards
booked, the USDC in existence or the number of receipts.

**Account lists.** `AccountsAgree` speaks of accounts that exist, whereas receipts
and challenges are closed and their addresses used again. `ListsInv` says for every
account what its contents owe to its address: a provider, a reward account, a
settlement and a bond record are where their own fields derive to, a settlement is
of a signed message and has its three accounts, a bond record outlives challenge
and receipt but never its settlement. That derived addresses are injective
(`AddressesDiffer`) then binds the accounts of one list to each other. Messages may
name the pool authority, but a receipt is only ever submitted for a payer whose
account has a delegate, and a vault has none (`SubmittedForWallets`). The
refinement goes instruction by instruction: the transfers and the accounts written
are those of one action of `ReceiptParties`, or none. A faucet claim with vaults for
the recipient's accounts is its `PoolClaim`: it reaches the pool's vaults of the two
mints and nobody's receipt.

**Signatures.** For any sequence of earlier instructions: the header check makes
the ed25519 program read key, message and signature out of the instruction that
`submit_receipt` reads (`SameWordsRead`), and a transaction runs only when that
verifies.

**Launches.** `BootstrapInv` says what a launch that has come to a step has done to
its mints (`DoneBy`), and what the masterpool was bound to whether or not that launch
still lives (`BoundRun`). A launch that stopped leaves only the latter behind, and
no other launch touches its mints.

**Left to TLC.** `EventuallySettled` (liveness), `DisputesResolvable` and
`ReleasedIsClaimable` (`ENABLED`) are outside what TLAPS can prove; what
`DisputesResolvable` says of the checks is `SystemDisputesPass`, and what
`ReleasedIsClaimable` says of the vault is, with the faucet's part added,
`SystemRewardsAccounted`. The first is
liveness under fairness; the last is one of the two sentences the code does not keep.

## 5. Not modelled

* Entry points, events, error codes and account sizes: dispatch, logging and
  wording.
* The operator scripts other than `bootstrap-testnet.ts` send instructions modelled
  here and keep nothing. `faucet-fund.ts` also transfers USDC to the faucet vault,
  which is in `Faucet`; its `mintTo` branch for test tokens is not.
* `devnet-smoketest.ts` and `post-smoke-validation.ts` as sequences of instructions.
  The receipts they submit predate the current `submit_receipt`: they approve no
  payment delegate, which `receipt.rs:44-52` requires, and sign with the payer
  only. A model of them would stop at that step.
* Tokens sent directly to a vault by outsiders; they would turn the equalities of
  the ledger invariants into lower bounds.

A remark a reader may look for: an upheld challenge needs the whole slash in the
reward vault. When claims or faucet funding have emptied it, the challenge can
only be rejected. `DisputesResolvable` states this condition, the run shows that it is
enough, and `SystemSlashesCovered` says what keeps the vault from getting there.

## 6. Plan

Done: the masterpool, the attestation program, their composition with and without
the faucet, the account lists, the signature header, the deployment script, the
three abstract specifications, and the proofs of section 4.

What is left would come in this order:

1. The checks of settling, resolving, releasing, leaving and recording are theorems;
   that these checks are all an instruction can fail on (`ENABLED`) would be the next
   step and is out of the prover's reach.
2. A model of the smoke-test scripts once they submit receipts the program accepts.
