--------------------------- MODULE MasterpoolProofs ---------------------------
(***************************************************************************)
(* The masterpool, for every set of wallets, receipts and challenges and   *)
(* every choice of the parameters: its type invariant, what each           *)
(* instruction changes, and the vaults of stakes, bonds and escrow, which  *)
(* hold exactly what is owed from them whatever the order of the           *)
(* instructions.                                                           *)
(***************************************************************************)
EXTENDS MasterpoolInvariants, AmountProofs

\* CLAW held neither by the wallets nor by the two CLAW vaults: none, until the
\* faucet is filled.  No instruction of the masterpool alone moves any of it.
ClawElsewhere == claw_supply - (Total(Holders, claw) + vault.reward + vault.challenge_bond)

ClawWithin == ClawElsewhere >= 0

KeepsClaw == ClawElsewhere' = ClawElsewhere

\* A receipt was recorded for a registered provider; accounts are never removed.
ProvidersKnown ==
    \A r \in Receipts : settlement[r] # None => provider[settlement[r].provider_wallet] # None

\* TypeOK is not inductive: burning a bond or a slash keeps the supply a u64
\* only because the supply is at least what the vaults hold (ClawWithin), and the
\* account settle and resolve update exists only because of ProvidersKnown.
TypeInv == TypeOK /\ ClawWithin /\ ProvidersKnown

-----------------------------------------------------------------------------

\* Users and providers have wallets.
LEMMA HoldersType == Users \subseteq Holders /\ Providers \subseteq Holders
                     /\ Challengers \subseteq Holders /\ Wallets \subseteq Holders
BY DEF Holders, Wallets

\* A u64 is a natural number up to MAX_U64.
LEMMA WidthFacts ==
  /\ 0 \in U64
  /\ \A n \in U64 : n \in Nat
  /\ \A n \in U64, m \in Nat : m <= n => m \in U64 /\ n - m \in U64
BY Phase1MathAssumption DEF U64

\* The initial state is well typed.
LEMMA InitTypeInv == MasterpoolInit => TypeInv
<1> SUFFICES ASSUME MasterpoolInit PROVE TypeInv
  OBVIOUS
<1> USE ChainAssumption, Phase1MathAssumption, MasterpoolAssumption
        DEF ClockInit, MasterpoolInit
<1>1. NoRewards \in RewardAccount
  BY DEF NoRewards, RewardAccount, U64
<1>2. TypeOK
  BY <1>1 DEF TypeOK, Vaults, FitsU64
<1>3. ClawWithin
  <2>1. Total(Holders, InitialClaw) \in Nat
    BY TotalType
  <2> QED
    BY <2>1 DEF ClawWithin, ClawElsewhere
<1>4. ProvidersKnown
  BY DEF ProvidersKnown
<1> QED
  BY <1>2, <1>3, <1>4 DEF TypeInv

-----------------------------------------------------------------------------
(* What one transaction changes *)

\* A wallet that receives or pays CLAW.
LEMMA WalletPaid ==
  ASSUME TypeOK, NEW w \in Holders, NEW paid \in Nat,
         claw' = [claw EXCEPT ![w] = @ + paid]
  PROVE  claw' \in [Holders -> Nat] /\ Total(Holders, claw') = Total(Holders, claw) + paid
<1> DEFINE g == claw'
<1>1. /\ claw \in [Holders -> Nat] /\ IsFiniteSet(Holders)
      /\ g \in [Holders -> Nat] /\ g[w] = claw[w] + paid
      /\ \A x \in Holders \ {w} : g[x] = claw[x]
  BY MasterpoolAssumption DEF TypeOK
<1> HIDE DEF g
<1>2. Total(Holders, g) = Total(Holders, claw) + paid
  BY <1>1, TotalAdd
<1> QED
  BY <1>1, <1>2 DEF g

\* Taking an amount a wallet has from it.
LEMMA WalletCharged ==
  ASSUME TypeOK, NEW w \in Holders, NEW paid \in Nat, claw[w] >= paid,
         claw' = [claw EXCEPT ![w] = @ - paid]
  PROVE  claw' \in [Holders -> Nat] /\ Total(Holders, claw') = Total(Holders, claw) - paid
<1> DEFINE g == claw'
<1>1. /\ claw \in [Holders -> Nat] /\ IsFiniteSet(Holders)
      /\ g \in [Holders -> Nat] /\ g[w] = claw[w] - paid
      /\ \A x \in Holders \ {w} : g[x] = claw[x]
  BY MasterpoolAssumption DEF TypeOK
<1> HIDE DEF g
<1>2. Total(Holders, g) = Total(Holders, claw) - paid
  BY <1>1, TotalSubtract
<1> QED
  BY <1>1, <1>2 DEF g

-----------------------------------------------------------------------------
(* Governance and providers *)

\* initialize_masterpool keeps TypeInv.
LEMMA InitializeTypeInv ==
  ASSUME TypeInv, NEW params \in Phase1ConfigParams, InitializeMasterpool(params)
  PROVE  TypeInv' /\ KeepsClaw
BY DEF TypeInv, TypeOK, ClawWithin, ClawElsewhere, KeepsClaw, ProvidersKnown,
       InitializeMasterpool, GlobalConfig, tokens

\* update_config keeps TypeInv.
LEMMA UpdateConfigTypeInv ==
  ASSUME TypeInv, NEW params \in Phase1ConfigParams, UpdateConfig(params)
  PROVE  TypeInv' /\ KeepsClaw
BY DEF TypeInv, TypeOK, ClawWithin, ClawElsewhere, KeepsClaw, ProvidersKnown,
       UpdateConfig, GlobalConfig, tokens

\* set_pause_flags keeps TypeInv.
LEMMA SetPauseTypeInv ==
  ASSUME TypeInv, NEW flags \in SUBSET PauseFlags, SetPauseFlags(flags)
  PROVE  TypeInv' /\ KeepsClaw
BY DEF TypeInv, TypeOK, ClawWithin, ClawElsewhere, KeepsClaw, ProvidersKnown,
       SetPauseFlags, GlobalConfig, tokens

\* mint_genesis_supply keeps TypeInv: the supply grows with the vault.
LEMMA MintTypeInv ==
  ASSUME TypeInv, MintGenesisSupply
  PROVE  TypeInv' /\ KeepsClaw
<1>1. TypeOK'
  <2>1. config' \in GlobalConfig /\ config'.params = config.params
    BY DEF TypeInv, TypeOK, MintGenesisSupply, GlobalConfig
  <2>2. ValidParams(config'.params)
    BY <2>1 DEF TypeInv, TypeOK, MintGenesisSupply
  <2>3. vault' \in Vaults
    BY MasterpoolAssumption DEF TypeInv, TypeOK, MintGenesisSupply, Vaults
  <2> QED
    BY <2>1, <2>2, <2>3 DEF TypeInv, TypeOK, MintGenesisSupply, FitsU64
<1>2. KeepsClaw
  <2>1. Total(Holders, claw) \in Nat
    BY MasterpoolAssumption, TotalType DEF TypeInv, TypeOK
  <2> QED
    BY <2>1, MasterpoolAssumption, WidthFacts
       DEF TypeInv, TypeOK, ClawElsewhere, KeepsClaw, MintGenesisSupply, Vaults
<1>3. ProvidersKnown'
  BY DEF TypeInv, ProvidersKnown, MintGenesisSupply
<1> QED
  BY <1>1, <1>2, <1>3 DEF TypeInv, ClawWithin, KeepsClaw

\* register_provider keeps TypeInv.
LEMMA RegisterTypeInv ==
  ASSUME TypeInv, NEW p \in Providers, RegisterProvider(p)
  PROVE  TypeInv' /\ KeepsClaw
<1>1. p \in Holders
  BY HoldersType
<1>2. config.params.provider_stake_usdc \in U64
  BY DEF TypeInv, TypeOK, RegisterProvider, GlobalConfig, Phase1ConfigParams
<1>3. TypeOK'
  BY <1>1, <1>2, Phase1MathAssumption
     DEF TypeInv, TypeOK, RegisterProvider, ProviderAccount, Vaults, U64
<1>4. KeepsClaw
  BY DEF TypeInv, TypeOK, ClawElsewhere, KeepsClaw, RegisterProvider, Vaults
<1>5. ProvidersKnown'
  BY DEF TypeInv, TypeOK, ProvidersKnown, RegisterProvider, ReceiptSettlement
<1> QED
  BY <1>3, <1>4, <1>5 DEF TypeInv, ClawWithin, KeepsClaw

\* exit_provider keeps TypeInv.
LEMMA ExitTypeInv ==
  ASSUME TypeInv, NEW p \in Providers, NEW destination \in Holders,
         ExitProvider(p, destination)
  PROVE  TypeInv' /\ KeepsClaw
<1>1. provider[p] \in ProviderAccount
  BY DEF TypeInv, TypeOK, ExitProvider, MayExit, HasStatus
<1> DEFINE account == [provider[p] EXCEPT !.staked_usdc_amount = 0, !.status = "Exited"]
<1>2. account \in ProviderAccount
  BY <1>1, WidthFacts DEF ProviderAccount
<1>3. provider' = [provider EXCEPT ![p] = account]
  BY DEF TypeInv, TypeOK, ExitProvider
<1> HIDE DEF account
<1>4. TypeOK'
  <2>1. provider' \in [Providers -> ProviderAccount \cup {None}]
    BY <1>2, <1>3 DEF TypeInv, TypeOK
  <2>2. vault' \in Vaults /\ usdc' \in [Holders -> Nat]
    BY <1>1 DEF TypeInv, TypeOK, ExitProvider, ProviderAccount, Vaults, U64
  <2> QED
    BY <2>1, <2>2 DEF TypeInv, TypeOK, ExitProvider
<1>5. KeepsClaw
  BY DEF TypeInv, TypeOK, ClawElsewhere, KeepsClaw, ExitProvider, Vaults
<1>6. ProvidersKnown'
  BY <1>2, <1>3, NoneAssumption
     DEF TypeInv, TypeOK, ProvidersKnown, ExitProvider, ReceiptSettlement
<1> QED
  BY <1>4, <1>5, <1>6 DEF TypeInv, ClawWithin, KeepsClaw

-----------------------------------------------------------------------------
(* Receipts *)

\* What record_mining_from_receipt writes: the treasury's and the provider's
\* part add up to the charge, and what is withheld and what is locked add up to
\* the provider's reward.
LEMMA NewSettlementFacts ==
  ASSUME TypeInv, NEW r \in Receipts, NEW u \in Users, NEW p \in Providers, NEW total,
         Recordable(r, total), HasStatus(provider[p], "Active"), NEW s,
         s = NewSettlement(u, p, total), FitsU64(s.claw_to_user + s.claw_to_provider_total)
  PROVE  /\ s \in ReceiptSettlement
         /\ s.payer_user = u /\ s.provider_wallet = p /\ s.status = "Recorded"
         /\ s.usdc_to_treasury + s.usdc_to_provider = total
         /\ s.claw_provider_debt_offset + s.claw_to_provider_locked = s.claw_to_provider_total
         /\ s.claw_provider_debt_offset =
              DebtOffset(provider[p].claw_net_position, s.claw_to_provider_total)
         /\ s.user_claw_released = 0 /\ s.provider_claw_released = 0
<1> DEFINE params == config.params
           treasury_share == BpsAmount(total, params.treasury_usdc_share_bps)
           total_claw == ClawAmount(total, params.exchange_rate_claw_per_usdc_e6)
           user_claw == BpsAmount(total_claw, params.user_claw_share_bps)
           provider_claw == total_claw - user_claw
           debt_offset == DebtOffset(provider[p].claw_net_position, provider_claw)
<1>1. params \in Phase1ConfigParams /\ ValidParams(params)
  BY DEF TypeInv, TypeOK, GlobalConfig, Recordable, Running
<1>2. /\ params.treasury_usdc_share_bps \in 0..BPS_SCALE
      /\ params.user_claw_share_bps \in 0..BPS_SCALE
      /\ params.exchange_rate_claw_per_usdc_e6 \in Nat
      /\ params.lock_days \in Nat \ {0}
  BY <1>1, ValidSplits
<1>3. total \in Nat /\ total \in U64 /\ total > 0
  BY Phase1MathAssumption DEF Recordable, U64
<1>4. treasury_share \in 0..total
  BY <1>2, <1>3, BpsAmountBounds
<1>5. total_claw \in Nat
  BY <1>2, <1>3, ClawAmountType
<1>6. user_claw \in 0..total_claw
  <2> HIDE DEF total_claw
  <2> QED BY <1>2, <1>5, BpsAmountBounds
<1>7. provider[p].claw_net_position \in Int
  BY DEF TypeInv, TypeOK, HasStatus, ProviderAccount
<1>8. provider_claw \in Nat /\ debt_offset \in 0..provider_claw
  <2> HIDE DEF total_claw, user_claw
  <2>1. provider_claw \in Nat
    BY <1>5, <1>6
  <2> HIDE DEF provider_claw
  <2> QED
    BY <1>7, <2>1 DEF DebtOffset, Least
<1>9. s = [payer_user                |-> u,
           provider_wallet           |-> p,
           usdc_total_paid           |-> total,
           usdc_to_provider          |-> total - treasury_share,
           usdc_to_treasury          |-> treasury_share,
           claw_to_user              |-> user_claw,
           claw_to_provider_total    |-> provider_claw,
           claw_provider_debt_offset |-> debt_offset,
           claw_to_provider_locked   |-> provider_claw - debt_offset,
           lock_days_snapshot        |-> params.lock_days,
           reward_lock_started_at    |-> 0,
           user_claw_released        |-> 0,
           provider_claw_released    |-> 0,
           status                    |-> "Recorded"]
  BY DEF NewSettlement, ProviderShare
<1> HIDE DEF treasury_share, total_claw, user_claw, provider_claw, debt_offset, params
<1>10. user_claw \in U64 /\ provider_claw \in U64
  <2>1. user_claw + provider_claw \in U64
    BY <1>9 DEF FitsU64
  <2> QED
    BY <2>1, <1>5, <1>6, <1>8, WidthFacts
<1>11. /\ total - treasury_share \in U64 /\ treasury_share \in U64
       /\ debt_offset \in U64 /\ provider_claw - debt_offset \in U64
  BY <1>3, <1>4, <1>8, <1>10, WidthFacts
<1>12. s \in ReceiptSettlement
  BY <1>2, <1>3, <1>9, <1>10, <1>11, WidthFacts DEF ReceiptSettlement
<1>13. /\ s.usdc_to_treasury + s.usdc_to_provider = total
       /\ s.claw_provider_debt_offset + s.claw_to_provider_locked = s.claw_to_provider_total
  BY <1>3, <1>4, <1>8, <1>9
<1>14. s.claw_provider_debt_offset =
         DebtOffset(provider[p].claw_net_position, s.claw_to_provider_total)
  BY <1>9 DEF debt_offset
<1> QED
  BY <1>9, <1>12, <1>13, <1>14

\* record_mining_from_receipt keeps TypeInv.
LEMMA RecordTypeInv ==
  ASSUME TypeInv, NEW r \in Receipts, NEW u \in Users, NEW p \in Providers, NEW total,
         RecordMiningFromReceipt(r, u, p, total)
  PROVE  TypeInv' /\ KeepsClaw
<1> DEFINE s == NewSettlement(u, p, total)
<1>1. /\ s \in ReceiptSettlement
      /\ s.payer_user = u /\ s.provider_wallet = p
      /\ s.usdc_to_treasury + s.usdc_to_provider = total
  <2>1. Recordable(r, total) /\ HasStatus(provider[p], "Active") /\ TotalsFit(s)
    BY DEF RecordMiningFromReceipt
  <2>2. FitsU64(s.claw_to_user + s.claw_to_provider_total)
    BY <2>1 DEF TotalsFit
  <2>3. \E x : x = s
    OBVIOUS
  <2> HIDE DEF s
  <2> QED
    BY <2>1, <2>2, NewSettlementFacts DEF s
<1>2. /\ s.usdc_to_treasury \in U64 /\ s.usdc_to_provider \in U64
      /\ s.claw_to_user \in U64 /\ s.claw_to_provider_total \in U64
      /\ s.claw_to_provider_locked \in U64
  <2> HIDE DEF s
  <2> QED BY <1>1 DEF ReceiptSettlement
<1>3. /\ FitsU64(user_reward[u].pending + s.claw_to_user)
      /\ FitsU64(provider_reward[p].pending + s.claw_to_provider_locked)
      /\ FitsU64(provider[p].pending_provider_usdc + s.usdc_to_provider)
      /\ FitsU64(provider[p].unsettled_receipt_count + 1)
  <2>1. TotalsFit(s)
    BY DEF RecordMiningFromReceipt
  <2> HIDE DEF s
  <2> QED BY <1>1, <2>1 DEF TotalsFit
<1>0. total \in Nat /\ usdc[u] >= total /\ allowance[u] >= total
  BY DEF RecordMiningFromReceipt, Recordable
<1>4. /\ usdc' = [usdc EXCEPT ![u] = @ - (s.usdc_to_treasury + s.usdc_to_provider)]
      /\ allowance' = [allowance EXCEPT ![u] = @ - (s.usdc_to_treasury + s.usdc_to_provider)]
      /\ vault' = [vault EXCEPT !.treasury = @ + s.usdc_to_treasury,
                                !.provider_pending = @ + s.usdc_to_provider]
      /\ user_reward' = [user_reward EXCEPT ![u].pending = @ + s.claw_to_user]
      /\ provider_reward' =
           [provider_reward EXCEPT ![p].pending = @ + s.claw_to_provider_locked]
      /\ provider' = [provider EXCEPT
                        ![p].claw_net_position = @ + PositionCredit(s),
                        ![p].pending_provider_usdc = @ + s.usdc_to_provider,
                        ![p].unsettled_receipt_count = @ + 1]
      /\ settlement' = [settlement EXCEPT ![r] = s]
      /\ UNCHANGED <<now, config, bond, claw, claw_supply>>
      /\ provider[p] # None
  BY DEF RecordMiningFromReceipt, Recordable, HasStatus
<1> HIDE DEF s
<1>5. usdc' \in [Holders -> Nat] /\ allowance' \in [Users -> Nat] /\ vault' \in Vaults
  <2> DEFINE paid == s.usdc_to_treasury + s.usdc_to_provider
  <2>0. paid = total /\ u \in Holders
    BY <1>1, HoldersType
  <2> HIDE DEF paid
  <2>1. paid \in Nat /\ usdc[u] >= paid /\ allowance[u] >= paid
    BY <1>0, <2>0
  <2> USE DEF paid
  <2>2. vault' \in Vaults
    <3>1. s.usdc_to_treasury \in Nat /\ s.usdc_to_provider \in Nat
      BY <1>2, WidthFacts
    <3>2. vault \in Vaults /\ vault' = [vault EXCEPT !.treasury = @ + s.usdc_to_treasury,
                                           !.provider_pending = @ + s.usdc_to_provider]
      BY <1>4 DEF TypeInv, TypeOK
    <3>3. vault.treasury + s.usdc_to_treasury \in Nat
          /\ vault.provider_pending + s.usdc_to_provider \in Nat
      BY <3>1, <3>2 DEF Vaults
    <3> QED
      BY <3>2, <3>3 DEF Vaults
  <2>3. usdc' = [usdc EXCEPT ![u] = @ - paid] /\ allowance' = [allowance EXCEPT ![u] = @ - paid]
    BY <1>4
  <2> HIDE DEF paid
  <2>4. usdc' \in [Holders -> Nat]
    BY <2>0, <2>1, <2>3 DEF TypeInv, TypeOK
  <2>5. allowance' \in [Users -> Nat]
    BY <2>1, <2>3 DEF TypeInv, TypeOK
  <2> QED
    BY <2>2, <2>4, <2>5
<1>6. /\ user_reward' \in [Users -> RewardAccount]
      /\ provider_reward' \in [Providers -> RewardAccount]
  BY <1>3, <1>4 DEF TypeInv, TypeOK, RewardAccount, FitsU64
<1> DEFINE account == [provider[p] EXCEPT
                         !.claw_net_position = @ + PositionCredit(s),
                         !.pending_provider_usdc = @ + s.usdc_to_provider,
                         !.unsettled_receipt_count = @ + 1]
<1>7. account \in ProviderAccount
  <2>1. provider[p] \in ProviderAccount
    BY <1>4 DEF TypeInv, TypeOK
  <2>2. provider[p].claw_net_position + PositionCredit(s) \in Int
    BY <1>2, <2>1, WidthFacts DEF ProviderAccount, PositionCredit
  <2> QED
    BY <1>3, <2>1, <2>2 DEF ProviderAccount, FitsU64
<1>8. provider' = [provider EXCEPT ![p] = account]
  BY <1>4 DEF TypeInv, TypeOK
<1> HIDE DEF account
<1>9. provider' \in [Providers -> ProviderAccount \cup {None}]
  BY <1>7, <1>8 DEF TypeInv, TypeOK
<1>10. settlement' \in [Receipts -> ReceiptSettlement \cup {None}]
  BY <1>1, <1>4 DEF TypeInv, TypeOK
<1>11. TypeOK'
  BY <1>4, <1>5, <1>6, <1>9, <1>10 DEF TypeInv, TypeOK
<1>12. KeepsClaw
  BY <1>4 DEF TypeInv, TypeOK, ClawElsewhere, KeepsClaw, Vaults
<1>13. ProvidersKnown'
  BY <1>1, <1>4, <1>7, <1>8, NoneAssumption
     DEF TypeInv, TypeOK, ProvidersKnown, ReceiptSettlement
<1> QED
  BY <1>11, <1>12, <1>13 DEF TypeInv, ClawWithin, KeepsClaw

\* The accounts an existing settlement refers to.
LEMMA SettlementFacts ==
  ASSUME TypeInv, NEW r \in Receipts, settlement[r] # None,
         NEW s, s = settlement[r]
  PROVE  /\ s \in ReceiptSettlement
         /\ s.payer_user \in Users /\ s.payer_user \in Holders
         /\ s.provider_wallet \in Providers /\ s.provider_wallet \in Holders
         /\ provider[s.provider_wallet] \in ProviderAccount
         /\ s.usdc_to_provider \in U64 /\ s.claw_to_user \in U64
         /\ s.claw_to_provider_total \in U64 /\ s.claw_to_provider_locked \in U64
<1>1. s \in ReceiptSettlement
  BY DEF TypeInv, TypeOK
<1>2. s.payer_user \in Users /\ s.provider_wallet \in Providers
  BY <1>1 DEF ReceiptSettlement
<1>3. provider[s.provider_wallet] \in ProviderAccount
  BY <1>2 DEF TypeInv, TypeOK, ProvidersKnown
<1> QED
  BY <1>1, <1>2, <1>3, HoldersType DEF ReceiptSettlement

\* settle_finalized_receipt keeps TypeInv.
LEMMA SettleTypeInv ==
  ASSUME TypeInv, NEW r \in Receipts, NEW status, SettleFinalizedReceipt(r, status)
  PROVE  TypeInv' /\ KeepsClaw
<1> DEFINE s == settlement[r]
           u == s.payer_user
           p == s.provider_wallet
<1>1. settlement[r] # None
  BY DEF SettleFinalizedReceipt, Settleable, Recorded, HasStatus
<1>2. /\ user_reward[u].pending >= s.claw_to_user
      /\ FitsU64(user_reward[u].locked + s.claw_to_user)
      /\ provider_reward[p].pending >= s.claw_to_provider_locked
      /\ FitsU64(provider_reward[p].locked + s.claw_to_provider_locked)
      /\ vault.provider_pending >= s.usdc_to_provider
      /\ provider[p].pending_provider_usdc >= s.usdc_to_provider
      /\ provider[p].unsettled_receipt_count >= 1
  BY DEF SettleFinalizedReceipt, Covered, LockedFits
<1>3. /\ user_reward' = [user_reward EXCEPT ![u].pending = @ - s.claw_to_user,
                                            ![u].locked = @ + s.claw_to_user]
      /\ provider_reward' =
           [provider_reward EXCEPT ![p].pending = @ - s.claw_to_provider_locked,
                                   ![p].locked = @ + s.claw_to_provider_locked]
      /\ vault' = [vault EXCEPT !.provider_pending = @ - s.usdc_to_provider]
      /\ usdc' = [usdc EXCEPT ![p] = @ + s.usdc_to_provider]
      /\ provider' = [provider EXCEPT
                        ![p].pending_provider_usdc = @ - s.usdc_to_provider,
                        ![p].unsettled_receipt_count = @ - 1]
      /\ settlement' = [settlement EXCEPT ![r].reward_lock_started_at = now,
                                          ![r].status = "FinalizedSettled"]
      /\ UNCHANGED <<now, config, bond, claw, claw_supply, allowance>>
  BY DEF SettleFinalizedReceipt
<1> DEFINE settled == [s EXCEPT !.reward_lock_started_at = now, !.status = "FinalizedSettled"]
           account == [provider[p] EXCEPT
                         !.pending_provider_usdc = @ - s.usdc_to_provider,
                         !.unsettled_receipt_count = @ - 1]
           user_rewards == [user_reward[u] EXCEPT !.pending = @ - s.claw_to_user,
                                                  !.locked = @ + s.claw_to_user]
           provider_rewards ==
             [provider_reward[p] EXCEPT !.pending = @ - s.claw_to_provider_locked,
                                        !.locked = @ + s.claw_to_provider_locked]
<1>4. /\ s \in ReceiptSettlement
      /\ u \in Users /\ p \in Providers /\ p \in Holders
      /\ provider[p] \in ProviderAccount
      /\ s.usdc_to_provider \in U64 /\ s.claw_to_user \in U64
      /\ s.claw_to_provider_locked \in U64
  BY <1>1, SettlementFacts
<1>5. /\ settlement' = [settlement EXCEPT ![r] = settled]
      /\ provider' = [provider EXCEPT ![p] = account]
      /\ user_reward' = [user_reward EXCEPT ![u] = user_rewards]
      /\ provider_reward' = [provider_reward EXCEPT ![p] = provider_rewards]
  BY <1>3, <1>4 DEF TypeInv, TypeOK
<1> HIDE DEF s, u, p
<1>6. settled \in ReceiptSettlement
  BY <1>4 DEF ReceiptSettlement, TypeInv, TypeOK
<1>7. account \in ProviderAccount
  <2>1. /\ provider[p].pending_provider_usdc - s.usdc_to_provider \in U64
        /\ provider[p].unsettled_receipt_count - 1 \in U64
    BY <1>2, <1>4, WidthFacts DEF ProviderAccount
  <2> QED
    BY <1>4, <2>1 DEF ProviderAccount
<1>8. user_rewards \in RewardAccount
  <2>1. user_reward[u] \in RewardAccount
    BY <1>4 DEF TypeInv, TypeOK
  <2>2. /\ user_reward[u].pending - s.claw_to_user \in U64
        /\ user_reward[u].locked + s.claw_to_user \in U64
    BY <1>2, <1>4, <2>1, WidthFacts DEF RewardAccount, FitsU64
  <2> QED
    BY <2>1, <2>2 DEF RewardAccount
<1>9. provider_rewards \in RewardAccount
  <2>1. provider_reward[p] \in RewardAccount
    BY <1>4 DEF TypeInv, TypeOK
  <2>2. /\ provider_reward[p].pending - s.claw_to_provider_locked \in U64
        /\ provider_reward[p].locked + s.claw_to_provider_locked \in U64
    BY <1>2, <1>4, <2>1, WidthFacts DEF RewardAccount, FitsU64
  <2> QED
    BY <2>1, <2>2 DEF RewardAccount
<1>10. vault' \in Vaults /\ usdc' \in [Holders -> Nat]
  <2>1. s.usdc_to_provider \in Nat
    BY <1>4, WidthFacts
  <2>2. vault.provider_pending - s.usdc_to_provider \in Nat
    BY <1>2, <2>1 DEF TypeInv, TypeOK, Vaults
  <2>3. vault' \in Vaults
    BY <1>3, <2>2 DEF TypeInv, TypeOK, Vaults
  <2> QED
    BY <1>3, <1>4, <2>1, <2>3 DEF TypeInv, TypeOK
<1> HIDE DEF settled, account, user_rewards, provider_rewards
<1>11. TypeOK'
  <2>1. /\ settlement' \in [Receipts -> ReceiptSettlement \cup {None}]
        /\ provider' \in [Providers -> ProviderAccount \cup {None}]
    BY <1>5, <1>6, <1>7 DEF TypeInv, TypeOK
  <2>2. /\ user_reward' \in [Users -> RewardAccount]
        /\ provider_reward' \in [Providers -> RewardAccount]
    BY <1>5, <1>8, <1>9 DEF TypeInv, TypeOK
  <2> QED
    BY <1>3, <1>10, <2>1, <2>2 DEF TypeInv, TypeOK
<1>12. KeepsClaw
  BY <1>3 DEF TypeInv, TypeOK, ClawElsewhere, KeepsClaw, Vaults
<1>13. ProvidersKnown'
  <2>1. settled.provider_wallet = p
    BY <1>4 DEF settled, ReceiptSettlement, p
  <2> QED
    BY <1>1, <1>4, <1>5, <1>7, <2>1, NoneAssumption
       DEF TypeInv, TypeOK, ProvidersKnown, ReceiptSettlement
<1> QED
  BY <1>11, <1>12, <1>13 DEF TypeInv, ClawWithin, KeepsClaw

-----------------------------------------------------------------------------
(* Challenges *)

\* The bond record_challenge_bond posts: reward and burn share out the slash.
LEMMA BondWritten ==
  ASSUME TypeInv, NEW c \in Challenges, NEW r \in Receipts, NEW w \in Challengers,
         RecordChallengeBond(c, r, w)
  PROVE  /\ settlement[r] # None
         /\ bond' = [bond EXCEPT ![c] = bond'[c]]
         /\ bond'[c] \in ChallengeBondRecord
         /\ bond'[c].attestation_receipt = r
         /\ bond'[c].provider_wallet = settlement[r].provider_wallet
         /\ bond'[c].bond_amount = config.params.challenge_bond_claw_amount
         /\ bond'[c].challenger_reward_amount + bond'[c].burn_amount
              = bond'[c].slash_claw_amount_snapshot
         /\ bond'[c].status = "Locked"
<1> DEFINE params == config.params
           amount == params.challenge_bond_claw_amount
           slash == params.provider_slash_claw_amount
           reward == BpsAmount(slash, params.challenger_reward_bps)
           p == settlement[r].provider_wallet
           posted == [attestation_receipt        |-> r,
                      challenger                 |-> w,
                      provider_wallet            |-> p,
                      bond_amount                |-> amount,
                      slash_claw_amount_snapshot |-> slash,
                      challenger_reward_amount   |-> reward,
                      burn_amount                |-> slash - reward,
                      status                     |-> "Locked"]
<1>1. settlement[r] # None
  BY DEF RecordChallengeBond, Recorded, HasStatus
<1>2. p \in Providers
  BY <1>1, SettlementFacts
<1>3. params \in Phase1ConfigParams /\ ValidParams(params)
  BY DEF TypeInv, TypeOK, GlobalConfig, RecordChallengeBond, Running
<1>4. bond' = [bond EXCEPT ![c] = posted]
  BY DEF RecordChallengeBond
<1>5. /\ amount \in U64 /\ slash \in U64 /\ params.challenger_reward_bps \in 0..BPS_SCALE
  <2> HIDE DEF params
  <2> QED BY <1>3, ValidSplits
<1>6. slash \in Nat
  BY <1>5, WidthFacts
<1>7. reward \in U64 /\ slash - reward \in U64 /\ reward + (slash - reward) = slash
  <2>1. reward \in 0..slash
    <3> HIDE DEF slash
    <3> QED BY <1>5, <1>6, BpsAmountBounds
  <2> HIDE DEF reward
  <2> QED
    BY <1>5, <1>6, <2>1, WidthFacts
<1>8. bond'[c] = posted
  BY <1>4 DEF TypeInv, TypeOK
<1> HIDE DEF slash, reward
<1>9. posted \in ChallengeBondRecord
  BY <1>2, <1>5, <1>7 DEF ChallengeBondRecord
<1>10. bond' = [bond EXCEPT ![c] = bond'[c]]
  BY <1>4, <1>8
<1>11. /\ posted.attestation_receipt = r /\ posted.provider_wallet = p
       /\ posted.bond_amount = amount
       /\ posted.challenger_reward_amount + posted.burn_amount = posted.slash_claw_amount_snapshot
       /\ posted.status = "Locked"
  BY <1>7
<1> HIDE DEF posted
<1> QED
  BY <1>1, <1>8, <1>9, <1>10, <1>11

\* record_challenge_bond keeps TypeInv.
LEMMA BondTypeInv ==
  ASSUME TypeInv, NEW c \in Challenges, NEW r \in Receipts, NEW w \in Challengers,
         RecordChallengeBond(c, r, w)
  PROVE  TypeInv' /\ KeepsClaw
<1> DEFINE amount == config.params.challenge_bond_claw_amount
           p == settlement[r].provider_wallet
           account == [provider[p] EXCEPT !.unresolved_challenge_count = @ + 1]
<1>1. /\ settlement[r] # None /\ bond' = [bond EXCEPT ![c] = bond'[c]]
      /\ bond'[c] \in ChallengeBondRecord /\ bond'[c].bond_amount = amount
  BY BondWritten
<1>2. p \in Providers /\ provider[p] \in ProviderAccount /\ w \in Holders
  BY <1>1, SettlementFacts, HoldersType
<1>3. /\ claw[w] >= amount
      /\ FitsU64(provider[p].unresolved_challenge_count + 1)
      /\ claw' = [claw EXCEPT ![w] = @ - amount]
      /\ vault' = [vault EXCEPT !.challenge_bond = @ + amount]
      /\ provider' = [provider EXCEPT ![p].unresolved_challenge_count = @ + 1]
      /\ UNCHANGED <<now, config, user_reward, provider_reward, settlement,
                     usdc, claw_supply, allowance>>
  BY DEF RecordChallengeBond
<1>4. provider' = [provider EXCEPT ![p] = account]
  BY <1>2, <1>3 DEF TypeInv, TypeOK
<1>5. amount \in Nat
  BY <1>1, WidthFacts DEF ChallengeBondRecord
<1> HIDE DEF p, amount
<1>6. account \in ProviderAccount
  BY <1>2, <1>3 DEF ProviderAccount, FitsU64
<1>7. claw' \in [Holders -> Nat] /\ Total(Holders, claw') = Total(Holders, claw) - amount
  BY <1>2, <1>3, <1>5, WalletCharged DEF TypeInv
<1>8. vault' \in Vaults
  <2>1. vault \in Vaults /\ vault.challenge_bond + amount \in Nat
    BY <1>5 DEF TypeInv, TypeOK, Vaults
  <2> QED
    BY <1>3, <2>1 DEF Vaults
<1> HIDE DEF account
<1>9. TypeOK'
  <2>1. /\ bond' \in [Challenges -> ChallengeBondRecord \cup {None}]
        /\ provider' \in [Providers -> ProviderAccount \cup {None}]
    BY <1>1, <1>4, <1>6 DEF TypeInv, TypeOK
  <2> QED
    BY <1>3, <1>7, <1>8, <2>1 DEF TypeInv, TypeOK
<1>10. KeepsClaw
  <2>1. /\ vault'.challenge_bond = vault.challenge_bond + amount /\ vault'.reward = vault.reward
        /\ vault.challenge_bond \in Nat /\ vault.reward \in Nat
    BY <1>3 DEF TypeInv, TypeOK, Vaults
  <2>2. Total(Holders, claw) \in Nat
    BY MasterpoolAssumption, TotalType DEF TypeInv, TypeOK
  <2> QED
    BY <1>3, <1>5, <1>7, <2>1, <2>2 DEF TypeInv, ClawElsewhere, KeepsClaw
<1>11. ProvidersKnown'
  BY <1>2, <1>3, <1>4, <1>6, NoneAssumption
     DEF TypeInv, TypeOK, ProvidersKnown, ReceiptSettlement
<1> QED
  BY <1>9, <1>10, <1>11 DEF TypeInv, ClawWithin, KeepsClaw

\* The terms on which a bond is resolved, and the account it concerns.
LEMMA ResolvableFacts ==
  ASSUME TypeInv, NEW c \in Challenges, NEW r \in Receipts, Resolvable(c, r),
         NEW b, b = Terms(bond[c])
  PROVE  /\ b = bond[c] /\ b \in ChallengeBondRecord
         /\ b.challenger \in Challengers /\ b.challenger \in Holders
         /\ b.bond_amount \in Nat /\ vault.challenge_bond >= b.bond_amount
         /\ b.challenger_reward_amount \in Nat /\ b.burn_amount \in Nat
         /\ b.slash_claw_amount_snapshot \in Nat
         /\ settlement[r] # None
         /\ provider[settlement[r].provider_wallet].unresolved_challenge_count - 1 \in U64
<1>1. b = bond[c] /\ b \in ChallengeBondRecord /\ vault.challenge_bond >= b.bond_amount
  BY DEF Terms, Resolvable, BondLocked, HasStatus, TypeInv, TypeOK
<1>2. settlement[r] # None
  BY DEF Resolvable, Recorded, HasStatus
<1>3. provider[settlement[r].provider_wallet] \in ProviderAccount
  BY <1>2, SettlementFacts
<1>4. provider[settlement[r].provider_wallet].unresolved_challenge_count - 1 \in U64
  BY <1>3, WidthFacts DEF Resolvable, ProviderAccount
<1> QED
  BY <1>1, <1>2, <1>4, WidthFacts, HoldersType DEF ChallengeBondRecord

\* Burning is where the supply could go below zero: ClawWithin excludes it.
LEMMA BurnTypeInv ==
  ASSUME TypeInv, NEW c \in Challenges, NEW r \in Receipts, Resolvable(c, r), BurnBond(c, r),
         UNCHANGED <<now, config, allowance>>
  PROVE  TypeInv' /\ KeepsClaw
<1> DEFINE p == settlement[r].provider_wallet
           b == Terms(bond[c])
           account == [provider[p] EXCEPT !.unresolved_challenge_count = @ - 1]
           resolved == [bond[c] EXCEPT !.status = "Burned"]
<1>1. /\ vault' = [vault EXCEPT !.challenge_bond = @ - b.bond_amount]
      /\ claw_supply' = claw_supply - b.bond_amount
      /\ provider' = [provider EXCEPT ![p].unresolved_challenge_count = @ - 1]
      /\ bond' = [bond EXCEPT ![c].status = "Burned"]
      /\ UNCHANGED <<user_reward, provider_reward, settlement, usdc, claw>>
  BY DEF BurnBond
<1>2. /\ b = bond[c] /\ b \in ChallengeBondRecord
      /\ b.bond_amount \in Nat /\ vault.challenge_bond >= b.bond_amount
      /\ settlement[r] # None
      /\ provider[p].unresolved_challenge_count - 1 \in U64
  <2> HIDE DEF b
  <2> QED BY ResolvableFacts DEF b
<1>3. p \in Providers /\ provider[p] \in ProviderAccount
  BY <1>2, SettlementFacts
<1>4. provider' = [provider EXCEPT ![p] = account] /\ bond' = [bond EXCEPT ![c] = resolved]
  BY <1>1, <1>3 DEF TypeInv, TypeOK
<1> HIDE DEF p, b
<1>5. account \in ProviderAccount
  BY <1>2, <1>3 DEF ProviderAccount
<1>6. resolved \in ChallengeBondRecord
  BY <1>2 DEF ChallengeBondRecord
<1> HIDE DEF account, resolved
<1>7. /\ claw_supply \in U64 /\ claw_supply \in Nat /\ vault \in Vaults
      /\ vault.reward \in Nat /\ vault.challenge_bond \in Nat
      /\ Total(Holders, claw) \in Nat
      /\ claw_supply >= Total(Holders, claw) + vault.reward + vault.challenge_bond
  BY MasterpoolAssumption, TotalType
     DEF TypeInv, TypeOK, ClawWithin, ClawElsewhere, U64, Vaults
<1>8. claw_supply - b.bond_amount \in U64
  <2>1. b.bond_amount <= claw_supply
    BY <1>2, <1>7
  <2> QED
    BY <1>2, <1>7, <2>1, WidthFacts
<1>9. vault' \in Vaults
  <2>1. vault.challenge_bond - b.bond_amount \in Nat
    BY <1>2, <1>7
  <2> QED
    BY <1>1, <1>7, <2>1 DEF Vaults
<1>10. TypeOK'
  <2>1. /\ bond' \in [Challenges -> ChallengeBondRecord \cup {None}]
        /\ provider' \in [Providers -> ProviderAccount \cup {None}]
    BY <1>3, <1>4, <1>5, <1>6 DEF TypeInv, TypeOK
  <2> QED
    BY <1>1, <1>8, <1>9, <2>1 DEF TypeInv, TypeOK
<1>11. KeepsClaw
  <2>1. /\ vault'.challenge_bond = vault.challenge_bond - b.bond_amount
        /\ vault'.reward = vault.reward
    BY <1>1, <1>7 DEF Vaults
  <2> QED
    BY <1>1, <1>2, <1>7, <2>1 DEF ClawElsewhere, KeepsClaw
<1>12. ProvidersKnown'
  BY <1>1, <1>3, <1>4, <1>5, NoneAssumption
     DEF TypeInv, TypeOK, ProvidersKnown, ReceiptSettlement
<1> QED
  BY <1>10, <1>11, <1>12 DEF TypeInv, ClawWithin, KeepsClaw

\* The upheld branch of resolve_challenge_economics keeps TypeInv.
LEMMA RevertTypeInv ==
  ASSUME TypeInv, NEW c \in Challenges, NEW r \in Receipts, Resolvable(c, r),
         RevertReceipt(c, r), UNCHANGED <<now, config, allowance>>
  PROVE  TypeInv' /\ KeepsClaw
<1> DEFINE s == settlement[r]
           b == Terms(bond[c])
           u == s.payer_user
           p == s.provider_wallet
           slashed == b.challenger_reward_amount + b.burn_amount
           paid == b.bond_amount + b.challenger_reward_amount
<1>1. /\ user_reward[u].pending >= s.claw_to_user
      /\ provider_reward[p].pending >= s.claw_to_provider_locked
      /\ vault.reward >= slashed
      /\ vault.provider_pending >= s.usdc_to_provider
      /\ provider[p].pending_provider_usdc >= s.usdc_to_provider
      /\ provider[p].unsettled_receipt_count >= 1
  BY DEF RevertReceipt, Covered
<1>2. /\ user_reward' = [user_reward EXCEPT ![u].pending = @ - s.claw_to_user]
      /\ provider_reward' =
           [provider_reward EXCEPT ![p].pending = @ - s.claw_to_provider_locked]
      /\ vault' = [vault EXCEPT !.challenge_bond = @ - b.bond_amount,
                                !.reward = @ - slashed,
                                !.provider_pending = @ - s.usdc_to_provider]
      /\ claw_supply' = claw_supply - b.burn_amount
      /\ usdc' = [usdc EXCEPT ![u] = @ + s.usdc_to_provider]
      /\ provider' = [provider EXCEPT
                        ![p].pending_provider_usdc = @ - s.usdc_to_provider,
                        ![p].unsettled_receipt_count = @ - 1,
                        ![p].unresolved_challenge_count = @ - 1,
                        ![p].claw_net_position =
                            @ - PositionCredit(s) - b.slash_claw_amount_snapshot]
      /\ settlement' = [settlement EXCEPT ![r].status = "ChallengedReverted"]
      /\ bond' = [bond EXCEPT ![c].status = "Returned"]
  BY DEF RevertReceipt
<1>3. claw' = [claw EXCEPT ![b.challenger] = @ + b.bond_amount + b.challenger_reward_amount]
  BY DEF RevertReceipt
<1>4. /\ b = bond[c] /\ b \in ChallengeBondRecord
      /\ b.challenger \in Holders
      /\ b.bond_amount \in Nat /\ vault.challenge_bond >= b.bond_amount
      /\ b.challenger_reward_amount \in Nat /\ b.burn_amount \in Nat
      /\ b.slash_claw_amount_snapshot \in Nat
      /\ s # None
      /\ provider[p].unresolved_challenge_count - 1 \in U64
  <2> HIDE DEF b
  <2> QED BY ResolvableFacts DEF b
<1>5. /\ s \in ReceiptSettlement
      /\ u \in Users /\ u \in Holders /\ p \in Providers
      /\ provider[p] \in ProviderAccount
      /\ s.usdc_to_provider \in U64 /\ s.claw_to_user \in U64
      /\ s.claw_to_provider_total \in U64 /\ s.claw_to_provider_locked \in U64
  BY <1>4, SettlementFacts
<1> DEFINE reverted == [s EXCEPT !.status = "ChallengedReverted"]
           resolved == [bond[c] EXCEPT !.status = "Returned"]
           account == [provider[p] EXCEPT
                         !.pending_provider_usdc = @ - s.usdc_to_provider,
                         !.unsettled_receipt_count = @ - 1,
                         !.unresolved_challenge_count = @ - 1,
                         !.claw_net_position =
                             @ - PositionCredit(s) - b.slash_claw_amount_snapshot]
           user_rewards == [user_reward[u] EXCEPT !.pending = @ - s.claw_to_user]
           provider_rewards ==
             [provider_reward[p] EXCEPT !.pending = @ - s.claw_to_provider_locked]
<1> HIDE DEF b
<1>6. /\ settlement' = [settlement EXCEPT ![r] = reverted]
      /\ bond' = [bond EXCEPT ![c] = resolved]
      /\ provider' = [provider EXCEPT ![p] = account]
      /\ user_reward' = [user_reward EXCEPT ![u] = user_rewards]
      /\ provider_reward' = [provider_reward EXCEPT ![p] = provider_rewards]
  BY <1>2, <1>5 DEF TypeInv, TypeOK
<1> HIDE DEF s, u, p, slashed, paid
<1>7. reverted \in ReceiptSettlement /\ reverted.provider_wallet = p
  BY <1>5 DEF ReceiptSettlement, p
<1>8. resolved \in ChallengeBondRecord
  BY <1>4 DEF ChallengeBondRecord
<1>9. account \in ProviderAccount
  <2>1. /\ provider[p].pending_provider_usdc - s.usdc_to_provider \in U64
        /\ provider[p].unsettled_receipt_count - 1 \in U64
    BY <1>1, <1>5, WidthFacts DEF ProviderAccount
  <2>2. PositionCredit(s) \in Int
    BY <1>5, WidthFacts DEF PositionCredit
  <2>3. provider[p].claw_net_position - PositionCredit(s) - b.slash_claw_amount_snapshot \in Int
    BY <1>4, <1>5, <2>2 DEF ProviderAccount
  <2> QED
    BY <1>4, <1>5, <2>1, <2>3 DEF ProviderAccount
<1>10. user_rewards \in RewardAccount
  <2>1. user_reward[u] \in RewardAccount
    BY <1>5 DEF TypeInv, TypeOK
  <2>2. user_reward[u].pending - s.claw_to_user \in U64
    BY <1>1, <1>5, <2>1, WidthFacts DEF RewardAccount
  <2> QED
    BY <2>1, <2>2 DEF RewardAccount
<1>11. provider_rewards \in RewardAccount
  <2>1. provider_reward[p] \in RewardAccount
    BY <1>5 DEF TypeInv, TypeOK
  <2>2. provider_reward[p].pending - s.claw_to_provider_locked \in U64
    BY <1>1, <1>5, <2>1, WidthFacts DEF RewardAccount
  <2> QED
    BY <2>1, <2>2 DEF RewardAccount
<1>12. /\ s.usdc_to_provider \in Nat /\ slashed \in Nat /\ paid \in Nat
  BY <1>4, <1>5, WidthFacts DEF slashed, paid
<1>13. /\ claw_supply \in U64 /\ claw_supply \in Nat /\ vault \in Vaults
       /\ vault.reward \in Nat /\ vault.challenge_bond \in Nat /\ vault.provider_pending \in Nat
       /\ Total(Holders, claw) \in Nat
       /\ claw_supply >= Total(Holders, claw) + vault.reward + vault.challenge_bond
  BY MasterpoolAssumption, TotalType
     DEF TypeInv, TypeOK, ClawWithin, ClawElsewhere, U64, Vaults
<1>14. claw_supply - b.burn_amount \in U64
  <2>1. b.burn_amount <= slashed
    BY <1>4 DEF slashed
  <2>2. b.burn_amount <= claw_supply
    BY <1>1, <1>4, <1>12, <1>13, <2>1
  <2> QED
    BY <1>4, <1>13, <2>2, WidthFacts
<1>15. vault' \in Vaults
  <2>1. /\ vault.challenge_bond - b.bond_amount \in Nat /\ vault.reward - slashed \in Nat
        /\ vault.provider_pending - s.usdc_to_provider \in Nat
    BY <1>1, <1>4, <1>12, <1>13
  <2> QED
    BY <1>2, <1>13, <2>1 DEF Vaults
<1>16. claw' \in [Holders -> Nat] /\ Total(Holders, claw') = Total(Holders, claw) + paid
  <2>1. claw[b.challenger] + b.bond_amount + b.challenger_reward_amount = claw[b.challenger] + paid
    BY <1>4 DEF paid, TypeInv, TypeOK
  <2>2. claw' = [claw EXCEPT ![b.challenger] = @ + paid]
    BY <1>3, <2>1
  <2> QED
    BY <1>4, <1>12, <2>2, WalletPaid DEF TypeInv
<1>17. usdc' \in [Holders -> Nat]
  BY <1>2, <1>5, <1>12 DEF TypeInv, TypeOK
<1> HIDE DEF reverted, resolved, account, user_rewards, provider_rewards
<1>18. TypeOK'
  <2>1. /\ settlement' \in [Receipts -> ReceiptSettlement \cup {None}]
        /\ bond' \in [Challenges -> ChallengeBondRecord \cup {None}]
        /\ provider' \in [Providers -> ProviderAccount \cup {None}]
    BY <1>6, <1>7, <1>8, <1>9 DEF TypeInv, TypeOK
  <2>2. /\ user_reward' \in [Users -> RewardAccount]
        /\ provider_reward' \in [Providers -> RewardAccount]
    BY <1>6, <1>10, <1>11 DEF TypeInv, TypeOK
  <2>3. claw_supply' \in U64
    BY <1>2, <1>14
  <2> QED
    BY <1>15, <1>16, <1>17, <2>1, <2>2, <2>3 DEF TypeInv, TypeOK
<1>19. KeepsClaw
  <2>1. /\ vault'.challenge_bond = vault.challenge_bond - b.bond_amount
        /\ vault'.reward = vault.reward - slashed
    BY <1>2, <1>13 DEF Vaults
  <2>2. claw_supply' = claw_supply - b.burn_amount
    BY <1>2
  <2> QED
    BY <1>4, <1>13, <1>16, <2>1, <2>2 DEF ClawElsewhere, KeepsClaw, slashed, paid
<1>20. ProvidersKnown'
  BY <1>4, <1>5, <1>6, <1>7, <1>9, NoneAssumption
     DEF TypeInv, TypeOK, ProvidersKnown, ReceiptSettlement, s
<1> QED
  BY <1>18, <1>19, <1>20 DEF TypeInv, ClawWithin, KeepsClaw

\* resolve_challenge_economics keeps TypeInv on both branches.
LEMMA ResolveTypeInv ==
  ASSUME TypeInv, NEW c \in Challenges, NEW r \in Receipts, NEW code,
         ResolveChallengeEconomics(c, r, code)
  PROVE  TypeInv' /\ KeepsClaw
<1>1. Resolvable(c, r) /\ UNCHANGED <<now, config, allowance>>
  BY DEF ResolveChallengeEconomics
<1>2. CASE BurnBond(c, r)
  BY <1>1, <1>2, BurnTypeInv
<1>3. CASE RevertReceipt(c, r)
  BY <1>1, <1>3, RevertTypeInv
<1> QED
  BY <1>2, <1>3 DEF ResolveChallengeEconomics

-----------------------------------------------------------------------------
(* Rewards *)

\* A release stays within what the receipt locked.
LEMMA ReleasableBounds ==
  ASSUME TypeInv, NEW start \in Nat, NEW locked \in U64, NEW released \in U64,
         NEW days \in Nat \ {0}, NEW amount \in Nat,
         amount <= Releasable(locked, released, start, now, days)
  PROVE  released + amount \in U64
<1> DEFINE v == Vested(locked, start, now, days)
<1>1. now \in Nat /\ locked \in Nat /\ released \in Nat
  BY WidthFacts DEF TypeInv, TypeOK
<1>2. v \in 0..locked
  BY <1>1, VestedGrows
<1>3. amount <= v - released
  BY DEF Releasable
<1> HIDE DEF v
<1>4. released + amount <= locked
  BY <1>1, <1>2, <1>3
<1> QED
  BY <1>1, <1>4, WidthFacts

\* materialize_reward_release keeps TypeInv.
LEMMA ReleaseTypeInv ==
  ASSUME TypeInv, NEW r \in Receipts, NEW target, NEW amount \in Nat,
         MaterializeRewardRelease(r, target, amount)
  PROVE  TypeInv' /\ KeepsClaw
<1> DEFINE s == settlement[r]
<1>1. settlement[r] # None
  BY DEF MaterializeRewardRelease, FinalizedSettled, HasStatus
<1>2. /\ s \in ReceiptSettlement /\ s.payer_user \in Users /\ s.provider_wallet \in Providers
      /\ s.claw_to_user \in U64 /\ s.claw_to_provider_locked \in U64
      /\ s.user_claw_released \in U64 /\ s.provider_claw_released \in U64
      /\ s.reward_lock_started_at \in Nat /\ s.lock_days_snapshot \in Nat \ {0}
      /\ provider[s.provider_wallet] \in ProviderAccount
  BY <1>1, SettlementFacts DEF ReceiptSettlement
<1>3. UNCHANGED <<now, config, provider, bond, tokens>>
  BY DEF MaterializeRewardRelease
<1>4. ASSUME NEW released \in ReceiptSettlement, released.provider_wallet = s.provider_wallet,
             settlement' = [settlement EXCEPT ![r] = released],
             user_reward' \in [Users -> RewardAccount],
             provider_reward' \in [Providers -> RewardAccount]
      PROVE  TypeInv' /\ KeepsClaw
  <2>1. TypeOK'
    BY <1>3, <1>4 DEF TypeInv, TypeOK, tokens
  <2>2. KeepsClaw
    BY <1>3 DEF ClawElsewhere, KeepsClaw, tokens
  <2>3. ProvidersKnown'
    BY <1>1, <1>3, <1>4 DEF TypeInv, TypeOK, ProvidersKnown
  <2> QED
    BY <2>1, <2>2, <2>3 DEF TypeInv, ClawWithin, KeepsClaw
<1>5. CASE ReleaseToUser(r, amount)
  <2> DEFINE u == s.payer_user
             released == [s EXCEPT !.user_claw_released = @ + amount]
             rewards == [user_reward[u] EXCEPT !.locked = @ - amount, !.released = @ + amount]
  <2>1. /\ amount <= Releasable(s.claw_to_user, s.user_claw_released,
                                s.reward_lock_started_at, now, s.lock_days_snapshot)
        /\ user_reward[u].locked >= amount
        /\ FitsU64(user_reward[u].released + amount)
        /\ user_reward' = [user_reward EXCEPT ![u].locked = @ - amount,
                                              ![u].released = @ + amount]
        /\ settlement' = [settlement EXCEPT ![r].user_claw_released = @ + amount]
        /\ UNCHANGED provider_reward
    BY <1>5 DEF ReleaseToUser
  <2>2. /\ user_reward' = [user_reward EXCEPT ![u] = rewards]
        /\ settlement' = [settlement EXCEPT ![r] = released]
    BY <1>2, <2>1 DEF TypeInv, TypeOK
  <2> HIDE DEF s
  <2>3. s.user_claw_released + amount \in U64
    BY <1>2, <2>1, ReleasableBounds
  <2>4. released \in ReceiptSettlement /\ released.provider_wallet = s.provider_wallet
    BY <1>2, <2>3 DEF ReceiptSettlement
  <2>5. rewards \in RewardAccount
    <3>1. user_reward[u] \in RewardAccount
      BY <1>2 DEF TypeInv, TypeOK
    <3>2. user_reward[u].locked - amount \in U64 /\ user_reward[u].released + amount \in U64
      BY <2>1, <3>1, WidthFacts DEF RewardAccount, FitsU64
    <3> QED
      BY <3>1, <3>2 DEF RewardAccount
  <2> HIDE DEF released, rewards
  <2>6. /\ user_reward' \in [Users -> RewardAccount]
        /\ provider_reward' \in [Providers -> RewardAccount]
    BY <1>2, <2>1, <2>2, <2>5 DEF TypeInv, TypeOK
  <2> QED
    BY <1>4, <2>2, <2>4, <2>6
<1>6. CASE ReleaseToProvider(r, amount)
  <2> DEFINE p == s.provider_wallet
             released == [s EXCEPT !.provider_claw_released = @ + amount]
             rewards == [provider_reward[p] EXCEPT !.locked = @ - amount, !.released = @ + amount]
  <2>1. /\ amount <= Releasable(s.claw_to_provider_locked, s.provider_claw_released,
                                s.reward_lock_started_at, now, s.lock_days_snapshot)
        /\ provider_reward[p].locked >= amount
        /\ FitsU64(provider_reward[p].released + amount)
        /\ provider_reward' = [provider_reward EXCEPT ![p].locked = @ - amount,
                                                      ![p].released = @ + amount]
        /\ settlement' = [settlement EXCEPT ![r].provider_claw_released = @ + amount]
        /\ UNCHANGED user_reward
    BY <1>6 DEF ReleaseToProvider
  <2>2. /\ provider_reward' = [provider_reward EXCEPT ![p] = rewards]
        /\ settlement' = [settlement EXCEPT ![r] = released]
    BY <1>2, <2>1 DEF TypeInv, TypeOK
  <2> HIDE DEF s
  <2>3. s.provider_claw_released + amount \in U64
    BY <1>2, <2>1, ReleasableBounds
  <2>4. released \in ReceiptSettlement /\ released.provider_wallet = s.provider_wallet
    BY <1>2, <2>3 DEF ReceiptSettlement
  <2>5. rewards \in RewardAccount
    <3>1. provider_reward[p] \in RewardAccount
      BY <1>2 DEF TypeInv, TypeOK
    <3>2. /\ provider_reward[p].locked - amount \in U64
          /\ provider_reward[p].released + amount \in U64
      BY <2>1, <3>1, WidthFacts DEF RewardAccount, FitsU64
    <3> QED
      BY <3>1, <3>2 DEF RewardAccount
  <2> HIDE DEF released, rewards
  <2>6. /\ user_reward' \in [Users -> RewardAccount]
        /\ provider_reward' \in [Providers -> RewardAccount]
    BY <1>2, <2>1, <2>2, <2>5 DEF TypeInv, TypeOK
  <2> QED
    BY <1>4, <2>2, <2>4, <2>6
<1> QED
  BY <1>5, <1>6 DEF MaterializeRewardRelease

\* A claim moves CLAW from the reward vault to a wallet.
LEMMA ClaimTypeInv ==
  ASSUME TypeInv, NEW w \in Holders, NEW claimable, NEW account \in RewardAccount,
         claimable = account.released - account.claimed, claimable > 0,
         vault.reward >= claimable,
         vault' = [vault EXCEPT !.reward = @ - claimable],
         claw' = [claw EXCEPT ![w] = @ + claimable]
  PROVE  /\ vault' \in Vaults /\ claw' \in [Holders -> Nat]
         /\ claw_supply' = claw_supply => KeepsClaw
         /\ [account EXCEPT !.claimed = @ + claimable] \in RewardAccount
<1>1. account.released \in U64 /\ account.claimed \in U64
  BY DEF RewardAccount
<1>2. claimable \in Nat /\ account.claimed + claimable \in U64
  BY <1>1, WidthFacts
<1>3. claw' \in [Holders -> Nat] /\ Total(Holders, claw') = Total(Holders, claw) + claimable
  BY <1>2, WalletPaid DEF TypeInv
<1>4. /\ vault \in Vaults /\ vault.reward \in Nat /\ vault.challenge_bond \in Nat
      /\ Total(Holders, claw) \in Nat
      /\ claw_supply >= Total(Holders, claw) + vault.reward + vault.challenge_bond
  BY MasterpoolAssumption, TotalType
     DEF TypeInv, TypeOK, ClawWithin, ClawElsewhere, U64, Vaults
<1>5. vault' \in Vaults
  <2>1. vault.reward - claimable \in Nat
    BY <1>2, <1>4
  <2> QED
    BY <1>4, <2>1 DEF Vaults
<1>6. ASSUME claw_supply' = claw_supply PROVE KeepsClaw
  <2>1. vault'.reward = vault.reward - claimable /\ vault'.challenge_bond = vault.challenge_bond
    BY <1>4 DEF Vaults
  <2> QED
    BY <1>2, <1>3, <1>4, <1>6, <2>1 DEF ClawElsewhere, KeepsClaw
<1>7. [account EXCEPT !.claimed = @ + claimable] \in RewardAccount
  BY <1>2 DEF RewardAccount
<1> QED
  BY <1>3, <1>5, <1>6, <1>7

\* claim_user_claw keeps TypeInv.
LEMMA ClaimUserTypeInv ==
  ASSUME TypeInv, NEW u \in Users, ClaimUserClaw(u)
  PROVE  TypeInv' /\ KeepsClaw
<1> DEFINE claimable == user_reward[u].released - user_reward[u].claimed
           rewards == [user_reward[u] EXCEPT !.claimed = @ + claimable]
<1>1. /\ claimable > 0 /\ vault.reward >= claimable
      /\ vault' = [vault EXCEPT !.reward = @ - claimable]
      /\ claw' = [claw EXCEPT ![u] = @ + claimable]
      /\ user_reward' = [user_reward EXCEPT ![u].claimed = @ + claimable]
      /\ UNCHANGED <<now, config, provider, provider_reward, settlement, bond,
                     usdc, claw_supply, allowance>>
  BY DEF ClaimUserClaw
<1>2. u \in Holders /\ user_reward[u] \in RewardAccount
  BY HoldersType DEF TypeInv, TypeOK
<1>3. user_reward' = [user_reward EXCEPT ![u] = rewards]
  BY <1>1 DEF TypeInv, TypeOK
<1>4. /\ vault' \in Vaults /\ claw' \in [Holders -> Nat] /\ KeepsClaw
      /\ rewards \in RewardAccount
  BY <1>1, <1>2, ClaimTypeInv
<1> HIDE DEF rewards, claimable
<1>5. TypeOK'
  BY <1>1, <1>3, <1>4 DEF TypeInv, TypeOK
<1> QED
  BY <1>1, <1>4, <1>5 DEF TypeInv, ClawWithin, KeepsClaw, ProvidersKnown

\* claim_provider_claw keeps TypeInv.
LEMMA ClaimProviderTypeInv ==
  ASSUME TypeInv, NEW p \in Providers, ClaimProviderClaw(p)
  PROVE  TypeInv' /\ KeepsClaw
<1> DEFINE claimable == provider_reward[p].released - provider_reward[p].claimed
           rewards == [provider_reward[p] EXCEPT !.claimed = @ + claimable]
<1>1. /\ claimable > 0 /\ vault.reward >= claimable
      /\ vault' = [vault EXCEPT !.reward = @ - claimable]
      /\ claw' = [claw EXCEPT ![p] = @ + claimable]
      /\ provider_reward' = [provider_reward EXCEPT ![p].claimed = @ + claimable]
      /\ UNCHANGED <<now, config, provider, user_reward, settlement, bond,
                     usdc, claw_supply, allowance>>
  BY DEF ClaimProviderClaw
<1>2. p \in Holders /\ provider_reward[p] \in RewardAccount
  BY HoldersType DEF TypeInv, TypeOK
<1>3. provider_reward' = [provider_reward EXCEPT ![p] = rewards]
  BY <1>1 DEF TypeInv, TypeOK
<1>4. /\ vault' \in Vaults /\ claw' \in [Holders -> Nat] /\ KeepsClaw
      /\ rewards \in RewardAccount
  BY <1>1, <1>2, ClaimTypeInv
<1> HIDE DEF rewards, claimable
<1>5. TypeOK'
  BY <1>1, <1>3, <1>4 DEF TypeInv, TypeOK
<1> QED
  BY <1>1, <1>4, <1>5 DEF TypeInv, ClawWithin, KeepsClaw, ProvidersKnown

-----------------------------------------------------------------------------
(* Every step *)

\* Approving an allowance keeps TypeInv.
LEMMA ApproveTypeInv ==
  ASSUME TypeInv, NEW u \in Users, NEW amount \in Nat, Approve(u, amount)
  PROVE  TypeInv' /\ KeepsClaw
BY DEF TypeInv, TypeOK, ClawWithin, ClawElsewhere, KeepsClaw, ProvidersKnown, Approve

\* The clock keeps TypeInv.
LEMMA TickTypeInv ==
  ASSUME TypeInv, MasterpoolTick
  PROVE  TypeInv' /\ KeepsClaw
BY ChainAssumption DEF TypeInv, TypeOK, ClawWithin, ClawElsewhere, KeepsClaw,
                       ProvidersKnown, MasterpoolTick, Tick, masterpool_vars, tokens

\* Every step keeps TypeInv.
LEMMA StepTypeInv == TypeInv /\ [Next]_mvars => TypeInv' /\ KeepsClaw
<1> SUFFICES ASSUME TypeInv, [Next]_mvars PROVE TypeInv' /\ KeepsClaw
  OBVIOUS
<1>1. CASE DirectStep
  <2>1. /\ ParamChoices \subseteq Phase1ConfigParams
        /\ PauseChoices \subseteq SUBSET PauseFlags
        /\ Allowances \subseteq Nat /\ ReleaseAmounts \subseteq Nat
    BY MasterpoolAssumption
  <2> QED
    BY <1>1, <2>1, InitializeTypeInv, UpdateConfigTypeInv, MintTypeInv, SetPauseTypeInv,
       RegisterTypeInv, ExitTypeInv, ReleaseTypeInv, ClaimUserTypeInv, ClaimProviderTypeInv,
       ApproveTypeInv
       DEF DirectStep
<1>2. CASE AttestationCall
  BY <1>2, RecordTypeInv, SettleTypeInv, BondTypeInv, ResolveTypeInv DEF AttestationCall
<1>3. CASE MasterpoolTick
  BY <1>3, TickTypeInv
<1>4. CASE UNCHANGED mvars
  BY <1>4 DEF mvars, masterpool_vars, tokens, TypeInv, TypeOK, ClawWithin, ClawElsewhere,
              KeepsClaw, ProvidersKnown
<1> QED
  BY <1>1, <1>2, <1>3, <1>4 DEF Next

\* TypeInv holds in every reachable state.
THEOREM TypeInvAlways == Spec => []TypeInv
<1>1. MasterpoolInit => TypeInv
  BY InitTypeInv
<1>2. TypeInv /\ [Next]_mvars => TypeInv'
  BY StepTypeInv
<1> QED
  BY <1>1, <1>2, PTL DEF Spec

\* Every account always has the layout of state/accounts.rs, with every amount
\* in its 64 bits: no checked subtraction or token burn of the masterpool can
\* leave its range, in whatever order the instructions come.
THEOREM MasterpoolTypeCorrect == Spec => []TypeOK
<1>1. TypeInv => TypeOK
  BY DEF TypeInv
<1> QED
  BY <1>1, TypeInvAlways, PTL

-----------------------------------------------------------------------------
(* The vaults of stakes, bonds and escrow.  First what each instruction    *)
(* changes, account by account; then how the sums follow.                  *)

\* One account of a table changes and the others stay.
Changed(old, new, S, x) == \A y \in S \ {x} : new[y] = old[y]

-----------------------------------------------------------------------------
(* What each instruction changes in the provider accounts, the settlements *)
(* and the bonds                                                           *)

\* register_provider opens one account with its stake and empty counters.
LEMMA RegisterEffect ==
  ASSUME TypeInv, NEW p \in Providers, RegisterProvider(p)
  PROVE  /\ TypeInv'
         /\ provider[p] = None
         /\ provider'[p].staked_usdc_amount = config.params.provider_stake_usdc
         /\ provider'[p].pending_provider_usdc = 0
         /\ provider'[p].unsettled_receipt_count = 0
         /\ provider'[p].unresolved_challenge_count = 0
         /\ provider'[p].status = "Active"
         /\ provider'[p].claw_net_position = 0
         /\ provider'[p] \in ProviderAccount
         /\ Changed(provider, provider', Providers, p)
         /\ vault' = [vault EXCEPT !.provider_stake = @ + config.params.provider_stake_usdc]
         /\ UNCHANGED <<settlement, bond>>
<1>1. config.params.provider_stake_usdc \in U64
  BY DEF TypeInv, TypeOK, RegisterProvider, GlobalConfig, Phase1ConfigParams
<1>2. provider'[p] = [staked_usdc_amount         |-> config.params.provider_stake_usdc,
                      pending_provider_usdc      |-> 0,
                      claw_net_position          |-> 0,
                      unsettled_receipt_count    |-> 0,
                      unresolved_challenge_count |-> 0,
                      status                     |-> "Active"]
  BY DEF TypeInv, TypeOK, RegisterProvider
<1>3. provider'[p] \in ProviderAccount
  BY <1>1, <1>2, WidthFacts DEF ProviderAccount
<1>4. Changed(provider, provider', Providers, p)
  BY DEF TypeInv, TypeOK, RegisterProvider, Changed
<1>5. /\ provider'[p].staked_usdc_amount = config.params.provider_stake_usdc
      /\ provider'[p].pending_provider_usdc = 0
      /\ provider'[p].unsettled_receipt_count = 0
      /\ provider'[p].unresolved_challenge_count = 0
      /\ provider'[p].status = "Active"
      /\ provider'[p].claw_net_position = 0
  BY <1>2
<1>6. TypeInv'
  BY RegisterTypeInv
<1>7. /\ provider[p] = None
      /\ vault' = [vault EXCEPT !.provider_stake = @ + config.params.provider_stake_usdc]
      /\ UNCHANGED <<settlement, bond>>
  BY DEF RegisterProvider
<1> QED
  BY <1>3, <1>4, <1>5, <1>6, <1>7

\* exit_provider pays one stake out and closes one account.
LEMMA ExitEffect ==
  ASSUME TypeInv, NEW p \in Providers, NEW destination \in Holders,
         ExitProvider(p, destination)
  PROVE  /\ provider[p] \in ProviderAccount /\ MayExit(provider[p])
         /\ provider'[p] = [provider[p] EXCEPT !.staked_usdc_amount = 0, !.status = "Exited"]
         /\ Changed(provider, provider', Providers, p)
         /\ vault.provider_stake >= provider[p].staked_usdc_amount
         /\ vault' = [vault EXCEPT !.provider_stake = @ - provider[p].staked_usdc_amount]
         /\ UNCHANGED <<settlement, bond>>
BY DEF TypeInv, TypeOK, ExitProvider, MayExit, HasStatus, Changed

\* record_mining_from_receipt writes one settlement and updates its provider.
LEMMA RecordEffect ==
  ASSUME TypeInv, NEW r \in Receipts, NEW u \in Users, NEW p \in Providers,
         NEW total \in Charges, RecordMiningFromReceipt(r, u, p, total)
  PROVE  LET s == settlement'[r] IN
         /\ TypeInv'
         /\ settlement[r] = None /\ s \in ReceiptSettlement
         /\ s.payer_user = u /\ s.provider_wallet = p /\ s.status = "Recorded"
         /\ s.user_claw_released = 0 /\ s.provider_claw_released = 0
         /\ s.claw_provider_debt_offset + s.claw_to_provider_locked = s.claw_to_provider_total
         /\ s.claw_provider_debt_offset =
              DebtOffset(provider[p].claw_net_position, s.claw_to_provider_total)
         /\ Changed(settlement, settlement', Receipts, r)
         /\ HasStatus(provider[p], "Active")
         /\ provider[p] \in ProviderAccount /\ provider'[p] \in ProviderAccount
         /\ Changed(provider, provider', Providers, p)
         /\ UNCHANGED bond
<1> DEFINE s == NewSettlement(u, p, total)
<1> HIDE DEF s
<1>0. TypeInv'
  BY RecordTypeInv
<1>1. Recordable(r, total) /\ HasStatus(provider[p], "Active") /\ TotalsFit(s)
  BY DEF RecordMiningFromReceipt, s
<1>2. /\ vault' = [vault EXCEPT !.treasury = @ + s.usdc_to_treasury,
                                !.provider_pending = @ + s.usdc_to_provider]
      /\ provider' = [provider EXCEPT
                        ![p].claw_net_position = @ + PositionCredit(s),
                        ![p].pending_provider_usdc = @ + s.usdc_to_provider,
                        ![p].unsettled_receipt_count = @ + 1]
      /\ settlement' = [settlement EXCEPT ![r] = s]
      /\ UNCHANGED bond
  BY DEF RecordMiningFromReceipt, s
<1>3. FitsU64(s.claw_to_user + s.claw_to_provider_total)
  BY <1>1 DEF TotalsFit
<1>4. /\ s \in ReceiptSettlement
      /\ s.payer_user = u /\ s.provider_wallet = p /\ s.status = "Recorded"
      /\ s.claw_provider_debt_offset + s.claw_to_provider_locked = s.claw_to_provider_total
      /\ s.claw_provider_debt_offset =
           DebtOffset(provider[p].claw_net_position, s.claw_to_provider_total)
      /\ s.user_claw_released = 0 /\ s.provider_claw_released = 0
  BY <1>1, <1>3, NewSettlementFacts DEF s
<1>5. provider[p] \in ProviderAccount
  BY <1>1 DEF TypeInv, TypeOK, HasStatus
<1>6. Changed(provider, provider', Providers, p)
  BY <1>2 DEF TypeInv, TypeOK, Changed
<1>7. /\ settlement[r] = None /\ settlement'[r] = s
      /\ Changed(settlement, settlement', Receipts, r)
  BY <1>1, <1>2 DEF TypeInv, TypeOK, Changed, Recordable
<1>8. provider'[p] \in ProviderAccount
  BY <1>0, <1>4, <1>7, NoneAssumption DEF TypeInv, TypeOK, ProvidersKnown
<1> QED
  BY <1>0, <1>1, <1>2, <1>4, <1>5, <1>6, <1>7, <1>8

\* settle_finalized_receipt settles one Recorded settlement.
LEMMA SettleEffect ==
  ASSUME TypeInv, NEW r \in Receipts, NEW status, SettleFinalizedReceipt(r, status)
  PROVE  LET s == settlement[r]
             p == s.provider_wallet
         IN
         /\ TypeInv' /\ settlement'[r] \in ReceiptSettlement
         /\ Recorded(r) /\ s \in ReceiptSettlement /\ p \in Providers
         /\ settlement'[r] = [s EXCEPT !.reward_lock_started_at = now,
                                       !.status = "FinalizedSettled"]
         /\ Changed(settlement, settlement', Receipts, r)
         /\ provider[p] \in ProviderAccount /\ provider'[p] \in ProviderAccount
         /\ provider'[p] = [provider[p] EXCEPT
                              !.pending_provider_usdc = @ - s.usdc_to_provider,
                              !.unsettled_receipt_count = @ - 1]
         /\ Changed(provider, provider', Providers, p)
         /\ vault' = [vault EXCEPT !.provider_pending = @ - s.usdc_to_provider]
         /\ UNCHANGED bond
<1> DEFINE s == settlement[r]
           p == s.provider_wallet
<1>0. TypeInv'
  BY SettleTypeInv
<1>1. Recorded(r) /\ settlement[r] # None
  BY DEF SettleFinalizedReceipt, Settleable, Recorded, HasStatus
<1>2. s \in ReceiptSettlement /\ p \in Providers /\ provider[p] \in ProviderAccount
  BY <1>1, SettlementFacts
<1>3. /\ vault' = [vault EXCEPT !.provider_pending = @ - s.usdc_to_provider]
      /\ provider' = [provider EXCEPT
                        ![p].pending_provider_usdc = @ - s.usdc_to_provider,
                        ![p].unsettled_receipt_count = @ - 1]
      /\ settlement' = [settlement EXCEPT ![r].reward_lock_started_at = now,
                                          ![r].status = "FinalizedSettled"]
      /\ UNCHANGED bond
  BY DEF SettleFinalizedReceipt
<1>4. /\ provider'[p] = [provider[p] EXCEPT
                           !.pending_provider_usdc = @ - s.usdc_to_provider,
                           !.unsettled_receipt_count = @ - 1]
      /\ Changed(provider, provider', Providers, p)
  BY <1>2, <1>3 DEF TypeInv, TypeOK, Changed
<1>5. /\ settlement'[r] = [s EXCEPT !.reward_lock_started_at = now,
                                    !.status = "FinalizedSettled"]
      /\ Changed(settlement, settlement', Receipts, r)
  BY <1>3 DEF TypeInv, TypeOK, Changed
<1>6. settlement'[r] \in ReceiptSettlement /\ settlement'[r].provider_wallet = p
  <2>1. [s EXCEPT !.reward_lock_started_at = now, !.status = "FinalizedSettled"]
          \in ReceiptSettlement
    BY <1>2 DEF ReceiptSettlement, TypeInv, TypeOK
  <2> QED
    BY <1>2, <1>5, <2>1 DEF ReceiptSettlement
<1>7. provider'[p] \in ProviderAccount
  BY <1>0, <1>2, <1>6, NoneAssumption DEF TypeInv, TypeOK, ProvidersKnown
<1> QED
  BY <1>0, <1>1, <1>2, <1>3, <1>4, <1>5, <1>6, <1>7

\* record_challenge_bond locks one bond against a Recorded receipt's provider.
LEMMA BondEffect ==
  ASSUME TypeInv, NEW c \in Challenges, NEW r \in Receipts, NEW w \in Challengers,
         RecordChallengeBond(c, r, w)
  PROVE  LET p == settlement[r].provider_wallet IN
         /\ TypeInv' /\ provider'[p] \in ProviderAccount
         /\ Recorded(r) /\ bond[c] = None /\ bond'[c] \in ChallengeBondRecord
         /\ bond'[c].attestation_receipt = r /\ bond'[c].provider_wallet = p
         /\ bond'[c].bond_amount = config.params.challenge_bond_claw_amount
         /\ bond'[c].status = "Locked"
         /\ Changed(bond, bond', Challenges, c)
         /\ p \in Providers /\ provider[p] \in ProviderAccount
         /\ provider'[p] = [provider[p] EXCEPT !.unresolved_challenge_count = @ + 1]
         /\ Changed(provider, provider', Providers, p)
         /\ vault' = [vault EXCEPT !.challenge_bond = @ + bond'[c].bond_amount]
         /\ UNCHANGED settlement
<1> DEFINE p == settlement[r].provider_wallet
<1>0. TypeInv'
  BY BondTypeInv
<1>1. Recorded(r) /\ bond[c] = None /\ settlement[r] # None
  BY DEF RecordChallengeBond, Recorded, HasStatus
<1>2. p \in Providers /\ provider[p] \in ProviderAccount
  BY <1>1, SettlementFacts
<1>3. /\ bond'[c] \in ChallengeBondRecord
      /\ bond'[c].attestation_receipt = r /\ bond'[c].provider_wallet = p
      /\ bond'[c].bond_amount = config.params.challenge_bond_claw_amount
      /\ bond'[c].status = "Locked"
      /\ bond' = [bond EXCEPT ![c] = bond'[c]]
  BY BondWritten
<1>4. /\ Changed(bond, bond', Challenges, c)
      /\ vault' = [vault EXCEPT !.challenge_bond = @ + config.params.challenge_bond_claw_amount]
      /\ UNCHANGED settlement
  BY <1>3 DEF TypeInv, TypeOK, RecordChallengeBond, Changed
<1>5. /\ provider'[p] = [provider[p] EXCEPT !.unresolved_challenge_count = @ + 1]
      /\ Changed(provider, provider', Providers, p)
  BY <1>2 DEF TypeInv, TypeOK, RecordChallengeBond, Changed
<1>6. provider'[p] \in ProviderAccount
  BY <1>0, <1>1, <1>2, <1>4 DEF TypeInv, TypeOK, ProvidersKnown
<1> QED
  BY <1>0, <1>1, <1>2, <1>3, <1>4, <1>5, <1>6

\* A rejected challenge burns its bond and leaves the settlement.
LEMMA BurnEffect ==
  ASSUME TypeInv, NEW c \in Challenges, NEW r \in Receipts, Resolvable(c, r), BurnBond(c, r),
         UNCHANGED <<now, config, allowance>>
  PROVE  LET p == settlement[r].provider_wallet IN
         /\ TypeInv' /\ provider'[p] \in ProviderAccount
         /\ bond'[c] \in ChallengeBondRecord
         /\ Recorded(r) /\ BondLocked(c) /\ bond[c].attestation_receipt = r
         /\ bond[c] \in ChallengeBondRecord
         /\ bond'[c] = [bond[c] EXCEPT !.status = "Burned"]
         /\ Changed(bond, bond', Challenges, c)
         /\ p \in Providers /\ provider[p] \in ProviderAccount
         /\ provider'[p] = [provider[p] EXCEPT !.unresolved_challenge_count = @ - 1]
         /\ Changed(provider, provider', Providers, p)
         /\ vault' = [vault EXCEPT !.challenge_bond = @ - bond[c].bond_amount]
         /\ UNCHANGED settlement
<1> DEFINE p == settlement[r].provider_wallet
<1>0. TypeInv'
  BY BurnTypeInv
<1>1. /\ Recorded(r) /\ BondLocked(c) /\ bond[c].attestation_receipt = r
      /\ settlement[r] # None
  BY DEF Resolvable, Recorded, HasStatus
<1>2. p \in Providers /\ provider[p] \in ProviderAccount
  BY <1>1, SettlementFacts
<1>3. /\ bond[c] \in ChallengeBondRecord
      /\ bond'[c] = [bond[c] EXCEPT !.status = "Burned"]
      /\ Changed(bond, bond', Challenges, c)
      /\ vault' = [vault EXCEPT !.challenge_bond = @ - bond[c].bond_amount]
      /\ UNCHANGED settlement
  BY <1>1 DEF TypeInv, TypeOK, BurnBond, Terms, Changed, BondLocked, HasStatus
<1>4. /\ provider'[p] = [provider[p] EXCEPT !.unresolved_challenge_count = @ - 1]
      /\ Changed(provider, provider', Providers, p)
  BY <1>2 DEF TypeInv, TypeOK, BurnBond, Changed
<1>5. provider'[p] \in ProviderAccount
  BY <1>0, <1>1, <1>2, <1>3 DEF TypeInv, TypeOK, ProvidersKnown
<1>6. bond'[c] \in ChallengeBondRecord
  BY <1>3 DEF ChallengeBondRecord
<1> QED
  BY <1>0, <1>1, <1>2, <1>3, <1>4, <1>5, <1>6

\* An upheld challenge returns its bond and reverts the settlement.
LEMMA RevertEffect ==
  ASSUME TypeInv, NEW c \in Challenges, NEW r \in Receipts, Resolvable(c, r),
         RevertReceipt(c, r), UNCHANGED <<now, config, allowance>>
  PROVE  LET s == settlement[r]
             p == s.provider_wallet
         IN
         /\ TypeInv' /\ provider'[p] \in ProviderAccount
         /\ settlement'[r] \in ReceiptSettlement /\ bond'[c] \in ChallengeBondRecord
         /\ Recorded(r) /\ s \in ReceiptSettlement
         /\ BondLocked(c) /\ bond[c].attestation_receipt = r
         /\ bond[c] \in ChallengeBondRecord
         /\ bond'[c] = [bond[c] EXCEPT !.status = "Returned"]
         /\ Changed(bond, bond', Challenges, c)
         /\ settlement'[r] = [s EXCEPT !.status = "ChallengedReverted"]
         /\ Changed(settlement, settlement', Receipts, r)
         /\ p \in Providers /\ provider[p] \in ProviderAccount
         /\ provider'[p] = [provider[p] EXCEPT
                              !.pending_provider_usdc = @ - s.usdc_to_provider,
                              !.unsettled_receipt_count = @ - 1,
                              !.unresolved_challenge_count = @ - 1,
                              !.claw_net_position =
                                @ - s.claw_to_provider_total - bond[c].slash_claw_amount_snapshot]
         /\ Changed(provider, provider', Providers, p)
         /\ vault' = [vault EXCEPT
                        !.challenge_bond = @ - bond[c].bond_amount,
                        !.reward = @ - (bond[c].challenger_reward_amount + bond[c].burn_amount),
                        !.provider_pending = @ - s.usdc_to_provider]
<1> DEFINE s == settlement[r]
           p == s.provider_wallet
<1>0. TypeInv'
  BY RevertTypeInv
<1>1. /\ Recorded(r) /\ BondLocked(c) /\ bond[c].attestation_receipt = r
      /\ settlement[r] # None
  BY DEF Resolvable, Recorded, HasStatus
<1>2. s \in ReceiptSettlement /\ p \in Providers /\ provider[p] \in ProviderAccount
  BY <1>1, SettlementFacts
<1>3. /\ bond[c] \in ChallengeBondRecord
      /\ bond'[c] = [bond[c] EXCEPT !.status = "Returned"]
      /\ Changed(bond, bond', Challenges, c)
      /\ vault' = [vault EXCEPT
                     !.challenge_bond = @ - bond[c].bond_amount,
                     !.reward = @ - (bond[c].challenger_reward_amount + bond[c].burn_amount),
                     !.provider_pending = @ - s.usdc_to_provider]
  BY <1>1 DEF TypeInv, TypeOK, RevertReceipt, Terms, Changed, BondLocked, HasStatus
<1>4. /\ settlement'[r] = [s EXCEPT !.status = "ChallengedReverted"]
      /\ Changed(settlement, settlement', Receipts, r)
  BY DEF TypeInv, TypeOK, RevertReceipt, Changed
<1>5. provider' = [provider EXCEPT
                    ![p].pending_provider_usdc = @ - s.usdc_to_provider,
                    ![p].unsettled_receipt_count = @ - 1,
                    ![p].unresolved_challenge_count = @ - 1,
                    ![p].claw_net_position =
                      @ - s.claw_to_provider_total - bond[c].slash_claw_amount_snapshot]
  BY DEF RevertReceipt, Terms, PositionCredit
<1>6. /\ provider'[p] = [provider[p] EXCEPT
                           !.pending_provider_usdc = @ - s.usdc_to_provider,
                           !.unsettled_receipt_count = @ - 1,
                           !.unresolved_challenge_count = @ - 1,
                           !.claw_net_position =
                             @ - s.claw_to_provider_total - bond[c].slash_claw_amount_snapshot]
      /\ Changed(provider, provider', Providers, p)
  BY <1>2, <1>5 DEF TypeInv, TypeOK, Changed
<1>7. settlement'[r] \in ReceiptSettlement /\ settlement'[r].provider_wallet = p
  BY <1>2, <1>4 DEF ReceiptSettlement
<1>8. provider'[p] \in ProviderAccount
  BY <1>0, <1>2, <1>7, NoneAssumption DEF TypeInv, TypeOK, ProvidersKnown
<1>9. bond'[c] \in ChallengeBondRecord
  BY <1>3 DEF ChallengeBondRecord
<1> QED
  BY <1>0, <1>1, <1>2, <1>3, <1>4, <1>6, <1>7, <1>8, <1>9

\* A release only moves the two released counters of the settlement.
LEMMA ReleaseEffect ==
  ASSUME TypeInv, NEW r \in Receipts, NEW target, NEW amount \in Nat,
         MaterializeRewardRelease(r, target, amount)
  PROVE  LET s == settlement[r] IN
         /\ TypeInv'
         /\ FinalizedSettled(r) /\ s \in ReceiptSettlement /\ settlement'[r] \in ReceiptSettlement
         /\ \/ settlement'[r] = [s EXCEPT !.user_claw_released = @ + amount]
            \/ settlement'[r] = [s EXCEPT !.provider_claw_released = @ + amount]
         /\ Changed(settlement, settlement', Receipts, r)
         /\ UNCHANGED <<provider, bond, vault>>
<1> DEFINE s == settlement[r]
<1>0. TypeInv'
  BY ReleaseTypeInv
<1>1. FinalizedSettled(r) /\ UNCHANGED <<provider, bond, vault>>
  BY DEF MaterializeRewardRelease, tokens
<1>2. s \in ReceiptSettlement
  BY <1>1 DEF TypeInv, TypeOK, FinalizedSettled, HasStatus
<1>3. CASE ReleaseToUser(r, amount)
  <2>1. /\ settlement'[r] = [s EXCEPT !.user_claw_released = @ + amount]
        /\ Changed(settlement, settlement', Receipts, r)
    BY <1>3 DEF TypeInv, TypeOK, ReleaseToUser, Changed
  <2>2. amount <= Releasable(s.claw_to_user, s.user_claw_released,
                             s.reward_lock_started_at, now, s.lock_days_snapshot)
    BY <1>3 DEF ReleaseToUser
  <2>3. /\ s.claw_to_user \in U64 /\ s.user_claw_released \in U64
        /\ s.reward_lock_started_at \in Nat /\ s.lock_days_snapshot \in Nat \ {0}
    BY <1>2 DEF ReceiptSettlement
  <2> HIDE DEF s
  <2>4. s.user_claw_released + amount \in U64
    BY <2>2, <2>3, ReleasableBounds
  <2>5. [s EXCEPT !.user_claw_released = @ + amount] \in ReceiptSettlement
    BY <1>2, <2>4 DEF ReceiptSettlement
  <2>6. settlement'[r] \in ReceiptSettlement
    BY <2>1, <2>5
  <2> QED
    BY <1>0, <1>1, <1>2, <2>1, <2>6 DEF s
<1>4. CASE ReleaseToProvider(r, amount)
  <2>1. /\ settlement'[r] = [s EXCEPT !.provider_claw_released = @ + amount]
        /\ Changed(settlement, settlement', Receipts, r)
    BY <1>4 DEF TypeInv, TypeOK, ReleaseToProvider, Changed
  <2>2. amount <= Releasable(s.claw_to_provider_locked, s.provider_claw_released,
                             s.reward_lock_started_at, now, s.lock_days_snapshot)
    BY <1>4 DEF ReleaseToProvider
  <2>3. /\ s.claw_to_provider_locked \in U64 /\ s.provider_claw_released \in U64
        /\ s.reward_lock_started_at \in Nat /\ s.lock_days_snapshot \in Nat \ {0}
    BY <1>2 DEF ReceiptSettlement
  <2> HIDE DEF s
  <2>4. s.provider_claw_released + amount \in U64
    BY <2>2, <2>3, ReleasableBounds
  <2>5. [s EXCEPT !.provider_claw_released = @ + amount] \in ReceiptSettlement
    BY <1>2, <2>4 DEF ReceiptSettlement
  <2>6. settlement'[r] \in ReceiptSettlement
    BY <2>1, <2>5
  <2> QED
    BY <1>0, <1>1, <1>2, <2>1, <2>6 DEF s
<1> QED
  BY <1>3, <1>4 DEF MaterializeRewardRelease

\* What the remaining instructions leave alone.
LEMMA OtherEffect ==
  ASSUME TypeInv,
         \/ \E params : InitializeMasterpool(params) \/ UpdateConfig(params)
         \/ MintGenesisSupply
         \/ \E flags : SetPauseFlags(flags)
         \/ \E x : ClaimUserClaw(x) \/ ClaimProviderClaw(x)
         \/ \E u, amount : Approve(u, amount)
         \/ MasterpoolTick
         \/ UNCHANGED mvars
  PROVE  /\ UNCHANGED <<provider, settlement, bond>>
         /\ vault'.provider_stake = vault.provider_stake
         /\ vault'.challenge_bond = vault.challenge_bond
         /\ vault'.provider_pending = vault.provider_pending
<1>1. vault \in Vaults
  BY DEF TypeInv, TypeOK
<1>2. CASE \/ \E params : InitializeMasterpool(params) \/ UpdateConfig(params)
           \/ \E flags : SetPauseFlags(flags)
           \/ \E u, amount : Approve(u, amount)
           \/ MasterpoolTick
           \/ UNCHANGED mvars
  BY <1>2 DEF InitializeMasterpool, UpdateConfig, SetPauseFlags, Approve, MasterpoolTick, mvars,
              masterpool_vars, tokens
<1>3. CASE MintGenesisSupply
  BY <1>1, <1>3 DEF MintGenesisSupply, Vaults
<1>4. CASE \E x : ClaimUserClaw(x) \/ ClaimProviderClaw(x)
  BY <1>1, <1>4 DEF ClaimUserClaw, ClaimProviderClaw, Vaults
<1> QED
  BY <1>2, <1>3, <1>4

-----------------------------------------------------------------------------
(* The same, field by field *)

\* Recording: what it adds to the account and the vaults.
LEMMA RecordFields ==
  ASSUME TypeInv, NEW r \in Receipts, NEW u \in Users, NEW p \in Providers, NEW total,
         RecordMiningFromReceipt(r, u, p, total)
  PROVE  LET s == settlement'[r] IN
         /\ provider'[p].staked_usdc_amount = provider[p].staked_usdc_amount
         /\ provider'[p].pending_provider_usdc =
              provider[p].pending_provider_usdc + s.usdc_to_provider
         /\ provider'[p].unsettled_receipt_count = provider[p].unsettled_receipt_count + 1
         /\ provider'[p].unresolved_challenge_count = provider[p].unresolved_challenge_count
         /\ provider'[p].claw_net_position =
              provider[p].claw_net_position + s.claw_to_provider_total
         /\ provider'[p].status = provider[p].status
         /\ vault'.reward = vault.reward
         /\ vault'.challenge_bond = vault.challenge_bond
         /\ vault'.treasury = vault.treasury + s.usdc_to_treasury
         /\ vault'.provider_stake = vault.provider_stake
         /\ vault'.provider_pending = vault.provider_pending + s.usdc_to_provider
<1> DEFINE s == NewSettlement(u, p, total)
<1> HIDE DEF s
<1>1. /\ settlement' = [settlement EXCEPT ![r] = s]
      /\ vault' = [vault EXCEPT !.treasury = @ + s.usdc_to_treasury,
                                !.provider_pending = @ + s.usdc_to_provider]
      /\ provider' = [provider EXCEPT
                        ![p].claw_net_position = @ + PositionCredit(s),
                        ![p].pending_provider_usdc = @ + s.usdc_to_provider,
                        ![p].unsettled_receipt_count = @ + 1]
      /\ HasStatus(provider[p], "Active")
  BY DEF RecordMiningFromReceipt, s
<1>2. settlement'[r] = s /\ provider[p] \in ProviderAccount /\ vault \in Vaults
  BY <1>1 DEF TypeInv, TypeOK, HasStatus
<1>3. provider'[p] = [provider[p] EXCEPT
                        !.claw_net_position = @ + s.claw_to_provider_total,
                        !.pending_provider_usdc = @ + s.usdc_to_provider,
                        !.unsettled_receipt_count = @ + 1]
  BY <1>1, <1>2 DEF TypeInv, TypeOK, PositionCredit
<1>4. /\ provider'[p].staked_usdc_amount = provider[p].staked_usdc_amount
      /\ provider'[p].pending_provider_usdc =
           provider[p].pending_provider_usdc + s.usdc_to_provider
      /\ provider'[p].unsettled_receipt_count = provider[p].unsettled_receipt_count + 1
      /\ provider'[p].unresolved_challenge_count = provider[p].unresolved_challenge_count
      /\ provider'[p].claw_net_position = provider[p].claw_net_position + s.claw_to_provider_total
      /\ provider'[p].status = provider[p].status
  BY <1>2, <1>3 DEF ProviderAccount
<1>5. /\ vault'.reward = vault.reward
      /\ vault'.challenge_bond = vault.challenge_bond
      /\ vault'.treasury = vault.treasury + s.usdc_to_treasury
      /\ vault'.provider_stake = vault.provider_stake
      /\ vault'.provider_pending = vault.provider_pending + s.usdc_to_provider
  <2>1. vault' = [vault EXCEPT !.treasury = @ + s.usdc_to_treasury,
                               !.provider_pending = @ + s.usdc_to_provider]
    BY <1>1
  <2> QED
    BY <2>1, <1>2 DEF Vaults
<1> QED
  BY <1>2, <1>4, <1>5

\* Settling: what it takes from the account and the vaults.
LEMMA SettleFields ==
  ASSUME TypeInv, NEW r \in Receipts, NEW status, SettleFinalizedReceipt(r, status)
  PROVE  LET s == settlement[r]
             p == s.provider_wallet IN
         /\ provider'[p].staked_usdc_amount = provider[p].staked_usdc_amount
         /\ provider'[p].pending_provider_usdc =
              provider[p].pending_provider_usdc - s.usdc_to_provider
         /\ provider'[p].unsettled_receipt_count = provider[p].unsettled_receipt_count - 1
         /\ provider'[p].unresolved_challenge_count = provider[p].unresolved_challenge_count
         /\ provider'[p].claw_net_position = provider[p].claw_net_position
         /\ provider'[p].status = provider[p].status
         /\ vault'.reward = vault.reward
         /\ vault'.challenge_bond = vault.challenge_bond
         /\ vault'.treasury = vault.treasury
         /\ vault'.provider_stake = vault.provider_stake
         /\ vault'.provider_pending = vault.provider_pending - s.usdc_to_provider
<1> DEFINE s == settlement[r]
           p == s.provider_wallet
<1>1. /\ provider[p] \in ProviderAccount
      /\ provider'[p] = [provider[p] EXCEPT !.pending_provider_usdc = @ - s.usdc_to_provider,
                                             !.unsettled_receipt_count = @ - 1]
      /\ vault' = [vault EXCEPT !.provider_pending = @ - s.usdc_to_provider]
  BY SettleEffect
<1>2. vault \in Vaults
  BY DEF TypeInv, TypeOK
<1>3. /\ provider'[p].staked_usdc_amount = provider[p].staked_usdc_amount
      /\ provider'[p].pending_provider_usdc =
           provider[p].pending_provider_usdc - s.usdc_to_provider
      /\ provider'[p].unsettled_receipt_count = provider[p].unsettled_receipt_count - 1
      /\ provider'[p].unresolved_challenge_count = provider[p].unresolved_challenge_count
      /\ provider'[p].claw_net_position = provider[p].claw_net_position
      /\ provider'[p].status = provider[p].status
      /\ vault'.reward = vault.reward
      /\ vault'.challenge_bond = vault.challenge_bond
      /\ vault'.treasury = vault.treasury
      /\ vault'.provider_stake = vault.provider_stake
      /\ vault'.provider_pending = vault.provider_pending - s.usdc_to_provider
  <2> HIDE DEF s, p
  <2> QED
    BY <1>1, <1>2 DEF ProviderAccount, Vaults
<1> QED
  BY <1>3

\* Posting a bond: what it adds to the account and the vaults.
LEMMA BondFields ==
  ASSUME TypeInv, NEW c \in Challenges, NEW r \in Receipts, NEW w \in Challengers,
         RecordChallengeBond(c, r, w)
  PROVE  LET p == settlement[r].provider_wallet IN
         /\ provider'[p].staked_usdc_amount = provider[p].staked_usdc_amount
         /\ provider'[p].pending_provider_usdc = provider[p].pending_provider_usdc
         /\ provider'[p].unsettled_receipt_count = provider[p].unsettled_receipt_count
         /\ provider'[p].unresolved_challenge_count = provider[p].unresolved_challenge_count + 1
         /\ provider'[p].claw_net_position = provider[p].claw_net_position
         /\ provider'[p].status = provider[p].status
         /\ vault'.reward = vault.reward
         /\ vault'.challenge_bond = vault.challenge_bond + bond'[c].bond_amount
         /\ vault'.treasury = vault.treasury
         /\ vault'.provider_stake = vault.provider_stake
         /\ vault'.provider_pending = vault.provider_pending
<1> DEFINE p == settlement[r].provider_wallet
<1>1. /\ provider[p] \in ProviderAccount
      /\ provider'[p] = [provider[p] EXCEPT !.unresolved_challenge_count = @ + 1]
      /\ vault' = [vault EXCEPT !.challenge_bond = @ + bond'[c].bond_amount]
  BY BondEffect
<1>2. vault \in Vaults
  BY DEF TypeInv, TypeOK
<1>3. /\ provider'[p].staked_usdc_amount = provider[p].staked_usdc_amount
      /\ provider'[p].pending_provider_usdc = provider[p].pending_provider_usdc
      /\ provider'[p].unsettled_receipt_count = provider[p].unsettled_receipt_count
      /\ provider'[p].unresolved_challenge_count = provider[p].unresolved_challenge_count + 1
      /\ provider'[p].claw_net_position = provider[p].claw_net_position
      /\ provider'[p].status = provider[p].status
      /\ vault'.reward = vault.reward
      /\ vault'.challenge_bond = vault.challenge_bond + bond'[c].bond_amount
      /\ vault'.treasury = vault.treasury
      /\ vault'.provider_stake = vault.provider_stake
      /\ vault'.provider_pending = vault.provider_pending
  <2> HIDE DEF p
  <2> QED
    BY <1>1, <1>2 DEF ProviderAccount, Vaults
<1> QED
  BY <1>3

\* Burning a bond: what it takes from the account and the vaults.
LEMMA BurnFields ==
  ASSUME TypeInv, NEW c \in Challenges, NEW r \in Receipts, Resolvable(c, r), BurnBond(c, r),
         UNCHANGED <<now, config, allowance>>
  PROVE  LET p == settlement[r].provider_wallet IN
         /\ provider'[p].staked_usdc_amount = provider[p].staked_usdc_amount
         /\ provider'[p].pending_provider_usdc = provider[p].pending_provider_usdc
         /\ provider'[p].unsettled_receipt_count = provider[p].unsettled_receipt_count
         /\ provider'[p].unresolved_challenge_count = provider[p].unresolved_challenge_count - 1
         /\ provider'[p].claw_net_position = provider[p].claw_net_position
         /\ provider'[p].status = provider[p].status
         /\ vault'.reward = vault.reward
         /\ vault'.challenge_bond = vault.challenge_bond - bond[c].bond_amount
         /\ vault'.treasury = vault.treasury
         /\ vault'.provider_stake = vault.provider_stake
         /\ vault'.provider_pending = vault.provider_pending
<1> DEFINE p == settlement[r].provider_wallet
<1>1. /\ provider[p] \in ProviderAccount
      /\ provider'[p] = [provider[p] EXCEPT !.unresolved_challenge_count = @ - 1]
      /\ vault' = [vault EXCEPT !.challenge_bond = @ - bond[c].bond_amount]
  BY BurnEffect
<1>2. vault \in Vaults
  BY DEF TypeInv, TypeOK
<1>3. /\ provider'[p].staked_usdc_amount = provider[p].staked_usdc_amount
      /\ provider'[p].pending_provider_usdc = provider[p].pending_provider_usdc
      /\ provider'[p].unsettled_receipt_count = provider[p].unsettled_receipt_count
      /\ provider'[p].unresolved_challenge_count = provider[p].unresolved_challenge_count - 1
      /\ provider'[p].claw_net_position = provider[p].claw_net_position
      /\ provider'[p].status = provider[p].status
      /\ vault'.reward = vault.reward
      /\ vault'.challenge_bond = vault.challenge_bond - bond[c].bond_amount
      /\ vault'.treasury = vault.treasury
      /\ vault'.provider_stake = vault.provider_stake
      /\ vault'.provider_pending = vault.provider_pending
  <2> HIDE DEF p
  <2> QED
    BY <1>1, <1>2 DEF ProviderAccount, Vaults
<1> QED
  BY <1>3

\* Reverting: what it takes from the account and the vaults.
LEMMA RevertFields ==
  ASSUME TypeInv, NEW c \in Challenges, NEW r \in Receipts, Resolvable(c, r),
         RevertReceipt(c, r), UNCHANGED <<now, config, allowance>>
  PROVE  LET s == settlement[r]
             p == s.provider_wallet IN
         /\ provider'[p].staked_usdc_amount = provider[p].staked_usdc_amount
         /\ provider'[p].pending_provider_usdc =
              provider[p].pending_provider_usdc - s.usdc_to_provider
         /\ provider'[p].unsettled_receipt_count = provider[p].unsettled_receipt_count - 1
         /\ provider'[p].unresolved_challenge_count = provider[p].unresolved_challenge_count - 1
         /\ provider'[p].claw_net_position = provider[p].claw_net_position
                - s.claw_to_provider_total - bond[c].slash_claw_amount_snapshot
         /\ provider'[p].status = provider[p].status
         /\ vault'.reward = vault.reward - (bond[c].challenger_reward_amount + bond[c].burn_amount)
         /\ vault'.challenge_bond = vault.challenge_bond - bond[c].bond_amount
         /\ vault'.treasury = vault.treasury
         /\ vault'.provider_stake = vault.provider_stake
         /\ vault'.provider_pending = vault.provider_pending - s.usdc_to_provider
<1> DEFINE s == settlement[r]
           p == s.provider_wallet
<1>1. /\ provider[p] \in ProviderAccount
      /\ provider'[p] = [provider[p] EXCEPT !.pending_provider_usdc = @ - s.usdc_to_provider,
          !.unsettled_receipt_count = @ - 1,
          !.unresolved_challenge_count = @ - 1,
          !.claw_net_position =
            @ - s.claw_to_provider_total - bond[c].slash_claw_amount_snapshot]
      /\ vault' = [vault EXCEPT !.challenge_bond = @ - bond[c].bond_amount,
          !.reward = @ - (bond[c].challenger_reward_amount + bond[c].burn_amount),
          !.provider_pending = @ - s.usdc_to_provider]
  BY RevertEffect
<1>2. vault \in Vaults
  BY DEF TypeInv, TypeOK
<1>3. /\ provider'[p].staked_usdc_amount = provider[p].staked_usdc_amount
      /\ provider'[p].pending_provider_usdc =
           provider[p].pending_provider_usdc - s.usdc_to_provider
      /\ provider'[p].unsettled_receipt_count = provider[p].unsettled_receipt_count - 1
      /\ provider'[p].unresolved_challenge_count = provider[p].unresolved_challenge_count - 1
      /\ provider'[p].claw_net_position = provider[p].claw_net_position
             - s.claw_to_provider_total - bond[c].slash_claw_amount_snapshot
      /\ provider'[p].status = provider[p].status
      /\ vault'.reward = vault.reward - (bond[c].challenger_reward_amount + bond[c].burn_amount)
      /\ vault'.challenge_bond = vault.challenge_bond - bond[c].bond_amount
      /\ vault'.treasury = vault.treasury
      /\ vault'.provider_stake = vault.provider_stake
      /\ vault'.provider_pending = vault.provider_pending - s.usdc_to_provider
  <2> HIDE DEF s, p
  <2> QED
    BY <1>1, <1>2 DEF ProviderAccount, Vaults
<1> QED
  BY <1>3

-----------------------------------------------------------------------------
\* The steps of the masterpool, as the effects above distinguish them.
LEMMA StepCases ==
  ASSUME [Next]_mvars,
         NEW P,
         \A p \in Providers : RegisterProvider(p) => P,
         \A p \in Providers, destination \in Holders : ExitProvider(p, destination) => P,
         \A r \in Receipts, u \in Users, p \in Providers, total \in Charges :
            RecordMiningFromReceipt(r, u, p, total) => P,
         \A r \in Receipts, status \in ReceiptStatuses : SettleFinalizedReceipt(r, status) => P,
         \A c \in Challenges, r \in Receipts, w \in Challengers : RecordChallengeBond(c, r, w) => P,
         \A c \in Challenges, r \in Receipts :
            Resolvable(c, r) /\ BurnBond(c, r) /\ UNCHANGED <<now, config, allowance>> => P,
         \A c \in Challenges, r \in Receipts :
            Resolvable(c, r) /\ RevertReceipt(c, r) /\ UNCHANGED <<now, config, allowance>> => P,
         \A r \in Receipts, target \in ReleaseTargets, amount \in Nat :
            MaterializeRewardRelease(r, target, amount) => P,
         (\/ \E params : InitializeMasterpool(params) \/ UpdateConfig(params)
          \/ MintGenesisSupply
          \/ \E flags : SetPauseFlags(flags)
          \/ \E x : ClaimUserClaw(x) \/ ClaimProviderClaw(x)
          \/ \E u, amount : Approve(u, amount)
          \/ MasterpoolTick
          \/ UNCHANGED mvars) => P
  PROVE  P
BY MasterpoolAssumption DEF Next, DirectStep, AttestationCall, ResolveChallengeEconomics

-----------------------------------------------------------------------------
(* The stake vault *)

Stake(p) == IF provider[p] # None THEN provider[p].staked_usdc_amount ELSE 0

Stakes == [p \in Providers |-> Stake(p)]

StakesBacked == vault.provider_stake = Staked

\* The stakes are natural numbers and Staked is their sum.
LEMMA StakesType ==
  ASSUME TypeInv
  PROVE  /\ IsFiniteSet(Providers) /\ Stakes \in [Providers -> Nat]
         /\ Staked = Total(Providers, Stakes) /\ Staked \in Nat
         /\ vault \in Vaults /\ vault.provider_stake \in Nat
<1>1. IsFiniteSet(Providers)
  BY HoldersType, MasterpoolAssumption, FS_Subset
<1>2. Stakes \in [Providers -> Nat]
  BY WidthFacts DEF Stakes, Stake, TypeInv, TypeOK, ProviderAccount
<1>3. Staked = Total(Providers, Stakes)
  BY DEF Staked, Stakes, Stake
<1>4. vault \in Vaults /\ vault.provider_stake \in Nat
  BY DEF TypeInv, TypeOK, Vaults
<1> QED
  BY <1>1, <1>2, <1>3, <1>4, TotalType

\* Updating an account that keeps its stake keeps the sum.
LEMMA StakesKept ==
  ASSUME TypeInv, NEW p \in Providers, Changed(provider, provider', Providers, p),
         provider[p] \in ProviderAccount, provider'[p] # None,
         provider'[p].staked_usdc_amount = provider[p].staked_usdc_amount
  PROVE  Staked' = Staked
<1>1. provider[p] # None
  BY NoneAssumption
<1>2. \A q \in Providers : Stake(q)' = Stake(q)
  BY <1>1 DEF Stake, Changed
<1> QED
  BY <1>2 DEF Staked, Stake

\* When one account changes, Staked changes by what its stake does.
LEMMA StakesChange ==
  ASSUME TypeInv, TypeInv', NEW p \in Providers, Changed(provider, provider', Providers, p)
  PROVE  Staked' = Staked + Stake(p)' - Stake(p)
<1> DEFINE g == Stakes'
<1>1. /\ IsFiniteSet(Providers) /\ Stakes \in [Providers -> Nat]
      /\ Staked = Total(Providers, Stakes)
  BY StakesType
<1>2. g \in [Providers -> Nat]
  BY WidthFacts DEF Stakes, Stake, TypeInv, TypeOK, ProviderAccount
<1>3. Staked' = Total(Providers, g)
  BY DEF Staked, Stakes, Stake
<1>4. \A q \in Providers \ {p} : g[q] = Stakes[q]
  BY DEF Stakes, Stake, Changed
<1>5. g[p] = Stake(p)' /\ Stakes[p] = Stake(p)
  BY DEF Stakes
<1> HIDE DEF g
<1>6. Total(Providers, g) = Total(Providers, Stakes) + g[p] - Stakes[p]
  BY <1>1, <1>2, <1>4, TotalChange
<1> QED
  BY <1>1, <1>3, <1>5, <1>6

\* Every step keeps the stake vault equal to the stakes.
LEMMA StakesStep ==
  ASSUME TypeInv, StakesBacked, [Next]_mvars
  PROVE  StakesBacked'
<1>0. /\ IsFiniteSet(Providers) /\ Staked \in Nat
      /\ vault \in Vaults /\ vault.provider_stake = Staked
  BY StakesType DEF StakesBacked
<1>1. ASSUME NEW p \in Providers, RegisterProvider(p)
      PROVE  StakesBacked'
  <2>1. /\ TypeInv' /\ provider[p] = None /\ provider'[p] # None
        /\ provider'[p].staked_usdc_amount = config.params.provider_stake_usdc
        /\ provider'[p] \in ProviderAccount
        /\ Changed(provider, provider', Providers, p)
        /\ vault' = [vault EXCEPT !.provider_stake = @ + config.params.provider_stake_usdc]
    BY <1>1, RegisterEffect, NoneAssumption
  <2>2. /\ Stake(p) = 0 /\ Stake(p)' = config.params.provider_stake_usdc
        /\ config.params.provider_stake_usdc \in Nat
    BY <2>1, WidthFacts DEF Stake, ProviderAccount
  <2>3. vault'.provider_stake = vault.provider_stake + config.params.provider_stake_usdc
    BY <1>0, <2>1 DEF Vaults
  <2>4. Staked' = Staked + Stake(p)' - Stake(p)
    BY <2>1, StakesChange
  <2> QED
    BY <1>0, <2>2, <2>3, <2>4 DEF StakesBacked
<1>2. ASSUME NEW p \in Providers, NEW destination \in Holders, ExitProvider(p, destination)
      PROVE  StakesBacked'
  <2>1. /\ provider[p] \in ProviderAccount
        /\ provider'[p] = [provider[p] EXCEPT !.staked_usdc_amount = 0, !.status = "Exited"]
        /\ Changed(provider, provider', Providers, p)
        /\ vault' = [vault EXCEPT !.provider_stake = @ - provider[p].staked_usdc_amount]
    BY <1>2, ExitEffect
  <2>2. TypeInv'
    BY <1>2, ExitTypeInv
  <2>3. /\ Stake(p) = provider[p].staked_usdc_amount /\ Stake(p) \in Nat /\ Stake(p)' = 0
    <3>1. provider[p] # None /\ provider'[p] # None /\ provider[p].staked_usdc_amount \in Nat
          /\ provider'[p].staked_usdc_amount = 0
      <4>1. [provider[p] EXCEPT !.staked_usdc_amount = 0, !.status = "Exited"] \in ProviderAccount
        BY <2>1, WidthFacts DEF ProviderAccount
      <4> QED
        BY <2>1, <4>1, NoneAssumption, WidthFacts DEF ProviderAccount
    <3> QED
      BY <3>1 DEF Stake
  <2>4. vault'.provider_stake = vault.provider_stake - Stake(p)
    BY <1>0, <2>1, <2>3 DEF Vaults
  <2>5. Staked' = Staked + Stake(p)' - Stake(p)
    BY <2>1, <2>2, StakesChange
  <2> QED
    BY <1>0, <2>3, <2>4, <2>5 DEF StakesBacked
<1>3. ASSUME NEW p \in Providers,
             provider[p] \in ProviderAccount, provider'[p] \in ProviderAccount,
             provider'[p].staked_usdc_amount = provider[p].staked_usdc_amount,
             Changed(provider, provider', Providers, p),
             vault'.provider_stake = vault.provider_stake
      PROVE  StakesBacked'
  BY <1>0, <1>3, StakesKept, NoneAssumption DEF StakesBacked
<1>4. ASSUME UNCHANGED provider, vault'.provider_stake = vault.provider_stake
      PROVE  StakesBacked'
  BY <1>4, <1>0 DEF StakesBacked, Staked
<1>5. ASSUME NEW r \in Receipts, NEW u \in Users, NEW p \in Providers, NEW total \in Charges,
             RecordMiningFromReceipt(r, u, p, total)
      PROVE  StakesBacked'
  <2>1. /\ provider[p] \in ProviderAccount /\ provider'[p] \in ProviderAccount
        /\ Changed(provider, provider', Providers, p)
    BY <1>5, RecordEffect
  <2>2. /\ provider'[p].staked_usdc_amount = provider[p].staked_usdc_amount
        /\ vault'.provider_stake = vault.provider_stake
    BY <1>5, RecordFields
  <2> QED
    BY <2>1, <2>2, <1>3
<1>6. ASSUME NEW r \in Receipts, NEW status, SettleFinalizedReceipt(r, status)
      PROVE  StakesBacked'
  <2> DEFINE p == settlement[r].provider_wallet
  <2>1. /\ p \in Providers
        /\ provider[p] \in ProviderAccount /\ provider'[p] \in ProviderAccount
        /\ Changed(provider, provider', Providers, p)
    BY <1>6, SettleEffect
  <2>2. /\ provider'[p].staked_usdc_amount = provider[p].staked_usdc_amount
        /\ vault'.provider_stake = vault.provider_stake
    BY <1>6, SettleFields
  <2> HIDE DEF p
  <2> QED
    BY <2>1, <2>2, <1>3
<1>7. ASSUME NEW c \in Challenges, NEW r \in Receipts, NEW w \in Challengers,
             RecordChallengeBond(c, r, w)
      PROVE  StakesBacked'
  <2> DEFINE p == settlement[r].provider_wallet
  <2>1. /\ p \in Providers
        /\ provider[p] \in ProviderAccount /\ provider'[p] \in ProviderAccount
        /\ Changed(provider, provider', Providers, p)
    BY <1>7, BondEffect
  <2>2. /\ provider'[p].staked_usdc_amount = provider[p].staked_usdc_amount
        /\ vault'.provider_stake = vault.provider_stake
    BY <1>7, BondFields
  <2> HIDE DEF p
  <2> QED
    BY <2>1, <2>2, <1>3
<1>8. ASSUME NEW c \in Challenges, NEW r \in Receipts, Resolvable(c, r),
             BurnBond(c, r) \/ RevertReceipt(c, r), UNCHANGED <<now, config, allowance>>
      PROVE  StakesBacked'
  <2> DEFINE p == settlement[r].provider_wallet
  <2>1. /\ p \in Providers
        /\ provider[p] \in ProviderAccount /\ provider'[p] \in ProviderAccount
        /\ Changed(provider, provider', Providers, p)
    BY <1>8, BurnEffect, RevertEffect
  <2>2. /\ provider'[p].staked_usdc_amount = provider[p].staked_usdc_amount
        /\ vault'.provider_stake = vault.provider_stake
    BY <1>8, BurnFields, RevertFields
  <2> HIDE DEF p
  <2> QED
    BY <2>1, <2>2, <1>3
<1>9. ASSUME NEW r \in Receipts, NEW target, NEW amount \in Nat,
             MaterializeRewardRelease(r, target, amount)
      PROVE  StakesBacked'
  BY <1>9, <1>4, ReleaseEffect
<1>10. (\/ \E params : InitializeMasterpool(params) \/ UpdateConfig(params)
        \/ MintGenesisSupply
        \/ \E flags : SetPauseFlags(flags)
        \/ \E x : ClaimUserClaw(x) \/ ClaimProviderClaw(x)
        \/ \E u, amount : Approve(u, amount)
        \/ MasterpoolTick
        \/ UNCHANGED mvars) => StakesBacked'
  BY <1>4, OtherEffect
<1> HIDE DEF StakesBacked
<1> QED
  BY <1>1, <1>2, <1>5, <1>6, <1>7, <1>8, <1>9, <1>10, StepCases

-----------------------------------------------------------------------------
(* The bond vault *)

Held(c) == IF BondLocked(c) THEN bond[c].bond_amount ELSE 0

Helds == [c \in Challenges |-> Held(c)]

BondsBacked == vault.challenge_bond = BondsHeld

\* The locked bonds are natural numbers and BondsHeld is their sum.
LEMMA HeldsType ==
  ASSUME TypeInv
  PROVE  /\ IsFiniteSet(Challenges) /\ Helds \in [Challenges -> Nat]
         /\ BondsHeld = Total(Challenges, Helds) /\ BondsHeld \in Nat
         /\ vault \in Vaults /\ vault.challenge_bond \in Nat
<1>1. IsFiniteSet(Challenges)
  BY MasterpoolAssumption
<1>2. Helds \in [Challenges -> Nat]
  BY WidthFacts DEF Helds, Held, BondLocked, HasStatus, TypeInv, TypeOK, ChallengeBondRecord
<1>3. BondsHeld = Total(Challenges, Helds)
  BY DEF BondsHeld, Helds, Held
<1>4. vault \in Vaults /\ vault.challenge_bond \in Nat
  BY DEF TypeInv, TypeOK, Vaults
<1> QED
  BY <1>1, <1>2, <1>3, <1>4, TotalType

\* When one bond changes, BondsHeld changes by what it holds.
LEMMA HeldsChange ==
  ASSUME TypeInv, TypeInv', NEW c \in Challenges, Changed(bond, bond', Challenges, c)
  PROVE  BondsHeld' = BondsHeld + Held(c)' - Held(c)
<1> DEFINE g == Helds'
<1>1. /\ IsFiniteSet(Challenges) /\ Helds \in [Challenges -> Nat]
      /\ BondsHeld = Total(Challenges, Helds)
  BY HeldsType
<1>2. g \in [Challenges -> Nat]
  BY WidthFacts DEF Helds, Held, BondLocked, HasStatus, TypeInv, TypeOK, ChallengeBondRecord
<1>3. BondsHeld' = Total(Challenges, g)
  BY DEF BondsHeld, Helds, Held
<1>4. \A d \in Challenges \ {c} : g[d] = Helds[d]
  BY DEF Helds, Held, BondLocked, Changed
<1>5. g[c] = Held(c)' /\ Helds[c] = Held(c)
  BY DEF Helds
<1> HIDE DEF g
<1>6. Total(Challenges, g) = Total(Challenges, Helds) + g[c] - Helds[c]
  BY <1>1, <1>2, <1>4, TotalChange
<1> QED
  BY <1>1, <1>3, <1>5, <1>6

\* Every step keeps the bond vault equal to the locked bonds.
LEMMA BondsStep ==
  ASSUME TypeInv, BondsBacked, [Next]_mvars
  PROVE  BondsBacked'
<1>0. /\ BondsHeld \in Nat /\ vault \in Vaults /\ vault.challenge_bond = BondsHeld
  BY HeldsType DEF BondsBacked
<1>1. ASSUME NEW c \in Challenges, NEW r \in Receipts, NEW w \in Challengers,
             RecordChallengeBond(c, r, w)
      PROVE  BondsBacked'
  <2>1. /\ TypeInv' /\ bond[c] = None /\ bond'[c] \in ChallengeBondRecord
        /\ bond'[c].status = "Locked" /\ Changed(bond, bond', Challenges, c)
    BY <1>1, BondEffect
  <2>2. vault'.challenge_bond = vault.challenge_bond + bond'[c].bond_amount
    BY <1>1, BondFields
  <2>3. Held(c) = 0 /\ Held(c)' = bond'[c].bond_amount /\ bond'[c].bond_amount \in Nat
    BY <2>1, NoneAssumption, WidthFacts DEF Held, BondLocked, HasStatus, ChallengeBondRecord
  <2>4. BondsHeld' = BondsHeld + Held(c)' - Held(c)
    BY <2>1, HeldsChange
  <2> QED
    BY <1>0, <2>2, <2>3, <2>4 DEF BondsBacked
<1>2. ASSUME NEW c \in Challenges, NEW r \in Receipts, Resolvable(c, r),
             BurnBond(c, r) \/ RevertReceipt(c, r), UNCHANGED <<now, config, allowance>>
      PROVE  BondsBacked'
  <2>1. /\ TypeInv' /\ BondLocked(c) /\ bond[c] \in ChallengeBondRecord
        /\ \/ bond'[c] = [bond[c] EXCEPT !.status = "Burned"]
           \/ bond'[c] = [bond[c] EXCEPT !.status = "Returned"]
        /\ Changed(bond, bond', Challenges, c)
    BY <1>2, BurnEffect, RevertEffect
  <2>2. vault'.challenge_bond = vault.challenge_bond - bond[c].bond_amount
    BY <1>2, BurnFields, RevertFields
  <2>3. bond'[c].status # "Locked"
    BY <2>1 DEF ChallengeBondRecord
  <2>4. Held(c) = bond[c].bond_amount /\ Held(c)' = 0 /\ bond[c].bond_amount \in Nat
    BY <2>1, <2>3, WidthFacts DEF Held, BondLocked, HasStatus, ChallengeBondRecord
  <2>5. BondsHeld' = BondsHeld + Held(c)' - Held(c)
    BY <2>1, HeldsChange
  <2> QED
    BY <1>0, <2>2, <2>4, <2>5 DEF BondsBacked
<1>3. ASSUME UNCHANGED bond, vault'.challenge_bond = vault.challenge_bond
      PROVE  BondsBacked'
  BY <1>3, <1>0 DEF BondsBacked, BondsHeld, BondLocked
<1>4. ASSUME NEW p \in Providers, RegisterProvider(p)
      PROVE  BondsBacked'
  <2>1. /\ UNCHANGED bond
        /\ vault' = [vault EXCEPT !.provider_stake = @ + config.params.provider_stake_usdc]
    BY <1>4, RegisterEffect
  <2> QED
    BY <1>0, <1>3, <2>1 DEF Vaults
<1>5. ASSUME NEW p \in Providers, NEW destination \in Holders, ExitProvider(p, destination)
      PROVE  BondsBacked'
  <2>1. /\ UNCHANGED bond
        /\ vault' = [vault EXCEPT !.provider_stake = @ - provider[p].staked_usdc_amount]
    BY <1>5, ExitEffect
  <2> QED
    BY <1>0, <1>3, <2>1 DEF Vaults
<1>6. ASSUME NEW r \in Receipts, NEW u \in Users, NEW p \in Providers, NEW total \in Charges,
             RecordMiningFromReceipt(r, u, p, total)
      PROVE  BondsBacked'
  BY <1>3, <1>6, RecordEffect, RecordFields
<1>7. ASSUME NEW r \in Receipts, NEW status, SettleFinalizedReceipt(r, status)
      PROVE  BondsBacked'
  BY <1>3, <1>7, SettleEffect, SettleFields
<1>8. ASSUME NEW r \in Receipts, NEW target, NEW amount \in Nat,
             MaterializeRewardRelease(r, target, amount)
      PROVE  BondsBacked'
  BY <1>3, <1>8, ReleaseEffect
<1>9. (\/ \E params : InitializeMasterpool(params) \/ UpdateConfig(params)
       \/ MintGenesisSupply
       \/ \E flags : SetPauseFlags(flags)
       \/ \E x : ClaimUserClaw(x) \/ ClaimProviderClaw(x)
       \/ \E u, amount : Approve(u, amount)
       \/ MasterpoolTick
       \/ UNCHANGED mvars) => BondsBacked'
  BY <1>3, OtherEffect
<1> HIDE DEF BondsBacked
<1> QED
  BY <1>1, <1>2, <1>4, <1>5, <1>6, <1>7, <1>8, <1>9, StepCases

\* Initially the vaults and the sums are empty.
LEMMA BackedInit ==
  ASSUME MasterpoolInit
  PROVE  StakesBacked /\ BondsBacked
<1>1. Staked = 0
  BY TotalZero DEF Staked, MasterpoolInit
<1>2. BondsHeld = 0
  BY TotalZero DEF BondsHeld, BondLocked, HasStatus, MasterpoolInit
<1> QED
  BY <1>1, <1>2 DEF StakesBacked, BondsBacked, MasterpoolInit

\* In every instance the bond vault holds exactly the bonds of the unresolved
\* challenges, and the stake vault exactly the stakes of the providers that
\* have not exited (challenge.rs and provider.rs move them one at a time).
THEOREM StakesAndBondsAlwaysBacked == Spec => []BondsAndStakesBacked
<1>1. MasterpoolInit => StakesBacked /\ BondsBacked
  BY BackedInit
<1>2. TypeInv /\ StakesBacked /\ BondsBacked /\ [Next]_mvars
        => StakesBacked' /\ BondsBacked'
  BY StakesStep, BondsStep
<1>3. StakesBacked /\ BondsBacked => BondsAndStakesBacked
  BY DEF StakesBacked, BondsBacked, BondsAndStakesBacked
<1> QED
  BY <1>1, <1>2, <1>3, TypeInvAlways, PTL DEF Spec

-----------------------------------------------------------------------------
(* The escrow of the providers' USDC.  All providers share one vault, and  *)
(* each account keeps a running total of its part: record, settle and      *)
(* revert move both by the share of one receipt, fixed when the receipt is *)
(* recorded.                                                               *)

\* What the escrow holds for one receipt, and for one receipt of provider p.
Share(r) == IF Recorded(r) THEN settlement[r].usdc_to_provider ELSE 0
ShareOf(r, p) == IF Recorded(r) /\ OfProvider(r, p) THEN settlement[r].usdc_to_provider ELSE 0

Shares == [r \in Receipts |-> Share(r)]
SharesOf(p) == [r \in Receipts |-> ShareOf(r, p)]

\* The shares are natural numbers and the escrow sums are their sums.
LEMMA SharesType ==
  ASSUME TypeInv
  PROVE  /\ IsFiniteSet(Receipts)
         /\ Shares \in [Receipts -> Nat] /\ AllEscrowed = Total(Receipts, Shares)
         /\ AllEscrowed \in Nat
         /\ \A p \in Providers :
              /\ SharesOf(p) \in [Receipts -> Nat]
              /\ Escrowed(p) = Total(Receipts, SharesOf(p))
              /\ Escrowed(p) \in Nat
         /\ vault \in Vaults /\ vault.provider_pending \in Nat
<1>1. IsFiniteSet(Receipts)
  BY MasterpoolAssumption
<1>2. \A r \in Receipts : Share(r) \in Nat /\ \A p \in Providers : ShareOf(r, p) \in Nat
  BY WidthFacts DEF Share, ShareOf, Recorded, HasStatus, TypeInv, TypeOK, ReceiptSettlement
<1>3. Shares \in [Receipts -> Nat]
  BY <1>2 DEF Shares
<1>4. AllEscrowed = Total(Receipts, Shares)
  BY DEF AllEscrowed, Shares, Share
<1>5. ASSUME NEW p \in Providers
      PROVE  /\ SharesOf(p) \in [Receipts -> Nat]
             /\ Escrowed(p) = Total(Receipts, SharesOf(p))
             /\ Escrowed(p) \in Nat
  <2>1. SharesOf(p) \in [Receipts -> Nat]
    BY <1>2 DEF SharesOf
  <2>2. Escrowed(p) = Total(Receipts, SharesOf(p))
    BY DEF Escrowed, SharesOf, ShareOf
  <2> QED
    BY <1>1, <2>1, <2>2, TotalType
<1>6. AllEscrowed \in Nat
  BY <1>1, <1>3, <1>4, TotalType
<1>7. vault \in Vaults /\ vault.provider_pending \in Nat
  BY DEF TypeInv, TypeOK, Vaults
<1> QED
  BY <1>1, <1>3, <1>4, <1>5, <1>6, <1>7

\* When one settlement changes, the sums change by what it holds.
LEMMA SharesChange ==
  ASSUME TypeInv, TypeInv', NEW r \in Receipts, Changed(settlement, settlement', Receipts, r)
  PROVE  /\ AllEscrowed' = AllEscrowed + Share(r)' - Share(r)
         /\ \A p \in Providers : Escrowed(p)' = Escrowed(p) + ShareOf(r, p)' - ShareOf(r, p)
<1>1. \A x \in Receipts : Share(x)' \in Nat /\ \A p \in Providers : ShareOf(x, p)' \in Nat
  BY WidthFacts DEF Share, ShareOf, Recorded, HasStatus, TypeInv, TypeOK, ReceiptSettlement
<1>2. AllEscrowed' = AllEscrowed + Share(r)' - Share(r)
  <2> DEFINE g == Shares'
  <2>1. /\ IsFiniteSet(Receipts) /\ Shares \in [Receipts -> Nat]
        /\ AllEscrowed = Total(Receipts, Shares)
    BY SharesType
  <2>2. g \in [Receipts -> Nat] /\ g[r] = Share(r)' /\ Shares[r] = Share(r)
    BY <1>1 DEF Shares
  <2>3. AllEscrowed' = Total(Receipts, g)
    BY DEF AllEscrowed, Shares, Share
  <2>4. \A x \in Receipts \ {r} : g[x] = Shares[x]
    BY DEF Shares, Share, Recorded, Changed
  <2> HIDE DEF g
  <2>5. Total(Receipts, g) = Total(Receipts, Shares) + g[r] - Shares[r]
    BY <2>1, <2>2, <2>4, TotalChange
  <2> QED
    BY <2>1, <2>2, <2>3, <2>5
<1>3. ASSUME NEW p \in Providers
      PROVE  Escrowed(p)' = Escrowed(p) + ShareOf(r, p)' - ShareOf(r, p)
  <2> DEFINE f == SharesOf(p)
             g == SharesOf(p)'
  <2>1. IsFiniteSet(Receipts) /\ f \in [Receipts -> Nat] /\ Escrowed(p) = Total(Receipts, f)
    BY SharesType
  <2>2. g \in [Receipts -> Nat] /\ g[r] = ShareOf(r, p)' /\ f[r] = ShareOf(r, p)
    BY <1>1 DEF SharesOf
  <2>3. Escrowed(p)' = Total(Receipts, g)
    BY DEF Escrowed, SharesOf, ShareOf
  <2>4. \A x \in Receipts \ {r} : g[x] = f[x]
    BY DEF SharesOf, ShareOf, Recorded, OfProvider, Changed
  <2> HIDE DEF f, g
  <2>5. Total(Receipts, g) = Total(Receipts, f) + g[r] - f[r]
    BY <2>1, <2>2, <2>4, TotalChange
  <2> QED
    BY <2>1, <2>2, <2>3, <2>5
<1> QED
  BY <1>2, <1>3

\* The step shared by record, settle and revert: the vault, the account of the
\* receipt's provider and the share of the receipt move by the same amount.
LEMMA EscrowMoved ==
  ASSUME TypeInv, TypeInv', EscrowBacked,
         NEW r \in Receipts, Changed(settlement, settlement', Receipts, r),
         NEW p \in Providers, Changed(provider, provider', Providers, p),
         provider[p] # None,
         NEW d \in Int,
         vault'.provider_pending = vault.provider_pending + d,
         provider'[p].pending_provider_usdc = provider[p].pending_provider_usdc + d,
         Share(r)' = Share(r) + d,
         ShareOf(r, p)' = ShareOf(r, p) + d,
         \A q \in Providers \ {p} : ShareOf(r, q)' = ShareOf(r, q)
  PROVE  EscrowBacked'
<1>1. /\ AllEscrowed \in Nat /\ \A q \in Providers : Escrowed(q) \in Nat
      /\ vault.provider_pending = AllEscrowed
      /\ \A q \in Providers : provider[q] # None =>
           provider[q].pending_provider_usdc = Escrowed(q)
  BY SharesType DEF EscrowBacked
<1>2. /\ Share(r) \in Nat /\ \A q \in Providers : ShareOf(r, q) \in Nat
  BY WidthFacts DEF Share, ShareOf, Recorded, HasStatus, TypeInv, TypeOK, ReceiptSettlement
<1>3. /\ AllEscrowed' = AllEscrowed + Share(r)' - Share(r)
      /\ \A q \in Providers : Escrowed(q)' = Escrowed(q) + ShareOf(r, q)' - ShareOf(r, q)
  BY SharesChange
<1>4. AllEscrowed' = AllEscrowed + d
  BY <1>1, <1>2, <1>3
<1>5. Escrowed(p)' = Escrowed(p) + d
  BY <1>1, <1>2, <1>3
<1>6. ASSUME NEW q \in Providers \ {p}
      PROVE  Escrowed(q)' = Escrowed(q) /\ provider'[q] = provider[q]
  BY <1>1, <1>2, <1>3 DEF Changed
<1>7. ASSUME NEW q \in Providers, provider'[q] # None
      PROVE  provider'[q].pending_provider_usdc = Escrowed(q)'
  <2>1. CASE q = p
    BY <1>1, <1>5, <2>1
  <2>2. CASE q # p
    BY <1>1, <1>6, <1>7, <2>2
  <2> QED
    BY <2>1, <2>2
<1> QED
  BY <1>1, <1>4, <1>7 DEF EscrowBacked

\* Every step keeps the vault and every account equal to the shares.
LEMMA EscrowStep ==
  ASSUME TypeInv, EscrowBacked, [Next]_mvars
  PROVE  EscrowBacked'
<1>0. /\ vault \in Vaults /\ vault.provider_pending = AllEscrowed
      /\ \A q \in Providers : provider[q] # None =>
           provider[q].pending_provider_usdc = Escrowed(q)
  BY SharesType DEF EscrowBacked
<1>1. ASSUME NEW r \in Receipts, NEW u \in Users, NEW p \in Providers, NEW total \in Charges,
             RecordMiningFromReceipt(r, u, p, total)
      PROVE  EscrowBacked'
  <2> DEFINE s == settlement'[r]
             d == s.usdc_to_provider
  <2>1. /\ TypeInv' /\ settlement[r] = None /\ s \in ReceiptSettlement
        /\ s.provider_wallet = p /\ s.status = "Recorded"
        /\ Changed(settlement, settlement', Receipts, r)
        /\ Changed(provider, provider', Providers, p) /\ provider[p] \in ProviderAccount
    BY <1>1, RecordEffect
  <2>2. /\ vault'.provider_pending = vault.provider_pending + d
        /\ provider'[p].pending_provider_usdc = provider[p].pending_provider_usdc + d
    BY <1>1, RecordFields
  <2>3. d \in Int /\ d >= 0
    BY <2>1, WidthFacts DEF ReceiptSettlement
  <2>4. /\ Share(r) = 0 /\ Share(r)' = d /\ ShareOf(r, p) = 0 /\ ShareOf(r, p)' = d
        /\ \A q \in Providers \ {p} : ShareOf(r, q)' = 0 /\ ShareOf(r, q) = 0
    BY <2>1, NoneAssumption DEF Share, ShareOf, Recorded, HasStatus, OfProvider
  <2> HIDE DEF d, s
  <2>5. Share(r)' = Share(r) + d /\ ShareOf(r, p)' = ShareOf(r, p) + d
    BY <2>3, <2>4
  <2> QED
    BY <2>1, <2>2, <2>3, <2>4, <2>5, EscrowMoved, NoneAssumption
\* Settle and revert both take the share of a Recorded receipt out.
<1>2. ASSUME NEW r \in Receipts, TypeInv', Recorded(r), settlement[r] \in ReceiptSettlement,
             settlement'[r].status # "Recorded",
             Changed(settlement, settlement', Receipts, r),
             NEW p \in Providers, settlement[r].provider_wallet = p,
             provider[p] \in ProviderAccount,
             Changed(provider, provider', Providers, p),
             vault'.provider_pending = vault.provider_pending - settlement[r].usdc_to_provider,
             provider'[p].pending_provider_usdc =
               provider[p].pending_provider_usdc - settlement[r].usdc_to_provider
      PROVE  EscrowBacked'
  <2> DEFINE n == settlement[r].usdc_to_provider
             d == -n
  <2>1. n \in Nat
    BY <1>2, WidthFacts DEF ReceiptSettlement
  <2>2. /\ Share(r) = n /\ Share(r)' = 0 /\ ShareOf(r, p) = n /\ ShareOf(r, p)' = 0
        /\ \A q \in Providers \ {p} : ShareOf(r, q)' = 0 /\ ShareOf(r, q) = 0
    BY <1>2, NoneAssumption DEF Share, ShareOf, Recorded, HasStatus, OfProvider
  <2>3. provider[p] # None
    BY <1>2, NoneAssumption
  <2>4. vault.provider_pending \in Nat /\ provider[p].pending_provider_usdc \in Nat
    BY <1>0, <1>2, WidthFacts DEF Vaults, ProviderAccount
  <2>5. /\ vault'.provider_pending = vault.provider_pending - n
        /\ provider'[p].pending_provider_usdc = provider[p].pending_provider_usdc - n
    BY <1>2
  <2> HIDE DEF n
  <2>6. /\ d \in Int
        /\ vault'.provider_pending = vault.provider_pending + d
        /\ provider'[p].pending_provider_usdc = provider[p].pending_provider_usdc + d
        /\ Share(r)' = Share(r) + d /\ ShareOf(r, p)' = ShareOf(r, p) + d
    BY <2>1, <2>2, <2>4, <2>5
  <2>7. \A q \in Providers \ {p} : ShareOf(r, q)' = ShareOf(r, q)
    BY <2>2
  <2> HIDE DEF d
  <2> QED
    BY <1>2, <2>3, <2>6, <2>7, EscrowMoved
<1>3. ASSUME NEW r \in Receipts, NEW status, SettleFinalizedReceipt(r, status)
      PROVE  EscrowBacked'
  <2> DEFINE s == settlement[r]
             p == s.provider_wallet
  <2>1. /\ TypeInv' /\ Recorded(r) /\ s \in ReceiptSettlement
        /\ Changed(settlement, settlement', Receipts, r)
        /\ p \in Providers /\ provider[p] \in ProviderAccount
        /\ Changed(provider, provider', Providers, p)
        /\ settlement'[r] = [s EXCEPT !.reward_lock_started_at = now,
                                      !.status = "FinalizedSettled"]
    BY <1>3, SettleEffect
  <2>2. settlement'[r].status # "Recorded"
    BY <2>1 DEF ReceiptSettlement
  <2>3. /\ vault'.provider_pending = vault.provider_pending - s.usdc_to_provider
        /\ provider'[p].pending_provider_usdc =
             provider[p].pending_provider_usdc - s.usdc_to_provider
    BY <1>3, SettleFields
  <2> QED
    BY <1>2, <2>1, <2>2, <2>3
<1>4. ASSUME NEW c \in Challenges, NEW r \in Receipts, Resolvable(c, r),
             RevertReceipt(c, r), UNCHANGED <<now, config, allowance>>
      PROVE  EscrowBacked'
  <2> DEFINE s == settlement[r]
             p == s.provider_wallet
  <2>1. /\ TypeInv' /\ Recorded(r) /\ s \in ReceiptSettlement
        /\ Changed(settlement, settlement', Receipts, r)
        /\ p \in Providers /\ provider[p] \in ProviderAccount
        /\ Changed(provider, provider', Providers, p)
        /\ settlement'[r] = [s EXCEPT !.status = "ChallengedReverted"]
    BY <1>4, RevertEffect
  <2>2. settlement'[r].status # "Recorded"
    BY <2>1 DEF ReceiptSettlement
  <2>3. /\ vault'.provider_pending = vault.provider_pending - s.usdc_to_provider
        /\ provider'[p].pending_provider_usdc =
             provider[p].pending_provider_usdc - s.usdc_to_provider
    BY <1>4, RevertFields
  <2> QED
    BY <1>2, <2>1, <2>2, <2>3
\* A provider that registers has no receipts yet.
<1>5. ASSUME NEW p \in Providers, RegisterProvider(p)
      PROVE  EscrowBacked'
  <2>1. /\ provider[p] = None /\ provider'[p].pending_provider_usdc = 0
        /\ Changed(provider, provider', Providers, p)
        /\ vault' = [vault EXCEPT !.provider_stake = @ + config.params.provider_stake_usdc]
        /\ UNCHANGED settlement
    BY <1>5, RegisterEffect
  <2>2. vault'.provider_pending = vault.provider_pending
    BY <1>0, <2>1 DEF Vaults
  <2>3. Escrowed(p) = 0
    <3>1. \A r \in Receipts : SharesOf(p)[r] = 0
      BY <2>1 DEF SharesOf, ShareOf, Recorded, HasStatus, OfProvider, TypeInv, ProvidersKnown
    <3> QED
      BY <3>1, SharesType, TotalZero
  <2>4. AllEscrowed' = AllEscrowed /\ \A q \in Providers : Escrowed(q)' = Escrowed(q)
    BY <2>1 DEF AllEscrowed, Escrowed, Recorded, OfProvider
  <2> QED
    BY <1>0, <2>1, <2>2, <2>3, <2>4 DEF EscrowBacked, Changed
\* Accounts that keep their pending USDC while no settlement changes.
<1>6. ASSUME UNCHANGED settlement, vault'.provider_pending = vault.provider_pending,
             NEW p \in Providers, provider[p] # None,
             provider'[p].pending_provider_usdc = provider[p].pending_provider_usdc,
             Changed(provider, provider', Providers, p)
      PROVE  EscrowBacked'
  <2>1. AllEscrowed' = AllEscrowed /\ \A q \in Providers : Escrowed(q)' = Escrowed(q)
    BY <1>6 DEF AllEscrowed, Escrowed, Recorded, OfProvider
  <2> QED
    BY <1>0, <1>6, <2>1 DEF EscrowBacked, Changed
<1>7. ASSUME NEW p \in Providers, NEW destination \in Holders, ExitProvider(p, destination)
      PROVE  EscrowBacked'
  <2>1. /\ provider[p] \in ProviderAccount /\ UNCHANGED settlement
        /\ provider'[p] = [provider[p] EXCEPT !.staked_usdc_amount = 0, !.status = "Exited"]
        /\ Changed(provider, provider', Providers, p)
        /\ vault' = [vault EXCEPT !.provider_stake = @ - provider[p].staked_usdc_amount]
    BY <1>7, ExitEffect
  <2>2. provider'[p].pending_provider_usdc = provider[p].pending_provider_usdc
    BY <2>1 DEF ProviderAccount
  <2>3. vault'.provider_pending = vault.provider_pending
    BY <1>0, <2>1 DEF Vaults
  <2> QED
    BY <1>6, <2>1, <2>2, <2>3, NoneAssumption
<1>8. ASSUME NEW c \in Challenges, NEW r \in Receipts, NEW w \in Challengers,
             RecordChallengeBond(c, r, w)
      PROVE  EscrowBacked'
  <2> DEFINE p == settlement[r].provider_wallet
  <2>0. /\ p \in Providers /\ provider[p] \in ProviderAccount /\ UNCHANGED settlement
        /\ Changed(provider, provider', Providers, p)
    BY <1>8, BondEffect
  <2>1. /\ p \in Providers /\ provider[p] # None /\ UNCHANGED settlement
        /\ Changed(provider, provider', Providers, p)
    BY <2>0, NoneAssumption
  <2>2. /\ provider'[p].pending_provider_usdc = provider[p].pending_provider_usdc
        /\ vault'.provider_pending = vault.provider_pending
    BY <1>8, BondFields
  <2> HIDE DEF p
  <2> QED
    BY <1>6, <2>1, <2>2
<1>9. ASSUME NEW c \in Challenges, NEW r \in Receipts, Resolvable(c, r), BurnBond(c, r),
             UNCHANGED <<now, config, allowance>>
      PROVE  EscrowBacked'
  <2> DEFINE p == settlement[r].provider_wallet
  <2>0. /\ p \in Providers /\ provider[p] \in ProviderAccount /\ UNCHANGED settlement
        /\ Changed(provider, provider', Providers, p)
    BY <1>9, BurnEffect
  <2>1. /\ p \in Providers /\ provider[p] # None /\ UNCHANGED settlement
        /\ Changed(provider, provider', Providers, p)
    BY <2>0, NoneAssumption
  <2>2. /\ provider'[p].pending_provider_usdc = provider[p].pending_provider_usdc
        /\ vault'.provider_pending = vault.provider_pending
    BY <1>9, BurnFields
  <2> HIDE DEF p
  <2> QED
    BY <1>6, <2>1, <2>2
\* A release changes a settlement the escrow no longer holds anything for.
<1>10. ASSUME NEW r \in Receipts, NEW target, NEW amount \in Nat,
              MaterializeRewardRelease(r, target, amount)
       PROVE  EscrowBacked'
  <2>1. /\ TypeInv' /\ FinalizedSettled(r) /\ settlement[r] \in ReceiptSettlement
        /\ \/ settlement'[r] = [settlement[r] EXCEPT !.user_claw_released = @ + amount]
           \/ settlement'[r] = [settlement[r] EXCEPT !.provider_claw_released = @ + amount]
        /\ Changed(settlement, settlement', Receipts, r)
        /\ UNCHANGED <<provider, vault>>
    BY <1>10, ReleaseEffect
  <2>2. settlement'[r].status = settlement[r].status
    BY <2>1 DEF ReceiptSettlement
  <2>3. /\ Share(r) = 0 /\ Share(r)' = 0
        /\ \A q \in Providers : ShareOf(r, q)' = 0 /\ ShareOf(r, q) = 0
    BY <2>1, <2>2 DEF Share, ShareOf, Recorded, FinalizedSettled, HasStatus
  <2>4. /\ AllEscrowed' = AllEscrowed + Share(r)' - Share(r)
        /\ \A q \in Providers : Escrowed(q)' = Escrowed(q) + ShareOf(r, q)' - ShareOf(r, q)
    BY <2>1, SharesChange
  <2>5. AllEscrowed' = AllEscrowed /\ \A q \in Providers : Escrowed(q)' = Escrowed(q)
    BY <2>3, <2>4, SharesType
  <2> QED
    BY <1>0, <2>1, <2>5 DEF EscrowBacked
<1>11. (\/ \E params : InitializeMasterpool(params) \/ UpdateConfig(params)
        \/ MintGenesisSupply
        \/ \E flags : SetPauseFlags(flags)
        \/ \E x : ClaimUserClaw(x) \/ ClaimProviderClaw(x)
        \/ \E u, amount : Approve(u, amount)
        \/ MasterpoolTick
        \/ UNCHANGED mvars) => EscrowBacked'
  <2>1. ASSUME UNCHANGED <<provider, settlement>>,
               vault'.provider_pending = vault.provider_pending
        PROVE  EscrowBacked'
    BY <1>0, <2>1 DEF EscrowBacked, AllEscrowed, Escrowed, Recorded, OfProvider
  <2> QED
    BY <2>1, OtherEffect
<1> HIDE DEF EscrowBacked
<1> QED
  BY <1>1, <1>3, <1>4, <1>5, <1>7, <1>8, <1>9, <1>10, <1>11, StepCases

\* Nothing is in escrow at first.
LEMMA EscrowInit == MasterpoolInit => EscrowBacked
<1> SUFFICES ASSUME MasterpoolInit
             PROVE  EscrowBacked
  OBVIOUS
<1>1. AllEscrowed = 0
  BY TotalZero DEF AllEscrowed, Recorded, HasStatus, MasterpoolInit
<1> QED
  BY <1>1 DEF EscrowBacked, MasterpoolInit

\* In every instance the escrow vault holds exactly the provider shares of the
\* receipts still Recorded, and each provider's pending_provider_usdc is its
\* part of them (receipt.rs records and settles, challenge.rs reverts).
THEOREM EscrowAlwaysBacked == Spec => []EscrowBacked
<1>1. MasterpoolInit => EscrowBacked
  BY EscrowInit
<1>2. TypeInv /\ EscrowBacked /\ [Next]_mvars => EscrowBacked'
  BY EscrowStep
<1> QED
  BY <1>1, <1>2, TypeInvAlways, PTL DEF Spec
===============================================================================
