-------------------------------- MODULE Faucet --------------------------------
(***************************************************************************)
(* The faucet of the masterpool program: instructions/faucet.rs.  Anyone   *)
(* may have CLAW and USDC of its two vaults sent to anyone, within limits  *)
(* per claim, per recipient and day, and per day.  The counters are reset  *)
(* lazily: an account is put back to zero by the first claim that touches  *)
(* it on another UTC day, not at midnight.                                 *)
(***************************************************************************)
EXTENDS Masterpool

CONSTANTS
    DefaultLimits,  \* the limits of constants.rs
    LimitChoices,   \* limits an admin may propose
    ClaimChoices,   \* amounts a claim may ask for
    FundChoices     \* amounts the vaults may be funded with

Tokens == {"claw", "usdc"}

Amounts == [Tokens -> U64]

FaucetLimits ==
    [max_per_claim : Amounts, max_per_wallet_per_day : Amounts, max_global_per_day : Amounts]

ASSUME FaucetAssumption ==
    /\ DefaultLimits \in FaucetLimits /\ LimitChoices \subseteq FaucetLimits
    /\ ClaimChoices \subseteq Amounts
    /\ FundChoices \subseteq Nat

VARIABLES
    faucet_config,        \* FaucetConfig, or None
    faucet_global_state,  \* FaucetGlobalState, or None
    faucet_user_state,    \* FaucetUserState of each recipient, or None
    faucet_vault          \* balances of the two vaults

faucet_vars == <<faucet_config, faucet_global_state, faucet_user_state, faucet_vault>>
fvars == <<now, masterpool_vars, faucet_vars>>

FaucetConfig == [enabled : BOOLEAN, limits : FaucetLimits]

\* FaucetGlobalState and FaucetUserState count alike.
DayCounter == [current_day_index : Nat, claimed_today : Amounts]

ASSUME FaucetNoneAssumption == None \notin FaucetConfig /\ None \notin DayCounter

NoAmount == [t \in Tokens |-> 0]

FaucetInit ==
    /\ faucet_config = None
    /\ faucet_global_state = None
    /\ faucet_user_state = [w \in Holders |-> None]
    /\ faucet_vault = NoAmount

-----------------------------------------------------------------------------

ValidFaucetLimits(limits) ==
    \A t \in Tokens :
        /\ limits.max_per_claim[t] > 0
        /\ limits.max_per_claim[t] <= limits.max_per_wallet_per_day[t]
        /\ limits.max_per_wallet_per_day[t] <= limits.max_global_per_day[t]

Today == now \div SECONDS_PER_UTC_DAY

\* What a counter says once it has been created or reset, if it needed to be.
ClaimedToday(counter) ==
    IF counter = None \/ counter.current_day_index # Today
    THEN NoAmount ELSE counter.claimed_today

\* Slip: the counter of an earlier day is carried on.
CountOn(counter, amounts) ==
    LET before == IF counter = None THEN NoAmount ELSE counter.claimed_today
    IN  [current_day_index |-> Today,
         claimed_today |-> [t \in Tokens |-> before[t] + amounts[t]]]

Count(counter, amounts) ==
    [current_day_index |-> Today,
     claimed_today |-> [t \in Tokens |-> ClaimedToday(counter)[t] + amounts[t]]]

InitializeFaucet ==
    /\ config # None
    /\ faucet_config = None
    /\ ValidFaucetLimits(DefaultLimits)
    /\ faucet_config' = [enabled |-> FALSE, limits |-> DefaultLimits]
    /\ faucet_global_state' = [current_day_index |-> Today, claimed_today |-> NoAmount]
    /\ UNCHANGED <<now, masterpool_vars, faucet_user_state, faucet_vault>>

SetFaucetEnabled(enabled) ==
    /\ faucet_config # None
    /\ faucet_config' = [faucet_config EXCEPT !.enabled = enabled]
    /\ UNCHANGED <<now, masterpool_vars, faucet_global_state, faucet_user_state, faucet_vault>>

\* Slip: the limits are stored as proposed.
UpdateFaucetLimitsUnchecked(limits) ==
    /\ faucet_config # None
    /\ faucet_config' = [faucet_config EXCEPT !.limits = limits]
    /\ UNCHANGED <<now, masterpool_vars, faucet_global_state, faucet_user_state, faucet_vault>>

UpdateFaucetLimits(limits) ==
    /\ faucet_config # None
    /\ ValidFaucetLimits(limits)
    /\ faucet_config' = [faucet_config EXCEPT !.limits = limits]
    /\ UNCHANGED <<now, masterpool_vars, faucet_global_state, faucet_user_state, faucet_vault>>

\* Slip: the vault is topped up and the reward vault is not debited.
FundFaucetClawForFree(amount) ==
    /\ faucet_config # None
    /\ amount > 0
    /\ vault.reward >= amount
    /\ faucet_vault' = [faucet_vault EXCEPT !["claw"] = @ + amount]
    /\ UNCHANGED <<now, masterpool_vars, faucet_config, faucet_global_state, faucet_user_state>>

\* Out of the reward vault, whatever is owed to the holders of rewards.
FundFaucetClaw(amount) ==
    /\ faucet_config # None
    /\ amount > 0
    /\ vault.reward >= amount
    /\ vault' = [vault EXCEPT !.reward = @ - amount]
    /\ faucet_vault' = [faucet_vault EXCEPT !["claw"] = @ + amount]
    /\ UNCHANGED <<now, config, provider, user_reward, provider_reward, settlement, bond,
                   usdc, claw, claw_supply, allowance,
                   faucet_config, faucet_global_state, faucet_user_state>>

\* A plain token transfer, as scripts/phase1/faucet-fund.ts makes it.
FundFaucetUsdc(w, amount) ==
    /\ faucet_config # None
    /\ amount > 0
    /\ usdc[w] >= amount
    /\ usdc' = [usdc EXCEPT ![w] = @ - amount]
    /\ faucet_vault' = [faucet_vault EXCEPT !["usdc"] = @ + amount]
    /\ UNCHANGED <<now, config, provider, user_reward, provider_reward, settlement, bond,
                   vault, claw, claw_supply, allowance,
                   faucet_config, faucet_global_state, faucet_user_state>>

WithinLimits(amounts, user_counter, global_counter) ==
    LET limits == faucet_config.limits IN
    \A t \in Tokens :
        /\ amounts[t] <= limits.max_per_claim[t]
        /\ user_counter.claimed_today[t] <= limits.max_per_wallet_per_day[t]
        /\ global_counter.claimed_today[t] <= limits.max_global_per_day[t]

\* The recipient does not sign, and may be the pool authority.  Its accounts are vaults
\* then: a faucet vault keeps what it pays to itself, CLAW for the reward vault can be
\* paid out again, and any other vault just holds what it gets.
PaysItself(user, kept, refund) == user = PoolAuthority /\ (refund => "claw" \notin kept)

ClaimFaucet(user, amounts, kept, refund) ==
    LET user_counter == Count(faucet_user_state[user], amounts)
        global_counter == Count(faucet_global_state, amounts)
        paid == [t \in Tokens |-> IF t \in kept THEN 0 ELSE amounts[t]]
    IN
    /\ faucet_config # None
    /\ faucet_config.enabled
    /\ \E t \in Tokens : amounts[t] > 0
    /\ WithinLimits(amounts, user_counter, global_counter)
    /\ \A t \in Tokens : faucet_vault[t] >= amounts[t]
    /\ faucet_user_state' = [faucet_user_state EXCEPT ![user] = user_counter]
    /\ faucet_global_state' = global_counter
    /\ (kept = {} /\ ~refund) \/ PaysItself(user, kept, refund)
    /\ faucet_vault' = [t \in Tokens |-> faucet_vault[t] - paid[t]]
    /\ IF refund
       THEN vault' = [vault EXCEPT !.reward = @ + paid["claw"]] /\ UNCHANGED claw
       ELSE claw' = [claw EXCEPT ![user] = @ + paid["claw"]] /\ UNCHANGED vault
    /\ usdc' = [usdc EXCEPT ![user] = @ + paid["usdc"]]
    /\ UNCHANGED <<now, config, provider, user_reward, provider_reward, settlement, bond,
                   claw_supply, allowance, faucet_config>>

FaucetStep ==
    \/ InitializeFaucet
    \/ \E enabled \in BOOLEAN : SetFaucetEnabled(enabled)
    \/ \E limits \in LimitChoices : UpdateFaucetLimits(limits)
    \/ \E amount \in FundChoices : FundFaucetClaw(amount)
    \/ \E w \in Wallets, amount \in FundChoices : FundFaucetUsdc(w, amount)
    \/ \E w \in Holders, amounts \in ClaimChoices, kept \in SUBSET Tokens, refund \in BOOLEAN :
         ClaimFaucet(w, amounts, kept, refund)

\* The pool the faucet draws from: what its own instructions do goes on meanwhile.
FaucetNext ==
    \/ FaucetStep
    \/ Next /\ UNCHANGED faucet_vars

FaucetSystemInit == MasterpoolInit /\ FaucetInit

FaucetSpec == FaucetSystemInit /\ [][FaucetNext]_fvars

-----------------------------------------------------------------------------

\* The type invariant: limits in force are valid, and no counter is ahead of the
\* clock or of the global counter.
FaucetTypeOK ==
    /\ faucet_config \in FaucetConfig \cup {None}
    /\ faucet_config # None => ValidFaucetLimits(faucet_config.limits)
    /\ faucet_global_state \in DayCounter \cup {None}
    /\ faucet_global_state # None => faucet_global_state.current_day_index <= Today
    /\ faucet_user_state \in [Holders -> DayCounter \cup {None}]
    /\ \A w \in Holders : faucet_user_state[w] # None =>
         faucet_global_state # None /\
         faucet_user_state[w].current_day_index <= faucet_global_state.current_day_index
    /\ faucet_vault \in [Tokens -> Nat]

\* Refinement: what a counter of another day still holds counts for nothing.
Daily == INSTANCE DailyAllowance WITH
    day <- Today,
    open <- faucet_config # None /\ faucet_config.enabled,
    limits <- IF faucet_config = None THEN DefaultLimits ELSE faucet_config.limits,
    given <- [w \in Holders |-> ClaimedToday(faucet_user_state[w])],
    Owner <- PoolAuthority,
    pot <- faucet_vault

\* The lazily reset counters implement daily allowances that end at midnight:
\* no order of claims, funding, limit changes and day changes gives a recipient, or
\* all of them together, more than the limits of the day, and what is counted is
\* what left the vaults, but for what the pool has paid into them from themselves.
KeepsDailyAllowance == Daily!AllowanceSpec
=============================================================================
