----------------------------- MODULE SystemProofs -----------------------------
(***************************************************************************)
(* The faucet and the whole system, for every instance.  The faucet's      *)
(* limits and counters keep their widths and implement daily allowances:   *)
(* the global counter is not the sum of the wallets' counters, which are   *)
(* reset at other times, but the sum of what they say of today.  With the  *)
(* faucet at work no token is created or lost, and everything the two      *)
(* programs keep, they still keep: the faucet touches none of it.          *)
(***************************************************************************)
EXTENDS ClawfarmFaucet, ClawfarmProofs, MasterpoolAccountProofs

\* What holder w was given today.
GivenTo(w) == ClaimedToday(faucet_user_state[w])

GivenOf(t) == [w \in Holders |-> GivenTo(w)[t]]

\* The global counter says of today what the recipients' counters say together.
CountsAgree ==
    \A t \in Tokens : ClaimedToday(faucet_global_state)[t] = Total(Holders, GivenOf(t))

FaucetInv ==
    /\ now \in Nat
    /\ FaucetTypeOK
    /\ faucet_config = None => faucet_global_state = None
    /\ CountsAgree

-----------------------------------------------------------------------------
(* Days and counters *)

LEMMA AmountFacts ==
  /\ NoAmount \in Amounts
  /\ \A a \in Amounts, t \in Tokens : a[t] \in Nat /\ a[t] <= MAX_U64
  /\ \A t \in Tokens : NoAmount[t] = 0
BY Phase1MathAssumption DEF NoAmount, Amounts, U64

LEMMA DayNumber ==
  ASSUME NEW at \in Nat, NEW later \in Nat, at <= later
  PROVE  /\ at \div SECONDS_PER_UTC_DAY \in Nat
         /\ at \div SECONDS_PER_UTC_DAY <= later \div SECONDS_PER_UTC_DAY
<1>1. SECONDS_PER_UTC_DAY \in Nat \ {0}
  BY DEF SECONDS_PER_UTC_DAY
<1> QED
  BY <1>1, DivisionTheorem, DivisionGrows

\* The clock does not go back, and the day neither.
LEMMA DaysPass ==
  ASSUME now \in Nat, now' \in Nat, now <= now'
  PROVE  Today \in Nat /\ Today' \in Nat /\ Today <= Today'
<1>1. PICK later \in Nat : later = now'
  OBVIOUS
<1>2. /\ now \div SECONDS_PER_UTC_DAY \in Nat /\ later \div SECONDS_PER_UTC_DAY \in Nat
      /\ now \div SECONDS_PER_UTC_DAY <= later \div SECONDS_PER_UTC_DAY
  BY <1>1, DayNumber
<1> QED
  BY <1>1, <1>2 DEF Today

\* What a counter says of today is a pair of amounts.
LEMMA CounterType ==
  ASSUME NEW counter \in DayCounter \cup {None}
  PROVE  ClaimedToday(counter) \in Amounts
BY AmountFacts DEF ClaimedToday, DayCounter

\* The counters of a state, and their sums.
LEMMA GivenType ==
  ASSUME FaucetTypeOK
  PROVE  /\ IsFiniteSet(Holders)
         /\ \A w \in Holders : GivenTo(w) \in Amounts
         /\ \A t \in Tokens : GivenOf(t) \in [Holders -> Nat]
         /\ ClaimedToday(faucet_global_state) \in Amounts
<1>1. \A w \in Holders : GivenTo(w) \in Amounts
  BY CounterType DEF FaucetTypeOK, GivenTo
<1>2. \A t \in Tokens : GivenOf(t) \in [Holders -> Nat]
  BY <1>1, AmountFacts DEF GivenOf
<1>3. ClaimedToday(faucet_global_state) \in Amounts
  BY CounterType DEF FaucetTypeOK
<1> QED
  BY <1>1, <1>2, <1>3, MasterpoolAssumption

-----------------------------------------------------------------------------
(* Steps that leave the counters alone *)

\* Within the day the counters say the same; on another day they say nothing.
LEMMA CountersStay ==
  ASSUME FaucetInv, now' \in Nat, now <= now',
         UNCHANGED <<faucet_global_state, faucet_user_state>>
  PROVE  /\ Today \in Nat /\ Today' \in Nat /\ Today <= Today'
         /\ Today' = Today =>
              /\ \A w \in Holders : GivenTo(w)' = GivenTo(w)
              /\ ClaimedToday(faucet_global_state)' = ClaimedToday(faucet_global_state)
         /\ Today' # Today =>
              /\ \A w \in Holders : GivenTo(w)' = NoAmount
              /\ ClaimedToday(faucet_global_state)' = NoAmount
<1>1. Today \in Nat /\ Today' \in Nat /\ Today <= Today'
  BY DaysPass DEF FaucetInv
<1>2. CASE Today' = Today
  BY <1>1, <1>2 DEF GivenTo, ClaimedToday
<1>3. CASE Today' # Today
  <2>1. Today < Today'
    BY <1>1, <1>3
  <2>2. ClaimedToday(faucet_global_state)' = NoAmount
    <3>1. faucet_global_state # None =>
            faucet_global_state \in DayCounter /\ faucet_global_state.current_day_index <= Today
      BY DEF FaucetInv, FaucetTypeOK
    <3>2. faucet_global_state # None => faucet_global_state.current_day_index # Today'
      BY <1>1, <2>1, <3>1 DEF DayCounter
    <3> QED
      BY <3>2 DEF ClaimedToday
  <2>3. ASSUME NEW w \in Holders
        PROVE  GivenTo(w)' = NoAmount
    <3>1. faucet_user_state[w] # None =>
            /\ faucet_global_state \in DayCounter
            /\ faucet_user_state[w] \in DayCounter
            /\ faucet_global_state.current_day_index <= Today
            /\ faucet_user_state[w].current_day_index <= faucet_global_state.current_day_index
      BY DEF FaucetInv, FaucetTypeOK
    <3>2. faucet_user_state[w] # None => faucet_user_state[w].current_day_index # Today'
      BY <1>1, <2>1, <3>1 DEF DayCounter
    <3> QED
      BY <3>2 DEF GivenTo, ClaimedToday
  <2> QED
    BY <1>1, <1>3, <2>2, <2>3
<1> QED
  BY <1>1, <1>2, <1>3

\* So they still agree.
LEMMA CountersStayExact ==
  ASSUME FaucetInv, now' \in Nat, now <= now',
         UNCHANGED <<faucet_global_state, faucet_user_state>>,
         faucet_config' \in FaucetConfig \cup {None},
         faucet_config' # None => ValidFaucetLimits(faucet_config'.limits),
         faucet_config' = None => faucet_config = None,
         faucet_vault' \in [Tokens -> Nat]
  PROVE  FaucetInv'
<1>1. /\ Today \in Nat /\ Today' \in Nat /\ Today <= Today'
      /\ Today' = Today =>
           /\ \A w \in Holders : GivenTo(w)' = GivenTo(w)
           /\ ClaimedToday(faucet_global_state)' = ClaimedToday(faucet_global_state)
      /\ Today' # Today =>
           /\ \A w \in Holders : GivenTo(w)' = NoAmount
           /\ ClaimedToday(faucet_global_state)' = NoAmount
  BY CountersStay
<1>2. CountsAgree'
  <2> SUFFICES ASSUME NEW t \in Tokens
               PROVE  ClaimedToday(faucet_global_state)'[t] = Total(Holders, GivenOf(t)')
    BY DEF CountsAgree
  <2>1. CASE Today' = Today
    <3>1. GivenOf(t)' = GivenOf(t)
      BY <1>1, <2>1 DEF GivenOf
    <3>2. ClaimedToday(faucet_global_state)[t] = Total(Holders, GivenOf(t))
      BY DEF FaucetInv, CountsAgree
    <3> QED
      BY <1>1, <2>1, <3>1, <3>2
  <2>2. CASE Today' # Today
    <3>1. PICK g : g = GivenOf(t)'
      OBVIOUS
    <3>2. \A w \in Holders : g[w] = 0
      BY <1>1, <2>2, <3>1, AmountFacts DEF GivenOf
    <3>3. Total(Holders, g) = 0
      BY <3>2, TotalZero
    <3> QED
      BY <1>1, <2>2, <3>1, <3>3, AmountFacts
  <2> QED
    BY <2>1, <2>2
<1>3. FaucetTypeOK'
  <2>1. faucet_global_state' # None => faucet_global_state'.current_day_index <= Today'
    <3>1. faucet_global_state # None =>
            faucet_global_state \in DayCounter /\ faucet_global_state.current_day_index <= Today
      BY DEF FaucetInv, FaucetTypeOK
    <3> QED
      BY <1>1, <3>1 DEF DayCounter
  <2> QED
    BY <2>1 DEF FaucetTypeOK, FaucetInv
<1>4. faucet_config' = None => faucet_global_state' = None
  BY DEF FaucetInv
<1> QED
  BY <1>2, <1>3, <1>4 DEF FaucetInv

-----------------------------------------------------------------------------
(* A claim *)

\* What one claim does to the counters and the vaults.
LEMMA ClaimEffect ==
  ASSUME FaucetInv, NEW w \in Holders, NEW amounts \in ClaimChoices,
         NEW kept, NEW refund, ClaimFaucet(w, amounts, kept, refund)
  PROVE  /\ Today' = Today /\ amounts \in Amounts
         /\ UNCHANGED <<now, faucet_config>> /\ faucet_config # None /\ faucet_config.enabled
         /\ faucet_config.limits \in FaucetLimits
         /\ faucet_global_state' \in DayCounter /\ faucet_global_state'.current_day_index = Today
         /\ faucet_user_state'[w] \in DayCounter /\ faucet_user_state'[w].current_day_index = Today
         /\ \A v \in Holders \ {w} : faucet_user_state'[v] = faucet_user_state[v]
         /\ faucet_user_state' \in [Holders -> DayCounter \cup {None}]
         /\ \A t \in Tokens :
              /\ GivenTo(w)'[t] = GivenTo(w)[t] + amounts[t]
              /\ ClaimedToday(faucet_global_state)'[t]
                   = ClaimedToday(faucet_global_state)[t] + amounts[t]
              /\ amounts[t] <= faucet_config.limits.max_per_claim[t]
              /\ GivenTo(w)'[t] <= faucet_config.limits.max_per_wallet_per_day[t]
              /\ ClaimedToday(faucet_global_state)'[t]
                   <= faucet_config.limits.max_global_per_day[t]
              /\ faucet_vault'[t] = faucet_vault[t] - (IF t \in kept THEN 0 ELSE amounts[t])
              /\ faucet_vault[t] >= amounts[t]
         /\ kept # {} => w = PoolAuthority
         /\ \A v \in Holders \ {w} : GivenTo(v)' = GivenTo(v)
         /\ faucet_vault' \in [Tokens -> Nat]
<1> DEFINE user_counter == Count(faucet_user_state[w], amounts)
           global_counter == Count(faucet_global_state, amounts)
           limits == faucet_config.limits
<1>1. /\ faucet_config # None /\ faucet_config.enabled
      /\ \A t \in Tokens :
           /\ amounts[t] <= limits.max_per_claim[t]
           /\ user_counter.claimed_today[t] <= limits.max_per_wallet_per_day[t]
           /\ global_counter.claimed_today[t] <= limits.max_global_per_day[t]
           /\ faucet_vault[t] >= amounts[t]
      /\ faucet_user_state' = [faucet_user_state EXCEPT ![w] = user_counter]
      /\ faucet_global_state' = global_counter
      /\ faucet_vault' = [t \in Tokens |->
                            faucet_vault[t] - (IF t \in kept THEN 0 ELSE amounts[t])]
      /\ kept # {} => w = PoolAuthority
      /\ UNCHANGED <<now, faucet_config>>
  BY DEF ClaimFaucet, WithinLimits, PaysItself
<1>2. Today' = Today /\ Today \in Nat
  BY <1>1, DayNumber DEF Today, FaucetInv
<1>3. amounts \in Amounts /\ limits \in FaucetLimits
  BY <1>1, FaucetAssumption DEF FaucetInv, FaucetTypeOK, FaucetConfig
<1>4. /\ GivenTo(w) \in Amounts /\ ClaimedToday(faucet_global_state) \in Amounts
  BY GivenType DEF FaucetInv
<1>5. /\ user_counter = [current_day_index |-> Today,
                         claimed_today |-> [t \in Tokens |-> GivenTo(w)[t] + amounts[t]]]
      /\ global_counter = [current_day_index |-> Today,
                           claimed_today |-> [t \in Tokens |->
                             ClaimedToday(faucet_global_state)[t] + amounts[t]]]
  BY DEF Count, GivenTo
<1>6. /\ \A t \in Tokens : /\ limits.max_per_wallet_per_day[t] \in U64
                           /\ limits.max_global_per_day[t] \in U64
      /\ \A t \in Tokens : /\ GivenTo(w)[t] + amounts[t] \in Nat
                           /\ ClaimedToday(faucet_global_state)[t] + amounts[t] \in Nat
  BY <1>3, <1>4, AmountFacts DEF FaucetLimits, Amounts
<1>7. user_counter \in DayCounter /\ global_counter \in DayCounter
  <2>1. /\ \A t \in Tokens : GivenTo(w)[t] + amounts[t] \in U64
        /\ \A t \in Tokens : ClaimedToday(faucet_global_state)[t] + amounts[t] \in U64
    BY <1>1, <1>5, <1>6, Phase1MathAssumption DEF U64
  <2> QED
    BY <1>2, <1>5, <2>1 DEF DayCounter, Amounts
<1>8. user_counter # None /\ global_counter # None
  BY <1>7, FaucetNoneAssumption
<1>9. faucet_user_state \in [Holders -> DayCounter \cup {None}] /\ faucet_vault \in [Tokens -> Nat]
  BY DEF FaucetInv, FaucetTypeOK
<1>10. /\ faucet_user_state'[w] = user_counter
       /\ \A v \in Holders \ {w} : faucet_user_state'[v] = faucet_user_state[v]
       /\ faucet_user_state' \in [Holders -> DayCounter \cup {None}]
  <2> HIDE DEF user_counter
  <2> QED
    BY <1>1, <1>7, <1>9
<1>11. \A v \in Holders \ {w} : GivenTo(v)' = GivenTo(v)
  BY <1>2, <1>10 DEF GivenTo, ClaimedToday
<1>12. /\ GivenTo(w)' = user_counter.claimed_today
       /\ ClaimedToday(faucet_global_state)' = global_counter.claimed_today
  <2>1. user_counter.current_day_index = Today /\ global_counter.current_day_index = Today
    BY <1>5
  <2> HIDE DEF user_counter, global_counter
  <2> QED
    BY <1>1, <1>2, <1>8, <1>10, <2>1 DEF GivenTo, ClaimedToday
<1>13. \A t \in Tokens :
         /\ faucet_vault'[t] = faucet_vault[t] - (IF t \in kept THEN 0 ELSE amounts[t])
         /\ faucet_vault'[t] \in Nat
  BY <1>1, <1>3, <1>9, AmountFacts
<1>14. faucet_vault' \in [Tokens -> Nat]
  BY <1>1, <1>13
<1>15. \A t \in Tokens :
         /\ GivenTo(w)'[t] = GivenTo(w)[t] + amounts[t]
         /\ ClaimedToday(faucet_global_state)'[t]
              = ClaimedToday(faucet_global_state)[t] + amounts[t]
         /\ GivenTo(w)'[t] <= limits.max_per_wallet_per_day[t]
         /\ ClaimedToday(faucet_global_state)'[t] <= limits.max_global_per_day[t]
  BY <1>1, <1>5, <1>12
<1>16. user_counter.current_day_index = Today /\ global_counter.current_day_index = Today
  BY <1>5
<1> HIDE DEF user_counter, global_counter
<1> QED
  BY <1>1, <1>2, <1>3, <1>7, <1>10, <1>11, <1>13, <1>14, <1>15, <1>16

\* A claim adds the same to the wallet's counter and to the global one.
LEMMA ClaimExact ==
  ASSUME FaucetInv, NEW w \in Holders, NEW amounts \in ClaimChoices,
         NEW kept \in SUBSET Tokens, NEW refund \in BOOLEAN, ClaimFaucet(w, amounts, kept, refund)
  PROVE  FaucetInv'
<1>1. /\ Today' = Today /\ amounts \in Amounts
      /\ UNCHANGED <<now, faucet_config>> /\ faucet_config # None
      /\ faucet_global_state' \in DayCounter /\ faucet_global_state'.current_day_index = Today
      /\ faucet_user_state'[w] \in DayCounter /\ faucet_user_state'[w].current_day_index = Today
      /\ \A v \in Holders \ {w} : faucet_user_state'[v] = faucet_user_state[v]
      /\ faucet_user_state' \in [Holders -> DayCounter \cup {None}]
      /\ \A t \in Tokens : /\ GivenTo(w)'[t] = GivenTo(w)[t] + amounts[t]
                           /\ ClaimedToday(faucet_global_state)'[t]
                                = ClaimedToday(faucet_global_state)[t] + amounts[t]
      /\ \A v \in Holders \ {w} : GivenTo(v)' = GivenTo(v)
      /\ faucet_vault' \in [Tokens -> Nat]
  BY ClaimEffect
<1>2. Today \in Nat
  BY DaysPass, <1>1 DEF FaucetInv
<1>3. faucet_global_state' # None
  BY <1>1, FaucetNoneAssumption
<1>4. FaucetTypeOK'
  <2>1. ASSUME NEW v \in Holders, faucet_user_state'[v] # None
        PROVE  faucet_user_state'[v].current_day_index <= Today
    <3>1. CASE v = w
      BY <1>1, <1>2, <3>1
    <3>2. CASE v # w
      <4>1. /\ faucet_user_state[v] \in DayCounter /\ faucet_global_state \in DayCounter
            /\ faucet_user_state[v].current_day_index <= faucet_global_state.current_day_index
            /\ faucet_global_state.current_day_index <= Today
        BY <1>1, <2>1, <3>2 DEF FaucetInv, FaucetTypeOK
      <4> QED
        BY <1>1, <1>2, <3>2, <4>1 DEF DayCounter
    <3> QED
      BY <3>1, <3>2
  <2>2. faucet_global_state'.current_day_index <= Today'
    BY <1>1, <1>2
  <2> QED
    BY <1>1, <1>3, <2>1, <2>2 DEF FaucetTypeOK, FaucetInv
<1>5. CountsAgree'
  <2> SUFFICES ASSUME NEW t \in Tokens
               PROVE  ClaimedToday(faucet_global_state)'[t] = Total(Holders, GivenOf(t)')
    BY DEF CountsAgree
  <2>1. /\ IsFiniteSet(Holders) /\ GivenOf(t) \in [Holders -> Nat]
        /\ amounts[t] \in Nat
    BY <1>1, GivenType, AmountFacts DEF FaucetInv
  <2>2. PICK g : g = GivenOf(t)'
    OBVIOUS
  <2>3. /\ \A v \in Holders : g[v] = GivenTo(v)'[t]
        /\ \A v \in Holders : GivenOf(t)[v] = GivenTo(v)[t]
        /\ g = [v \in Holders |-> g[v]]
    BY <2>2 DEF GivenOf
  <2>4. /\ g[w] = GivenOf(t)[w] + amounts[t]
        /\ \A v \in Holders \ {w} : g[v] = GivenOf(t)[v]
    BY <1>1, <2>3
  <2>5. g \in [Holders -> Nat]
    <3>1. \A v \in Holders : g[v] \in Nat
      BY <2>1, <2>4
    <3> QED
      BY <2>3, <3>1
  <2>6. Total(Holders, g) = Total(Holders, GivenOf(t)) + amounts[t]
    BY <2>1, <2>4, <2>5, TotalAdd
  <2>7. ClaimedToday(faucet_global_state)[t] = Total(Holders, GivenOf(t))
    BY DEF FaucetInv, CountsAgree
  <2> QED
    BY <1>1, <2>2, <2>6, <2>7
<1> QED
  BY <1>1, <1>3, <1>4, <1>5 DEF FaucetInv

-----------------------------------------------------------------------------
(* The other instructions *)

\* initialize_faucet finds no counter and starts one at zero.
LEMMA InitializeExact ==
  ASSUME FaucetInv, InitializeFaucet
  PROVE  /\ FaucetInv' /\ UNCHANGED <<now, faucet_vault>>
         /\ \A w \in Holders : GivenTo(w)' = GivenTo(w)
         /\ Today' = Today
<1>1. /\ faucet_config = None /\ ValidFaucetLimits(DefaultLimits)
      /\ faucet_config' = [enabled |-> FALSE, limits |-> DefaultLimits]
      /\ faucet_global_state' = [current_day_index |-> Today, claimed_today |-> NoAmount]
      /\ UNCHANGED <<now, faucet_user_state, faucet_vault>>
  BY DEF InitializeFaucet
<1>2. Today' = Today /\ Today \in Nat
  BY <1>1, DayNumber DEF Today, FaucetInv
<1>3. \A w \in Holders : faucet_user_state[w] = None
  BY <1>1 DEF FaucetInv, FaucetTypeOK
<1>4. faucet_config' \in FaucetConfig /\ faucet_global_state' \in DayCounter
  BY <1>1, <1>2, AmountFacts, FaucetAssumption DEF FaucetConfig, DayCounter
<1>5. faucet_config' # None /\ faucet_global_state' # None
  BY <1>4, FaucetNoneAssumption
<1>6. /\ \A w \in Holders : GivenTo(w)' = NoAmount /\ GivenTo(w) = NoAmount
      /\ ClaimedToday(faucet_global_state)' = NoAmount
  BY <1>1, <1>2, <1>3, <1>5 DEF GivenTo, ClaimedToday
<1>7. FaucetTypeOK'
  <2>1. /\ faucet_config'.limits = DefaultLimits
        /\ faucet_global_state'.current_day_index <= Today'
    BY <1>1, <1>2
  <2> QED
    BY <1>1, <1>3, <1>4, <2>1 DEF FaucetTypeOK, FaucetInv, ValidFaucetLimits
<1>8. CountsAgree'
  <2> SUFFICES ASSUME NEW t \in Tokens
               PROVE  ClaimedToday(faucet_global_state)'[t] = Total(Holders, GivenOf(t)')
    BY DEF CountsAgree
  <2>1. PICK g : g = GivenOf(t)'
    OBVIOUS
  <2>2. \A w \in Holders : g[w] = 0
    BY <1>6, <2>1, AmountFacts DEF GivenOf
  <2>3. Total(Holders, g) = 0
    BY <2>2, TotalZero
  <2> QED
    BY <1>6, <2>1, <2>3, AmountFacts
<1> QED
  BY <1>1, <1>2, <1>5, <1>6, <1>7, <1>8 DEF FaucetInv

\* The switches and limits of the admin.
LEMMA GovernExact ==
  ASSUME FaucetInv,
         \/ \E enabled \in BOOLEAN : SetFaucetEnabled(enabled)
         \/ \E limits \in LimitChoices : UpdateFaucetLimits(limits)
  PROVE  /\ FaucetInv'
         /\ UNCHANGED <<now, faucet_global_state, faucet_user_state, faucet_vault>>
<1>1. /\ UNCHANGED <<now, faucet_global_state, faucet_user_state, faucet_vault>>
      /\ faucet_config # None /\ faucet_config \in FaucetConfig
      /\ ValidFaucetLimits(faucet_config.limits)
  BY DEF SetFaucetEnabled, UpdateFaucetLimits, FaucetInv, FaucetTypeOK
<1>2. /\ faucet_config' \in FaucetConfig
      /\ ValidFaucetLimits(faucet_config'.limits)
  <2>1. ASSUME NEW enabled \in BOOLEAN, SetFaucetEnabled(enabled)
        PROVE  /\ faucet_config' \in FaucetConfig
               /\ faucet_config'.limits = faucet_config.limits
    BY <1>1, <2>1 DEF SetFaucetEnabled, FaucetConfig
  <2>2. ASSUME NEW limits \in LimitChoices, UpdateFaucetLimits(limits)
        PROVE  /\ faucet_config' \in FaucetConfig
               /\ faucet_config'.limits = limits /\ ValidFaucetLimits(limits)
    BY <1>1, <2>2, FaucetAssumption DEF UpdateFaucetLimits, FaucetConfig
  <2>3. CASE \E enabled \in BOOLEAN : SetFaucetEnabled(enabled)
    BY <1>1, <2>1, <2>3 DEF ValidFaucetLimits
  <2>4. CASE \E limits \in LimitChoices : UpdateFaucetLimits(limits)
    BY <2>2, <2>4 DEF ValidFaucetLimits
  <2> QED
    BY <2>3, <2>4
<1>3. faucet_config' # None
  BY <1>2, FaucetNoneAssumption
<1>4. now \in Nat /\ now' \in Nat /\ now <= now' /\ faucet_vault' \in [Tokens -> Nat]
  BY <1>1 DEF FaucetInv, FaucetTypeOK
<1> QED
  BY <1>1, <1>2, <1>3, <1>4, CountersStayExact

\* Funding only adds to the vaults.
LEMMA FundExact ==
  ASSUME FaucetInv,
         \/ \E amount \in FundChoices : FundFaucetClaw(amount)
         \/ \E w \in Wallets, amount \in FundChoices : FundFaucetUsdc(w, amount)
  PROVE  /\ FaucetInv'
         /\ UNCHANGED <<now, faucet_config, faucet_global_state, faucet_user_state>>
         /\ \A t \in Tokens : faucet_vault'[t] >= faucet_vault[t]
<1>1. PICK amount \in FundChoices, t \in Tokens :
        /\ UNCHANGED <<now, faucet_config, faucet_global_state, faucet_user_state>>
        /\ faucet_vault' = [faucet_vault EXCEPT ![t] = @ + amount]
  BY DEF FundFaucetClaw, FundFaucetUsdc, Tokens
<1>2. /\ amount \in Nat /\ now \in Nat /\ faucet_vault \in [Tokens -> Nat]
      /\ faucet_config \in FaucetConfig \cup {None}
      /\ faucet_config # None => ValidFaucetLimits(faucet_config.limits)
  BY FaucetAssumption DEF FaucetInv, FaucetTypeOK
<1>3. /\ faucet_vault' \in [Tokens -> Nat]
      /\ \A x \in Tokens : faucet_vault'[x] >= faucet_vault[x]
  BY <1>1, <1>2
<1>4. /\ now' \in Nat /\ now <= now'
      /\ faucet_config' \in FaucetConfig \cup {None}
      /\ faucet_config' # None => ValidFaucetLimits(faucet_config'.limits)
      /\ faucet_config' = None => faucet_config = None
  BY <1>1, <1>2 DEF ValidFaucetLimits
<1>5. FaucetInv'
  BY <1>1, <1>3, <1>4, CountersStayExact
<1> QED
  BY <1>1, <1>3, <1>5

\* The rest of the masterpool, the clock included, leaves the faucet alone.
LEMMA PoolExact ==
  ASSUME FaucetInv, Next \/ UNCHANGED now, UNCHANGED faucet_vars
  PROVE  FaucetInv' /\ now' \in Nat /\ now <= now'
<1>1. now \in Nat
  BY DEF FaucetInv
<1>2. now' \in Nat /\ now <= now'
  BY <1>1, ClockStep
<1>3. /\ UNCHANGED <<faucet_config, faucet_global_state, faucet_user_state, faucet_vault>>
      /\ faucet_config' \in FaucetConfig \cup {None}
      /\ faucet_config' # None => ValidFaucetLimits(faucet_config'.limits)
      /\ faucet_config' = None => faucet_config = None
      /\ faucet_vault' \in [Tokens -> Nat]
  BY DEF faucet_vars, FaucetInv, FaucetTypeOK, ValidFaucetLimits
<1> QED
  BY <1>2, <1>3, CountersStayExact

\* Every step keeps the invariant.
LEMMA FaucetInvStep == FaucetInv /\ [FaucetNext]_fvars => FaucetInv'
<1> SUFFICES ASSUME FaucetInv, [FaucetNext]_fvars PROVE FaucetInv'
  OBVIOUS
<1>1. CASE FaucetStep
  BY <1>1, InitializeExact, GovernExact, FundExact, ClaimExact DEF FaucetStep
<1>2. CASE Next /\ UNCHANGED faucet_vars
  BY <1>2, PoolExact
<1>3. CASE UNCHANGED fvars
  BY <1>3, PoolExact DEF fvars
<1> QED
  BY <1>1, <1>2, <1>3 DEF FaucetNext

\* Before the faucet exists nothing has been counted.
LEMMA FaucetInvInit == FaucetSystemInit => FaucetInv
<1> SUFFICES ASSUME FaucetSystemInit PROVE FaucetInv
  OBVIOUS
<1>1. /\ now \in Nat /\ faucet_config = None /\ faucet_global_state = None
      /\ faucet_user_state = [w \in Holders |-> None] /\ faucet_vault = NoAmount
  BY ChainAssumption DEF FaucetSystemInit, FaucetInit, MasterpoolInit, ClockInit
<1>2. /\ ClaimedToday(faucet_global_state) = NoAmount
      /\ \A w \in Holders : GivenTo(w) = NoAmount
  BY <1>1 DEF ClaimedToday, GivenTo
<1>3. CountsAgree
  <2> SUFFICES ASSUME NEW t \in Tokens
               PROVE  ClaimedToday(faucet_global_state)[t] = Total(Holders, GivenOf(t))
    BY DEF CountsAgree
  <2>1. \A w \in Holders : GivenOf(t)[w] = 0
    BY <1>2, AmountFacts DEF GivenOf
  <2>2. Total(Holders, GivenOf(t)) = 0
    BY <2>1, TotalZero
  <2> QED
    BY <1>2, <2>2, AmountFacts
<1>4. FaucetTypeOK
  BY <1>1 DEF FaucetTypeOK, NoAmount
<1> QED
  BY <1>1, <1>3, <1>4 DEF FaucetInv

\* The strengthened invariant of the faucet.
THEOREM FaucetInvAlways == FaucetSpec => []FaucetInv
BY FaucetInvInit, FaucetInvStep, PTL DEF FaucetSpec

\* The faucet's accounts keep their layout and their 64-bit counters, and no
\* counter is of a day that has not come, whatever limits and claims are chosen.
THEOREM FaucetTypeCorrect == FaucetSpec => []FaucetTypeOK
<1>1. FaucetInv => FaucetTypeOK
  BY DEF FaucetInv
<1> QED
  BY <1>1, FaucetInvAlways, PTL

-----------------------------------------------------------------------------
(* The refinement: every transaction is one step of the daily allowance, or *)
(* none                                                                      *)

\* What the allowance sees of the faucet.
InForce == IF faucet_config = None THEN DefaultLimits ELSE faucet_config.limits
Taking == faucet_config # None /\ faucet_config.enabled
Given == [w \in Holders |-> GivenTo(w)]

LEMMA GivenFacts ==
  /\ \A w \in Holders : Given[w] = GivenTo(w)
  /\ \A w \in Holders : Given'[w] = GivenTo(w)'
  /\ Given = [w \in Holders |-> ClaimedToday(faucet_user_state[w])]
BY DEF Given, GivenTo

\* The sum the allowance speaks of is the sum of this module.
LEMMA SameTotal == \A S, f : Daily!Total(S, f) = Total(S, f)
<1>1. \A S : Daily!Cardinality(S) = Cardinality(S)
  BY DEF Daily!Cardinality, Cardinality
<1> QED
  BY <1>1 DEF Daily!Total, Total, Daily!Units, Units

LEMMA SameGiven ==
  \A t \in Tokens : /\ Daily!GivenToday(t) = Total(Holders, GivenOf(t))
                   /\ Daily!GivenToday(t)' = Total(Holders, GivenOf(t))'
<1> SUFFICES ASSUME NEW t \in Tokens
             PROVE  /\ Daily!GivenToday(t) = Total(Holders, GivenOf(t))
                    /\ Daily!GivenToday(t)' = Total(Holders, GivenOf(t))'
  OBVIOUS
<1>1. Daily!GivenToday(t) = Total(Holders, GivenOf(t))
  BY SameTotal DEF Daily!GivenToday, GivenOf, GivenTo
<1>2. Daily!GivenToday(t)' = Total(Holders, GivenOf(t))'
  BY SameTotal DEF Daily!GivenToday, GivenOf, GivenTo
<1> QED
  BY <1>1, <1>2

\* A claim gives.
LEMMA ClaimGives ==
  ASSUME FaucetInv, FaucetInv', NEW w \in Holders, NEW amounts \in ClaimChoices,
         NEW kept \in SUBSET Tokens, NEW refund \in BOOLEAN, ClaimFaucet(w, amounts, kept, refund)
  PROVE  Daily!Give(w, kept)
<1>1. /\ Today' = Today /\ amounts \in Amounts
      /\ UNCHANGED faucet_config /\ faucet_config # None /\ faucet_config.enabled
      /\ faucet_config.limits \in FaucetLimits
      /\ \A t \in Tokens :
           /\ GivenTo(w)'[t] = GivenTo(w)[t] + amounts[t]
           /\ ClaimedToday(faucet_global_state)'[t]
                = ClaimedToday(faucet_global_state)[t] + amounts[t]
           /\ amounts[t] <= faucet_config.limits.max_per_claim[t]
           /\ GivenTo(w)'[t] <= faucet_config.limits.max_per_wallet_per_day[t]
           /\ ClaimedToday(faucet_global_state)'[t]
                <= faucet_config.limits.max_global_per_day[t]
           /\ faucet_vault'[t] = faucet_vault[t] - (IF t \in kept THEN 0 ELSE amounts[t])
           /\ faucet_vault[t] >= amounts[t]
      /\ kept # {} => w = PoolAuthority
      /\ \A v \in Holders \ {w} : GivenTo(v)' = GivenTo(v)
      /\ faucet_vault' \in [Tokens -> Nat]
  BY ClaimEffect
<1>2. /\ GivenTo(w) \in Amounts
      /\ \A t \in Tokens : ClaimedToday(faucet_global_state)'[t] = Total(Holders, GivenOf(t))'
  BY GivenType DEF FaucetInv, CountsAgree
<1>3. Given' = [Given EXCEPT ![w] = Given'[w]]
  <2>1. PICK g : g = Given'
    OBVIOUS
  <2>2. /\ g = [v \in Holders |-> g[v]]
        /\ \A v \in Holders \ {w} : g[v] = Given[v]
        /\ Given = [v \in Holders |-> Given[v]]
    BY <1>1, <2>1, GivenFacts DEF Given
  <2>3. g = [Given EXCEPT ![w] = g[w]]
    BY <2>2
  <2> QED
    BY <2>1, <2>3
<1>4. \A t \in Tokens :
        /\ GivenTo(w)'[t] - GivenTo(w)[t] = amounts[t]
        /\ amounts[t] \in 0..InForce.max_per_claim[t]
        /\ GivenTo(w)'[t] <= InForce.max_per_wallet_per_day[t]
        /\ Total(Holders, GivenOf(t))' <= InForce.max_global_per_day[t]
        /\ faucet_vault[t] >= amounts[t]
  <2> SUFFICES ASSUME NEW t \in Tokens
               PROVE  /\ GivenTo(w)'[t] - GivenTo(w)[t] = amounts[t]
                      /\ amounts[t] \in 0..InForce.max_per_claim[t]
                      /\ GivenTo(w)'[t] <= InForce.max_per_wallet_per_day[t]
                      /\ Total(Holders, GivenOf(t))' <= InForce.max_global_per_day[t]
                      /\ faucet_vault[t] >= amounts[t]
    OBVIOUS
  <2>1. amounts[t] \in Nat /\ GivenTo(w)[t] \in Nat
        /\ faucet_config.limits.max_per_claim[t] \in Nat
    BY <1>1, <1>2, AmountFacts DEF FaucetLimits
  <2> QED
    BY <1>1, <1>2, <2>1 DEF InForce
<1>5. faucet_vault' = [t \in Tokens |->
                        IF t \in kept THEN faucet_vault[t]
                        ELSE faucet_vault[t] - (Given'[w][t] - Given[w][t])]
  <2>0. \A t \in Tokens : faucet_vault[t] \in Nat
    BY DEF FaucetInv, FaucetTypeOK
  <2>1. \A t \in Tokens :
          faucet_vault'[t] = IF t \in kept THEN faucet_vault[t]
                             ELSE faucet_vault[t] - (Given'[w][t] - Given[w][t])
    BY <1>1, <1>4, <2>0, GivenFacts
  <2> QED
    BY <1>1, <2>1
<1>6. /\ Taking /\ Taking' = Taking /\ InForce' = InForce
  BY <1>1 DEF Taking, InForce
<1>7. \A t \in Tokens :
        /\ Given'[w][t] - Given[w][t] \in 0..InForce.max_per_claim[t]
        /\ Given'[w][t] <= InForce.max_per_wallet_per_day[t]
        /\ Daily!GivenToday(t)' <= InForce.max_global_per_day[t]
        /\ faucet_vault[t] >= Given'[w][t] - Given[w][t]
  BY <1>4, SameGiven, GivenFacts
<1> QED
  BY <1>1, <1>3, <1>5, <1>6, <1>7 DEF Daily!Give, Given, GivenTo, InForce, Taking

\* Nothing given today is nothing given.
LEMMA GivenStays ==
  /\ (\A w \in Holders : GivenTo(w)' = GivenTo(w)) => Given' = Given
  /\ (\A w \in Holders : GivenTo(w)' = NoAmount) => Given' = [w \in Holders |-> Daily!Nothing]
<1>1. PICK g : g = Given'
  OBVIOUS
<1>2. g = [w \in Holders |-> g[w]] /\ \A w \in Holders : g[w] = GivenTo(w)'
  BY <1>1, GivenFacts DEF Given
<1>3. Given = [w \in Holders |-> GivenTo(w)]
  BY DEF Given
<1>4. Daily!Nothing = NoAmount
  BY DEF Daily!Nothing, NoAmount
<1> QED
  BY <1>1, <1>2, <1>3, <1>4

\* The allowance's own changes, in the words of the faucet.
LEMMA GovernIs ==
  Today' = Today /\ Given' = Given /\ UNCHANGED faucet_vault => Daily!Govern
BY DEF Daily!Govern, Given, GivenTo

LEMMA RefillIs ==
  ASSUME Today' = Today, Given' = Given, UNCHANGED faucet_config,
         faucet_vault' = [t \in Tokens |-> faucet_vault'[t]],
         \A t \in Tokens : faucet_vault'[t] >= faucet_vault[t]
  PROVE  Daily!Refill
BY DEF Daily!Refill, Given, GivenTo

LEMMA MidnightIs ==
  ASSUME Today' > Today, Given' = [w \in Holders |-> Daily!Nothing],
         UNCHANGED <<faucet_config, faucet_vault>>
  PROVE  Daily!Midnight
BY DEF Daily!Midnight, Given, GivenTo

LEMMA StutterIs ==
  ASSUME Today' = Today, Given' = Given, UNCHANGED <<faucet_config, faucet_vault>>
  PROVE  UNCHANGED Daily!avars
BY DEF Daily!avars, Given, GivenTo

\* Time, and what the masterpool does meanwhile, is midnight or nothing.
LEMMA PoolKeepsDaily ==
  ASSUME FaucetInv, Next \/ UNCHANGED now, UNCHANGED faucet_vars
  PROVE  [Daily!AllowanceNext]_(Daily!avars)
<1>1. /\ now' \in Nat /\ now <= now'
      /\ UNCHANGED <<faucet_config, faucet_global_state, faucet_user_state, faucet_vault>>
  BY PoolExact DEF faucet_vars
<1>2. /\ Today \in Nat /\ Today' \in Nat /\ Today <= Today'
      /\ Today' = Today => \A w \in Holders : GivenTo(w)' = GivenTo(w)
      /\ Today' # Today => \A w \in Holders : GivenTo(w)' = NoAmount
  BY <1>1, CountersStay
<1>3. CASE Today' = Today
  BY <1>1, <1>2, <1>3, GivenStays, StutterIs
<1>4. CASE Today' # Today
  <2>1. Daily!Midnight
    BY <1>1, <1>2, <1>4, GivenStays, MidnightIs
  <2> QED
    BY <2>1 DEF Daily!AllowanceNext
<1> QED
  BY <1>3, <1>4

\* Every transaction is a step of the allowance.
LEMMA StepKeepsDaily ==
  FaucetInv /\ FaucetInv' /\ [FaucetNext]_fvars => [Daily!AllowanceNext]_(Daily!avars)
<1> SUFFICES ASSUME FaucetInv, FaucetInv', [FaucetNext]_fvars
             PROVE  [Daily!AllowanceNext]_(Daily!avars)
  OBVIOUS
<1>1. ASSUME UNCHANGED <<now, faucet_global_state, faucet_user_state>>
      PROVE  Today' = Today /\ Given' = Given
  <2>1. now \in Nat /\ now' \in Nat /\ now <= now' /\ Today' = Today
    BY <1>1 DEF FaucetInv, Today
  <2> QED
    BY <1>1, <2>1, CountersStay, GivenStays
<1>2. ASSUME InitializeFaucet PROVE Daily!Govern
  BY <1>2, InitializeExact, GivenStays, GovernIs
<1>3. ASSUME \/ \E enabled \in BOOLEAN : SetFaucetEnabled(enabled)
             \/ \E limits \in LimitChoices : UpdateFaucetLimits(limits)
      PROVE  Daily!Govern
  BY <1>1, <1>3, GovernExact, GovernIs
<1>4. ASSUME \/ \E amount \in FundChoices : FundFaucetClaw(amount)
             \/ \E w \in Wallets, amount \in FundChoices : FundFaucetUsdc(w, amount)
      PROVE  Daily!Refill
  <2>1. /\ UNCHANGED <<now, faucet_config, faucet_global_state, faucet_user_state>>
        /\ \A t \in Tokens : faucet_vault'[t] >= faucet_vault[t]
        /\ faucet_vault' \in [Tokens -> Nat]
    BY <1>4, FundExact DEF FaucetInv, FaucetTypeOK
  <2> QED
    BY <1>1, <2>1, RefillIs
<1>5. ASSUME NEW w \in Holders, NEW amounts \in ClaimChoices,
         NEW kept \in SUBSET Tokens, NEW refund \in BOOLEAN, ClaimFaucet(w, amounts, kept, refund)
      PROVE  Daily!Give(w, kept)
  BY <1>5, ClaimGives
<1>6. ASSUME FaucetStep PROVE Daily!AllowanceNext
  BY <1>2, <1>3, <1>4, <1>5, <1>6 DEF FaucetStep, Daily!AllowanceNext
<1>7. ASSUME Next \/ UNCHANGED now, UNCHANGED faucet_vars
      PROVE  [Daily!AllowanceNext]_(Daily!avars)
  BY <1>7, PoolKeepsDaily
<1> QED
  BY <1>6, <1>7 DEF FaucetNext, fvars

\* A faucet that does not exist yet has given nothing and holds nothing.
LEMMA InitKeepsDaily == FaucetSystemInit => Daily!AllowanceInit
<1> SUFFICES ASSUME FaucetSystemInit PROVE Daily!AllowanceInit
  OBVIOUS
<1>1. /\ now \in Nat /\ faucet_config = None
      /\ faucet_user_state = [w \in Holders |-> None] /\ faucet_vault = NoAmount
  BY ChainAssumption DEF FaucetSystemInit, FaucetInit, MasterpoolInit, ClockInit
<1>2. Today \in Nat
  BY <1>1, DayNumber DEF Today
<1>3. Daily!Nothing = NoAmount
  BY DEF Daily!Nothing, NoAmount
<1>4. \A w \in Holders : ClaimedToday(faucet_user_state[w]) = NoAmount
  BY <1>1 DEF ClaimedToday
<1> QED
  BY <1>1, <1>2, <1>3, <1>4 DEF Daily!AllowanceInit

\* For every instance: counters that are reset by the first claim of a day, and
\* not at midnight, give no recipient and not all of them together more than the
\* day's limits in force, and count exactly what left the vaults, or what the pool
\* paid itself and left in them.
THEOREM FaucetKeepsDailyAllowance == FaucetSpec => KeepsDailyAllowance
BY FaucetInvAlways, InitKeepsDaily, StepKeepsDaily, PTL
   DEF FaucetSpec, KeepsDailyAllowance, Daily!AllowanceSpec

-----------------------------------------------------------------------------
(* The books of both tokens.  The masterpool keeps the sum of the USDC it    *)
(* knows of, and the faucet moves USDC and CLAW in and out of what the       *)
(* masterpool knows of.                                                      *)

UsdcHeld == Total(Holders, usdc) + vault.treasury + vault.provider_stake + vault.provider_pending

KeepsUsdc == UsdcHeld' = UsdcHeld

\* A wallet receives USDC.
LEMMA UsdcPaid ==
  ASSUME TypeInv, NEW w \in Holders, NEW n \in Nat,
         usdc' = [usdc EXCEPT ![w] = @ + n]
  PROVE  usdc' \in [Holders -> Nat] /\ Total(Holders, usdc') = Total(Holders, usdc) + n
<1> DEFINE g == usdc'
<1>1. /\ usdc \in [Holders -> Nat] /\ IsFiniteSet(Holders)
      /\ g \in [Holders -> Nat] /\ g[w] = usdc[w] + n
      /\ \A x \in Holders \ {w} : g[x] = usdc[x]
  BY MasterpoolAssumption DEF TypeInv, TypeOK
<1> HIDE DEF g
<1>2. Total(Holders, g) = Total(Holders, usdc) + n
  BY <1>1, TotalAdd
<1> QED
  BY <1>1, <1>2 DEF g

\* A wallet pays USDC it has.
LEMMA UsdcCharged ==
  ASSUME TypeInv, NEW w \in Holders, NEW n \in Nat, usdc[w] >= n,
         usdc' = [usdc EXCEPT ![w] = @ - n]
  PROVE  usdc' \in [Holders -> Nat] /\ Total(Holders, usdc') = Total(Holders, usdc) - n
<1> DEFINE g == usdc'
<1>1. /\ usdc \in [Holders -> Nat] /\ IsFiniteSet(Holders)
      /\ g \in [Holders -> Nat] /\ g[w] = usdc[w] - n
      /\ \A x \in Holders \ {w} : g[x] = usdc[x]
  BY MasterpoolAssumption DEF TypeInv, TypeOK
<1> HIDE DEF g
<1>2. Total(Holders, g) = Total(Holders, usdc) - n
  BY <1>1, TotalSubtract
<1> QED
  BY <1>1, <1>2 DEF g

\* The amounts that make up UsdcHeld.
LEMMA UsdcType ==
  ASSUME TypeInv
  PROVE  /\ usdc \in [Holders -> Nat] /\ Total(Holders, usdc) \in Nat
         /\ vault \in Vaults
         /\ vault.treasury \in Nat /\ vault.provider_stake \in Nat
         /\ vault.provider_pending \in Nat
BY MasterpoolAssumption, TotalType DEF TypeInv, TypeOK, Vaults

\* What is paid between a wallet and the three USDC vaults.
LEMMA UsdcMoves ==
  ASSUME TypeInv, NEW w \in Holders,
         NEW treasury \in Nat, NEW stake \in Nat, NEW pending \in Nat,
         \/ /\ usdc[w] >= treasury + stake + pending
            /\ usdc' = [usdc EXCEPT ![w] = @ - (treasury + stake + pending)]
            /\ vault'.treasury = vault.treasury + treasury
            /\ vault'.provider_stake = vault.provider_stake + stake
            /\ vault'.provider_pending = vault.provider_pending + pending
         \/ /\ usdc' = [usdc EXCEPT ![w] = @ + (treasury + stake + pending)]
            /\ vault'.treasury = vault.treasury - treasury
            /\ vault'.provider_stake = vault.provider_stake - stake
            /\ vault'.provider_pending = vault.provider_pending - pending
  PROVE  KeepsUsdc
<1>1. PICK n \in Nat : n = treasury + stake + pending
  OBVIOUS
<1>2. /\ usdc \in [Holders -> Nat] /\ Total(Holders, usdc) \in Nat
      /\ vault.treasury \in Nat /\ vault.provider_stake \in Nat /\ vault.provider_pending \in Nat
  BY UsdcType
<1>3. ASSUME usdc[w] >= n, usdc' = [usdc EXCEPT ![w] = @ - n],
             vault'.treasury = vault.treasury + treasury,
             vault'.provider_stake = vault.provider_stake + stake,
             vault'.provider_pending = vault.provider_pending + pending
      PROVE  KeepsUsdc
  <2>1. Total(Holders, usdc') = Total(Holders, usdc) - n
    BY <1>3, UsdcCharged
  <2> QED
    BY <1>1, <1>2, <1>3, <2>1 DEF KeepsUsdc, UsdcHeld
<1>4. ASSUME usdc' = [usdc EXCEPT ![w] = @ + n],
             vault'.treasury = vault.treasury - treasury,
             vault'.provider_stake = vault.provider_stake - stake,
             vault'.provider_pending = vault.provider_pending - pending
      PROVE  KeepsUsdc
  <2>1. Total(Holders, usdc') = Total(Holders, usdc) + n
    BY <1>4, UsdcPaid
  <2> QED
    BY <1>1, <1>2, <1>4, <2>1 DEF KeepsUsdc, UsdcHeld
<1> QED
  BY <1>1, <1>3, <1>4

\* No instruction of the masterpool creates or loses USDC.
LEMMA UsdcStep ==
  ASSUME TypeInv, [Next]_mvars
  PROVE  KeepsUsdc
<1>0. vault \in Vaults
  BY UsdcType
<1>1. ASSUME UNCHANGED usdc, vault'.treasury = vault.treasury,
             vault'.provider_stake = vault.provider_stake,
             vault'.provider_pending = vault.provider_pending
      PROVE  KeepsUsdc
  BY <1>1 DEF KeepsUsdc, UsdcHeld
<1>2. ASSUME NEW p \in Providers, RegisterProvider(p)
      PROVE  KeepsUsdc
  <2> DEFINE amount == config.params.provider_stake_usdc
  <2>1. amount \in Nat
    BY <1>2, WidthFacts DEF TypeInv, TypeOK, RegisterProvider, GlobalConfig, Phase1ConfigParams
  <2>2. p \in Holders /\ usdc[p] >= amount /\ usdc' = [usdc EXCEPT ![p] = @ - amount]
        /\ vault' = [vault EXCEPT !.provider_stake = @ + amount]
    BY <1>2, HoldersType DEF RegisterProvider
  <2> HIDE DEF amount
  <2>3. /\ vault'.treasury = vault.treasury /\ vault'.provider_pending = vault.provider_pending
        /\ vault'.provider_stake = vault.provider_stake + amount
    BY <1>0, <2>2 DEF Vaults
  <2>4. 0 + amount + 0 = amount /\ vault.treasury + 0 = vault.treasury
        /\ vault.provider_pending + 0 = vault.provider_pending /\ 0 \in Nat
    BY <2>1, UsdcType
  <2> QED
    BY <2>1, <2>2, <2>3, <2>4, UsdcMoves
<1>3. ASSUME NEW p \in Providers, NEW destination \in Holders, ExitProvider(p, destination)
      PROVE  KeepsUsdc
  <2> DEFINE amount == provider[p].staked_usdc_amount
  <2>1. amount \in Nat
    BY <1>3, ExitEffect, WidthFacts DEF ProviderAccount
  <2>2. usdc' = [usdc EXCEPT ![destination] = @ + amount]
        /\ vault' = [vault EXCEPT !.provider_stake = @ - amount]
    BY <1>3 DEF ExitProvider
  <2> HIDE DEF amount
  <2>3. /\ vault'.treasury = vault.treasury /\ vault'.provider_pending = vault.provider_pending
        /\ vault'.provider_stake = vault.provider_stake - amount
    BY <1>0, <2>2 DEF Vaults
  <2>4. 0 + amount + 0 = amount /\ vault.treasury - 0 = vault.treasury
        /\ vault.provider_pending - 0 = vault.provider_pending /\ 0 \in Nat
    BY <2>1, UsdcType
  <2> QED
    BY <2>1, <2>2, <2>3, <2>4, UsdcMoves
<1>4. ASSUME NEW r \in Receipts, NEW u \in Users, NEW p \in Providers, NEW total \in Charges,
             RecordMiningFromReceipt(r, u, p, total)
      PROVE  KeepsUsdc
  <2> DEFINE s == NewSettlement(u, p, total)
  <2>1. /\ Recordable(r, total) /\ HasStatus(provider[p], "Active") /\ TotalsFit(s)
        /\ usdc[u] >= total
        /\ usdc' = [usdc EXCEPT ![u] = @ - (s.usdc_to_treasury + s.usdc_to_provider)]
        /\ vault' = [vault EXCEPT !.treasury = @ + s.usdc_to_treasury,
                                  !.provider_pending = @ + s.usdc_to_provider]
    BY <1>4 DEF RecordMiningFromReceipt
  <2>2. FitsU64(s.claw_to_user + s.claw_to_provider_total)
    BY <2>1 DEF TotalsFit
  <2> HIDE DEF s
  <2>3. s \in ReceiptSettlement /\ s.usdc_to_treasury + s.usdc_to_provider = total
    BY <2>1, <2>2, NewSettlementFacts DEF s
  <2>4. PICK a \in Nat, b \in Nat : a = s.usdc_to_treasury /\ b = s.usdc_to_provider
    BY <2>3, WidthFacts DEF ReceiptSettlement
  <2>5. a + b = total /\ a + 0 + b = total /\ 0 \in Nat /\ vault.provider_stake + 0 = vault.provider_stake
    BY <2>3, <2>4, UsdcType
  <2>6. /\ vault'.treasury = vault.treasury + a /\ vault'.provider_pending = vault.provider_pending + b
        /\ vault'.provider_stake = vault.provider_stake
    BY <1>0, <2>1, <2>4 DEF Vaults
  <2>7. u \in Holders
    BY HoldersType
  <2> QED
    BY <2>1, <2>4, <2>5, <2>6, <2>7, UsdcMoves
<1>5. ASSUME NEW w \in Holders, NEW amount \in Nat,
             usdc' = [usdc EXCEPT ![w] = @ + amount],
             vault'.treasury = vault.treasury, vault'.provider_stake = vault.provider_stake,
             vault'.provider_pending = vault.provider_pending - amount
      PROVE  KeepsUsdc
  <2>1. /\ 0 + 0 + amount = amount /\ vault.treasury - 0 = vault.treasury
        /\ vault.provider_stake - 0 = vault.provider_stake /\ 0 \in Nat
    BY UsdcType
  <2> QED
    BY <1>5, <2>1, UsdcMoves
<1>6. ASSUME NEW r \in Receipts, NEW status \in ReceiptStatuses, SettleFinalizedReceipt(r, status)
      PROVE  KeepsUsdc
  <2>1. PICK w, amount : w = settlement[r].provider_wallet /\ amount = settlement[r].usdc_to_provider
    OBVIOUS
  <2>2. w \in Holders /\ amount \in Nat
    BY <1>6, <2>1, SettleEffect, HoldersType, WidthFacts DEF ReceiptSettlement
  <2>3. /\ usdc' = [usdc EXCEPT ![w] = @ + amount]
        /\ vault' = [vault EXCEPT !.provider_pending = @ - amount]
    BY <1>6, <2>1 DEF SettleFinalizedReceipt
  <2>4. /\ vault'.treasury = vault.treasury /\ vault'.provider_stake = vault.provider_stake
        /\ vault'.provider_pending = vault.provider_pending - amount
    BY <1>0, <2>3 DEF Vaults
  <2> QED
    BY <1>5, <2>2, <2>3, <2>4
<1>7. ASSUME NEW c \in Challenges, NEW r \in Receipts,
             Resolvable(c, r) /\ RevertReceipt(c, r) /\ UNCHANGED <<now, config, allowance>>
      PROVE  KeepsUsdc
  <2>1. PICK w, amount : w = settlement[r].payer_user /\ amount = settlement[r].usdc_to_provider
    OBVIOUS
  <2>2. w \in Holders /\ amount \in Nat
    BY <1>7, <2>1, RevertEffect, HoldersType, WidthFacts DEF ReceiptSettlement
  <2>3. /\ usdc' = [usdc EXCEPT ![w] = @ + amount]
        /\ vault'.treasury = vault.treasury /\ vault'.provider_stake = vault.provider_stake
        /\ vault'.provider_pending = vault.provider_pending - amount
    BY <1>0, <1>7, <2>1 DEF RevertReceipt, Vaults
  <2> QED
    BY <1>5, <2>2, <2>3
<1>8. ASSUME NEW c \in Challenges, NEW r \in Receipts,
             \/ \E w \in Challengers : RecordChallengeBond(c, r, w)
             \/ BurnBond(c, r)
      PROVE  KeepsUsdc
  BY <1>0, <1>1, <1>8 DEF RecordChallengeBond, BurnBond, Vaults
<1>9. ASSUME NEW r \in Receipts, NEW target \in ReleaseTargets, NEW amount \in Nat,
             MaterializeRewardRelease(r, target, amount)
      PROVE  KeepsUsdc
  BY <1>1, <1>9 DEF MaterializeRewardRelease, tokens
<1>10. ASSUME \/ \E params : InitializeMasterpool(params) \/ UpdateConfig(params)
              \/ \E flags : SetPauseFlags(flags)
              \/ \E u, amount : Approve(u, amount)
              \/ MasterpoolTick
              \/ UNCHANGED mvars
       PROVE  KeepsUsdc
  BY <1>1, <1>10 DEF InitializeMasterpool, UpdateConfig, SetPauseFlags, Approve, MasterpoolTick,
                     mvars, masterpool_vars, tokens
<1>11. ASSUME MintGenesisSupply \/ \E x : ClaimUserClaw(x) \/ ClaimProviderClaw(x)
       PROVE  KeepsUsdc
  BY <1>0, <1>1, <1>11 DEF MintGenesisSupply, ClaimUserClaw, ClaimProviderClaw, Vaults
<1> QED
  BY <1>2, <1>3, <1>4, <1>6, <1>7, <1>8, <1>9, <1>10, <1>11, StepCases

-----------------------------------------------------------------------------
(* What the faucet's instructions do to the masterpool                       *)

\* The books of both tokens: what the masterpool does not know of is in the
\* vaults of the faucet, and the USDC there came from the wallets.
BooksClose ==
    /\ ClawElsewhere = faucet_vault["claw"]
    /\ UsdcHeld + faucet_vault["usdc"] = Total(Holders, InitialUsdc)

\* All the faucet leaves alone: everything but wallets and reward vault.
FaucetSpares ==
    /\ UNCHANGED <<now, config, provider, user_reward, provider_reward, settlement, bond,
                   claw_supply, allowance>>
    /\ vault'.challenge_bond = vault.challenge_bond
    /\ vault'.treasury = vault.treasury
    /\ vault'.provider_stake = vault.provider_stake
    /\ vault'.provider_pending = vault.provider_pending

\* The terms of the books are numbers.
LEMMA BooksType ==
  ASSUME TypeInv, FaucetTypeOK
  PROVE  /\ usdc \in [Holders -> Nat] /\ Total(Holders, usdc) \in Nat
         /\ claw \in [Holders -> Nat] /\ Total(Holders, claw) \in Nat
         /\ vault \in Vaults /\ vault.reward \in Nat /\ vault.challenge_bond \in Nat
         /\ vault.treasury \in Nat /\ vault.provider_stake \in Nat /\ vault.provider_pending \in Nat
         /\ claw_supply \in Nat /\ ClawElsewhere \in Int /\ UsdcHeld \in Nat
         /\ faucet_vault \in [Tokens -> Nat]
         /\ faucet_vault["claw"] \in Nat /\ faucet_vault["usdc"] \in Nat
<1>1. /\ usdc \in [Holders -> Nat] /\ Total(Holders, usdc) \in Nat
      /\ claw \in [Holders -> Nat] /\ Total(Holders, claw) \in Nat
  BY MasterpoolAssumption, TotalType DEF TypeInv, TypeOK
<1>2. /\ vault \in Vaults /\ vault.reward \in Nat /\ vault.challenge_bond \in Nat
      /\ vault.treasury \in Nat /\ vault.provider_stake \in Nat /\ vault.provider_pending \in Nat
      /\ claw_supply \in Nat
  BY WidthFacts DEF TypeInv, TypeOK, Vaults
<1>3. /\ faucet_vault \in [Tokens -> Nat]
      /\ faucet_vault["claw"] \in Nat /\ faucet_vault["usdc"] \in Nat
  BY DEF FaucetTypeOK, Tokens
<1>4. ClawElsewhere \in Int /\ UsdcHeld \in Nat
  BY <1>1, <1>2 DEF ClawElsewhere, UsdcHeld
<1> QED
  BY <1>1, <1>2, <1>3, <1>4

\* Its switches and limits touch no token.
LEMMA GovernBooks ==
  ASSUME TypeInv, BooksClose, UNCHANGED <<now, masterpool_vars, faucet_vault>>
  PROVE  TypeInv' /\ BooksClose' /\ FaucetSpares
<1>1. UNCHANGED mvars
  BY DEF mvars, masterpool_vars
<1>2. TypeInv' /\ KeepsClaw /\ KeepsUsdc
  BY <1>1, StepTypeInv, UsdcStep
<1>3. FaucetSpares
  BY DEF FaucetSpares, masterpool_vars, tokens
<1> QED
  BY <1>2, <1>3 DEF BooksClose, KeepsClaw, KeepsUsdc

\* Every wallet the faucet pays, and what it takes, keeps the types.
LEMMA SparesType ==
  ASSUME TypeInv, FaucetSpares, vault' \in Vaults,
         usdc' \in [Holders -> Nat], claw' \in [Holders -> Nat], ClawElsewhere' >= 0
  PROVE  TypeInv'
<1>1. TypeOK'
  BY DEF TypeInv, TypeOK, FaucetSpares, ValidParams
<1>2. ProvidersKnown'
  BY DEF TypeInv, FaucetSpares, ProvidersKnown
<1> QED
  BY <1>1, <1>2 DEF TypeInv, ClawWithin

\* CLAW moves from the reward vault to the faucet.
LEMMA FundClawBooks ==
  ASSUME TypeInv, FaucetTypeOK, BooksClose, NEW amount \in FundChoices, FundFaucetClaw(amount)
  PROVE  TypeInv' /\ BooksClose' /\ FaucetSpares
<1>0. amount \in Nat
  BY FaucetAssumption
<1>1. /\ vault.reward >= amount /\ vault' = [vault EXCEPT !.reward = @ - amount]
      /\ faucet_vault' = [faucet_vault EXCEPT !["claw"] = @ + amount]
      /\ UNCHANGED <<now, config, provider, user_reward, provider_reward, settlement, bond,
                     usdc, claw, claw_supply, allowance>>
  BY DEF FundFaucetClaw
<1>2. /\ usdc \in [Holders -> Nat] /\ Total(Holders, claw) \in Nat /\ claw \in [Holders -> Nat]
      /\ vault \in Vaults /\ vault.reward \in Nat /\ vault.challenge_bond \in Nat
      /\ claw_supply \in Nat /\ faucet_vault \in [Tokens -> Nat]
      /\ faucet_vault["claw"] \in Nat
  BY BooksType
<1>3. /\ vault' \in Vaults /\ vault'.reward = vault.reward - amount
      /\ vault'.challenge_bond = vault.challenge_bond /\ vault'.treasury = vault.treasury
      /\ vault'.provider_stake = vault.provider_stake
      /\ vault'.provider_pending = vault.provider_pending
  BY <1>0, <1>1, <1>2 DEF Vaults
<1>4. /\ faucet_vault'["claw"] = faucet_vault["claw"] + amount
      /\ faucet_vault'["usdc"] = faucet_vault["usdc"]
  BY <1>1, <1>2 DEF Tokens
<1>5. FaucetSpares
  BY <1>1, <1>3 DEF FaucetSpares
<1>6. ClawElsewhere' = ClawElsewhere + amount /\ ClawElsewhere = faucet_vault["claw"]
  BY <1>0, <1>1, <1>2, <1>3 DEF ClawElsewhere, BooksClose
<1>7. ClawElsewhere' >= 0 /\ ClawElsewhere' = faucet_vault'["claw"]
  BY <1>0, <1>2, <1>4, <1>6
<1>8. UsdcHeld' = UsdcHeld
  BY <1>1, <1>3 DEF UsdcHeld
<1>9. TypeInv'
  BY <1>1, <1>2, <1>3, <1>5, <1>7, SparesType
<1> QED
  BY <1>4, <1>5, <1>7, <1>8, <1>9 DEF BooksClose

\* USDC moves from a wallet to the faucet.
LEMMA FundUsdcBooks ==
  ASSUME TypeInv, FaucetTypeOK, BooksClose, NEW w \in Wallets, NEW amount \in FundChoices,
         FundFaucetUsdc(w, amount)
  PROVE  TypeInv' /\ BooksClose' /\ FaucetSpares
<1>0. amount \in Nat
  BY FaucetAssumption
<1>1. /\ usdc[w] >= amount /\ usdc' = [usdc EXCEPT ![w] = @ - amount]
      /\ faucet_vault' = [faucet_vault EXCEPT !["usdc"] = @ + amount]
      /\ UNCHANGED <<now, config, provider, user_reward, provider_reward, settlement, bond,
                     vault, claw, claw_supply, allowance>>
  BY DEF FundFaucetUsdc
<1>2. /\ usdc \in [Holders -> Nat] /\ Total(Holders, usdc) \in Nat /\ claw \in [Holders -> Nat]
      /\ vault \in Vaults /\ faucet_vault \in [Tokens -> Nat] /\ faucet_vault["usdc"] \in Nat
      /\ faucet_vault["claw"] \in Nat
      /\ vault.treasury \in Nat /\ vault.provider_stake \in Nat /\ vault.provider_pending \in Nat
  BY BooksType
<1>3. /\ usdc' \in [Holders -> Nat] /\ Total(Holders, usdc') = Total(Holders, usdc) - amount
  BY <1>0, <1>1, UsdcCharged, HoldersType
<1>4. /\ faucet_vault'["claw"] = faucet_vault["claw"]
      /\ faucet_vault'["usdc"] = faucet_vault["usdc"] + amount
  BY <1>1, <1>2 DEF Tokens
<1>5. FaucetSpares
  BY <1>1 DEF FaucetSpares
<1>6. ClawElsewhere' = ClawElsewhere
  BY <1>1 DEF ClawElsewhere
<1>7. ClawElsewhere' >= 0 /\ ClawElsewhere' = faucet_vault'["claw"]
  BY <1>2, <1>4, <1>6 DEF BooksClose
<1>8. UsdcHeld' + faucet_vault'["usdc"] = UsdcHeld + faucet_vault["usdc"]
  BY <1>0, <1>1, <1>2, <1>3, <1>4 DEF UsdcHeld
<1>9. TypeInv'
  BY <1>1, <1>2, <1>3, <1>5, <1>7, SparesType
<1> QED
  BY <1>5, <1>7, <1>8, <1>9 DEF BooksClose

\* A claim moves both tokens from the faucet to a holder, or back to the reward
\* vault, or leaves them where they are.
LEMMA ClaimBooks ==
  ASSUME TypeInv, FaucetTypeOK, BooksClose, NEW w \in Holders, NEW amounts \in ClaimChoices,
         NEW kept \in SUBSET Tokens, NEW refund \in BOOLEAN, ClaimFaucet(w, amounts, kept, refund)
  PROVE  TypeInv' /\ BooksClose' /\ FaucetSpares
<1>0. /\ amounts \in Amounts /\ "claw" \in Tokens /\ "usdc" \in Tokens
      /\ amounts["claw"] \in Nat /\ amounts["usdc"] \in Nat
  BY FaucetAssumption, AmountFacts DEF Tokens
<1>1. PICK c \in Nat, u \in Nat :
        /\ c = IF "claw" \in kept THEN 0 ELSE amounts["claw"]
        /\ u = IF "usdc" \in kept THEN 0 ELSE amounts["usdc"]
  BY <1>0
<1>2. /\ \A t \in Tokens : faucet_vault[t] >= amounts[t]
      /\ faucet_vault' = [t \in Tokens |->
                            faucet_vault[t] - (IF t \in kept THEN 0 ELSE amounts[t])]
      /\ \/ UNCHANGED vault /\ claw' = [claw EXCEPT ![w] = @ + c]
         \/ UNCHANGED claw /\ vault' = [vault EXCEPT !.reward = @ + c]
      /\ usdc' = [usdc EXCEPT ![w] = @ + u]
      /\ UNCHANGED <<now, config, provider, user_reward, provider_reward, settlement, bond,
                     claw_supply, allowance>>
  BY <1>0, <1>1 DEF ClaimFaucet
<1>3. /\ usdc \in [Holders -> Nat] /\ Total(Holders, usdc) \in Nat
      /\ claw \in [Holders -> Nat] /\ Total(Holders, claw) \in Nat
      /\ vault \in Vaults /\ vault.reward \in Nat /\ vault.challenge_bond \in Nat
      /\ vault.treasury \in Nat /\ vault.provider_stake \in Nat /\ vault.provider_pending \in Nat
      /\ claw_supply \in Nat /\ faucet_vault["claw"] \in Nat /\ faucet_vault["usdc"] \in Nat
  BY BooksType
<1>v. /\ vault' \in Vaults /\ vault'.challenge_bond = vault.challenge_bond
      /\ vault'.treasury = vault.treasury /\ vault'.provider_stake = vault.provider_stake
      /\ vault'.provider_pending = vault.provider_pending
      /\ vault'.reward \in Nat /\ claw' \in [Holders -> Nat] /\ Total(Holders, claw') \in Nat
      /\ Total(Holders, claw') + vault'.reward = Total(Holders, claw) + vault.reward + c
  <2>1. CASE UNCHANGED vault /\ claw' = [claw EXCEPT ![w] = @ + c]
    <3>1. /\ claw' \in [Holders -> Nat] /\ Total(Holders, claw') = Total(Holders, claw) + c
      BY <1>1, <2>1, WalletPaid DEF TypeInv
    <3> QED
      BY <1>3, <2>1, <3>1
  <2>2. CASE UNCHANGED claw /\ vault' = [vault EXCEPT !.reward = @ + c]
    BY <1>3, <2>2 DEF Vaults
  <2> QED
    BY <1>2, <2>1, <2>2
<1>4. usdc' \in [Holders -> Nat] /\ Total(Holders, usdc') = Total(Holders, usdc) + u
  BY <1>1, <1>2, UsdcPaid
<1>5. /\ faucet_vault'["claw"] = faucet_vault["claw"] - c /\ faucet_vault["claw"] >= c
      /\ faucet_vault'["usdc"] = faucet_vault["usdc"] - u /\ faucet_vault["usdc"] >= u
  BY <1>0, <1>1, <1>2, <1>3
<1>6. FaucetSpares
  BY <1>2, <1>v DEF FaucetSpares
<1>7. ClawElsewhere' = ClawElsewhere - c /\ ClawElsewhere = faucet_vault["claw"]
  BY <1>2, <1>3, <1>v DEF ClawElsewhere, BooksClose
<1>8. ClawElsewhere' >= 0 /\ ClawElsewhere' = faucet_vault'["claw"]
  BY <1>1, <1>3, <1>5, <1>7
<1>9. UsdcHeld' + faucet_vault'["usdc"] = UsdcHeld + faucet_vault["usdc"]
  BY <1>v, <1>3, <1>4, <1>5 DEF UsdcHeld
<1>10. TypeInv'
  BY <1>v, <1>4, <1>6, <1>8, SparesType
<1> QED
  BY <1>6, <1>8, <1>9, <1>10 DEF BooksClose

\* No instruction of the faucet creates or loses a token, or touches a ledger.
LEMMA FaucetBooks ==
  ASSUME TypeInv, FaucetTypeOK, BooksClose, FaucetStep
  PROVE  TypeInv' /\ BooksClose' /\ FaucetSpares
<1>1. ASSUME InitializeFaucet
             \/ \E enabled \in BOOLEAN : SetFaucetEnabled(enabled)
             \/ \E limits \in LimitChoices : UpdateFaucetLimits(limits)
      PROVE  TypeInv' /\ BooksClose' /\ FaucetSpares
  <2>1. UNCHANGED <<now, masterpool_vars, faucet_vault>>
    BY <1>1 DEF InitializeFaucet, SetFaucetEnabled, UpdateFaucetLimits
  <2> QED
    BY <2>1, GovernBooks
<1> QED
  BY <1>1, FundClawBooks, FundUsdcBooks, ClaimBooks DEF FaucetStep

-----------------------------------------------------------------------------
(* The ledgers of the masterpool, with the faucet at work                    *)

LedgerInv ==
    /\ StakesBacked /\ BondsBacked /\ EscrowBacked
    /\ ExitInv /\ PositionInv
    /\ ReleasedWithinVested /\ UsersAgree /\ ProvidersAgree
    /\ ClawInv /\ BookedInv /\ LocksStarted

\* They are kept by the masterpool.
LEMMA LedgerStep ==
  ASSUME TypeInv, LedgerInv, [Next]_mvars
  PROVE  LedgerInv'
<1>1. /\ StakesBacked /\ BondsBacked /\ EscrowBacked
      /\ BondsKnown /\ ObligationCounts /\ ExitInv /\ PositionInv
      /\ ReleasedWithinVested /\ UsersAgree /\ ProvidersAgree /\ ClawInv
      /\ BookedInv /\ LocksStarted
  BY DEF LedgerInv, ExitInv
<1>2. StakesBacked' /\ BondsBacked' /\ EscrowBacked'
  BY <1>1, StakesStep, BondsStep, EscrowStep
<1>3. ExitInv'
  BY <1>1, BondsKnownStep, CountsStep, StakedStep DEF ExitInv
<1>4. PositionInv'
  BY <1>1, PositionStep
<1>5. ReleasedWithinVested' /\ UsersAgree' /\ ProvidersAgree'
  BY <1>1, WithinStep, RewardsStep
<1>6. ClawInv' /\ BookedInv' /\ LocksStarted'
  BY <1>1, ClawStep, BookedStep, LocksStep
<1> QED
  BY <1>2, <1>3, <1>4, <1>5, <1>6 DEF LedgerInv

\* They are not about what the faucet changes.
LEMMA LedgerSpared ==
  ASSUME LedgerInv, FaucetSpares
  PROVE  LedgerInv'
<1>1. StakesBacked' /\ BondsBacked' /\ EscrowBacked'
  BY DEF LedgerInv, FaucetSpares, StakesBacked, Staked, BondsBacked, BondsHeld, BondLocked,
         EscrowBacked, AllEscrowed, Escrowed, Recorded, OfProvider, HasStatus
<1>2. ExitInv'
  BY DEF LedgerInv, FaucetSpares, ExitInv, BondsKnown, ObligationCounts,
         ObligationsKeepProviderStaked, Recorded, OfProvider, BondLocked, HasStatus
<1>3. PositionInv'
  BY DEF LedgerInv, FaucetSpares, PositionInv, OffsetsBounded, NetPositionAgrees,
         WithheldNeverExceedsSlashed, Earned, Withheld, Slashed, OfProvider,
         ChallengedReverted, HasStatus
<1>4. ReleasedWithinVested'
  BY DEF LedgerInv, FaucetSpares, ReleasedWithinVested, FinalizedSettled, HasStatus
<1>5. UsersAgree'
  BY DEF LedgerInv, FaucetSpares, UsersAgree, UserPending, UserLocked, UserReleased,
         Recorded, FinalizedSettled, OfUser, HasStatus
<1>6. ProvidersAgree'
  BY DEF LedgerInv, FaucetSpares, ProvidersAgree, ProviderPending, ProviderLocked,
         ProviderReleased, Recorded, FinalizedSettled, OfProvider, HasStatus
<1>7. ClawInv'
  BY DEF LedgerInv, FaucetSpares, ClawInv, SlashesSplit, SupplyKept, Minted, Burned, HasStatus
<1>8. BookedInv' /\ LocksStarted'
  BY DEF LedgerInv, FaucetSpares, BookedInv, BookedToUsers, BookedToProviders, Holdings,
         LocksStarted, ChallengedReverted, FinalizedSettled, HasStatus
<1> QED
  BY <1>1, <1>2, <1>3, <1>4, <1>5, <1>6, <1>7, <1>8 DEF LedgerInv

\* What the masterpool and the faucet keep together.
BooksInv == TypeInv /\ LedgerInv /\ BooksClose

LEMMA BooksInit == FaucetSystemInit => BooksInv
<1> SUFFICES ASSUME FaucetSystemInit PROVE BooksInv
  OBVIOUS
<1>1. MasterpoolInit /\ faucet_vault = NoAmount
  BY DEF FaucetSystemInit, FaucetInit
<1>2. TypeInv /\ ClawInv /\ NoneElsewhere
  BY <1>1, InitTypeInv, ClawInit
<1>3. LedgerInv
  BY <1>1, <1>2, BackedInit, EscrowInit, ExitInit, PositionInit, WithinInit, RewardsInit,
     BookedInit, LocksInit DEF LedgerInv
<1>4. faucet_vault["claw"] = 0 /\ faucet_vault["usdc"] = 0
  BY <1>1 DEF NoAmount, Tokens
<1>5. UsdcHeld = Total(Holders, InitialUsdc) /\ Total(Holders, InitialUsdc) \in Nat
  <2>1. Total(Holders, InitialUsdc) \in Nat
    BY MasterpoolAssumption, TotalType
  <2> QED
    BY <1>1, <2>1 DEF UsdcHeld, MasterpoolInit
<1> QED
  BY <1>2, <1>3, <1>4, <1>5 DEF BooksInv, BooksClose, NoneElsewhere

LEMMA BooksStep == BooksInv /\ FaucetTypeOK /\ [FaucetNext]_fvars => BooksInv'
<1> SUFFICES ASSUME BooksInv, FaucetTypeOK, [FaucetNext]_fvars PROVE BooksInv'
  OBVIOUS
<1>0. TypeInv /\ LedgerInv /\ BooksClose
  BY DEF BooksInv
<1>1. ASSUME FaucetStep PROVE BooksInv'
  BY <1>0, <1>1, FaucetBooks, LedgerSpared DEF BooksInv
<1>2. ASSUME [Next]_mvars, UNCHANGED faucet_vault PROVE BooksInv'
  <2>1. TypeInv' /\ KeepsClaw /\ KeepsUsdc /\ LedgerInv'
    BY <1>0, <1>2, StepTypeInv, UsdcStep, LedgerStep
  <2> QED
    BY <1>0, <1>2, <2>1 DEF BooksInv, BooksClose, KeepsClaw, KeepsUsdc
<1>3. FaucetStep \/ ([Next]_mvars /\ UNCHANGED faucet_vault)
  BY DEF FaucetNext, fvars, mvars, faucet_vars
<1> QED
  BY <1>1, <1>2, <1>3

\* The books of both tokens always close, and every ledger of the masterpool
\* agrees with its receipts and bonds, while the faucet moves tokens in and out.
THEOREM BooksInvAlways == FaucetSpec => []BooksInv
BY BooksInit, BooksStep, FaucetTypeCorrect, PTL DEF FaucetSpec

-----------------------------------------------------------------------------
(* The whole system                                                          *)

\* A step of the system is a step of the masterpool with its faucet, or none.
LEMMA StepOfFaucet == [SystemNext]_system_vars => [FaucetNext]_fvars
<1> SUFFICES ASSUME [SystemNext]_system_vars PROVE [FaucetNext]_fvars
  OBVIOUS
<1>1. CASE FaucetStep
  BY <1>1 DEF FaucetNext
<1>2. CASE ClawfarmNext /\ UNCHANGED faucet_vars
  BY <1>2, StepOfMasterpool DEF FaucetNext, fvars, mvars
<1>3. CASE UNCHANGED system_vars
  BY <1>3 DEF system_vars, fvars
<1> QED
  BY <1>1, <1>2, <1>3 DEF SystemNext

\* The whole system is the masterpool with its faucet: what holds of those
\* two alone holds whatever the attestation program does.
THEOREM SystemImplementsFaucet == SystemSpec => FaucetSpec
<1>1. SystemInit => FaucetSystemInit
  BY DEF SystemInit, FaucetSystemInit, Init
<1> QED
  BY <1>1, StepOfFaucet, PTL DEF SystemSpec, FaucetSpec

\* For every instance: no order of the instructions of both programs and the
\* faucet creates or loses a token of either kind.
THEOREM SystemConservesTokens == SystemSpec => []TokensConserved
<1>1. BooksInv /\ FaucetTypeOK => TokensConserved
  <2> SUFFICES ASSUME BooksInv, FaucetTypeOK PROVE TokensConserved
    OBVIOUS
  <2>1. TypeInv /\ ClawInv /\ BooksClose
    BY DEF BooksInv, LedgerInv
  <2>2. /\ Total(Holders, claw) \in Nat /\ vault.reward \in Nat /\ vault.challenge_bond \in Nat
        /\ claw_supply \in Nat /\ faucet_vault["claw"] \in Nat
    BY <2>1, BooksType
  <2>3. claw_supply = Total(Holders, InitialClaw) + Minted - Burned
    BY <2>1 DEF ClawInv, SupplyKept
  <2>4. Total(Holders, claw) + vault.reward + vault.challenge_bond + faucet_vault["claw"]
          = claw_supply
    BY <2>1, <2>2 DEF BooksClose, ClawElsewhere
  <2>5. Total(Holders, usdc) + vault.treasury + vault.provider_stake
          + vault.provider_pending + faucet_vault["usdc"] = Total(Holders, InitialUsdc)
    BY <2>1 DEF BooksClose, UsdcHeld
  <2> QED
    BY <2>3, <2>4, <2>5 DEF TokensConserved
<1> QED
  BY <1>1, SystemImplementsFaucet, BooksInvAlways, FaucetTypeCorrect, PTL

\* Every ledger of the masterpool; ClawAccounted is not one of them, for the
\* faucet is filled from the reward vault.
LedgersAgree ==
    /\ BondsAndStakesBacked /\ EscrowBacked
    /\ ObligationCounts /\ ObligationsKeepProviderStaked
    /\ NetPositionAgrees /\ WithheldNeverExceedsSlashed
    /\ ReleasedWithinVested /\ RewardLedgersAgree

\* With the faucet at work the vaults still back every stake, bond and escrowed
\* share, and the accounts still agree with the receipts and bonds.
THEOREM SystemLedgersAgree == SystemSpec => []LedgersAgree
<1>1. BooksInv => LedgersAgree
  <2> SUFFICES ASSUME BooksInv PROVE LedgersAgree
    OBVIOUS
  <2>1. BondsAndStakesBacked
    BY DEF BooksInv, LedgerInv, StakesBacked, BondsBacked, BondsAndStakesBacked
  <2>2. RewardLedgersAgree
    BY DEF BooksInv, LedgerInv, UsersAgree, ProvidersAgree, RewardLedgersAgree
  <2> QED
    BY <2>1, <2>2 DEF BooksInv, LedgerInv, ExitInv, PositionInv, LedgersAgree
<1> QED
  BY <1>1, SystemImplementsFaucet, BooksInvAlways, PTL

\* The faucet keeps its limits however the programs interleave with it.
THEOREM SystemKeepsDailyAllowance == SystemSpec => KeepsDailyAllowance
BY SystemImplementsFaucet, FaucetKeepsDailyAllowance, PTL

-----------------------------------------------------------------------------
(* The two programs, with the faucet at work                                 *)

\* The faucet is invisible to the agreement of the programs.
LEMMA AgreementSpared ==
  ASSUME ClawfarmInv, TypeInv', FaucetSpares, UNCHANGED attestation_vars
  PROVE  ClawfarmInv'
<1>1. AttestationTypeOK' /\ WindowsLast'
  BY DEF ClawfarmInv, AttestationTypeOK, WindowsLast, attestation_vars
<1>2. ASSUME NEW r \in Receipts PROVE Agree(r)'
  <2>1. /\ Agree(r) /\ UNCHANGED <<receipt[r], challenge[r], bond[r]>>
        /\ settlement'[r] = settlement[r]
    BY DEF ClawfarmInv, attestation_vars, FaucetSpares
  <2> QED
    BY <2>1, AgreeKept
<1> QED
  BY <1>1, <1>2 DEF ClawfarmInv

LEMMA ChargesSpared ==
  ASSUME OneSignedChargePerNonce, FaucetSpares
  PROVE  OneSignedChargePerNonce'
BY DEF OneSignedChargePerNonce, FaucetSpares

\* What the two programs keep together, the faucet keeps.
AgreementInv == ClawfarmInv /\ OneSignedChargePerNonce

LEMMA AgreementInit == SystemInit => AgreementInv
BY InitAgrees, ChargesInit DEF SystemInit, AgreementInv

LEMMA AgreementStep ==
  AgreementInv /\ BooksInv /\ FaucetTypeOK /\ [SystemNext]_system_vars => AgreementInv'
<1> SUFFICES ASSUME AgreementInv, BooksInv, FaucetTypeOK, [SystemNext]_system_vars
             PROVE  AgreementInv'
  OBVIOUS
<1>0. ClawfarmInv /\ OneSignedChargePerNonce /\ TypeInv /\ BooksClose
  BY DEF AgreementInv, BooksInv
<1>1. CASE FaucetStep /\ UNCHANGED attestation_vars
  <2>1. TypeInv' /\ FaucetSpares
    BY <1>0, <1>1, FaucetBooks
  <2> QED
    BY <1>0, <1>1, <2>1, AgreementSpared, ChargesSpared DEF AgreementInv
<1>2. CASE [ClawfarmNext]_vars
  BY <1>0, <1>2, StepAgrees, ChargesStep DEF AgreementInv
<1>3. (FaucetStep /\ UNCHANGED attestation_vars) \/ [ClawfarmNext]_vars
  BY DEF SystemNext, system_vars, vars
<1> QED
  BY <1>1, <1>2, <1>3

\* The whole system keeps the agreement of the programs and the signed charges
\* together with the invariants they rest on.
THEOREM AgreementInvAlways == SystemSpec => []AgreementInv
<1>1. SystemSpec => []BooksInv
  BY SystemImplementsFaucet, BooksInvAlways, PTL
<1>2. SystemSpec => []FaucetTypeOK
  BY SystemImplementsFaucet, FaucetTypeCorrect, PTL
<1> QED
  BY <1>1, <1>2, AgreementInit, AgreementStep, PTL DEF SystemSpec

\* With the faucet at work the two programs still agree on every receipt, and
\* every settlement is still one charge a key has signed.
THEOREM SystemAgrees == SystemSpec => []LifecycleAgreement /\ []OneSignedChargePerNonce
<1>1. AgreementInv => LifecycleAgreement
  BY DEF AgreementInv, ClawfarmInv, LifecycleAgreement, Agree
<1>2. AgreementInv => OneSignedChargePerNonce
  BY DEF AgreementInv
<1> QED
  BY <1>1, <1>2, AgreementInvAlways, PTL

\* The faucet charges nobody: it is only given USDC.
GivesToFaucet(w) == faucet_vault'["usdc"] = faucet_vault["usdc"] + (usdc[w] - usdc'[w])

\* In the whole system, too, a payer loses USDC only to its own stake or to one
\* receipt with a mandate, unless it gives it to the faucet.
ChargedOrGiven ==
    [][\A u \in Users : usdc'[u] < usdc[u] /\ ~PaysStake(u) =>
         Mandate(u) \/ GivesToFaucet(u)]_system_vars

LEMMA FaucetCharges ==
  ASSUME TypeInv, FaucetTypeOK, FaucetStep, NEW u \in Users, usdc'[u] < usdc[u]
  PROVE  GivesToFaucet(u)
<1>1. u \in Holders /\ usdc \in [Holders -> Nat] /\ faucet_vault \in [Tokens -> Nat]
  BY HoldersType DEF TypeInv, TypeOK, FaucetTypeOK
<1>2. ASSUME NEW w \in Holders, NEW amount \in Nat, FundFaucetUsdc(w, amount)
      PROVE  GivesToFaucet(u)
  <2>1. /\ faucet_vault' = [faucet_vault EXCEPT !["usdc"] = @ + amount]
        /\ usdc' = [usdc EXCEPT ![w] = @ - amount]
    BY <1>2 DEF FundFaucetUsdc
  <2>2. faucet_vault'["usdc"] = faucet_vault["usdc"] + amount /\ faucet_vault["usdc"] \in Nat
    BY <1>1, <2>1 DEF Tokens
  <2>3. usdc'[u] = usdc[u] - amount /\ usdc[u] \in Nat
    <3>1. u = w
      BY <1>1, <2>1
    <3> QED
      BY <1>1, <2>1, <3>1
  <2> QED
    BY <2>2, <2>3 DEF GivesToFaucet
<1>3. ASSUME NEW w \in Holders, NEW amounts \in Amounts, NEW kept, NEW refund,
             ClaimFaucet(w, amounts, kept, refund)
      PROVE  FALSE
  <2>1. "usdc" \in Tokens /\ amounts["usdc"] \in Nat
    BY AmountFacts DEF Tokens
  <2>2. PICK n \in Nat : n = IF "usdc" \in kept THEN 0 ELSE amounts["usdc"]
    BY <2>1
  <2>3. usdc' = [usdc EXCEPT ![w] = @ + n]
    BY <1>3, <2>1, <2>2 DEF ClaimFaucet
  <2> QED
    BY <1>1, <2>3
<1>4. ASSUME UNCHANGED usdc
      PROVE  FALSE
  BY <1>1, <1>4
<1>5. ASSUME \/ InitializeFaucet
             \/ \E enabled \in BOOLEAN : SetFaucetEnabled(enabled)
             \/ \E limits \in LimitChoices : UpdateFaucetLimits(limits)
             \/ \E amount \in FundChoices : FundFaucetClaw(amount)
      PROVE  FALSE
  <2>1. UNCHANGED usdc
    BY <1>5 DEF InitializeFaucet, SetFaucetEnabled, UpdateFaucetLimits, FundFaucetClaw,
         masterpool_vars, tokens
  <2> QED
    BY <1>4, <2>1
<1>6. FundChoices \subseteq Nat /\ ClaimChoices \subseteq Amounts
  BY FaucetAssumption
<1> QED
  BY <1>2, <1>3, <1>5, <1>6, HoldersType DEF FaucetStep

\* For every instance: the mandate theorem of both programs, with the faucet.
THEOREM SystemChargesNeedMandate == SystemSpec => ChargedOrGiven
<1>1. ServersStaked /\ BooksInv /\ FaucetTypeOK /\ [SystemNext]_system_vars =>
        ServersStaked' /\ [\A u \in Users : usdc'[u] < usdc[u] /\ ~PaysStake(u) =>
                             Mandate(u) \/ GivesToFaucet(u)]_system_vars
  <2> SUFFICES ASSUME ServersStaked, BooksInv, FaucetTypeOK, [SystemNext]_system_vars
               PROVE  /\ ServersStaked'
                      /\ \A u \in Users : usdc'[u] < usdc[u] /\ ~PaysStake(u) =>
                           Mandate(u) \/ GivesToFaucet(u)
    OBVIOUS
  <2>0. TypeInv /\ BooksClose
    BY DEF BooksInv
  <2>1. ASSUME FaucetStep
        PROVE  /\ ServersStaked'
               /\ \A u \in Users : usdc'[u] < usdc[u] => GivesToFaucet(u)
    <3>1. FaucetSpares
      BY <2>0, <2>1, FaucetBooks
    <3> QED
      BY <2>0, <2>1, <3>1, FaucetCharges DEF FaucetSpares, ServersStaked, HasStatus
  <2>2. ASSUME [ClawfarmNext]_vars
        PROVE  /\ ServersStaked'
               /\ \A u \in Users : usdc'[u] < usdc[u] /\ ~PaysStake(u) => Mandate(u)
    BY <2>0, <2>2, StepOfMasterpool, ServersStep, StepMandates
  <2>3. FaucetStep \/ [ClawfarmNext]_vars
    BY DEF SystemNext, system_vars, vars
  <2> QED
    BY <2>1, <2>2, <2>3
<1>2. SystemInit => ServersStaked
  BY DEF SystemInit, Init, MasterpoolInit, ServersStaked, HasStatus
<1>3. SystemSpec => []BooksInv
  BY SystemImplementsFaucet, BooksInvAlways, PTL
<1>4. SystemSpec => []FaucetTypeOK
  BY SystemImplementsFaucet, FaucetTypeCorrect, PTL
<1>5. SystemSpec => [][\A u \in Users : usdc'[u] < usdc[u] /\ ~PaysStake(u) =>
                        Mandate(u) \/ GivesToFaucet(u)]_system_vars
  BY <1>1, <1>2, <1>3, <1>4, PTL DEF SystemSpec
<1> QED
  BY <1>5 DEF ChargedOrGiven

\* A transaction of the faucet is no step of the contract.
LEMMA ContractSpared ==
  ASSUME FaucetSpares, UNCHANGED attestation_vars
  PROVE  UNCHANGED Contract!cvars
<1>1. \A r \in Receipts : ViewKept(r)
  BY KeepsView DEF FaucetSpares, attestation_vars
<1>2. now' = now /\ vault'.provider_pending = vault.provider_pending
  BY DEF FaucetSpares
<1> QED
  BY <1>1, <1>2, NoneMoves DEF Contract!cvars

\* The whole system implements the contract of a receipt.
THEOREM SystemKeepsContract == SystemSpec => KeepsContract
<1>1. SystemInit => Contract!ContractInit
  BY InitKeepsContract DEF SystemInit
<1>2. AgreementInv /\ AgreementInv' /\ BooksInv /\ FaucetTypeOK /\ [SystemNext]_system_vars
        => [Contract!ContractNext]_(Contract!cvars)
  <2> SUFFICES ASSUME AgreementInv, AgreementInv', BooksInv, FaucetTypeOK,
                      [SystemNext]_system_vars
               PROVE  [Contract!ContractNext]_(Contract!cvars)
    OBVIOUS
  <2>1. ASSUME FaucetStep /\ UNCHANGED attestation_vars
        PROVE  UNCHANGED Contract!cvars
    BY <2>1, FaucetBooks, ContractSpared DEF BooksInv
  <2>2. ASSUME [ClawfarmNext]_vars
        PROVE  [Contract!ContractNext]_(Contract!cvars)
    BY <2>2, StepKeepsContract DEF AgreementInv
  <2>3. (FaucetStep /\ UNCHANGED attestation_vars) \/ [ClawfarmNext]_vars
    BY DEF SystemNext, system_vars, vars
  <2> QED
    BY <2>1, <2>2, <2>3
<1>3. SystemSpec => []BooksInv
  BY SystemImplementsFaucet, BooksInvAlways, PTL
<1>4. SystemSpec => []FaucetTypeOK
  BY SystemImplementsFaucet, FaucetTypeCorrect, PTL
<1> QED
  BY <1>1, <1>2, <1>3, <1>4, AgreementInvAlways, PTL
     DEF SystemSpec, KeepsContract, Contract!ContractSpec

-----------------------------------------------------------------------------
(* Rewards and the faucet                                                    *)

\* This step takes from the reward vault what no claim and no slash accounts for.
FillsFaucet(amount) == FundFaucetClaw(amount) /\ VaultShort' = VaultShort + amount

\* This step claims CLAW of the faucet in the pool's name, back into the reward vault.
PaysBack(amounts, kept) ==
    /\ ClaimFaucet(PoolAuthority, amounts, kept, TRUE)
    /\ VaultShort' = VaultShort - amounts["claw"]

ShortageMoves ==
    \/ \E amount \in FundChoices : FillsFaucet(amount)
    \/ \E amounts \in ClaimChoices, kept \in SUBSET Tokens : PaysBack(amounts, kept)

\* Every shortage of the reward vault is one the faucet was filled with, and is only
\* made good out of the faucet.
ShortOfFaucet == [][VaultShort' # VaultShort => ShortageMoves]_system_vars

\* What the faucet holds of CLAW is missing from the reward vault.
FaucetOwes == VaultShort \in Int /\ VaultShort >= faucet_vault["claw"]

\* No other instruction of the faucet touches the reward vault.
LEMMA FaucetShortens ==
  ASSUME TypeInv, FaucetTypeOK, BooksClose, FaucetStep
  PROVE  /\ VaultShort' = VaultShort \/ ShortageMoves
         /\ FaucetOwes => FaucetOwes'
<1>1. UNCHANGED <<Minted, Claimed, AllSlashed>>
  BY FaucetBooks DEF FaucetSpares, Minted, Claimed, AllSlashed, HasStatus
<1>t. Minted \in Nat /\ Claimed \in Nat /\ AllSlashed \in Nat
  BY ClawTermsType
<1>2. ASSUME NEW amount \in FundChoices, FundFaucetClaw(amount)
      PROVE  FillsFaucet(amount) /\ (FaucetOwes => FaucetOwes')
  <2>1. /\ amount \in Nat /\ vault \in Vaults /\ vault.reward \in Nat
        /\ faucet_vault \in [Tokens -> Nat] /\ "claw" \in Tokens
    BY FaucetAssumption, BooksType DEF Tokens
  <2>2. vault'.reward = vault.reward - amount /\ faucet_vault'["claw"] = faucet_vault["claw"] + amount
    BY <1>2, <2>1 DEF FundFaucetClaw, Vaults
  <2>3. VaultShort' = VaultShort + amount
    BY <1>1, <1>t, <2>1, <2>2 DEF VaultShort
  <2> QED
    BY <1>2, <2>1, <2>2, <2>3 DEF FillsFaucet, FaucetOwes
<1>3. ASSUME NEW w \in Holders, NEW amounts \in ClaimChoices, NEW kept \in SUBSET Tokens,
             NEW refund \in BOOLEAN, ClaimFaucet(w, amounts, kept, refund)
      PROVE  /\ VaultShort' = VaultShort \/ PaysBack(amounts, kept)
             /\ FaucetOwes => FaucetOwes'
  <2>1. /\ "claw" \in Tokens /\ amounts["claw"] \in Nat /\ vault \in Vaults
        /\ vault.reward \in Nat /\ faucet_vault["claw"] \in Nat
    BY FaucetAssumption, AmountFacts, BooksType DEF Tokens
  <2>2. PICK c \in Nat : c = IF "claw" \in kept THEN 0 ELSE amounts["claw"]
    BY <2>1
  <2>3. faucet_vault'["claw"] = faucet_vault["claw"] - c
    BY <1>3, <2>1, <2>2 DEF ClaimFaucet
  <2>4. CASE ~refund
    <3>1. UNCHANGED vault
      BY <1>3, <2>4 DEF ClaimFaucet
    <3>2. VaultShort' = VaultShort
      BY <1>1, <3>1 DEF VaultShort
    <3> QED
      BY <2>1, <2>3, <3>2 DEF FaucetOwes
  <2>5. CASE refund
    <3>1. w = PoolAuthority /\ c = amounts["claw"] /\ refund = TRUE
      BY <1>3, <2>2, <2>5 DEF ClaimFaucet, PaysItself
    <3>2. vault' = [vault EXCEPT !.reward = @ + c]
      BY <1>3, <2>1, <2>2, <2>5 DEF ClaimFaucet
    <3>3. vault'.reward = vault.reward + c
      BY <2>1, <3>2 DEF Vaults
    <3>4. VaultShort' = VaultShort - c
      BY <1>1, <1>t, <2>1, <3>3 DEF VaultShort
    <3>5. ClaimFaucet(PoolAuthority, amounts, kept, TRUE)
      BY <1>3, <3>1, Zenon
    <3>6. PaysBack(amounts, kept)
      BY <3>1, <3>4, <3>5 DEF PaysBack
    <3> QED
      BY <2>1, <2>3, <3>4, <3>6 DEF FaucetOwes
  <2> QED
    BY <2>4, <2>5
<1>4. ASSUME \/ InitializeFaucet
             \/ \E enabled \in BOOLEAN : SetFaucetEnabled(enabled)
             \/ \E limits \in LimitChoices : UpdateFaucetLimits(limits)
             \/ \E w \in Wallets, amount \in FundChoices : FundFaucetUsdc(w, amount)
      PROVE  VaultShort' = VaultShort /\ (FaucetOwes => FaucetOwes')
  <2>1. UNCHANGED vault
    BY <1>4 DEF InitializeFaucet, SetFaucetEnabled, UpdateFaucetLimits, FundFaucetUsdc,
         masterpool_vars, tokens
  <2>2. faucet_vault'["claw"] = faucet_vault["claw"]
    BY <1>4 DEF InitializeFaucet, SetFaucetEnabled, UpdateFaucetLimits, FundFaucetUsdc,
         FaucetTypeOK, Tokens
  <2> QED
    BY <1>1, <2>1, <2>2 DEF VaultShort, FaucetOwes
<1> QED
  BY <1>2, <1>3, <1>4 DEF FaucetStep, ShortageMoves

LEMMA SystemShortStep ==
  ASSUME BooksInv, FaucetTypeOK, [SystemNext]_system_vars
  PROVE  /\ VaultShort' = VaultShort \/ ShortageMoves
         /\ FaucetOwes => FaucetOwes'
<1>0. TypeInv /\ BooksClose /\ ClawInv
  BY DEF BooksInv, LedgerInv
<1>1. CASE FaucetStep
  BY <1>0, <1>1, FaucetShortens
<1>2. CASE [ClawfarmNext]_vars /\ UNCHANGED faucet_vault
  BY <1>0, <1>2, StepOfMasterpool, ClawStep DEF KeepsVault, FaucetOwes
<1>3. FaucetStep \/ ([ClawfarmNext]_vars /\ UNCHANGED faucet_vault)
  BY DEF SystemNext, system_vars, vars, faucet_vars
<1> QED
  BY <1>1, <1>2, <1>3

\* For every instance: no claim of rewards, slash, release, settlement or bond ever
\* leaves the reward vault short of what the books say, or makes good what it is
\* short of.  fund_faucet_claw does the one, and a claim_faucet in the pool's own
\* name the other, each by exactly the amount it moves.
THEOREM SystemShortOfFaucet == SystemSpec => ShortOfFaucet
<1>1. BooksInv /\ FaucetTypeOK /\ [SystemNext]_system_vars =>
        [VaultShort' # VaultShort => ShortageMoves]_system_vars
  BY SystemShortStep
<1>2. SystemSpec => []BooksInv
  BY SystemImplementsFaucet, BooksInvAlways, PTL
<1>3. SystemSpec => []FaucetTypeOK
  BY SystemImplementsFaucet, FaucetTypeCorrect, PTL
<1> QED
  BY <1>1, <1>2, <1>3, PTL DEF SystemSpec, ShortOfFaucet

\* Rewards are booked to the accounts they were promised to, the vault is never
\* fuller than the books say, and it covers every claim while what was booked,
\* slashed and given to the faucet fits in what genesis minted.
RewardsAccounted ==
    /\ RewardsBooked
    /\ VaultShort \in Nat
    /\ BookedRewards + AllSlashed + VaultShort <= Minted => ClaimsCovered

\* For every instance, with both programs and the faucet at work: the condition
\* under which released rewards can be claimed, which no instruction looks at.
THEOREM SystemRewardsAccounted == SystemSpec => []RewardsAccounted
<1>1. SystemSpec => []BooksInv
  BY SystemImplementsFaucet, BooksInvAlways, PTL
<1>2. SystemSpec => []FaucetTypeOK
  BY SystemImplementsFaucet, FaucetTypeCorrect, PTL
<1>3. SystemSpec => []FaucetOwes
  <2>1. SystemInit => FaucetOwes
    BY ClawInit DEF SystemInit, Init, NoneElsewhere, FaucetInit, NoAmount, Tokens, FaucetOwes
  <2>2. BooksInv /\ FaucetTypeOK /\ [SystemNext]_system_vars /\ FaucetOwes => FaucetOwes'
    BY SystemShortStep
  <2> QED
    BY <2>1, <2>2, <1>1, <1>2, PTL DEF SystemSpec
<1>4. BooksInv /\ FaucetTypeOK /\ FaucetOwes => RewardsAccounted
  <2> SUFFICES ASSUME BooksInv, FaucetTypeOK, FaucetOwes
               PROVE  RewardsAccounted
    OBVIOUS
  <2>0. VaultShort \in Nat
    BY DEF FaucetOwes, FaucetTypeOK, Tokens
  <2>1. TypeInv /\ UsersAgree /\ ProvidersAgree /\ BookedInv
    BY DEF BooksInv, LedgerInv
  <2>2. RewardsBooked
    BY <2>1, OwedIsBooked DEF RewardsBooked
  <2>3. BookedRewards + AllSlashed + VaultShort <= Minted => ClaimsCovered
    BY <2>1, OwedCovered
  <2> QED
    BY <2>0, <2>2, <2>3 DEF RewardsAccounted
<1> QED
  BY <1>1, <1>2, <1>3, <1>4, PTL

-----------------------------------------------------------------------------
(* Receipts can be settled and disputes closed                               *)

\* A recorded receipt has its part in every ledger, so each of them holds at
\* least that part.
LEMMA RecordedCovered ==
  ASSUME TypeInv, LedgerInv, NEW r \in Receipts, Recorded(r)
  PROVE  Covered(r)
<1> DEFINE s == settlement[r]
           p == s.provider_wallet
           u == s.payer_user
<1>1. /\ settlement[r] # None /\ s \in ReceiptSettlement
      /\ p \in Providers /\ u \in Users /\ provider[p] # None
      /\ OfProvider(r, p) /\ OfUser(r, u)
  BY SettlementFacts, NoneAssumption DEF Recorded, HasStatus, OfProvider, OfUser
<1>2. ObligationCounts /\ EscrowBacked /\ UsersAgree /\ ProvidersAgree
  BY DEF LedgerInv, ExitInv
<1>3. provider[p].unsettled_receipt_count >= 1
  <2>1. r \in OpenReceipts(p)
    BY <1>1 DEF OpenReceipts
  <2>2. IsFiniteSet(OpenReceipts(p)) /\ Cardinality(OpenReceipts(p)) \in Nat
    BY OpenFinite
  <2>3. Cardinality(OpenReceipts(p)) # 0
    BY <2>1, <2>2, FS_EmptySet
  <2>4. provider[p].unsettled_receipt_count = Cardinality(OpenReceipts(p))
    BY <1>1, <1>2 DEF ObligationCounts, OpenReceipts
  <2> QED
    BY <2>2, <2>3, <2>4
<1>4. /\ vault.provider_pending >= s.usdc_to_provider
      /\ provider[p].pending_provider_usdc >= s.usdc_to_provider
  <2>1. /\ IsFiniteSet(Receipts)
        /\ Shares \in [Receipts -> Nat] /\ AllEscrowed = Total(Receipts, Shares)
        /\ SharesOf(p) \in [Receipts -> Nat] /\ Escrowed(p) = Total(Receipts, SharesOf(p))
        /\ AllEscrowed \in Nat /\ Escrowed(p) \in Nat
    BY <1>1, SharesType
  <2>2. Shares[r] <= AllEscrowed /\ SharesOf(p)[r] <= Escrowed(p)
    BY <2>1, TotalBounds
  <2>3. Shares[r] = s.usdc_to_provider /\ SharesOf(p)[r] = s.usdc_to_provider
    BY <1>1 DEF Shares, Share, SharesOf, ShareOf
  <2>4. vault.provider_pending = AllEscrowed /\ provider[p].pending_provider_usdc = Escrowed(p)
    BY <1>1, <1>2 DEF EscrowBacked
  <2> QED
    BY <2>1, <2>2, <2>3, <2>4
<1>5. /\ user_reward[u].pending >= s.claw_to_user
      /\ provider_reward[p].pending >= s.claw_to_provider_locked
  <2> DEFINE mine == [x \in Receipts |-> UPend(x, u)]
             theirs == [x \in Receipts |-> PPend(x, p)]
  <2>1. IsFiniteSet(Receipts) /\ mine \in [Receipts -> Nat] /\ theirs \in [Receipts -> Nat]
    <3>1. ASSUME NEW x \in Receipts
          PROVE  UPend(x, u) \in Nat /\ PPend(x, p) \in Nat
      BY SettlementFacts, WidthFacts DEF UPend, PPend, Recorded, HasStatus
    <3> QED
      BY <3>1, MasterpoolAssumption
  <2>2. mine[r] <= Total(Receipts, mine) /\ theirs[r] <= Total(Receipts, theirs)
    BY <2>1, TotalBounds
  <2>3. mine[r] = s.claw_to_user /\ theirs[r] = s.claw_to_provider_locked
    BY <1>1 DEF UPend, PPend
  <2>4. /\ user_reward[u].pending = Total(Receipts, mine)
        /\ provider_reward[p].pending = Total(Receipts, theirs)
    BY <1>1, <1>2 DEF UsersAgree, ProvidersAgree, UserPending, ProviderPending, UPend, PPend
  <2>5. Total(Receipts, mine) \in Nat /\ Total(Receipts, theirs) \in Nat
    BY <2>1, TotalType
  <2>6. s.claw_to_user \in Nat /\ s.claw_to_provider_locked \in Nat
    BY <1>1, SettlementFacts, WidthFacts
  <2> HIDE DEF mine, theirs
  <2> QED
    BY <2>2, <2>3, <2>4, <2>5, <2>6
<1> QED
  BY <1>3, <1>4, <1>5 DEF Covered

\* finalize_receipt accepts the receipt: its window has passed undisputed, or its
\* challenge was rejected and the settlement is still missing.
Finalizable(r) ==
    \/ ReceiptIs(r, "Submitted") /\ now > receipt[r].challenge_deadline
    \/ ReceiptIs(r, "Finalized") /\ ~receipt[r].economics_settled

\* What finalize_receipt accepts passes every check of settle_finalized_receipt
\* but one, the width of the locked totals.
FinalizationsPassChecks ==
    \A r \in Receipts : Finalizable(r) /\ Running("finalization") =>
        Settleable(r, "Finalized") /\ Covered(r)

\* For every instance: no other receipt, challenge, claim or faucet transfer ever
\* makes a subtraction fail when a receipt is settled; only the locked totals,
\* which SettlementNeverOverflows is about, can stop it.
THEOREM SystemFinalizationsPass == SystemSpec => []FinalizationsPassChecks
<1>1. AgreementInv /\ BooksInv => FinalizationsPassChecks
  <2> SUFFICES ASSUME AgreementInv, BooksInv, NEW r \in Receipts,
                      Finalizable(r), Running("finalization")
               PROVE  Settleable(r, "Finalized") /\ Covered(r)
    BY DEF FinalizationsPassChecks
  <2>1. Recorded(r)
    BY DEF AgreementInv, ClawfarmInv, Agree, ReceiptMatches, Finalizable, ReceiptIs, HasStatus
  <2> QED
    BY <2>1, RecordedCovered DEF BooksInv, Settleable
<1>2. SystemSpec => []BooksInv
  BY SystemImplementsFaucet, BooksInvAlways, PTL
<1> QED
  BY <1>1, <1>2, AgreementInvAlways, PTL

\* The challenge of a receipt is bonded for that receipt.
BondsPaired == \A c \in Challenges : bond[c] # None => bond[c].attestation_receipt = c

\* Only open_challenge writes a bond, and what resolves one keeps its receipt.
LEMMA PairedStep ==
  ASSUME TypeInv, BondsPaired, [ClawfarmNext]_vars
  PROVE  BondsPaired'
<1>1. ASSUME NEW r \in Receipts, NEW w \in Challengers, Open(r, w)
      PROVE  BondsPaired'
  <2>1. r \in Challenges /\ RecordChallengeBond(r, r, w)
    BY <1>1, ClawfarmAssumption DEF Open
  <2>2. bond'[r].attestation_receipt = r /\ Changed(bond, bond', Challenges, r)
    BY <2>1, BondEffect
  <2> QED
    BY <2>2 DEF BondsPaired, Changed
<1>2. ASSUME NEW r \in Receipts, NEW code, ResolveChallengeEconomics(r, r, code)
      PROVE  BondsPaired'
  <2>1. r \in Challenges /\ Resolvable(r, r) /\ UNCHANGED <<now, config, allowance>>
    BY <1>2, ClawfarmAssumption DEF ResolveChallengeEconomics
  <2>2. ASSUME NEW status, bond[r] \in ChallengeBondRecord,
               bond'[r] = [bond[r] EXCEPT !.status = status],
               Changed(bond, bond', Challenges, r)
        PROVE  BondsPaired'
    <3>1. bond[r] # None /\ bond'[r].attestation_receipt = bond[r].attestation_receipt
      BY <2>2, NoneAssumption DEF ChallengeBondRecord
    <3> QED
      BY <2>1, <2>2, <3>1 DEF BondsPaired, Changed
  <2>3. CASE BurnBond(r, r)
    BY <2>1, <2>2, <2>3, BurnEffect
  <2>4. CASE RevertReceipt(r, r)
    BY <2>1, <2>2, <2>4, RevertEffect
  <2> QED
    BY <1>2, <2>3, <2>4 DEF ResolveChallengeEconomics
<1>3. ASSUME NEW r \in Receipts, NEW u \in Users, NEW p \in Providers, NEW charge,
             RecordMiningFromReceipt(r, u, p, charge)
      PROVE  UNCHANGED bond
  BY <1>3 DEF RecordMiningFromReceipt
<1>4. ASSUME NEW r \in Receipts, SettleFinalizedReceipt(r, "Finalized")
      PROVE  UNCHANGED bond
  BY <1>4 DEF SettleFinalizedReceipt
<1>5. ASSUME DirectStep
      PROVE  UNCHANGED bond
  BY <1>5 DEF DirectStep, InitializeMasterpool, MintGenesisSupply, UpdateConfig, SetPauseFlags,
       RegisterProvider, ExitProvider, MaterializeRewardRelease, ReleaseToUser, ReleaseToProvider,
       ClaimUserClaw, ClaimProviderClaw, Approve
<1>6. ASSUME MasterpoolTick \/ UNCHANGED masterpool_vars \/ UNCHANGED vars
      PROVE  UNCHANGED bond
  BY <1>6 DEF MasterpoolTick, masterpool_vars, vars
<1>7. ASSUME UNCHANGED bond
      PROVE  BondsPaired'
  BY <1>7 DEF BondsPaired
<1>8. ASSUME CrossProgramStep
      PROVE  BondsPaired'
  BY <1>1, <1>2, <1>3, <1>4, <1>7, <1>8 DEF CrossProgramStep, Submit, Finalize, Resolve, TimeoutReject
<1> QED
  BY <1>5, <1>6, <1>7, <1>8 DEF ClawfarmNext

LEMMA PairedInit == SystemInit => BondsPaired
BY DEF SystemInit, Init, MasterpoolInit, BondsPaired

LEMMA SystemPairedStep ==
  BondsPaired /\ BooksInv /\ FaucetTypeOK /\ [SystemNext]_system_vars => BondsPaired'
<1> SUFFICES ASSUME BondsPaired, BooksInv, FaucetTypeOK, [SystemNext]_system_vars
             PROVE  BondsPaired'
  OBVIOUS
<1>0. TypeInv /\ BooksClose
  BY DEF BooksInv
<1>1. CASE FaucetStep
  <2>1. FaucetSpares
    BY <1>0, <1>1, FaucetBooks
  <2> QED
    BY <2>1 DEF FaucetSpares, BondsPaired
<1>2. CASE [ClawfarmNext]_vars
  BY <1>0, <1>2, PairedStep
<1>3. FaucetStep \/ [ClawfarmNext]_vars
  BY DEF SystemNext, system_vars, vars
<1> QED
  BY <1>1, <1>2, <1>3

\* Every check that resolve_challenge makes in the two programs on an open
\* challenge: those of a rejection, and, when the reward vault holds the slash,
\* those of an upheld challenge.  The rest of Resolve is what it writes.
DisputesPassChecks ==
    \A r \in Receipts :
        ChallengeIs(r, "Open") /\ Running("challenge_processing") =>
            LET b == Terms(bond[r]) IN
            /\ receipt[r] # None
            /\ Resolvable(r, r) /\ Covered(r)
            /\ b.challenger_reward_amount + b.burn_amount = b.slash_claw_amount_snapshot

\* The bond vault holds at least the bond of an open dispute, and the provider's
\* counter counts it.
LEMMA OpenDisputeBacked ==
  ASSUME TypeInv, LedgerInv, BondsPaired, NEW r \in Receipts, Recorded(r), BondLocked(r),
         NEW s, s = settlement[r], NEW b, b = bond[r]
  PROVE  /\ b.attestation_receipt = r
         /\ b.challenger_reward_amount + b.burn_amount = b.slash_claw_amount_snapshot
         /\ provider[s.provider_wallet].unresolved_challenge_count >= 1
         /\ vault.challenge_bond >= b.bond_amount
<1> DEFINE p == s.provider_wallet
<1>1. r \in Challenges
  BY ClawfarmAssumption
<1>2. p \in Providers /\ provider[p] # None
  BY SettlementFacts, NoneAssumption DEF Recorded, HasStatus
<1>3. bond[r] # None
  BY DEF BondLocked, HasStatus
<1>4. /\ b.attestation_receipt = r /\ b.provider_wallet = p
      /\ b.challenger_reward_amount + b.burn_amount = b.slash_claw_amount_snapshot
  BY <1>1, <1>3 DEF LedgerInv, ExitInv, ClawInv, BondsPaired, BondsKnown, SlashesSplit
<1>5. provider[p].unresolved_challenge_count >= 1
  <2>1. r \in OpenBonds(p)
    BY <1>1, <1>4 DEF OpenBonds
  <2>2. IsFiniteSet(OpenBonds(p)) /\ Cardinality(OpenBonds(p)) \in Nat
    BY OpenFinite
  <2>3. Cardinality(OpenBonds(p)) # 0
    BY <2>1, <2>2, FS_EmptySet
  <2>4. provider[p].unresolved_challenge_count = Cardinality(OpenBonds(p))
    BY <1>2 DEF LedgerInv, ExitInv, ObligationCounts, OpenBonds
  <2> QED
    BY <2>2, <2>3, <2>4
<1>6. vault.challenge_bond >= b.bond_amount
  <2>1. /\ IsFiniteSet(Challenges) /\ Helds \in [Challenges -> Nat]
        /\ BondsHeld = Total(Challenges, Helds) /\ BondsHeld \in Nat
    BY HeldsType
  <2>2. Helds[r] <= BondsHeld
    BY <1>1, <2>1, TotalBounds
  <2>3. Helds[r] = b.bond_amount
    BY <1>1 DEF Helds, Held
  <2>4. vault.challenge_bond = BondsHeld
    BY DEF LedgerInv, BondsBacked
  <2> QED
    BY <2>1, <2>2, <2>3, <2>4
<1> QED
  BY <1>4, <1>5, <1>6

\* For every instance: nothing that can happen in between, with receipts, claims,
\* exits, closed accounts, new parameters or the faucet, makes a check of
\* resolve_challenge or timeout_reject_challenge fail on an open challenge, except
\* that to uphold it the reward vault must hold the slash.
THEOREM SystemDisputesPass == SystemSpec => []DisputesPassChecks
<1>1. AgreementInv /\ BooksInv /\ BondsPaired => DisputesPassChecks
  <2> SUFFICES ASSUME AgreementInv, BooksInv, BondsPaired, NEW r \in Receipts,
                      ChallengeIs(r, "Open"), Running("challenge_processing"),
                      NEW b, b = Terms(bond[r])
               PROVE  /\ receipt[r] # None
                      /\ Resolvable(r, r) /\ Covered(r)
                      /\ b.challenger_reward_amount + b.burn_amount
                           = b.slash_claw_amount_snapshot
    BY DEF DisputesPassChecks
  <2>1. receipt[r] # None /\ Recorded(r) /\ BondLocked(r)
    BY DEF AgreementInv, ClawfarmInv, Agree, ReceiptMatches, ChallengeMatches, ReceiptIs, HasStatus
  <2> QED
    BY <2>1, RecordedCovered, OpenDisputeBacked DEF BooksInv, Resolvable, Terms
<1>2. SystemSpec => []BooksInv
  BY SystemImplementsFaucet, BooksInvAlways, PTL
<1>3. SystemSpec => []FaucetTypeOK
  BY SystemImplementsFaucet, FaucetTypeCorrect, PTL
<1>4. SystemSpec => []BondsPaired
  BY <1>2, <1>3, PairedInit, SystemPairedStep, PTL DEF SystemSpec
<1> QED
  BY <1>1, <1>2, <1>4, AgreementInvAlways, PTL

\* The check SystemDisputesPass leaves out: the reward vault holds the slash of an open
\* challenge while it fits, with all booked, slashed and given away, in what was minted.
SlashesCovered ==
    \A r \in Receipts :
        /\ ChallengeIs(r, "Open")
        /\ BookedRewards + AllSlashed + VaultShort + bond[r].slash_claw_amount_snapshot <= Minted
        => vault.reward >= bond[r].slash_claw_amount_snapshot

\* For every instance: a challenge can be upheld whatever was claimed before it, for
\* claims only pay what was booked; only new bookings and the faucet use up the slash.
THEOREM SystemSlashesCovered == SystemSpec => []SlashesCovered
<1>1. AgreementInv /\ BooksInv => SlashesCovered
  <2> SUFFICES ASSUME AgreementInv, BooksInv, NEW r \in Receipts, ChallengeIs(r, "Open"),
                      NEW slash, slash = bond[r].slash_claw_amount_snapshot,
                      BookedRewards + AllSlashed + VaultShort + slash <= Minted
               PROVE  vault.reward >= slash
    BY DEF SlashesCovered
  <2>1. TypeInv /\ UsersAgree /\ ProvidersAgree /\ BookedInv
    BY DEF BooksInv, LedgerInv
  <2>2. BondLocked(r) /\ r \in Challenges
    BY ClawfarmAssumption DEF AgreementInv, ClawfarmInv, Agree, ChallengeMatches
  <2>3. slash \in Nat
    BY <2>1, <2>2, WidthFacts DEF BondLocked, HasStatus, TypeInv, TypeOK, ChallengeBondRecord
  <2>4. Owed \in Nat /\ BookedRewards \in Nat /\ BookedRewards = Owed + Claimed
    BY <2>1, OwedIsBooked
  <2>5. AllSlashed \in Nat /\ Claimed \in Nat /\ Minted \in Nat /\ vault.reward \in Nat
    BY <2>1, ClawTermsType
  <2> QED
    BY <2>3, <2>4, <2>5 DEF VaultShort
<1>2. SystemSpec => []BooksInv
  BY SystemImplementsFaucet, BooksInvAlways, PTL
<1> QED
  BY <1>1, <1>2, AgreementInvAlways, PTL

-----------------------------------------------------------------------------
(* No escrow is stranded, no addition overflows                              *)

\* While a receipt's money is in escrow the attestation program still has the receipt,
\* and it waits for its window, can be finalized, or has an open challenge.
NeverStranded ==
    \A r \in Receipts : Recorded(r) =>
        /\ receipt[r] # None
        /\ \/ ReceiptIs(r, "Submitted") /\ now <= receipt[r].challenge_deadline
           \/ Finalizable(r)
           \/ ChallengeIs(r, "Open")

\* For every instance: no order of finalizing, challenging, resolving, timing out and
\* closing accounts leaves money in escrow that no instruction would ever move.  What
\* moves it passes its checks by the two theorems above.
THEOREM SystemNeverStrands == SystemSpec => []NeverStranded
<1>1. AgreementInv /\ BooksInv => NeverStranded
  <2> SUFFICES ASSUME AgreementInv, BooksInv, NEW r \in Receipts, Recorded(r)
               PROVE  /\ receipt[r] # None
                      /\ \/ ReceiptIs(r, "Submitted") /\ now <= receipt[r].challenge_deadline
                         \/ Finalizable(r)
                         \/ ChallengeIs(r, "Open")
    BY DEF NeverStranded
  <2>1. ReceiptMatches(r) /\ AttestationTypeOK /\ now \in Nat
    BY DEF AgreementInv, ClawfarmInv, Agree, BooksInv, TypeInv, TypeOK
  <2>2. ~FinalizedSettled(r) /\ ~ChallengedReverted(r) /\ settlement[r] # None
    BY NoneAssumption DEF Recorded, FinalizedSettled, ChallengedReverted, HasStatus
  <2>3. receipt[r] # None /\ receipt[r] \in Receipt
    BY <2>1, <2>2 DEF ReceiptMatches, AttestationTypeOK
  <2>4. receipt[r].challenge_deadline \in Nat
    BY <2>3 DEF Receipt
  <2>5. receipt[r].status \in {"Submitted", "Challenged", "Finalized", "Rejected", "Slashed"}
    BY <2>3 DEF Receipt, ReceiptStatuses
  <2>6. CASE receipt[r].status = "Submitted"
    BY <2>1, <2>3, <2>4, <2>6 DEF ReceiptIs, HasStatus, Finalizable
  <2>7. CASE receipt[r].status = "Challenged"
    BY <2>1, <2>3, <2>7 DEF ReceiptMatches, ReceiptIs, HasStatus
  <2>8. CASE receipt[r].status = "Finalized"
    BY <2>1, <2>2, <2>3, <2>8 DEF ReceiptMatches, ReceiptIs, HasStatus, Finalizable
  <2>9. CASE receipt[r].status \in {"Rejected", "Slashed"}
    BY <2>1, <2>2, <2>3, <2>9 DEF ReceiptMatches, ReceiptIs, HasStatus
  <2> QED
    BY <2>3, <2>5, <2>6, <2>7, <2>8, <2>9
<1>2. SystemSpec => []BooksInv
  BY SystemImplementsFaucet, BooksInvAlways, PTL
<1> QED
  BY <1>1, <1>2, AgreementInvAlways, PTL

\* The check SystemFinalizationsPass leaves out.
SettlementsFit ==
    BookedRewards <= MAX_U64 => \A r \in Receipts : Recorded(r) => LockedFits(settlement[r])

\* For every instance: settling a receipt can overflow a locked total only once more
\* rewards are booked than one u64 holds, whatever was reverted, released or claimed.
THEOREM SystemSettlementsFit == SystemSpec => []SettlementsFit
<1>1. BooksInv => SettlementsFit
  BY RecordedCovered, LockedWithin DEF BooksInv, LedgerInv, SettlementsFit
<1> QED
  BY <1>1, SystemImplementsFaucet, BooksInvAlways, PTL

\* Every check materialize_reward_release makes on an amount that has vested and has
\* not been released, for either party; the width of the released total is conditional.
ReleasesPassChecks ==
    \A r \in Receipts, amount \in Nat : FinalizedSettled(r) =>
        LET s == settlement[r]
            u == s.payer_user
            p == s.provider_wallet
        IN
        /\ s.reward_lock_started_at > 0
        /\ amount <= Releasable(s.claw_to_user, s.user_claw_released,
                                s.reward_lock_started_at, now, s.lock_days_snapshot) =>
             /\ user_reward[u].locked >= amount
             /\ BookedRewards <= MAX_U64 => FitsU64(user_reward[u].released + amount)
        /\ amount <= Releasable(s.claw_to_provider_locked, s.provider_claw_released,
                                s.reward_lock_started_at, now, s.lock_days_snapshot) =>
             /\ provider_reward[p].locked >= amount
             /\ BookedRewards <= MAX_U64 => FitsU64(provider_reward[p].released + amount)

\* For every instance: what has vested of a receipt can be released.  The locked total
\* of an account is drawn on by all its receipts, and none of them draws another's part.
THEOREM SystemReleasesPass == SystemSpec => []ReleasesPassChecks
<1>1. BooksInv => ReleasesPassChecks
  <2> SUFFICES ASSUME BooksInv, NEW r \in Receipts, NEW amount \in Nat, FinalizedSettled(r),
                      NEW s, s = settlement[r], NEW u, u = s.payer_user,
                      NEW p, p = s.provider_wallet
               PROVE  /\ s.reward_lock_started_at > 0
                      /\ amount <= Releasable(s.claw_to_user, s.user_claw_released,
                                     s.reward_lock_started_at, now, s.lock_days_snapshot) =>
                           /\ user_reward[u].locked >= amount
                           /\ BookedRewards <= MAX_U64 => FitsU64(user_reward[u].released + amount)
                      /\ amount <= Releasable(s.claw_to_provider_locked, s.provider_claw_released,
                                     s.reward_lock_started_at, now, s.lock_days_snapshot) =>
                           /\ provider_reward[p].locked >= amount
                           /\ BookedRewards <= MAX_U64 =>
                                FitsU64(provider_reward[p].released + amount)
    BY DEF ReleasesPassChecks
  <2>1. /\ TypeInv /\ ReleasedWithinVested /\ UsersAgree /\ ProvidersAgree
        /\ BookedInv /\ LocksStarted
    BY DEF BooksInv, LedgerInv
  <2>2. s.reward_lock_started_at > 0
    <3>1. now \in Nat /\ s.reward_lock_started_at \in 1..now
      BY <2>1 DEF LocksStarted, TypeInv, TypeOK
    <3> QED
      BY <3>1
  <2> QED
    BY <2>1, <2>2, UserReleaseWithin, ProviderReleaseWithin
<1> QED
  BY <1>1, SystemImplementsFaucet, BooksInvAlways, PTL

\* A provider that may leave finds its stake.
ExitsPassChecks ==
    \A p \in Providers :
        MayExit(provider[p]) => vault.provider_stake >= provider[p].staked_usdc_amount

\* For every instance: the one stake vault always holds the stake of a provider whose
\* counters and position let it go, whoever left before and on what terms.
THEOREM SystemExitsPass == SystemSpec => []ExitsPassChecks
<1>1. BooksInv => ExitsPassChecks
  <2> SUFFICES ASSUME BooksInv, NEW p \in Providers, MayExit(provider[p])
               PROVE  vault.provider_stake >= provider[p].staked_usdc_amount
    BY DEF ExitsPassChecks
  <2>1. TypeInv /\ StakesBacked
    BY DEF BooksInv, LedgerInv
  <2>2. /\ IsFiniteSet(Providers) /\ Stakes \in [Providers -> Nat]
        /\ Staked = Total(Providers, Stakes) /\ Staked \in Nat
        /\ vault.provider_stake \in Nat
    BY <2>1, StakesType
  <2>3. Stakes[p] <= Staked
    BY <2>2, TotalBounds
  <2>4. Stakes[p] = provider[p].staked_usdc_amount
    BY NoneAssumption DEF MayExit, HasStatus, Stakes, Stake
  <2>5. Stakes[p] \in Nat
    BY <2>2
  <2> QED
    BY <2>1, <2>2, <2>3, <2>4, <2>5 DEF StakesBacked
<1> QED
  BY <1>1, SystemImplementsFaucet, BooksInvAlways, PTL

\* The checked additions of record_mining_from_receipt, for a payer that has the USDC.
\* The hypotheses are the widths themselves: a USDC mint and a number of receipts that
\* a u64 counts, and rewards that still fit when the new ones are booked.
RecordingsFit ==
    \A r \in Receipts, u \in Users, p \in Providers, total \in Charges :
        LET s == NewSettlement(u, p, total) IN
        /\ Recordable(r, total) /\ HasStatus(provider[p], "Active") /\ usdc[u] >= total
        /\ Total(Holders, InitialUsdc) <= MAX_U64 /\ Cardinality(Receipts) <= MAX_U64
        /\ BookedRewards + s.claw_to_user + s.claw_to_provider_locked <= MAX_U64
        => TotalsFit(s)

\* The escrow of a provider takes the share: together with the payer's wallet it is
\* part of the USDC there is.
LEMMA EscrowTakes ==
  ASSUME BooksInv, FaucetTypeOK, NEW u \in Users, NEW p \in Providers, provider[p] # None,
         NEW part \in Nat, part <= usdc[u], Total(Holders, InitialUsdc) <= MAX_U64
  PROVE  FitsU64(provider[p].pending_provider_usdc + part)
<1>1. TypeInv /\ EscrowBacked /\ BooksClose
  BY DEF BooksInv, LedgerInv
<1>2. /\ usdc \in [Holders -> Nat] /\ Total(Holders, usdc) \in Nat
      /\ vault.treasury \in Nat /\ vault.provider_stake \in Nat /\ vault.provider_pending \in Nat
      /\ faucet_vault["usdc"] \in Nat
  BY <1>1, BooksType
<1>3. u \in Holders /\ IsFiniteSet(Holders) /\ MAX_U64 \in Nat
  BY HoldersType, MasterpoolAssumption, Phase1MathAssumption
<1>4. usdc[u] <= Total(Holders, usdc) /\ usdc[u] \in Nat
  BY <1>2, <1>3, TotalBounds
<1>5. provider[p].pending_provider_usdc <= vault.provider_pending
  <2>1. /\ IsFiniteSet(Receipts) /\ Shares \in [Receipts -> Nat]
        /\ AllEscrowed = Total(Receipts, Shares)
        /\ SharesOf(p) \in [Receipts -> Nat] /\ Escrowed(p) = Total(Receipts, SharesOf(p))
    BY <1>1, SharesType
  <2>2. \A x \in Receipts : SharesOf(p)[x] <= Shares[x]
    <3> SUFFICES ASSUME NEW x \in Receipts PROVE SharesOf(p)[x] <= Shares[x]
      OBVIOUS
    <3>1. SharesOf(p)[x] = Shares[x] \/ SharesOf(p)[x] = 0
      BY DEF Shares, SharesOf, Share, ShareOf
    <3>2. Shares[x] \in Nat
      BY <2>1
    <3> QED
      BY <3>1, <3>2
  <2>3. Escrowed(p) <= AllEscrowed
    BY <2>1, <2>2, TotalMonotone
  <2> QED
    BY <1>1, <2>3 DEF EscrowBacked
<1>6. provider[p].pending_provider_usdc \in Nat
  BY <1>1, WidthFacts DEF TypeInv, TypeOK, ProviderAccount
<1>7. Total(Holders, usdc) + vault.treasury + vault.provider_stake + vault.provider_pending
        + faucet_vault["usdc"] = Total(Holders, InitialUsdc)
  BY <1>1 DEF BooksClose, UsdcHeld
<1>8. provider[p].pending_provider_usdc + part \in 0..MAX_U64
  BY <1>2, <1>3, <1>4, <1>5, <1>6, <1>7
<1> QED
  BY <1>8 DEF FitsU64, U64

\* The counter of unsettled receipts takes one more.
LEMMA CounterTakes ==
  ASSUME BooksInv, NEW r \in Receipts, settlement[r] = None, NEW p \in Providers,
         provider[p] # None, Cardinality(Receipts) <= MAX_U64
  PROVE  FitsU64(provider[p].unsettled_receipt_count + 1)
<1>1. ObligationCounts /\ IsFiniteSet(Receipts) /\ MAX_U64 \in Nat
  BY MasterpoolAssumption, Phase1MathAssumption DEF BooksInv, LedgerInv, ExitInv
<1>2. provider[p].unsettled_receipt_count = Cardinality(OpenReceipts(p))
  BY <1>1 DEF ObligationCounts, OpenReceipts
<1>3. IsFiniteSet(OpenReceipts(p)) /\ Cardinality(OpenReceipts(p)) \in Nat
  BY OpenFinite
<1>4. r \notin OpenReceipts(p)
  BY NoneAssumption DEF OpenReceipts, Recorded, HasStatus
<1>5. Cardinality(OpenReceipts(p) \cup {r}) = Cardinality(OpenReceipts(p)) + 1
  BY <1>3, <1>4, FS_AddElement
<1>6. OpenReceipts(p) \cup {r} \subseteq Receipts
  BY DEF OpenReceipts
<1>7. Cardinality(OpenReceipts(p) \cup {r}) <= Cardinality(Receipts)
  BY <1>1, <1>6, FS_Subset
<1>8. Cardinality(Receipts) \in Nat
  BY <1>1, FS_CardinalityType
<1>9. provider[p].unsettled_receipt_count + 1 \in 0..MAX_U64
  BY <1>1, <1>2, <1>3, <1>5, <1>7, <1>8
<1> QED
  BY <1>9 DEF FitsU64, U64

\* For every instance: recording overflows no running total of a party before the
\* rewards booked, the USDC there is, or the receipts themselves outgrow a u64.
THEOREM SystemRecordingsFit == SystemSpec => []RecordingsFit
<1>1. BooksInv /\ FaucetTypeOK => RecordingsFit
  <2> SUFFICES ASSUME BooksInv, FaucetTypeOK, NEW r \in Receipts, NEW u \in Users,
                      NEW p \in Providers, NEW total \in Charges,
                      NEW s, s = NewSettlement(u, p, total),
                      Recordable(r, total), HasStatus(provider[p], "Active"), usdc[u] >= total,
                      Total(Holders, InitialUsdc) <= MAX_U64, Cardinality(Receipts) <= MAX_U64,
                      BookedRewards + s.claw_to_user + s.claw_to_provider_locked <= MAX_U64
               PROVE  TotalsFit(s)
    BY DEF RecordingsFit
  <2>1. TypeInv /\ BookedInv
    BY DEF BooksInv, LedgerInv
  <2>2. FitsU64(s.claw_to_user + s.claw_to_provider_total)
    BY <2>1, NewRewardsFit
  <2>3. /\ s \in ReceiptSettlement /\ s.payer_user = u /\ s.provider_wallet = p
        /\ s.usdc_to_treasury + s.usdc_to_provider = total
    BY <2>1, <2>2, NewSettlementFacts
  <2>4. /\ s.claw_to_user \in Nat /\ s.claw_to_provider_locked \in Nat
        /\ s.usdc_to_treasury \in Nat /\ s.usdc_to_provider \in Nat /\ MAX_U64 \in Nat
    BY <2>3, WidthFacts, Phase1MathAssumption DEF ReceiptSettlement
  <2>5. /\ user_reward[u].pending + s.claw_to_user \in 0..MAX_U64
        /\ provider_reward[p].pending + s.claw_to_provider_locked \in 0..MAX_U64
    BY <2>1, <2>4, BookedBounds DEF BookedRewards
  <2>6. provider[p] # None /\ settlement[r] = None
    BY NoneAssumption DEF HasStatus, Recordable
  <2>7. s.usdc_to_provider <= usdc[u]
    <3>1. usdc[u] \in Nat
      BY <2>1, HoldersType DEF TypeInv, TypeOK
    <3> QED
      BY <2>3, <2>4, <3>1
  <2>8. FitsU64(provider[p].pending_provider_usdc + s.usdc_to_provider)
    BY <2>4, <2>6, <2>7, EscrowTakes
  <2>9. FitsU64(provider[p].unsettled_receipt_count + 1)
    BY <2>6, CounterTakes
  <2> QED
    BY <2>2, <2>3, <2>5, <2>8, <2>9 DEF TotalsFit, FitsU64, U64
<1>2. SystemSpec => []BooksInv
  BY SystemImplementsFaucet, BooksInvAlways, PTL
<1>3. SystemSpec => []FaucetTypeOK
  BY SystemImplementsFaucet, FaucetTypeCorrect, PTL
<1> QED
  BY <1>1, <1>2, <1>3, PTL
=============================================================================
