----------------------------- MODULE AmountProofs -----------------------------
(***************************************************************************)
(* Facts about amounts, for every amount, rate and lock period.  Total,    *)
(* the sum every ledger invariant is stated with, is a natural number,     *)
(* changes by what one summand changes, is zero when all summands are, and *)
(* is at least each of them.  Of the integer arithmetic of utils.rs: a     *)
(* split never exceeds what it splits, and vesting is bounded by the       *)
(* locked amount and never runs backward.                                  *)
(***************************************************************************)
EXTENDS AtomicSums, Phase1Math, FiniteSetTheorems, FunctionTheorems, TLAPS

(* Sums *)

\* The units of one element.
LEMMA UnitsOfOne ==
  ASSUME NEW x, NEW n \in Nat
  PROVE  /\ IsFiniteSet({x} \X (1..n))
         /\ Cardinality({x} \X (1..n)) = n
<1>1. IsFiniteSet({x}) /\ Cardinality({x}) = 1
  BY FS_Singleton
<1>2. IsFiniteSet(1..n) /\ Cardinality(1..n) = n
  BY FS_Interval
<1>3. /\ IsFiniteSet({x} \X (1..n))
      /\ Cardinality({x} \X (1..n)) = Cardinality({x}) * Cardinality(1..n)
  <2> DEFINE A == {x}
             B == 1..n
  <2> HIDE DEF A, B
  <2>1. IsFiniteSet(A) /\ IsFiniteSet(B)
    BY <1>1, <1>2 DEF A, B
  <2> QED
    BY <2>1, FS_Product DEF A, B
<1>4. 1 * n = n
  OBVIOUS
<1> QED
  BY <1>1, <1>2, <1>3, <1>4

\* A sum of natural numbers over a finite set is a natural number.
LEMMA TotalType ==
  ASSUME NEW S, IsFiniteSet(S), NEW f \in [S -> Nat]
  PROVE  IsFiniteSet(Units(S, f)) /\ Total(S, f) \in Nat
<1> DEFINE T == {{x} \X (1..f[x]) : x \in S}
           g == [x \in S |-> {x} \X (1..f[x])]
<1>1. g \in Surjection(S, T)
  BY DEF Surjection
<1>2. IsFiniteSet(T)
  <2> HIDE DEF T, g
  <2> QED BY <1>1, FS_Surjection
<1>3. \A u \in T : IsFiniteSet(u)
  <2> SUFFICES ASSUME NEW x \in S PROVE IsFiniteSet({x} \X (1..f[x]))
    OBVIOUS
  <2> f[x] \in Nat
    OBVIOUS
  <2> QED BY UnitsOfOne
<1>4. IsFiniteSet(UNION T)
  <2> HIDE DEF T
  <2> QED BY <1>2, <1>3, FS_UNION
<1> QED
  BY <1>4, FS_CardinalityType DEF Units, Total

\* One summand apart, the sum is that of the others.
LEMMA TotalSplit ==
  ASSUME NEW S, IsFiniteSet(S), NEW f \in [S -> Nat], NEW x \in S
  PROVE  /\ Cardinality(Units(S \ {x}, f)) \in Nat
         /\ Total(S, f) = Cardinality(Units(S \ {x}, f)) + f[x]
<1> DEFINE A == Units(S \ {x}, f)
           B == {x} \X (1..f[x])
<1>1. Units(S, f) = A \cup B
  BY DEF Units
<1>2. A \cap B = {}
  BY DEF Units
<1>3. IsFiniteSet(Units(S, f))
  BY TotalType
<1>4. IsFiniteSet(A)
  <2> HIDE DEF A, B
  <2> QED BY <1>1, <1>3, FS_Subset
<1>5. IsFiniteSet(B) /\ Cardinality(B) = f[x]
  <2> f[x] \in Nat
    OBVIOUS
  <2> QED BY UnitsOfOne
<1>6. Cardinality({}) = 0
  BY FS_EmptySet
<1>7. Cardinality(A) \in Nat
  BY <1>4, FS_CardinalityType
<1>8. Cardinality(A \cup B) = Cardinality(A) + Cardinality(B) - Cardinality(A \cap B)
  <2> HIDE DEF A, B
  <2> QED BY <1>4, <1>5, FS_Union
<1>9. Cardinality(A \cap B) = 0
  BY <1>2, <1>6
<1>10. Cardinality(A \cup B) = Cardinality(A) + f[x]
  <2>1. f[x] \in Nat
    OBVIOUS
  <2> HIDE DEF A, B
  <2> QED BY <2>1, <1>5, <1>7, <1>8, <1>9
<1> QED
  BY <1>1, <1>7, <1>10 DEF Total

\* Changing one summand changes the sum by the difference.
LEMMA TotalChange ==
  ASSUME NEW S, IsFiniteSet(S), NEW f \in [S -> Nat], NEW g \in [S -> Nat],
         NEW x \in S, \A y \in S \ {x} : g[y] = f[y]
  PROVE  Total(S, g) = Total(S, f) + g[x] - f[x]
<1>1. Units(S \ {x}, g) = Units(S \ {x}, f)
  BY DEF Units
<1>2. /\ Cardinality(Units(S \ {x}, f)) \in Nat
      /\ Total(S, f) = Cardinality(Units(S \ {x}, f)) + f[x]
  BY TotalSplit
<1>3. Total(S, g) = Cardinality(Units(S \ {x}, g)) + g[x]
  BY TotalSplit
<1>4. f[x] \in Nat /\ g[x] \in Nat
  OBVIOUS
<1> QED
  BY <1>1, <1>2, <1>3, <1>4

\* Adding to one summand, or taking from it, does the same to the sum.
LEMMA TotalAdd ==
  ASSUME NEW S, IsFiniteSet(S), NEW f \in [S -> Nat], NEW x \in S, NEW g \in [S -> Nat],
         NEW n \in Nat, g[x] = f[x] + n, \A y \in S \ {x} : g[y] = f[y]
  PROVE  Total(S, g) = Total(S, f) + n
<1>1. Total(S, g) = Total(S, f) + g[x] - f[x]
  BY TotalChange
<1>2. Total(S, f) \in Nat /\ f[x] \in Nat
  BY TotalType
<1> QED
  BY <1>1, <1>2

LEMMA TotalSubtract ==
  ASSUME NEW S, IsFiniteSet(S), NEW f \in [S -> Nat], NEW x \in S, NEW g \in [S -> Nat],
         NEW n \in Nat, g[x] = f[x] - n, \A y \in S \ {x} : g[y] = f[y]
  PROVE  Total(S, g) = Total(S, f) - n
<1>1. Total(S, g) = Total(S, f) + g[x] - f[x]
  BY TotalChange
<1>2. Total(S, f) \in Nat /\ f[x] \in Nat
  BY TotalType
<1> QED
  BY <1>1, <1>2

\* Sums of the same summands are the same.
LEMMA TotalSame ==
  ASSUME NEW S, NEW f, NEW g, \A x \in S : g[x] = f[x]
  PROVE  Total(S, g) = Total(S, f)
BY DEF Total, Units

\* A sum of zeros is zero.
LEMMA TotalZero ==
  ASSUME NEW S, NEW f, \A x \in S : f[x] = 0
  PROVE  Total(S, f) = 0
<1>1. Units(S, f) = {}
  BY DEF Units
<1> QED
  BY <1>1, FS_EmptySet DEF Total

\* No summand exceeds the sum.
LEMMA TotalBounds ==
  ASSUME NEW S, IsFiniteSet(S), NEW f \in [S -> Nat], NEW x \in S
  PROVE  f[x] <= Total(S, f)
<1>1. /\ Cardinality(Units(S \ {x}, f)) \in Nat
      /\ Total(S, f) = Cardinality(Units(S \ {x}, f)) + f[x]
  BY TotalSplit
<1>2. f[x] \in Nat
  OBVIOUS
<1> QED
  BY <1>1, <1>2

\* The sum of a sum: units of the second summand are counted after those of the first.
LEMMA TotalPlus ==
  ASSUME NEW S, IsFiniteSet(S), NEW f \in [S -> Nat], NEW g \in [S -> Nat],
         NEW h \in [S -> Nat], \A x \in S : f[x] = g[x] + h[x]
  PROVE  Total(S, f) = Total(S, g) + Total(S, h)
<1> DEFINE A == Units(S, g)
           H == Units(S, h)
           B == {e \in Units(S, f) : e[2] > g[e[1]]}
           shift == [e \in H |-> <<e[1], e[2] + g[e[1]]>>]
<1>1. IsFiniteSet(Units(S, f)) /\ IsFiniteSet(A) /\ IsFiniteSet(H)
  BY TotalType
<1>2. ASSUME NEW u \in [S -> Nat]
      PROVE  \A e : e \in Units(S, u) <=>
                      \E x \in S, i \in Nat : e = <<x, i>> /\ 1 <= i /\ i <= u[x]
  BY DEF Units
<1>3. \A e : e \in Units(S, f) <=>
               \E x \in S, i \in Nat : e = <<x, i>> /\ 1 <= i /\ i <= f[x]
  BY <1>2
<1>4. \A e : e \in A <=> \E x \in S, i \in Nat : e = <<x, i>> /\ 1 <= i /\ i <= g[x]
  BY <1>2
<1>5. \A e : e \in H <=> \E x \in S, i \in Nat : e = <<x, i>> /\ 1 <= i /\ i <= h[x]
  BY <1>2
<1>6. \A x \in S : f[x] \in Nat /\ g[x] \in Nat /\ h[x] \in Nat
  OBVIOUS
<1>7. \A e : e \in B <=> \E x \in S, i \in Nat : e = <<x, i>> /\ g[x] < i /\ i <= f[x]
  <2>1. ASSUME NEW e \in B
        PROVE  \E x \in S, i \in Nat : e = <<x, i>> /\ g[x] < i /\ i <= f[x]
    <3>1. PICK x \in S, i \in Nat : e = <<x, i>> /\ 1 <= i /\ i <= f[x]
      BY <1>3
    <3>2. e[1] = x /\ e[2] = i
      BY <3>1
    <3> QED
      BY <1>6, <3>1, <3>2
  <2>2. ASSUME NEW e, NEW x \in S, NEW i \in Nat, e = <<x, i>>, g[x] < i, i <= f[x]
        PROVE  e \in B
    <3>1. e[1] = x /\ e[2] = i /\ 1 <= i
      BY <1>6, <2>2
    <3>2. e \in Units(S, f)
      BY <1>3, <2>2, <3>1
    <3> QED
      BY <2>2, <3>1, <3>2, <1>6
  <2> HIDE DEF B
  <2> QED
    BY <2>1, <2>2
<1>8. ExistsBijection(H, B)
  <2>1. ASSUME NEW e \in H
        PROVE  /\ shift[e] \in B
               /\ \E x \in S, i \in Nat : e = <<x, i>> /\ shift[e] = <<x, i + g[x]>>
    <3>1. PICK x \in S, i \in Nat : e = <<x, i>> /\ 1 <= i /\ i <= h[x]
      BY <1>5
    <3>2. shift[e] = <<x, i + g[x]>>
      BY <3>1
    <3>3. i + g[x] \in Nat /\ g[x] < i + g[x] /\ i + g[x] <= f[x]
      BY <1>6, <3>1
    <3> HIDE DEF B, shift, H
    <3>4. shift[e] \in B
      BY <1>7, <3>2, <3>3
    <3> QED
      BY <3>1, <3>2, <3>4
  <2>2. shift \in [H -> B]
    BY <2>1
  <2>3. ASSUME NEW d \in H, NEW e \in H, shift[d] = shift[e]
        PROVE  d = e
    <3>1. PICK x \in S, i \in Nat : d = <<x, i>> /\ shift[d] = <<x, i + g[x]>>
      BY <2>1
    <3>2. PICK y \in S, j \in Nat : e = <<y, j>> /\ shift[e] = <<y, j + g[y]>>
      BY <2>1
    <3> HIDE DEF B, shift, H
    <3>3. x = y /\ i + g[x] = j + g[x]
      BY <2>3, <3>1, <3>2
    <3>4. i = j
      BY <1>6, <3>3
    <3> QED
      BY <3>1, <3>2, <3>3, <3>4
  <2>4. ASSUME NEW t \in B
        PROVE  \E e \in H : shift[e] = t
    <3>1. PICK x \in S, i \in Nat : t = <<x, i>> /\ g[x] < i /\ i <= f[x]
      BY <1>7
    <3>2. /\ i - g[x] \in Nat /\ 1 <= i - g[x] /\ i - g[x] <= h[x]
          /\ (i - g[x]) + g[x] = i
      BY <1>6, <3>1
    <3>3. PICK j \in Nat : j = i - g[x]
      BY <3>2
    <3>4. <<x, j>> \in H
      <4> HIDE DEF H
      <4> QED
        BY <1>5, <3>2, <3>3
    <3>5. shift[<<x, j>>] = <<x, j + g[x]>>
      BY <3>4
    <3> HIDE DEF H, shift
    <3> QED
      BY <3>1, <3>2, <3>3, <3>4, <3>5
  <2> HIDE DEF B, shift, H
  <2>5. shift \in Bijection(H, B)
    BY <2>2, <2>3, <2>4, Fun_IsBij
  <2> QED
    BY <2>5 DEF ExistsBijection
<1>9. A \cup B = Units(S, f) /\ A \cap B = {}
  <2>1. \A e : e \in A \cup B <=> e \in Units(S, f)
    <3> HIDE DEF A, B
    <3> QED
      BY <1>3, <1>4, <1>6, <1>7
  <2>2. \A e : ~(e \in A /\ e \in B)
    <3> HIDE DEF A, B
    <3> QED
      BY <1>4, <1>6, <1>7
  <2> QED
    BY <2>1, <2>2
<1> HIDE DEF A, B, H
<1>10. IsFiniteSet(B) /\ Cardinality(B) = Cardinality(H)
  BY <1>1, <1>8, FS_Bijection
<1>11. Cardinality(A \cup B) = Cardinality(A) + Cardinality(B) - Cardinality(A \cap B)
  BY <1>1, <1>10, FS_Union
<1>12. Cardinality(A) \in Nat /\ Cardinality(H) \in Nat
  BY <1>1, FS_CardinalityType
<1>13. Cardinality(A \cap B) = 0
  BY <1>9, FS_EmptySet
<1>14. Cardinality(A \cup B) = Cardinality(A) + Cardinality(H)
  BY <1>10, <1>11, <1>12, <1>13
<1>15. Total(S, f) = Cardinality(A \cup B)
  BY <1>9 DEF Total
<1>16. Total(S, g) = Cardinality(A) /\ Total(S, h) = Cardinality(H)
  BY DEF Total, A, H
<1> QED
  BY <1>14, <1>15, <1>16

\* Smaller summands have a smaller sum.
LEMMA TotalMonotone ==
  ASSUME NEW S, IsFiniteSet(S), NEW f \in [S -> Nat], NEW g \in [S -> Nat],
         \A x \in S : f[x] <= g[x]
  PROVE  Total(S, f) <= Total(S, g)
<1>1. Units(S, f) \subseteq Units(S, g)
  <2>1. ASSUME NEW x \in S
        PROVE  {x} \X (1..f[x]) \subseteq {x} \X (1..g[x])
    <3>1. f[x] \in Nat /\ g[x] \in Nat /\ f[x] <= g[x]
      OBVIOUS
    <3> QED
      BY <3>1
  <2> QED
    BY <2>1 DEF Units
<1>2. IsFiniteSet(Units(S, g))
  BY TotalType
<1> QED
  BY <1>1, <1>2, FS_Subset DEF Total

-----------------------------------------------------------------------------
(* Splits and vesting *)

\* Integer division, characterised.
LEMMA DivisionTheorem ==
  ASSUME NEW a \in Nat, NEW c \in Nat \ {0}
  PROVE  /\ a \div c \in Nat
         /\ c * (a \div c) <= a
         /\ a < c * (a \div c) + c
OBVIOUS

\* A larger factor gives a larger product, and the other way round.
LEMMA ProductGrows ==
  ASSUME NEW a \in Nat, NEW b \in Nat, NEW c \in Nat, b <= c
  PROVE  a * b <= a * c
OBVIOUS

LEMMA ProductReflects ==
  ASSUME NEW a \in Nat, NEW b \in Nat, NEW c \in Nat \ {0}, c * a < c * b + c
  PROVE  a <= b
<1>1. ASSUME b < a PROVE FALSE
  <2>1. b + 1 <= a
    BY <1>1
  <2>2. c * (b + 1) <= c * a
    BY <2>1, ProductGrows
  <2>3. c * (b + 1) = c * b + c
    OBVIOUS
  <2>4. c * a \in Int /\ c * b \in Int
    OBVIOUS
  <2> QED
    BY <2>2, <2>3, <2>4
<1> QED
  BY <1>1

\* Division by the same number keeps the order.
LEMMA DivisionGrows ==
  ASSUME NEW a \in Nat, NEW b \in Nat, NEW c \in Nat \ {0}, a <= b
  PROVE  a \div c <= b \div c
<1> DEFINE q == a \div c
           s == b \div c
<1>1. q \in Nat /\ c * q <= a
  BY DivisionTheorem
<1>2. s \in Nat /\ b < c * s + c
  BY DivisionTheorem
<1> HIDE DEF q, s
<1>3. c * q \in Int /\ c * s \in Int
  BY <1>1, <1>2
<1>4. c * q < c * s + c
  BY <1>1, <1>2, <1>3
<1>5. q <= s
  BY <1>1, <1>2, <1>4, ProductReflects
<1> QED
  BY <1>5 DEF q, s

\* The part b out of c of an amount does not exceed the amount.
LEMMA ShareBounds ==
  ASSUME NEW a \in Nat, NEW b \in Nat, NEW c \in Nat \ {0}, b <= c
  PROVE  (a * b) \div c \in 0..a
<1>1. a * b \in Nat /\ a * c \in Nat
  OBVIOUS
<1>2. a * b <= a * c
  BY ProductGrows
<1> DEFINE ab == a * b
           q == ab \div c
<1>3. q \in Nat /\ c * q <= ab
  BY <1>1, DivisionTheorem
<1>4. ab <= a * c
  BY <1>2
<1>5. ab \in Nat
  BY <1>1
<1> HIDE DEF ab, q
<1>6. a * c = c * a
  OBVIOUS
<1>7. c * q \in Int /\ c * a \in Int
  BY <1>3
<1>8. c * q < c * a + c
  BY <1>3, <1>4, <1>5, <1>6, <1>7
<1>9. q <= a
  BY <1>3, <1>8, ProductReflects
<1> QED
  BY <1>3, <1>9 DEF q, ab

\* compute_bps_amount returns a part of the amount.
LEMMA BpsAmountBounds ==
  ASSUME NEW amount \in Nat, NEW bps \in 0..BPS_SCALE
  PROVE  BpsAmount(amount, bps) \in 0..amount
<1>1. bps \in Nat /\ bps <= 1000
  BY DEF BPS_SCALE
<1> QED
  BY <1>1, ShareBounds DEF BpsAmount, BPS_SCALE

\* calculate_claw_amount returns a natural number.
LEMMA ClawAmountType ==
  ASSUME NEW usdc_amount \in Nat, NEW rate_e6 \in Nat
  PROVE  ClawAmount(usdc_amount, rate_e6) \in Nat
<1>1. usdc_amount * rate_e6 \in Nat
  OBVIOUS
<1> DEFINE n == usdc_amount * rate_e6
<1>2. n \in Nat
  BY <1>1
<1> HIDE DEF n
<1>3. n \div 1000000 \in Nat
  BY <1>2, DivisionTheorem
<1> QED
  BY <1>3 DEF n, ClawAmount, RATE_SCALE

\* Elapsed time lies within the lock period and never decreases.
LEMMA ElapsedGrows ==
  ASSUME NEW start \in Nat, NEW at \in Nat, NEW later \in Nat, at <= later,
         NEW seconds \in Nat
  PROVE  /\ Elapsed(start, at, seconds) \in 0..seconds
         /\ Elapsed(start, at, seconds) <= Elapsed(start, later, seconds)
BY DEF Elapsed, Least

\* What has vested is at most what was locked, and never decreases with time.
THEOREM VestedGrows ==
  ASSUME NEW total \in Nat, NEW start \in Nat, NEW at \in Nat, NEW later \in Nat,
         at <= later, NEW days \in Nat \ {0}
  PROVE  /\ Vested(total, start, at, days) \in 0..total
         /\ Vested(total, start, at, days) <= Vested(total, start, later, days)
<1> DEFINE seconds == days * SECONDS_PER_UTC_DAY
           e == Elapsed(start, at, seconds)
           f == Elapsed(start, later, seconds)
<1>1. seconds \in Nat \ {0}
  BY DEF SECONDS_PER_UTC_DAY
<1>2. e \in 0..seconds /\ f \in 0..seconds /\ e <= f
  <2> HIDE DEF seconds
  <2> QED BY <1>1, ElapsedGrows
<1>3. /\ Vested(total, start, at, days) = (total * e) \div seconds
      /\ Vested(total, start, later, days) = (total * f) \div seconds
  BY DEF Vested
<1> HIDE DEF seconds, e, f
<1>4. (total * e) \div seconds \in 0..total
  BY <1>1, <1>2, ShareBounds
<1>5. total * e <= total * f
  BY <1>1, <1>2, ProductGrows
<1>6. total * e \in Nat /\ total * f \in Nat
  BY <1>1, <1>2
<1>7. (total * e) \div seconds <= (total * f) \div seconds
  BY <1>1, <1>5, <1>6, DivisionGrows
<1> QED
  BY <1>3, <1>4, <1>7

\* Validated parameters split into parts of the whole.
LEMMA ValidSplits ==
  ASSUME NEW p \in Phase1ConfigParams, ValidParams(p)
  PROVE  /\ p.treasury_usdc_share_bps \in 0..BPS_SCALE
         /\ p.user_claw_share_bps \in 0..BPS_SCALE
         /\ p.challenger_reward_bps \in 0..BPS_SCALE
         /\ p.exchange_rate_claw_per_usdc_e6 \in Nat
         /\ p.lock_days \in Nat \ {0}
         /\ p.provider_slash_claw_amount \in U64
         /\ p.challenge_bond_claw_amount \in U64
<1>1. /\ p.provider_usdc_share_bps \in Nat /\ p.treasury_usdc_share_bps \in Nat
      /\ p.user_claw_share_bps \in Nat /\ p.provider_claw_share_bps \in Nat
      /\ p.challenger_reward_bps \in Nat /\ p.burn_bps \in Nat
      /\ p.exchange_rate_claw_per_usdc_e6 \in Nat /\ p.lock_days \in Nat
      /\ p.provider_slash_claw_amount \in U64 /\ p.challenge_bond_claw_amount \in U64
  BY DEF Phase1ConfigParams
<1>2. /\ p.treasury_usdc_share_bps + p.provider_usdc_share_bps = 1000
      /\ p.user_claw_share_bps + p.provider_claw_share_bps = 1000
      /\ p.challenger_reward_bps + p.burn_bps = 1000
      /\ p.lock_days > 0
  BY <1>1 DEF ValidParams, BPS_SCALE
<1>3. p.treasury_usdc_share_bps \in 0..1000
  <2> DEFINE a == p.treasury_usdc_share_bps
             b == p.provider_usdc_share_bps
  <2>1. a \in Nat /\ b \in Nat /\ a + b = 1000
    BY <1>1, <1>2
  <2> HIDE DEF a, b
  <2>2. a \in 0..1000
    BY <2>1
  <2> QED
    BY <2>2 DEF a
<1>4. p.user_claw_share_bps \in 0..1000
  <2> DEFINE a == p.user_claw_share_bps
             b == p.provider_claw_share_bps
  <2>1. a \in Nat /\ b \in Nat /\ a + b = 1000
    BY <1>1, <1>2
  <2> HIDE DEF a, b
  <2>2. a \in 0..1000
    BY <2>1
  <2> QED
    BY <2>2 DEF a
<1>5. p.challenger_reward_bps \in 0..1000
  <2> DEFINE a == p.challenger_reward_bps
             b == p.burn_bps
  <2>1. a \in Nat /\ b \in Nat /\ a + b = 1000
    BY <1>1, <1>2
  <2> HIDE DEF a, b
  <2>2. a \in 0..1000
    BY <2>1
  <2> QED
    BY <2>2 DEF a
<1> QED
  BY <1>1, <1>2, <1>3, <1>4, <1>5 DEF BPS_SCALE

\* A number divides its multiples without a remainder.
LEMMA DivisionExact ==
  ASSUME NEW a \in Nat, NEW c \in Nat \ {0}
  PROVE  (a * c) \div c = a
<1> DEFINE q == (a * c) \div c
<1>1. a * c \in Nat
  OBVIOUS
<1>2. q \in Nat /\ c * q <= a * c /\ a * c < c * q + c
  BY <1>1, DivisionTheorem
<1> HIDE DEF q
<1>3. a * c = c * a /\ c * q \in Int /\ c * a \in Int
  BY <1>2
<1>4. c * q < c * a + c /\ c * a < c * q + c
  BY <1>2, <1>3
<1>5. q <= a /\ a <= q
  BY <1>2, <1>4, ProductReflects
<1> QED
  BY <1>2, <1>5 DEF q

\* compute_linear_releasable_amount leaves no dust behind: once the lock period has
\* passed, everything that was locked has vested.
THEOREM VestsInFull ==
  ASSUME NEW total \in Nat, NEW start \in Nat, NEW days \in Nat \ {0}, NEW at \in Nat,
         at >= start + days * SECONDS_PER_UTC_DAY
  PROVE  Vested(total, start, at, days) = total
<1>1. PICK seconds \in Nat \ {0} : seconds = days * SECONDS_PER_UTC_DAY
  BY DEF SECONDS_PER_UTC_DAY
<1>2. Elapsed(start, at, seconds) = seconds
  BY <1>1 DEF Elapsed, Least
<1>3. Vested(total, start, at, days) = (total * seconds) \div seconds
  BY <1>1, <1>2 DEF Vested
<1> QED
  BY <1>3, DivisionExact

\* A larger charge earns at least as much CLAW.
LEMMA ClawAmountGrows ==
  ASSUME NEW a \in Nat, NEW b \in Nat, a <= b, NEW rate_e6 \in Nat
  PROVE  ClawAmount(a, rate_e6) <= ClawAmount(b, rate_e6)
<1>1. PICK x \in Nat, y \in Nat : x = a * rate_e6 /\ y = b * rate_e6
  OBVIOUS
<1>2. rate_e6 * a <= rate_e6 * b
  BY ProductGrows
<1>3. a * rate_e6 = rate_e6 * a /\ b * rate_e6 = rate_e6 * b
  OBVIOUS
<1>4. x <= y
  BY <1>1, <1>2, <1>3
<1>5. x \div 1000000 <= y \div 1000000
  BY <1>4, DivisionGrows
<1> QED
  BY <1>1, <1>5 DEF ClawAmount, RATE_SCALE

\* Everything a receipt of that charge, and a challenge of it, computes from the
\* parameters: no conversion to u64 and no checked subtraction or addition fails.
AmountsFit(p, charge) ==
    LET claw == ClawAmount(charge, p.exchange_rate_claw_per_usdc_e6)
        to_treasury == BpsAmount(charge, p.treasury_usdc_share_bps)
        to_user == BpsAmount(claw, p.user_claw_share_bps)
        reward == BpsAmount(p.provider_slash_claw_amount, p.challenger_reward_bps)
    IN
    /\ FitsU64(to_treasury) /\ FitsU64(charge - to_treasury)
    /\ FitsU64(claw) /\ FitsU64(to_user) /\ FitsU64(claw - to_user)
    /\ FitsU64(to_user + (claw - to_user))
    /\ FitsU64(reward) /\ FitsU64(p.provider_slash_claw_amount - reward)

\* The bounds alone, of parameters whose splits add up.
SplitsWithin(p) ==
    /\ p.treasury_usdc_share_bps \in 0..BPS_SCALE
    /\ p.user_claw_share_bps \in 0..BPS_SCALE
    /\ p.challenger_reward_bps \in 0..BPS_SCALE

\* A part of a u64 amount fits, and so does the rest.
LEMMA PartsFit ==
  ASSUME NEW amount \in U64, NEW bps \in 0..BPS_SCALE
  PROVE  FitsU64(BpsAmount(amount, bps)) /\ FitsU64(amount - BpsAmount(amount, bps))
<1>1. amount \in Nat /\ amount <= MAX_U64 /\ MAX_U64 \in Nat
  BY Phase1MathAssumption DEF U64
<1>2. PICK n \in 0..amount : n = BpsAmount(amount, bps)
  BY <1>1, BpsAmountBounds
<1> QED
  BY <1>1, <1>2 DEF FitsU64, U64

\* validate_phase1_param_bounds recomputes its values at one charge, the largest, and
\* accepts exactly the parameters under which no charge of any receipt overflows.
THEOREM BoundsAreExact ==
  ASSUME NEW p \in Phase1ConfigParams, SplitsWithin(p)
  PROVE  ValidParamBounds(p) <=> \A charge \in 0..MAX_RECEIPT_USDC_ATOMIC : AmountsFit(p, charge)
<1>1. /\ MAX_U64 \in Nat /\ MAX_RECEIPT_USDC_ATOMIC \in Nat
      /\ MAX_RECEIPT_USDC_ATOMIC <= MAX_U64
  BY Phase1MathAssumption
<1>2. PICK rate \in Nat : rate = p.exchange_rate_claw_per_usdc_e6
  BY DEF Phase1ConfigParams
<1>3. PICK largest \in Nat : largest = ClawAmount(MAX_RECEIPT_USDC_ATOMIC, rate)
  BY <1>1, ClawAmountType
<1>4. ASSUME ValidParamBounds(p), NEW charge \in 0..MAX_RECEIPT_USDC_ATOMIC
      PROVE  AmountsFit(p, charge)
  <2>1. charge \in Nat /\ charge \in U64
    BY <1>1 DEF U64
  <2>2. PICK claw \in Nat : claw = ClawAmount(charge, rate)
    BY <2>1, ClawAmountType
  <2>3. claw <= largest
    BY <1>1, <1>3, <2>1, <2>2, ClawAmountGrows
  <2>4. largest <= MAX_U64
    BY <1>2, <1>3, <1>4 DEF ValidParamBounds, FitsU64, U64
  <2>5. claw \in U64
    BY <1>1, <2>3, <2>4 DEF U64
  <2>6. PICK to_user : to_user = BpsAmount(claw, p.user_claw_share_bps)
    OBVIOUS
  <2>7. FitsU64(to_user) /\ FitsU64(claw - to_user)
    BY <2>5, <2>6, PartsFit DEF SplitsWithin
  <2>8. FitsU64(to_user + (claw - to_user))
    BY <2>5, <2>7, <1>1 DEF FitsU64, U64
  <2>9. /\ FitsU64(BpsAmount(charge, p.treasury_usdc_share_bps))
        /\ FitsU64(charge - BpsAmount(charge, p.treasury_usdc_share_bps))
    BY <2>1, PartsFit DEF SplitsWithin
  <2>10. /\ FitsU64(BpsAmount(p.provider_slash_claw_amount, p.challenger_reward_bps))
         /\ FitsU64(p.provider_slash_claw_amount
                      - BpsAmount(p.provider_slash_claw_amount, p.challenger_reward_bps))
    <3>1. p.provider_slash_claw_amount \in U64
      BY DEF Phase1ConfigParams
    <3> QED
      BY <3>1, PartsFit DEF SplitsWithin
  <2> QED
    BY <1>2, <2>2, <2>5, <2>6, <2>7, <2>8, <2>9, <2>10 DEF AmountsFit, FitsU64
<1>5. ASSUME \A charge \in 0..MAX_RECEIPT_USDC_ATOMIC : AmountsFit(p, charge)
      PROVE  ValidParamBounds(p)
  <2>1. AmountsFit(p, MAX_RECEIPT_USDC_ATOMIC)
    BY <1>1, <1>5
  <2> QED
    BY <2>1 DEF AmountsFit, ValidParamBounds
<1> QED
  BY <1>4, <1>5
===============================================================================
