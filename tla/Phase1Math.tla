------------------------------ MODULE Phase1Math ------------------------------
(***************************************************************************)
(* The arithmetic of clawfarm-masterpool/src/utils.rs: integer splits,     *)
(* linear vesting, and the validation of governance parameters.  Amounts   *)
(* are u64 values; a conversion or checked operation whose result does not *)
(* fit makes the instruction fail, which the actions express as the guard  *)
(* FitsU64.  The products are computed in u128 and cannot overflow.        *)
(***************************************************************************)
EXTENDS Integers

CONSTANTS
    MAX_U64,                  \* the largest u64 (2^64 - 1 in the code)
    MAX_RECEIPT_USDC_ATOMIC   \* the largest charge one receipt may carry

ASSUME Phase1MathAssumption ==
    /\ MAX_U64 \in Nat
    /\ MAX_RECEIPT_USDC_ATOMIC \in 0..MAX_U64

BPS_SCALE == 1000
RATE_SCALE == 1000000
SECONDS_PER_UTC_DAY == 86400

U64 == 0..MAX_U64

FitsU64(n) == n \in U64

Least(a, b) == IF a <= b THEN a ELSE b

BpsAmount(amount, bps) == (amount * bps) \div BPS_SCALE

ClawAmount(usdc_amount, rate_e6) == (usdc_amount * rate_e6) \div RATE_SCALE

\* clamp(now - lock_start, 0, lock_seconds)
Elapsed(lock_start, at, lock_seconds) ==
    IF at <= lock_start THEN 0 ELSE Least(at - lock_start, lock_seconds)

\* What has vested of total_locked at time at.
Vested(total_locked, lock_start, at, lock_days) ==
    LET lock_seconds == lock_days * SECONDS_PER_UTC_DAY
    IN  (total_locked * Elapsed(lock_start, at, lock_seconds)) \div lock_seconds

\* Slip: what was released before is forgotten.
ReleasableAgain(total_locked, released_so_far, lock_start, at, lock_days) ==
    Vested(total_locked, lock_start, at, lock_days)

\* compute_linear_releasable_amount: a negative result is its MathOverflow error.
Releasable(total_locked, released_so_far, lock_start, at, lock_days) ==
    Vested(total_locked, lock_start, at, lock_days) - released_so_far

\* Governance parameters, the input of initialize_masterpool and update_config.
\* (The rate, scaled by 10^6, is left unbounded so that MAX_U64 can be small.)
Phase1ConfigParams ==
    [exchange_rate_claw_per_usdc_e6 : Nat,
     provider_stake_usdc            : U64,
     provider_usdc_share_bps        : Nat,
     treasury_usdc_share_bps        : Nat,
     user_claw_share_bps            : Nat,
     provider_claw_share_bps        : Nat,
     lock_days                      : Nat,
     provider_slash_claw_amount     : U64,
     challenger_reward_bps          : Nat,
     burn_bps                       : Nat,
     challenge_bond_claw_amount     : U64]

\* Once the splits add up, of all the values validate_phase1_param_bounds
\* recomputes only the total CLAW of the largest receipt can fail to fit: the
\* others are parts of a u64.
ValidParamBounds(p) ==
    FitsU64(ClawAmount(MAX_RECEIPT_USDC_ATOMIC, p.exchange_rate_claw_per_usdc_e6))

ValidParams(p) ==
    /\ p.exchange_rate_claw_per_usdc_e6 > 0
    /\ p.provider_stake_usdc > 0
    /\ p.lock_days > 0
    /\ p.provider_slash_claw_amount > 0
    /\ p.challenge_bond_claw_amount > 0
    /\ p.provider_usdc_share_bps + p.treasury_usdc_share_bps = BPS_SCALE
    /\ p.user_claw_share_bps + p.provider_claw_share_bps = BPS_SCALE
    /\ p.challenger_reward_bps + p.burn_bps = BPS_SCALE
    /\ ValidParamBounds(p)
=============================================================================
