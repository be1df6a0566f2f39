-------------------------------- MODULE Chain --------------------------------
(***************************************************************************)
(* What the two on-chain programs share: the wallets that sign             *)
(* transactions, the receipts (named by their request nonce) and the       *)
(* cluster clock both programs read with Clock::get().                     *)
(*                                                                         *)
(* A Solana transaction is all-or-nothing and the accounts it writes are   *)
(* locked while it runs, so every instruction, with the cross-program call *)
(* it makes, is ONE action of the modules that extend this one.            *)
(***************************************************************************)
EXTENDS Integers

CONSTANTS
    Users,        \* wallets that pay for requests
    Providers,    \* wallets that serve requests
    Challengers,  \* wallets that open challenges
    PoolAuthority, \* the derived address that owns the masterpool's vaults
    Receipts,     \* receipt addresses: one per request nonce
    None,         \* an account that does not exist
    StartTime,    \* the unix time at which the model starts
    ClockSteps,   \* by how much the clock may advance in one step
    MaxTime       \* bound on the clock, for model checking

Wallets == Users \cup Providers \cup Challengers

\* Owners of token accounts.  A program's own address signs nothing, but where an
\* instruction does not ask who owns the account it pays into, it may own it.
Holders == Wallets \cup {PoolAuthority}

ASSUME ChainAssumption ==
    /\ StartTime \in Nat \ {0}
    /\ ClockSteps \subseteq Nat \ {0}
    /\ MaxTime \in Nat

VARIABLE now      \* Clock::get()?.unix_timestamp

ClockInit == now = StartTime

\* The cluster clock moves forward between transactions.
Tick ==
    /\ \E d \in ClockSteps : now' = now + d
    /\ now' <= MaxTime
=============================================================================
