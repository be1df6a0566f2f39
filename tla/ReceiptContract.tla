---------------------------- MODULE ReceiptContract ----------------------------
(***************************************************************************)
(* What Clawfarm promises about the money of one receipt, without          *)
(* accounts, programs or rewards.  The provider's share of a charge is     *)
(* taken into escrow and leaves it exactly once: to the provider, after    *)
(* the challenge window closed undisputed or a dispute was dismissed; or   *)
(* back to the payer, when a dispute opened inside the window was upheld.  *)
(***************************************************************************)
EXTENDS Integers

CONSTANT Receipts

VARIABLES
    now,
    stage,     \* where each receipt is
    share,     \* what each receipt has in escrow
    deadline,  \* until when an open receipt may be disputed
    escrow     \* the pot all shares are kept in

cvars == <<now, stage, share, deadline, escrow>>

Stages == {"none", "open", "disputed", "dismissed", "paid", "refunded"}

ContractInit ==
    /\ now \in Nat
    /\ stage = [r \in Receipts |-> "none"]
    /\ share = [r \in Receipts |-> 0]
    /\ deadline = [r \in Receipts |-> 0]
    /\ escrow = 0

Move(r, to) ==
    /\ stage' = [stage EXCEPT ![r] = to]
    /\ deadline' = [deadline EXCEPT ![r] = 0]
    /\ now' = now

Keep == UNCHANGED <<share, escrow>>

LeaveEscrow(r) ==
    /\ escrow' = escrow - share[r]
    /\ share' = [share EXCEPT ![r] = 0]

\* Any share and any deadline ahead of now may be agreed.
Take(r) ==
    /\ stage[r] = "none"
    /\ stage' = [stage EXCEPT ![r] = "open"]
    /\ share'[r] \in Nat /\ share' = [share EXCEPT ![r] = share'[r]]
    /\ escrow' = escrow + share'[r]
    /\ deadline'[r] > now /\ deadline' = [deadline EXCEPT ![r] = deadline'[r]]
    /\ now' = now

Dispute(r) == stage[r] = "open" /\ now <= deadline[r] /\ Move(r, "disputed") /\ Keep

Dismiss(r) == stage[r] = "disputed" /\ Move(r, "dismissed") /\ Keep

Uphold(r) == stage[r] = "disputed" /\ Move(r, "refunded") /\ LeaveEscrow(r)

Pay(r) ==
    /\ \/ stage[r] = "open" /\ now > deadline[r]
       \/ stage[r] = "dismissed"
    /\ Move(r, "paid")
    /\ LeaveEscrow(r)

Pass == now' \in Nat /\ now' > now /\ UNCHANGED <<stage, share, deadline, escrow>>

ContractNext ==
    \/ \E r \in Receipts : Take(r) \/ Dispute(r) \/ Dismiss(r) \/ Uphold(r) \/ Pay(r)
    \/ Pass

ContractSpec == ContractInit /\ [][ContractNext]_cvars
=============================================================================
