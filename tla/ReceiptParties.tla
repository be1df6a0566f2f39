---------------------------- MODULE ReceiptParties ----------------------------
(***************************************************************************)
(* Who takes part in an instruction, without accounts: the parties of a    *)
(* receipt are fixed when it is submitted, and every later instruction on  *)
(* it moves money between, and books totals of, those parties only.  This  *)
(* is what Masterpool and Attestation assume when they index their state   *)
(* by receipt, provider and user.                                          *)
(***************************************************************************)
EXTENDS Integers

CONSTANTS Wallets, Nonces, Signed, Approved, Authority, ChallengeResolver, Admin, None

VARIABLES
    parties,     \* the signed message each nonce was submitted with, or None
    challenger,  \* who challenged it, or None
    step         \* who signed the last instruction, what it moved and booked

pvars == <<parties, challenger, step>>

ClawPots == {"rewards", "bonds", "faucet_claw"}
UsdcPots == {"treasury", "stake", "escrow", "faucet_usdc"}

Step(signers, moves, booked) ==
    step' = [signers |-> signers, moves |-> moves, booked |-> booked]

\* Every total the receipt of message m is part of.
Totals(m) ==
    {<<"settlement", m.nonce>>, <<"account", m.provider_wallet>>,
     <<"Provider", m.provider_wallet>>, <<"User", m.payer_user>>}

PartiesInit ==
    /\ parties = [n \in Nonces |-> None]
    /\ challenger = [n \in Nonces |-> None]
    /\ step = [signers |-> {}, moves |-> {}, booked |-> {}]

\* The payer agreed by making the signer of the payment its delegate.
Take(m) ==
    /\ parties[m.nonce] = None
    /\ parties' = [parties EXCEPT ![m.nonce] = m]
    /\ Step({Authority, Approved[m.payer_user]},
            {<<m.payer_user, "treasury">>, <<m.payer_user, "escrow">>}, Totals(m))
    /\ UNCHANGED challenger

Pay(n) ==
    /\ parties[n] # None
    /\ Step({Authority}, {<<"escrow", parties[n].provider_wallet>>}, Totals(parties[n]))
    /\ UNCHANGED <<parties, challenger>>

Dispute(n, w) ==
    /\ parties[n] # None /\ challenger[n] = None
    /\ challenger' = [challenger EXCEPT ![n] = w]
    /\ Step({w}, {<<w, "bonds">>},
            {<<"bond", n>>, <<"account", parties[n].provider_wallet>>})
    /\ UNCHANGED parties

Dismiss(n, judge) ==
    /\ challenger[n] # None
    /\ Step({judge}, {<<"bonds", "supply">>},
            {<<"bond", n>>, <<"account", parties[n].provider_wallet>>})
    /\ UNCHANGED <<parties, challenger>>

Uphold(n) ==
    LET w == challenger[n] IN
    /\ w # None
    /\ Step({ChallengeResolver},
            {<<"bonds", w>>, <<"rewards", w>>, <<"rewards", "supply">>,
             <<"escrow", parties[n].payer_user>>}, Totals(parties[n]) \cup {<<"bond", n>>})
    /\ UNCHANGED <<parties, challenger>>

Release(n) ==
    /\ parties[n] # None
    /\ \/ Step({Admin}, {}, {<<"settlement", n>>, <<"User", parties[n].payer_user>>})
       \/ Step({Admin}, {}, {<<"settlement", n>>, <<"Provider", parties[n].provider_wallet>>})
    /\ UNCHANGED <<parties, challenger>>

\* Instructions that belong to no receipt.
Own(w) ==
    /\ \/ Step({w}, {<<w, "stake">>}, {<<"account", w>>, <<"Provider", w>>})
       \/ \E to \in Wallets \cup UsdcPots : Step({w}, {<<"stake", to>>}, {<<"account", w>>})
       \/ \E kind \in {"User", "Provider"} : Step({w}, {<<"rewards", w>>}, {<<kind, w>>})
       \/ Step({}, {<<"faucet_claw", w>>, <<"faucet_usdc", w>>}, {<<"claimed", w>>})
    /\ UNCHANGED <<parties, challenger>>

\* A faucet claim in the pool's own name, which moves the faucet's tokens into
\* vaults of the same mints and is counted as any claim.
PoolClaim ==
    /\ \E claw_pot \in ClawPots, usdc_pot \in UsdcPots :
         Step({}, {<<"faucet_claw", claw_pot>>, <<"faucet_usdc", usdc_pot>>},
              {<<"claimed", "pool">>})
    /\ UNCHANGED <<parties, challenger>>

\* Genesis, and the faucet's share of it.
Stock ==
    /\ \/ Step({Admin}, {<<"supply", "rewards">>}, {})
       \/ Step({Admin}, {<<"rewards", "faucet_claw">>}, {})
    /\ UNCHANGED <<parties, challenger>>

\* Setting up, registering keys and closing accounts moves and books nothing.
Administer == step'.moves = {} /\ step'.booked = {} /\ UNCHANGED <<parties, challenger>>

PartiesNext ==
    \/ \E m \in Signed : Take(m)
    \/ \E n \in Nonces : \/ Pay(n) \/ Uphold(n) \/ Release(n)
                         \/ \E w \in Wallets : Dispute(n, w)
                         \/ \E judge \in {ChallengeResolver, Authority} : Dismiss(n, judge)
    \/ \E w \in Wallets : Own(w)
    \/ PoolClaim
    \/ Stock
    \/ Administer

PartiesSpec == PartiesInit /\ [][PartiesNext]_pvars
=============================================================================
