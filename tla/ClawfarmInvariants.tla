-------------------------- MODULE ClawfarmInvariants --------------------------
(***************************************************************************)
(* What the two programs keep true together.  Each has its own record of a *)
(* receipt and of its challenge, neither reads the other's, and accounts   *)
(* are closed on one side only.                                            *)
(***************************************************************************)
EXTENDS Clawfarm

AttestationTypeOK ==
    /\ att_config \in AttConfig \cup {None}
    /\ provider_signer \in [Providers \X Signers -> ProviderSigner \cup {None}]
    /\ receipt \in [Receipts -> Receipt \cup {None}]
    /\ challenge \in [Receipts -> Challenge \cup {None}]
    /\ \A r \in Receipts : receipt[r] # None \/ challenge[r] # None => att_config # None

\* The type invariant of both programs.
ClawfarmTypeOK == TypeOK /\ AttestationTypeOK

-----------------------------------------------------------------------------

BondIs(r, status) == HasStatus(bond[r], status)

\* The masterpool's state for each status of the attestation receipt.
ReceiptMatches(r) ==
    /\ ReceiptIs(r, "Submitted") =>
         Recorded(r) /\ bond[r] = None /\ challenge[r] = None
    /\ ReceiptIs(r, "Challenged") =>
         Recorded(r) /\ BondLocked(r) /\ ChallengeIs(r, "Open")
    /\ ReceiptIs(r, "Finalized") =>
         IF receipt[r].economics_settled
         THEN FinalizedSettled(r) /\ ~BondLocked(r)
         ELSE Recorded(r) /\ BondIs(r, "Burned")
    /\ ReceiptIs(r, "Rejected") \/ ReceiptIs(r, "Slashed") =>
         /\ ChallengedReverted(r) /\ BondIs(r, "Returned")
         /\ receipt[r].economics_settled
    /\ ReceiptIs(r, "Submitted") \/ ReceiptIs(r, "Challenged") =>
         ~receipt[r].economics_settled
    /\ receipt[r] = None =>
         settlement[r] = None \/ FinalizedSettled(r) \/ ChallengedReverted(r)

ChallengeMatches(r) ==
    /\ ChallengeIs(r, "Open") <=> BondLocked(r)
    /\ ChallengeIs(r, "Open") => ReceiptIs(r, "Challenged")
    /\ ChallengeIs(r, "Accepted") => BondIs(r, "Returned") /\ ChallengedReverted(r)
    /\ ChallengeIs(r, "Rejected") => BondIs(r, "Burned") /\ ~ChallengedReverted(r)

\* The two programs never disagree about a receipt or its challenge, whatever
\* accounts have been closed meanwhile: the attestation program settles once,
\* a bond stays locked only while its challenge can still be resolved, and a
\* closed receipt is one whose money has left the escrow.
LifecycleAgreement == \A r \in Receipts : ReceiptMatches(r) /\ ChallengeMatches(r)

\* Every instruction that closes a dispute has a dozen checks in two programs, and
\* one that fails blocks the receipt for good.  While challenge processing runs,
\* the resolver can always reject an open challenge, and can uphold it whenever
\* the reward vault holds the slash: counters, escrow, pending rewards and bond
\* vault never stand in the way.
DisputesResolvable ==
    \A r \in Receipts :
        ChallengeIs(r, "Open") /\ Running("challenge_processing") =>
            /\ ENABLED Resolve(r, "Rejected")
            /\ vault.reward >= bond[r].slash_claw_amount_snapshot =>
                 \A code \in UpheldCodes : ENABLED Resolve(r, code)

\* One nonce charges its payer once.  close_receipt frees the address of the
\* receipt, so the same signed message can be submitted again: the treasury
\* still holds one share per settlement, and every settlement is a charge one
\* of the keys has signed for that nonce, payer and provider.
OneSignedChargePerNonce ==
    /\ vault.treasury = Total(Receipts, [r \in Receipts |->
         IF settlement[r] # None THEN settlement[r].usdc_to_treasury ELSE 0])
    /\ \A r \in Receipts : settlement[r] # None =>
         \E s \in Signers :
           SignedMessage(s, r, settlement[r].payer_user, settlement[r].provider_wallet,
                         settlement[r].usdc_total_paid) \in Attested

\* A provider pays its stake when it registers, and may be a payer elsewhere.
PaysStake(w) == w \in Providers /\ provider[w] = None /\ provider'[w] # None

\* This step records a receipt of u, on the strength of a key and of an approval.
Mandate(u) ==
    \E r \in Receipts, s \in Signers :
      LET p == settlement'[r].provider_wallet
          key == provider_signer[<<p, s>>]
      IN
      /\ settlement[r] = None /\ settlement'[r] # None
      /\ usdc[u] - usdc'[u] = settlement'[r].usdc_total_paid
      /\ SignedMessage(s, r, u, p, usdc[u] - usdc'[u]) \in Attested
      /\ allowance[u] - allowance'[u] = usdc[u] - usdc'[u]
      /\ key # None /\ key.status = "Active" /\ "Gateway" \in key.attester_types
      /\ key.valid_from <= now /\ (key.valid_until # 0 => now <= key.valid_until)
      /\ ~att_config.is_paused /\ "receipt_recording" \notin config.paused
      /\ provider[p].status = "Active" /\ provider[p].staked_usdc_amount > 0

\* A payer loses USDC only to a receipt recorded in that step, for what a key
\* signed: a gateway key of that provider, not revoked, inside its validity at
\* that second, with enough of the payer's approval left, while neither program
\* is paused and the provider still has its stake in the pool.
ChargedOnlyWithMandate ==
    [][\A u \in Users : usdc'[u] < usdc[u] /\ ~PaysStake(u) => Mandate(u)]_vars

-----------------------------------------------------------------------------
(* Progress.  The clock advances; the authority keeps sending what it may    *)
(* send, as its keeper does; and an admin who paused the pool resumes it.    *)

Resume == SetPauseFlags({}) /\ UNCHANGED attestation_vars

Fairness ==
    /\ WF_vars(MasterpoolTick /\ UNCHANGED attestation_vars)
    /\ WF_vars(Resume)
    /\ \A r \in Receipts : SF_vars(Finalize(r)) /\ SF_vars(TimeoutReject(r))

FairClawfarmSpec == ClawfarmSpec /\ Fairness

\* The latest second at which a receipt can still wait for a window or a timeout.
WaitsUntil(r) ==
    receipt[r].challenge_deadline + att_config.challenge_resolution_timeout_seconds

\* No receipt stays in escrow for ever, whether it is never challenged, or its
\* challenge is resolved, or the resolver is silent and the challenge times out:
\* its money reaches the provider or the payer.  (Receipts whose window the
\* bounded clock does not outlive are left out.)
EventuallySettled ==
    \A r \in Receipts :
        (Recorded(r) /\ receipt[r] # None /\ WaitsUntil(r) < MaxTime) ~> ~Recorded(r)

-----------------------------------------------------------------------------
(* A sentence of the documents the code does not keep.                       *)

\* "reject any config that would overflow any stored or derived settlement value".
SettlementNeverOverflows ==
    \A r \in Receipts : Recorded(r) =>
        LET p == settlement[r].provider_wallet IN
        FitsU64(provider_reward[p].locked + settlement[r].claw_to_provider_locked)

-----------------------------------------------------------------------------
(* Refinement: the masterpool's records and the attestation deadlines,     *)
(* seen as the contract.                                                   *)

StageOf(r) ==
    CASE settlement[r] = None  -> "none"
      [] FinalizedSettled(r)   -> "paid"
      [] ChallengedReverted(r) -> "refunded"
      [] OTHER -> IF bond[r] = None THEN "open"
                  ELSE IF BondLocked(r) THEN "disputed" ELSE "dismissed"

stage == [r \in Receipts |-> StageOf(r)]

share == [r \in Receipts |-> IF Recorded(r) THEN settlement[r].usdc_to_provider ELSE 0]

deadline == [r \in Receipts |->
               IF StageOf(r) = "open" THEN receipt[r].challenge_deadline ELSE 0]

Contract == INSTANCE ReceiptContract WITH escrow <- vault.provider_pending

\* Clawfarm implements the contract: the escrow of a receipt leaves the shared
\* vault once, to the provider only after an undisputed window or a dismissed
\* dispute, to the payer only when a dispute opened in time was upheld.
KeepsContract == Contract!ContractSpec
=============================================================================
