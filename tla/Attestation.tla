------------------------------ MODULE Attestation ------------------------------
(***************************************************************************)
(* The clawfarm-attestation program: provider signers, receipts and        *)
(* challenges, with the challenge window and the resolution timeout.       *)
(*                                                                         *)
(* One action per instruction, without the cross-program call it makes:    *)
(* Clawfarm conjoins the two.  The authority, the pause authority and the  *)
(* challenge resolver are the signers the account constraints demand; the  *)
(* actions are what they send.  submitted_at, finalized_at, resolved_at,   *)
(* hashes and evidence, which no instruction reads back, are left out.     *)
(***************************************************************************)
EXTENDS Chain

CONSTANTS
    Signers,         \* receipt-signing keys
    Attested,        \* the messages those keys have signed, see below
    WindowChoices,   \* challenge windows the initializer may configure
    TimeoutChoices,  \* resolution timeouts the initializer may configure
    SignerChoices,   \* registrations the authority may upsert
    Revocable,       \* keys the authority may revoke
    StopChoices      \* what set_pause may set is_paused to

AttesterTypes == {"Provider", "Gateway", "Hybrid"}

\* A signed receipt: the hash the ed25519 instruction covers binds the nonce
\* (the receipt), the provider, the payer and the charge.
SignedMessage(s, r, u, p, charge) ==
    [signer |-> s, receipt |-> r, payer_user |-> u, provider_wallet |-> p,
     charge_atomic |-> charge]

\* The part of ProviderSigner that upsert_provider_signer is given.
Registration == [attester_types : SUBSET AttesterTypes, valid_from : Int, valid_until : Int]

ASSUME AttestationAssumption ==
    /\ SignerChoices \subseteq Registration
    /\ Revocable \subseteq Signers /\ StopChoices \subseteq BOOLEAN
    /\ WindowChoices \subseteq Int /\ TimeoutChoices \subseteq Int

VARIABLES
    att_config,       \* Config, or None
    provider_signer,  \* ProviderSigner of each provider and key, or None
    receipt,          \* Receipt of each nonce, or None when absent or closed
    challenge         \* Challenge of each receipt, or None when absent or closed

attestation_vars == <<att_config, provider_signer, receipt, challenge>>

AttConfig ==
    [challenge_window_seconds : Nat, challenge_resolution_timeout_seconds : Nat,
     is_paused : BOOLEAN]

ProviderSigner ==
    [attester_types : SUBSET AttesterTypes, valid_from : Int, valid_until : Int,
     status : {"Active", "Revoked"}]

Receipt ==
    [signer : Signers, payer_user : Users, provider_wallet : Providers,
     challenge_deadline : Nat, economics_settled : BOOLEAN,
     status : {"Submitted", "Challenged", "Finalized", "Rejected", "Slashed"}]

Challenge ==
    [challenger : Challengers, bond_amount : Nat, opened_at : Nat,
     resolution_code : {"None", "Accepted", "Rejected", "ReceiptInvalidated", "SignerRevoked"},
     status : {"Open", "Accepted", "Rejected"}]

ASSUME AttestationNoneAssumption ==
    /\ None \notin AttConfig
    /\ None \notin ProviderSigner
    /\ None \notin Receipt
    /\ None \notin Challenge

ReceiptIs(r, status) == receipt[r] # None /\ receipt[r].status = status
ChallengeIs(r, status) == challenge[r] # None /\ challenge[r].status = status

AttestationInit ==
    /\ att_config = None
    /\ provider_signer = [ps \in Providers \X Signers |-> None]
    /\ receipt = [r \in Receipts |-> None]
    /\ challenge = [r \in Receipts |-> None]

-----------------------------------------------------------------------------
(* Administration: instructions/admin.rs *)

InitializeConfig(window, timeout) ==
    /\ att_config = None
    /\ window > 0
    /\ timeout > 0
    /\ att_config' = [challenge_window_seconds |-> window,
                      challenge_resolution_timeout_seconds |-> timeout,
                      is_paused |-> FALSE]
    /\ UNCHANGED <<now, provider_signer, receipt, challenge>>

\* Registers a key or overwrites its registration; a revoked key is Active again.
UpsertProviderSigner(p, s, registration) ==
    /\ att_config # None
    /\ registration.attester_types # {}
    /\ \/ registration.valid_until = 0
       \/ registration.valid_until >= registration.valid_from
    /\ provider_signer' = [provider_signer EXCEPT ![<<p, s>>] =
                             [attester_types |-> registration.attester_types,
                              valid_from     |-> registration.valid_from,
                              valid_until    |-> registration.valid_until,
                              status         |-> "Active"]]
    /\ UNCHANGED <<now, att_config, receipt, challenge>>

RevokeProviderSigner(p, s) ==
    /\ provider_signer[<<p, s>>] # None
    /\ provider_signer' = [provider_signer EXCEPT ![<<p, s>>].status = "Revoked"]
    /\ UNCHANGED <<now, att_config, receipt, challenge>>

SetPause(is_paused) ==
    /\ att_config # None
    /\ att_config' = [att_config EXCEPT !.is_paused = is_paused]
    /\ UNCHANGED <<now, provider_signer, receipt, challenge>>

-----------------------------------------------------------------------------
(* Receipts: instructions/receipt.rs *)

\* Slip: a revoked key is still accepted.
SignerKnown(registered) ==
    /\ registered # None
    /\ "Gateway" \in registered.attester_types
    /\ now >= registered.valid_from
    /\ registered.valid_until = 0 \/ now <= registered.valid_until

SignerUsable(registered) ==
    /\ registered # None
    /\ registered.status = "Active"
    /\ "Gateway" \in registered.attester_types
    /\ now >= registered.valid_from
    /\ registered.valid_until = 0 \/ now <= registered.valid_until

SubmitReceipt(s, r, u, p, charge) ==
    /\ att_config # None
    /\ ~att_config.is_paused
    /\ SignerUsable(provider_signer[<<p, s>>])
    /\ SignedMessage(s, r, u, p, charge) \in Attested
    /\ receipt[r] = None
    /\ receipt' = [receipt EXCEPT ![r] =
                     [signer             |-> s,
                      payer_user         |-> u,
                      provider_wallet    |-> p,
                      challenge_deadline |-> now + att_config.challenge_window_seconds,
                      status             |-> "Submitted",
                      economics_settled  |-> FALSE]]
    /\ UNCHANGED <<now, att_config, provider_signer, challenge>>

\* Slip: the last second of the window counts as closed.
FinalizeReceiptEarly(r) ==
    /\ \/ ReceiptIs(r, "Submitted") /\ now >= receipt[r].challenge_deadline
       \/ ReceiptIs(r, "Finalized") /\ ~receipt[r].economics_settled
    /\ receipt' = [receipt EXCEPT ![r].status = "Finalized", ![r].economics_settled = TRUE]
    /\ UNCHANGED <<now, att_config, provider_signer, challenge>>

\* Slip: once the window is closed the receipt's status does not matter.
FinalizeReceiptChallenged(r) ==
    /\ receipt[r] # None
    /\ ~receipt[r].economics_settled
    /\ now > receipt[r].challenge_deadline
    /\ receipt' = [receipt EXCEPT ![r].status = "Finalized", ![r].economics_settled = TRUE]
    /\ UNCHANGED <<now, att_config, provider_signer, challenge>>

\* Slip: a receipt finalized by a rejected challenge cannot be settled any more.
FinalizeReceiptOnce(r) ==
    /\ ReceiptIs(r, "Submitted") /\ now > receipt[r].challenge_deadline
    /\ receipt' = [receipt EXCEPT ![r].status = "Finalized", ![r].economics_settled = TRUE]
    /\ UNCHANGED <<now, att_config, provider_signer, challenge>>

\* Either the window closed without a challenge, or a rejected challenge has
\* already finalized the receipt and only the settlement is missing.
FinalizeReceipt(r) ==
    /\ \/ ReceiptIs(r, "Submitted") /\ now > receipt[r].challenge_deadline
       \/ ReceiptIs(r, "Finalized") /\ ~receipt[r].economics_settled
    /\ receipt' = [receipt EXCEPT ![r].status = "Finalized", ![r].economics_settled = TRUE]
    /\ UNCHANGED <<now, att_config, provider_signer, challenge>>

\* Slip: any terminal receipt may be closed.
CloseReceiptUnsettled(r) ==
    /\ ReceiptIs(r, "Finalized") \/ ReceiptIs(r, "Rejected") \/ ReceiptIs(r, "Slashed")
    /\ receipt' = [receipt EXCEPT ![r] = None]
    /\ UNCHANGED <<now, att_config, provider_signer, challenge>>

CloseReceipt(r) ==
    /\ ReceiptIs(r, "Finalized") \/ ReceiptIs(r, "Rejected") \/ ReceiptIs(r, "Slashed")
    /\ receipt[r].economics_settled
    /\ receipt' = [receipt EXCEPT ![r] = None]
    /\ UNCHANGED <<now, att_config, provider_signer, challenge>>

-----------------------------------------------------------------------------
(* Challenges: instructions/challenge.rs *)

\* bond_amount is read from the masterpool's configuration.
OpenChallenge(r, challenger, bond_amount) ==
    /\ ReceiptIs(r, "Submitted")
    /\ now <= receipt[r].challenge_deadline
    /\ challenge[r] = None
    /\ challenge' = [challenge EXCEPT ![r] =
                       [challenger      |-> challenger,
                        bond_amount     |-> bond_amount,
                        opened_at       |-> now,
                        status          |-> "Open",
                        resolution_code |-> "None"]]
    /\ receipt' = [receipt EXCEPT ![r].status = "Challenged"]
    /\ UNCHANGED <<now, att_config, provider_signer>>

\* The status the challenge and the receipt get; after a rejection the receipt
\* still has to be settled.
Outcome(resolution_code) ==
    CASE resolution_code = "Rejected" -> [challenge |-> "Rejected", receipt |-> "Finalized"]
      [] resolution_code = "SignerRevoked" -> [challenge |-> "Accepted", receipt |-> "Slashed"]
      [] OTHER -> [challenge |-> "Accepted", receipt |-> "Rejected"]

CloseDispute(r, resolution_code) ==
    /\ receipt[r] # None
    /\ ChallengeIs(r, "Open")
    /\ challenge' = [challenge EXCEPT ![r].status = Outcome(resolution_code).challenge,
                                      ![r].resolution_code = resolution_code]
    /\ receipt' = [receipt EXCEPT
                     ![r].status = Outcome(resolution_code).receipt,
                     ![r].economics_settled = (resolution_code # "Rejected")]
    /\ UNCHANGED <<now, att_config, provider_signer>>

\* Sent by the challenge resolver.
ResolveChallenge(r, resolution_code) ==
    /\ resolution_code # "None"
    /\ CloseDispute(r, resolution_code)

\* Sent by the authority once the resolver has let the timeout pass.
TimeoutRejectChallenge(r) ==
    /\ challenge[r] # None
    /\ now > challenge[r].opened_at + att_config.challenge_resolution_timeout_seconds
    /\ CloseDispute(r, "Rejected")

CloseChallenge(r) ==
    /\ ChallengeIs(r, "Accepted") \/ ChallengeIs(r, "Rejected")
    /\ challenge' = [challenge EXCEPT ![r] = None]
    /\ UNCHANGED <<now, att_config, provider_signer, receipt>>

\* Instructions that make no cross-program call.
AttestationOnlyStep ==
    \/ \E window \in WindowChoices, timeout \in TimeoutChoices :
         InitializeConfig(window, timeout)
    \/ \E p \in Providers, s \in Revocable : RevokeProviderSigner(p, s)
    \/ \E p \in Providers, s \in Signers, registration \in SignerChoices :
         UpsertProviderSigner(p, s, registration)
    \/ \E is_paused \in StopChoices : SetPause(is_paused)
    \/ \E r \in Receipts : CloseReceipt(r) \/ CloseChallenge(r)
=============================================================================
