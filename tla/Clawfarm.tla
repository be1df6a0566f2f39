-------------------------------- MODULE Clawfarm --------------------------------
(***************************************************************************)
(* The two programs together.  Five attestation instructions call the      *)
(* masterpool; if the call fails the whole transaction fails, so each of   *)
(* them is the conjunction of the attestation handler and the masterpool   *)
(* instruction it calls.  Everything else is a step of one program.        *)
(***************************************************************************)
EXTENDS MasterpoolInvariants, Attestation

vars == <<now, masterpool_vars, attestation_vars>>

\* A challenge's address is derived from its receipt, so there is one per receipt.
ASSUME ClawfarmAssumption == Challenges = Receipts

Init == MasterpoolInit /\ AttestationInit

Submit(s, r, u, p, charge) ==
    SubmitReceipt(s, r, u, p, charge) /\ RecordMiningFromReceipt(r, u, p, charge)

Finalize(r) == FinalizeReceipt(r) /\ SettleFinalizedReceipt(r, "Finalized")

Open(r, challenger) ==
    /\ OpenChallenge(r, challenger, config.params.challenge_bond_claw_amount)
    /\ RecordChallengeBond(r, r, challenger)

Resolve(r, resolution_code) ==
    ResolveChallenge(r, resolution_code) /\ ResolveChallengeEconomics(r, r, resolution_code)

TimeoutReject(r) ==
    TimeoutRejectChallenge(r) /\ ResolveChallengeEconomics(r, r, "Rejected")

CrossProgramStep ==
    \/ \E s \in Signers, r \in Receipts, u \in Users, p \in Providers, charge \in Charges :
         Submit(s, r, u, p, charge)
    \/ \E r \in Receipts : Finalize(r) \/ TimeoutReject(r)
    \/ \E r \in Receipts, w \in Challengers : Open(r, w)
    \/ \E r \in Receipts, code \in ResolutionCodes : Resolve(r, code)

ClawfarmNext ==
    \/ CrossProgramStep
    \/ DirectStep /\ UNCHANGED attestation_vars
    \/ AttestationOnlyStep /\ UNCHANGED masterpool_vars
    \/ MasterpoolTick /\ UNCHANGED attestation_vars

ClawfarmSpec == Init /\ [][ClawfarmNext]_vars
=============================================================================
