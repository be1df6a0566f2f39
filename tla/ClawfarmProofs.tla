---------------------------- MODULE ClawfarmProofs ----------------------------
(***************************************************************************)
(* The two programs together, for every instance.  A step of Clawfarm is   *)
(* a step of the masterpool or none, so what is proved of the masterpool   *)
(* holds of the composition; and the two programs, which keep separate     *)
(* records of a receipt and close them at different times, never disagree  *)
(* about one.  Last, each transaction is one step of ReceiptContract or    *)
(* none.                                                                   *)
(***************************************************************************)
EXTENDS ClawfarmInvariants, MasterpoolProofs

\* Every transaction is one step of the masterpool, or leaves it alone.
LEMMA StepOfMasterpool == [ClawfarmNext]_vars => [Next]_mvars
<1> SUFFICES ASSUME [ClawfarmNext]_vars PROVE [Next]_mvars
  OBVIOUS
<1>1. CASE CrossProgramStep
  <2>1. ASSUME NEW s \in Signers, NEW r \in Receipts, NEW u \in Users, NEW p \in Providers,
               NEW charge \in Charges, Submit(s, r, u, p, charge)
        PROVE  Next
    BY <2>1 DEF Submit, Next, AttestationCall
  <2>2. ASSUME NEW r \in Receipts, Finalize(r)
        PROVE  Next
    BY <2>2 DEF Finalize, Next, AttestationCall, ReceiptStatuses
  <2>3. ASSUME NEW r \in Receipts, TimeoutReject(r)
        PROVE  Next
    BY <2>3, ClawfarmAssumption DEF TimeoutReject, Next, AttestationCall, ResolutionCodes
  <2>4. ASSUME NEW r \in Receipts, NEW w \in Challengers, Open(r, w)
        PROVE  Next
    BY <2>4, ClawfarmAssumption DEF Open, Next, AttestationCall
  <2>5. ASSUME NEW r \in Receipts, NEW code \in ResolutionCodes, Resolve(r, code)
        PROVE  Next
    BY <2>5, ClawfarmAssumption DEF Resolve, Next, AttestationCall
  <2> QED
    BY <1>1, <2>1, <2>2, <2>3, <2>4, <2>5 DEF CrossProgramStep
<1>2. CASE DirectStep /\ UNCHANGED attestation_vars
  BY <1>2 DEF Next
<1>3. CASE AttestationOnlyStep /\ UNCHANGED masterpool_vars
  BY <1>3 DEF AttestationOnlyStep, InitializeConfig, UpsertProviderSigner, RevokeProviderSigner,
              SetPause, CloseReceipt, CloseChallenge, mvars
<1>4. CASE MasterpoolTick /\ UNCHANGED attestation_vars
  BY <1>4 DEF Next
<1>5. CASE UNCHANGED vars
  BY <1>5 DEF vars, mvars
<1> QED
  BY <1>1, <1>2, <1>3, <1>4, <1>5 DEF ClawfarmNext

\* The composition of the two programs implements the masterpool alone: no
\* transaction of the attestation program does anything to the money that the
\* masterpool's own instructions could not do.
THEOREM ClawfarmImplementsMasterpool == ClawfarmSpec => Spec
<1>1. Init => MasterpoolInit
  BY DEF Init
<1>2. [ClawfarmNext]_vars => [Next]_mvars
  BY StepOfMasterpool
<1> QED
  BY <1>1, <1>2, PTL DEF ClawfarmSpec, Spec

-----------------------------------------------------------------------------
(* The two records of a receipt *)

\* LifecycleAgreement is not inductive alone: submit_receipt may reuse the address
\* of a receipt only because a nonce without a settlement has no bond either.
Agree(r) ==
    /\ ReceiptMatches(r)
    /\ ChallengeMatches(r)
    /\ settlement[r] = None => bond[r] = None

WindowsLast == att_config # None => att_config.challenge_window_seconds > 0

ClawfarmInv ==
    /\ TypeInv
    /\ AttestationTypeOK
    /\ WindowsLast
    /\ \A r \in Receipts : Agree(r)

\* An instruction on one receipt leaves what is said of the others.
LEMMA AgreeKept ==
  ASSUME NEW r \in Receipts, Agree(r), UNCHANGED <<receipt[r], challenge[r], bond[r]>>,
         \/ settlement'[r] = settlement[r]
         \/ settlement[r] # None /\ settlement'[r] # None
            /\ settlement'[r].status = settlement[r].status
  PROVE  Agree(r)'
BY DEF Agree, ReceiptMatches, ChallengeMatches, ReceiptIs, ChallengeIs, BondIs, BondLocked,
       Recorded, FinalizedSettled, ChallengedReverted, HasStatus

\* Nothing exists at first.
LEMMA InitAgrees == Init => ClawfarmInv
<1> SUFFICES ASSUME Init PROVE ClawfarmInv
  OBVIOUS
<1>1. TypeInv
  BY InitTypeInv DEF Init
<1>2. AttestationTypeOK /\ WindowsLast
  BY DEF Init, AttestationInit, AttestationTypeOK, WindowsLast
<1>3. \A r \in Receipts : receipt[r] = None /\ challenge[r] = None /\ settlement[r] = None
                          /\ bond[r] = None
  BY ClawfarmAssumption DEF Init, AttestationInit, MasterpoolInit
<1>4. \A r \in Receipts : Agree(r)
  BY <1>3 DEF Agree, ReceiptMatches, ChallengeMatches, ReceiptIs, ChallengeIs, BondIs,
              BondLocked, Recorded, FinalizedSettled, ChallengedReverted, HasStatus
<1> QED
  BY <1>1, <1>2, <1>4 DEF ClawfarmInv

\* submit_receipt, also at an address that was closed before.
LEMMA SubmitAgrees ==
  ASSUME ClawfarmInv, NEW s \in Signers, NEW r \in Receipts, NEW u \in Users,
         NEW p \in Providers, NEW charge \in Charges, Submit(s, r, u, p, charge)
  PROVE  ClawfarmInv'
<1>0. TypeInv /\ AttestationTypeOK /\ WindowsLast /\ \A y \in Receipts : Agree(y)
  BY DEF ClawfarmInv
<1>1. SubmitReceipt(s, r, u, p, charge) /\ RecordMiningFromReceipt(r, u, p, charge)
  BY DEF Submit
<1>2. /\ TypeInv' /\ settlement[r] = None
      /\ settlement'[r] # None /\ settlement'[r].status = "Recorded"
      /\ Changed(settlement, settlement', Receipts, r)
      /\ UNCHANGED bond
  BY <1>0, <1>1, RecordEffect, NoneAssumption
<1> DEFINE new == [signer             |-> s,
                   payer_user         |-> u,
                   provider_wallet    |-> p,
                   challenge_deadline |-> now + att_config.challenge_window_seconds,
                   status             |-> "Submitted",
                   economics_settled  |-> FALSE]
<1>3. /\ att_config # None /\ receipt[r] = None
      /\ receipt' = [receipt EXCEPT ![r] = new]
      /\ UNCHANGED <<att_config, provider_signer, challenge>>
  BY <1>1 DEF SubmitReceipt
<1>4. now + att_config.challenge_window_seconds \in Nat
  BY <1>0, <1>3 DEF TypeInv, TypeOK, AttestationTypeOK, AttConfig
<1>5. new \in Receipt
  BY <1>4 DEF Receipt
<1>6. /\ receipt'[r] = new /\ receipt'[r] # None
      /\ \A y \in Receipts \ {r} : receipt'[y] = receipt[y]
  BY <1>0, <1>3, <1>5, AttestationNoneAssumption DEF AttestationTypeOK
<1>7. AttestationTypeOK' /\ WindowsLast'
  BY <1>0, <1>3, <1>5 DEF AttestationTypeOK, WindowsLast
<1>8. Agree(r)'
  <2>1. bond[r] = None
    BY <1>0, <1>2 DEF Agree
  <2>2. challenge[r] = None
    BY <1>0, <2>1 DEF Agree, ChallengeMatches, AttestationTypeOK, Challenge, ChallengeIs,
                        BondIs, BondLocked, HasStatus
  <2> QED
    BY <1>2, <1>3, <1>6, <2>1, <2>2 DEF Agree, ReceiptMatches, ChallengeMatches, ReceiptIs,
         ChallengeIs, BondIs, BondLocked, Recorded, FinalizedSettled, ChallengedReverted, HasStatus
<1>9. \A y \in Receipts : Agree(y)'
  BY <1>0, <1>2, <1>3, <1>6, <1>8, AgreeKept DEF Changed
<1> QED
  BY <1>2, <1>7, <1>9 DEF ClawfarmInv

\* finalize_receipt, undisputed or after a dismissed challenge.
LEMMA FinalizeAgrees ==
  ASSUME ClawfarmInv, NEW r \in Receipts, Finalize(r)
  PROVE  ClawfarmInv'
<1>0. TypeInv /\ AttestationTypeOK /\ WindowsLast /\ \A y \in Receipts : Agree(y)
  BY DEF ClawfarmInv
<1>1. FinalizeReceipt(r) /\ SettleFinalizedReceipt(r, "Finalized")
  BY DEF Finalize
<1>2. /\ TypeInv' /\ Recorded(r)
      /\ settlement'[r] # None /\ settlement'[r].status = "FinalizedSettled"
      /\ Changed(settlement, settlement', Receipts, r)
      /\ UNCHANGED bond
  <2>1. /\ TypeInv' /\ settlement'[r] \in ReceiptSettlement
        /\ Recorded(r) /\ settlement[r] \in ReceiptSettlement
        /\ settlement'[r] = [settlement[r] EXCEPT !.reward_lock_started_at = now,
                                                  !.status = "FinalizedSettled"]
        /\ Changed(settlement, settlement', Receipts, r)
    BY <1>0, <1>1, SettleEffect
  <2>2. settlement'[r].status = "FinalizedSettled"
    BY <2>1 DEF ReceiptSettlement
  <2> QED
    BY <1>1, <2>1, <2>2, NoneAssumption DEF SettleFinalizedReceipt
<1> DEFINE new == [receipt[r] EXCEPT !.status = "Finalized", !.economics_settled = TRUE]
<1>3. /\ \/ ReceiptIs(r, "Submitted")
         \/ ReceiptIs(r, "Finalized") /\ ~receipt[r].economics_settled
      /\ receipt' = [receipt EXCEPT ![r] = new]
      /\ UNCHANGED <<att_config, provider_signer, challenge>>
  BY <1>1 DEF FinalizeReceipt
<1>4. receipt[r] # None /\ receipt[r] \in Receipt /\ att_config # None
  BY <1>0, <1>3 DEF AttestationTypeOK, ReceiptIs
<1>5. new \in Receipt /\ new.status = "Finalized" /\ new.economics_settled = TRUE
  BY <1>4 DEF Receipt
<1>6. /\ receipt'[r] = new /\ receipt'[r] # None
      /\ \A y \in Receipts \ {r} : receipt'[y] = receipt[y]
  BY <1>0, <1>3, <1>5, AttestationNoneAssumption DEF AttestationTypeOK
<1>7. AttestationTypeOK' /\ WindowsLast'
  BY <1>0, <1>3, <1>4, <1>5 DEF AttestationTypeOK, WindowsLast
<1> HIDE DEF new
<1>8. Agree(r)'
  BY <1>0, <1>2, <1>3, <1>5, <1>6 DEF Agree, ReceiptMatches, ChallengeMatches, ReceiptIs,
       ChallengeIs, BondIs, BondLocked, Recorded, FinalizedSettled, ChallengedReverted, HasStatus
<1>9. \A y \in Receipts : Agree(y)'
  BY <1>0, <1>2, <1>3, <1>6, <1>8, AgreeKept DEF Changed
<1> QED
  BY <1>2, <1>7, <1>9 DEF ClawfarmInv

\* open_challenge.
LEMMA OpenAgrees ==
  ASSUME ClawfarmInv, NEW r \in Receipts, NEW w \in Challengers, Open(r, w)
  PROVE  ClawfarmInv'
<1> DEFINE amount == config.params.challenge_bond_claw_amount
<1>0. TypeInv /\ AttestationTypeOK /\ WindowsLast /\ \A y \in Receipts : Agree(y)
  BY DEF ClawfarmInv
<1>1. OpenChallenge(r, w, amount) /\ RecordChallengeBond(r, r, w)
  BY DEF Open
<1>2. /\ TypeInv' /\ Recorded(r) /\ bond[r] = None
      /\ bond'[r] # None /\ bond'[r].status = "Locked"
      /\ Changed(bond, bond', Receipts, r)
      /\ UNCHANGED settlement
  <2>1. r \in Challenges
    BY ClawfarmAssumption
  <2>2. /\ TypeInv' /\ Recorded(r) /\ bond[r] = None /\ bond'[r] \in ChallengeBondRecord
        /\ bond'[r].status = "Locked"
        /\ Changed(bond, bond', Challenges, r)
        /\ UNCHANGED settlement
    BY <1>0, <1>1, <2>1, BondEffect
  <2> QED
    BY <2>2, NoneAssumption, ClawfarmAssumption
<1>3. amount \in Nat /\ now \in Nat
  BY <1>0, <1>1, WidthFacts DEF TypeInv, TypeOK, RecordChallengeBond, Running, GlobalConfig,
                                Phase1ConfigParams
<1> DEFINE posted == [challenger |-> w, bond_amount |-> amount, opened_at |-> now,
                      status |-> "Open", resolution_code |-> "None"]
           new == [receipt[r] EXCEPT !.status = "Challenged"]
<1>4. /\ ReceiptIs(r, "Submitted") /\ challenge[r] = None
      /\ challenge' = [challenge EXCEPT ![r] = posted]
      /\ receipt' = [receipt EXCEPT ![r] = new]
      /\ UNCHANGED <<att_config, provider_signer>>
  BY <1>1 DEF OpenChallenge
<1>5. receipt[r] # None /\ receipt[r] \in Receipt /\ att_config # None
  BY <1>0, <1>4 DEF AttestationTypeOK, ReceiptIs
<1> HIDE DEF amount
<1>6. /\ new \in Receipt /\ new.status = "Challenged"
      /\ new.economics_settled = receipt[r].economics_settled
      /\ posted \in Challenge /\ posted.status = "Open"
  BY <1>3, <1>5 DEF Receipt, Challenge
<1>7. AttestationTypeOK' /\ WindowsLast'
  BY <1>0, <1>4, <1>5, <1>6 DEF AttestationTypeOK, WindowsLast
<1> HIDE DEF new, posted
<1>8. /\ receipt'[r] = new /\ receipt'[r] # None /\ challenge'[r] = posted /\ challenge'[r] # None
      /\ \A y \in Receipts \ {r} : receipt'[y] = receipt[y] /\ challenge'[y] = challenge[y]
  BY <1>0, <1>4, <1>6, AttestationNoneAssumption DEF AttestationTypeOK
<1>9. Agree(r)'
  BY <1>0, <1>2, <1>4, <1>6, <1>8 DEF Agree, ReceiptMatches, ChallengeMatches, ReceiptIs,
       ChallengeIs, BondIs, BondLocked, Recorded, FinalizedSettled, ChallengedReverted, HasStatus
<1>10. \A y \in Receipts : Agree(y)'
  BY <1>0, <1>2, <1>8, <1>9, AgreeKept DEF Changed
<1> QED
  BY <1>2, <1>7, <1>10 DEF ClawfarmInv
\* resolve_challenge and timeout_reject_challenge: both programs close the dispute
\* the same way.
LEMMA DisputeAgrees ==
  ASSUME ClawfarmInv, NEW r \in Receipts, NEW code \in ResolutionCodes,
         CloseDispute(r, code), ResolveChallengeEconomics(r, r, code)
  PROVE  ClawfarmInv'
<1> DEFINE verdict == Outcome(code).challenge
           fate == Outcome(code).receipt
           settled == (code # "Rejected")
           closed == [challenge[r] EXCEPT !.status = verdict, !.resolution_code = code]
           new == [receipt[r] EXCEPT !.status = fate, !.economics_settled = settled]
<1>0. TypeInv /\ AttestationTypeOK /\ WindowsLast /\ \A y \in Receipts : Agree(y)
  BY DEF ClawfarmInv
<1>1. r \in Challenges
  BY ClawfarmAssumption
<1>2. /\ receipt[r] # None /\ ChallengeIs(r, "Open")
      /\ challenge' = [challenge EXCEPT ![r] = closed]
      /\ receipt' = [receipt EXCEPT ![r] = new]
      /\ UNCHANGED <<att_config, provider_signer>>
  BY <1>0 DEF CloseDispute, AttestationTypeOK
<1>3. receipt[r] \in Receipt /\ challenge[r] \in Challenge /\ att_config # None
  BY <1>0, <1>2 DEF AttestationTypeOK, ChallengeIs
<1>4. /\ \/ code = "Rejected" /\ verdict = "Rejected" /\ fate = "Finalized"
         \/ code = "SignerRevoked" /\ verdict = "Accepted" /\ fate = "Slashed"
         \/ code \in {"Accepted", "ReceiptInvalidated"} /\ verdict = "Accepted" /\ fate = "Rejected"
      /\ settled \in BOOLEAN
      /\ code = "Rejected" => settled = FALSE
      /\ code \in UpheldCodes => settled = TRUE
  BY DEF Outcome, ResolutionCodes, UpheldCodes
<1> HIDE DEF verdict, fate, settled
<1>5. /\ new \in Receipt /\ new.status = fate /\ new.economics_settled = settled
  BY <1>3, <1>4 DEF Receipt
<1>6. closed \in Challenge /\ closed.status = verdict
  BY <1>3, <1>4 DEF Challenge, ResolutionCodes, UpheldCodes
<1> HIDE DEF new, closed
<1>7. /\ receipt'[r] = new /\ receipt'[r] # None /\ challenge'[r] = closed /\ challenge'[r] # None
      /\ \A y \in Receipts \ {r} : receipt'[y] = receipt[y] /\ challenge'[y] = challenge[y]
  BY <1>0, <1>2, <1>5, <1>6, AttestationNoneAssumption DEF AttestationTypeOK
<1>8. AttestationTypeOK' /\ WindowsLast'
  BY <1>0, <1>2, <1>3, <1>5, <1>6 DEF AttestationTypeOK, WindowsLast
<1>9. Resolvable(r, r) /\ UNCHANGED <<now, config, allowance>>
  BY DEF ResolveChallengeEconomics
<1>10. CASE code = "Rejected" /\ BurnBond(r, r)
  <2>1. /\ TypeInv' /\ bond'[r] \in ChallengeBondRecord /\ bond[r] \in ChallengeBondRecord
        /\ Recorded(r)
        /\ bond'[r] = [bond[r] EXCEPT !.status = "Burned"]
        /\ Changed(bond, bond', Challenges, r)
        /\ UNCHANGED settlement
    BY <1>0, <1>1, <1>9, <1>10, BurnEffect
  <2>2. bond'[r] # None /\ bond'[r].status = "Burned"
    BY <2>1, NoneAssumption DEF ChallengeBondRecord
  <2>3. new.status = "Finalized" /\ new.economics_settled = FALSE /\ closed.status = "Rejected"
    BY <1>4, <1>5, <1>6, <1>10
  <2>4. Agree(r)'
    BY <1>7, <2>1, <2>2, <2>3 DEF Agree, ReceiptMatches, ChallengeMatches, ReceiptIs,
       ChallengeIs, BondIs, BondLocked, Recorded, FinalizedSettled, ChallengedReverted, HasStatus
  <2>5. \A y \in Receipts : Agree(y)'
    BY <1>0, <1>7, <2>1, <2>4, AgreeKept, ClawfarmAssumption DEF Changed
  <2> QED
    BY <1>8, <2>1, <2>5 DEF ClawfarmInv
<1>11. CASE code \in UpheldCodes /\ RevertReceipt(r, r)
  <2>1. /\ TypeInv' /\ bond'[r] \in ChallengeBondRecord /\ bond[r] \in ChallengeBondRecord
        /\ settlement'[r] \in ReceiptSettlement /\ settlement[r] \in ReceiptSettlement
        /\ bond'[r] = [bond[r] EXCEPT !.status = "Returned"]
        /\ Changed(bond, bond', Challenges, r)
        /\ settlement'[r] = [settlement[r] EXCEPT !.status = "ChallengedReverted"]
        /\ Changed(settlement, settlement', Receipts, r)
    BY <1>0, <1>1, <1>9, <1>11, RevertEffect
  <2>2. /\ bond'[r] # None /\ bond'[r].status = "Returned"
        /\ settlement'[r] # None /\ settlement'[r].status = "ChallengedReverted"
    BY <2>1, NoneAssumption DEF ChallengeBondRecord, ReceiptSettlement
  <2>3. /\ new.status \in {"Rejected", "Slashed"} /\ new.economics_settled = TRUE
        /\ closed.status = "Accepted"
    BY <1>4, <1>5, <1>6, <1>11 DEF UpheldCodes
  <2>4. Agree(r)'
    BY <1>7, <2>2, <2>3 DEF Agree, ReceiptMatches, ChallengeMatches, ReceiptIs,
       ChallengeIs, BondIs, BondLocked, Recorded, FinalizedSettled, ChallengedReverted, HasStatus
  <2>5. \A y \in Receipts : Agree(y)'
    BY <1>0, <1>7, <2>1, <2>4, AgreeKept, ClawfarmAssumption DEF Changed
  <2> QED
    BY <1>8, <2>1, <2>5 DEF ClawfarmInv
<1> QED
  BY <1>10, <1>11 DEF ResolveChallengeEconomics

\* What the masterpool does without the attestation program: a release does not
\* change the status of a settlement, and nothing else touches one.
LEMMA DirectAgrees ==
  ASSUME ClawfarmInv, DirectStep \/ MasterpoolTick, UNCHANGED attestation_vars
  PROVE  ClawfarmInv'
<1>0. TypeInv /\ AttestationTypeOK /\ WindowsLast /\ \A y \in Receipts : Agree(y)
  BY DEF ClawfarmInv
<1>1. TypeInv'
  BY <1>0, StepTypeInv DEF Next
<1>2. UNCHANGED <<att_config, provider_signer, receipt, challenge>>
  BY DEF attestation_vars
<1>3. AttestationTypeOK' /\ WindowsLast'
  BY <1>0, <1>2 DEF AttestationTypeOK, WindowsLast
<1>4. \A y \in Receipts :
        /\ bond'[y] = bond[y]
        /\ \/ settlement'[y] = settlement[y]
           \/ settlement[y] # None /\ settlement'[y] # None
              /\ settlement'[y].status = settlement[y].status
  <2>1. CASE \E r \in Receipts, target \in ReleaseTargets, amount \in ReleaseAmounts :
                MaterializeRewardRelease(r, target, amount)
    <3>1. PICK r \in Receipts, target \in ReleaseTargets, amount \in Nat :
                 MaterializeRewardRelease(r, target, amount)
      BY <2>1, MasterpoolAssumption
    <3>2. /\ settlement[r] \in ReceiptSettlement /\ settlement'[r] \in ReceiptSettlement
          /\ \/ settlement'[r] = [settlement[r] EXCEPT !.user_claw_released = @ + amount]
             \/ settlement'[r] = [settlement[r] EXCEPT !.provider_claw_released = @ + amount]
          /\ Changed(settlement, settlement', Receipts, r)
          /\ UNCHANGED bond
      BY <1>0, <3>1, ReleaseEffect
    <3>3. settlement'[r].status = settlement[r].status
      BY <3>2 DEF ReceiptSettlement
    <3> QED
      BY <3>2, <3>3, NoneAssumption DEF Changed
  <2>2. CASE ~ \E r \in Receipts, target \in ReleaseTargets, amount \in ReleaseAmounts :
                  MaterializeRewardRelease(r, target, amount)
    BY <2>2 DEF DirectStep, MasterpoolTick, masterpool_vars, InitializeMasterpool, UpdateConfig,
         MintGenesisSupply, SetPauseFlags, RegisterProvider, ClaimProviderClaw, ExitProvider,
         ClaimUserClaw, Approve
  <2> QED
    BY <2>1, <2>2
<1>5. \A y \in Receipts : Agree(y)'
  BY <1>0, <1>2, <1>4, AgreeKept
<1> QED
  BY <1>1, <1>3, <1>5 DEF ClawfarmInv

\* What the attestation program does without the masterpool.  A receipt is closed
\* only when its settlement is, and a challenge only when its bond is.
LEMMA AttestationAgrees ==
  ASSUME ClawfarmInv, AttestationOnlyStep, UNCHANGED masterpool_vars
  PROVE  ClawfarmInv'
<1>0. TypeInv /\ AttestationTypeOK /\ WindowsLast /\ \A y \in Receipts : Agree(y)
  BY DEF ClawfarmInv
<1>1. UNCHANGED mvars
  BY DEF AttestationOnlyStep, InitializeConfig, UpsertProviderSigner, RevokeProviderSigner,
         SetPause, CloseReceipt, CloseChallenge, mvars
<1>2. TypeInv' /\ UNCHANGED <<settlement, bond>>
  BY <1>0, <1>1, StepTypeInv DEF mvars, masterpool_vars
<1>3. CASE \E window \in WindowChoices, timeout \in TimeoutChoices :
              InitializeConfig(window, timeout)
  <2>1. PICK window \in WindowChoices, timeout \in TimeoutChoices :
               InitializeConfig(window, timeout)
    BY <1>3
  <2>2. /\ att_config' = [challenge_window_seconds |-> window,
                          challenge_resolution_timeout_seconds |-> timeout,
                          is_paused |-> FALSE]
        /\ window \in Nat /\ window > 0 /\ timeout \in Nat
        /\ UNCHANGED <<provider_signer, receipt, challenge>>
    BY <2>1, AttestationAssumption DEF InitializeConfig
  <2>3. att_config' \in AttConfig /\ att_config'.challenge_window_seconds > 0
    BY <2>2 DEF AttConfig
  <2>4. att_config' # None
    BY <2>3, AttestationNoneAssumption
  <2>5. AttestationTypeOK' /\ WindowsLast'
    BY <1>0, <2>2, <2>3, <2>4 DEF AttestationTypeOK, WindowsLast
  <2>6. \A y \in Receipts : Agree(y)'
    BY <1>0, <1>2, <2>2, AgreeKept
  <2> QED
    BY <1>2, <2>5, <2>6 DEF ClawfarmInv
<1>4. CASE \/ \E p \in Providers, s \in Revocable : RevokeProviderSigner(p, s)
           \/ \E p \in Providers, s \in Signers, registration \in SignerChoices :
                UpsertProviderSigner(p, s, registration)
  <2>1. /\ provider_signer' \in [Providers \X Signers -> ProviderSigner \cup {None}]
        /\ UNCHANGED <<att_config, receipt, challenge>>
    <3>1. ASSUME NEW p \in Providers, NEW s \in Revocable, RevokeProviderSigner(p, s)
          PROVE  /\ provider_signer' \in [Providers \X Signers -> ProviderSigner \cup {None}]
                 /\ UNCHANGED <<att_config, receipt, challenge>>
      <4>1. <<p, s>> \in Providers \X Signers
        BY AttestationAssumption
      <4>2. provider_signer[<<p, s>>] \in ProviderSigner
        BY <1>0, <3>1, <4>1 DEF AttestationTypeOK, RevokeProviderSigner
      <4>3. [provider_signer[<<p, s>>] EXCEPT !.status = "Revoked"] \in ProviderSigner
        BY <4>2 DEF ProviderSigner
      <4> QED
        BY <1>0, <3>1, <4>1, <4>3 DEF AttestationTypeOK, RevokeProviderSigner
    <3>2. ASSUME NEW p \in Providers, NEW s \in Signers, NEW registration \in SignerChoices,
                 UpsertProviderSigner(p, s, registration)
          PROVE  /\ provider_signer' \in [Providers \X Signers -> ProviderSigner \cup {None}]
                 /\ UNCHANGED <<att_config, receipt, challenge>>
      <4>1. registration \in Registration
        BY AttestationAssumption
      <4>2. [attester_types |-> registration.attester_types,
             valid_from     |-> registration.valid_from,
             valid_until    |-> registration.valid_until,
             status         |-> "Active"] \in ProviderSigner
        BY <4>1 DEF Registration, ProviderSigner
      <4> QED
        BY <1>0, <3>2, <4>2 DEF AttestationTypeOK, UpsertProviderSigner
    <3> QED
      BY <1>4, <3>1, <3>2
  <2>2. AttestationTypeOK' /\ WindowsLast'
    BY <1>0, <2>1 DEF AttestationTypeOK, WindowsLast
  <2>3. \A y \in Receipts : Agree(y)'
    BY <1>0, <1>2, <2>1, AgreeKept
  <2> QED
    BY <1>2, <2>2, <2>3 DEF ClawfarmInv
<1>5. CASE \E is_paused \in StopChoices : SetPause(is_paused)
  <2>1. /\ att_config # None /\ att_config' \in AttConfig
        /\ att_config'.challenge_window_seconds = att_config.challenge_window_seconds
        /\ UNCHANGED <<provider_signer, receipt, challenge>>
    BY <1>0, <1>5, AttestationAssumption DEF SetPause, AttConfig, AttestationTypeOK
  <2>2. att_config' # None
    BY <2>1, AttestationNoneAssumption
  <2>3. AttestationTypeOK' /\ WindowsLast'
    BY <1>0, <2>1, <2>2 DEF AttestationTypeOK, WindowsLast
  <2>4. \A y \in Receipts : Agree(y)'
    BY <1>0, <1>2, <2>1, AgreeKept
  <2> QED
    BY <1>2, <2>3, <2>4 DEF ClawfarmInv
<1>6. ASSUME NEW r \in Receipts, CloseReceipt(r)
      PROVE  ClawfarmInv'
  <2>1. /\ ReceiptIs(r, "Finalized") \/ ReceiptIs(r, "Rejected") \/ ReceiptIs(r, "Slashed")
        /\ receipt[r].economics_settled
        /\ receipt' = [receipt EXCEPT ![r] = None]
        /\ UNCHANGED <<att_config, provider_signer, challenge>>
    BY <1>6 DEF CloseReceipt
  <2>2. /\ receipt'[r] = None
        /\ \A y \in Receipts \ {r} : receipt'[y] = receipt[y]
    BY <1>0, <2>1 DEF AttestationTypeOK
  <2>3. AttestationTypeOK' /\ WindowsLast'
    BY <1>0, <2>1 DEF AttestationTypeOK, WindowsLast
  <2>4. Agree(r)'
    BY <1>0, <1>2, <2>1, <2>2 DEF Agree, ReceiptMatches, ChallengeMatches, ReceiptIs,
       ChallengeIs, BondIs, BondLocked, Recorded, FinalizedSettled, ChallengedReverted, HasStatus
  <2>5. \A y \in Receipts : Agree(y)'
    BY <1>0, <1>2, <2>1, <2>2, <2>4, AgreeKept
  <2> QED
    BY <1>2, <2>3, <2>5 DEF ClawfarmInv
<1>7. ASSUME NEW r \in Receipts, CloseChallenge(r)
      PROVE  ClawfarmInv'
  <2>1. /\ ChallengeIs(r, "Accepted") \/ ChallengeIs(r, "Rejected")
        /\ challenge' = [challenge EXCEPT ![r] = None]
        /\ UNCHANGED <<att_config, provider_signer, receipt>>
    BY <1>7 DEF CloseChallenge
  <2>2. /\ challenge'[r] = None
        /\ \A y \in Receipts \ {r} : challenge'[y] = challenge[y]
    BY <1>0, <2>1 DEF AttestationTypeOK
  <2>3. AttestationTypeOK' /\ WindowsLast'
    BY <1>0, <2>1 DEF AttestationTypeOK, WindowsLast
  <2>4. Agree(r)'
    BY <1>0, <1>2, <2>1, <2>2 DEF Agree, ReceiptMatches, ChallengeMatches, ReceiptIs,
       ChallengeIs, BondIs, BondLocked, Recorded, FinalizedSettled, ChallengedReverted, HasStatus
  <2>5. \A y \in Receipts : Agree(y)'
    BY <1>0, <1>2, <2>1, <2>2, <2>4, AgreeKept
  <2> QED
    BY <1>2, <2>3, <2>5 DEF ClawfarmInv
<1> QED
  BY <1>3, <1>4, <1>5, <1>6, <1>7 DEF AttestationOnlyStep

\* Every transaction keeps the two records of a receipt in agreement.
LEMMA StepAgrees == ClawfarmInv /\ [ClawfarmNext]_vars => ClawfarmInv'
<1> SUFFICES ASSUME ClawfarmInv, [ClawfarmNext]_vars PROVE ClawfarmInv'
  OBVIOUS
<1>1. CASE CrossProgramStep
  <2>1. ASSUME NEW r \in Receipts, TimeoutReject(r)
        PROVE  ClawfarmInv'
    BY <2>1, DisputeAgrees DEF TimeoutReject, TimeoutRejectChallenge, ResolutionCodes
  <2>2. ASSUME NEW r \in Receipts, NEW code \in ResolutionCodes, Resolve(r, code)
        PROVE  ClawfarmInv'
    BY <2>2, DisputeAgrees DEF Resolve, ResolveChallenge
  <2> QED
    BY <1>1, <2>1, <2>2, SubmitAgrees, FinalizeAgrees, OpenAgrees DEF CrossProgramStep
<1>2. CASE DirectStep /\ UNCHANGED attestation_vars
  BY <1>2, DirectAgrees
<1>3. CASE AttestationOnlyStep /\ UNCHANGED masterpool_vars
  BY <1>3, AttestationAgrees
<1>4. CASE MasterpoolTick /\ UNCHANGED attestation_vars
  BY <1>4, DirectAgrees
<1>5. CASE UNCHANGED vars
  <2>1. TypeInv'
    BY <1>5, StepTypeInv DEF ClawfarmInv, vars, mvars
  <2>2. UNCHANGED <<att_config, provider_signer, receipt, challenge, settlement, bond>>
    BY <1>5 DEF vars, attestation_vars, masterpool_vars
  <2> QED
    BY <2>1, <2>2, AgreeKept DEF ClawfarmInv, AttestationTypeOK, WindowsLast
<1> QED
  BY <1>1, <1>2, <1>3, <1>4, <1>5 DEF ClawfarmNext

\* The strengthened invariant of the composition.
THEOREM ClawfarmInvAlways == ClawfarmSpec => []ClawfarmInv
<1>1. Init => ClawfarmInv
  BY InitAgrees
<1>2. ClawfarmInv /\ [ClawfarmNext]_vars => ClawfarmInv'
  BY StepAgrees
<1> QED
  BY <1>1, <1>2, PTL DEF ClawfarmSpec

\* Every account of both programs always has the layout the code gives it.
THEOREM ClawfarmTypeCorrect == ClawfarmSpec => []ClawfarmTypeOK
<1>1. ClawfarmInv => ClawfarmTypeOK
  BY DEF ClawfarmInv, ClawfarmTypeOK, TypeInv
<1> QED
  BY <1>1, ClawfarmInvAlways, PTL

\* The two programs never disagree about a receipt or its challenge, for any
\* number of receipts, keys and parties and in any order of transactions, also
\* when accounts of the attestation program have been closed and reused.
THEOREM ProgramsAlwaysAgree == ClawfarmSpec => []LifecycleAgreement
<1>1. ClawfarmInv => LifecycleAgreement
  BY DEF ClawfarmInv, LifecycleAgreement, Agree
<1> QED
  BY <1>1, ClawfarmInvAlways, PTL

-----------------------------------------------------------------------------
(* One charge per nonce *)

Charge(r) == IF settlement[r] # None THEN settlement[r].usdc_to_treasury ELSE 0

AllCharges == [r \in Receipts |-> Charge(r)]

\* The settlement of r is what a key signed.
Mandated(r) ==
    \E s \in Signers :
        SignedMessage(s, r, settlement[r].payer_user, settlement[r].provider_wallet,
                      settlement[r].usdc_total_paid) \in Attested

\* A step leaves the charge of r alone, whatever else it does to the settlement.
ChargeKept(r) ==
    IF settlement[r] = None THEN settlement'[r] = None
    ELSE /\ settlement'[r] # None
         /\ settlement'[r].payer_user = settlement[r].payer_user
         /\ settlement'[r].provider_wallet = settlement[r].provider_wallet
         /\ settlement'[r].usdc_total_paid = settlement[r].usdc_total_paid
         /\ settlement'[r].usdc_to_treasury = settlement[r].usdc_to_treasury

\* The charges are natural numbers.
LEMMA ChargesType == TypeInv => AllCharges \in [Receipts -> Nat] /\ IsFiniteSet(Receipts)
<1> SUFFICES ASSUME TypeInv PROVE AllCharges \in [Receipts -> Nat] /\ IsFiniteSet(Receipts)
  OBVIOUS
<1>1. \A r \in Receipts : Charge(r) \in Nat
  BY WidthFacts DEF Charge, TypeInv, TypeOK, ReceiptSettlement
<1> QED
  BY <1>1, MasterpoolAssumption DEF AllCharges

\* A step that leaves the treasury and every charge alone keeps the books.
LEMMA ChargesSame ==
  ASSUME OneSignedChargePerNonce, vault'.treasury = vault.treasury,
         \A r \in Receipts : ChargeKept(r)
  PROVE  OneSignedChargePerNonce'
<1> DEFINE f == AllCharges
           g == AllCharges'
<1>1. \A r \in Receipts : g[r] = f[r]
  BY DEF AllCharges, Charge, ChargeKept
<1>2. vault.treasury = Total(Receipts, f)
  BY DEF OneSignedChargePerNonce, AllCharges, Charge
<1> HIDE DEF f, g
<1>3. Total(Receipts, g) = Total(Receipts, f)
  BY <1>1, TotalSame
<1>4. vault'.treasury = Total(Receipts, g)
  BY <1>2, <1>3
<1>5. vault'.treasury = Total(Receipts, AllCharges')
  BY <1>4 DEF g
<1>6. \A r \in Receipts : settlement'[r] # None => Mandated(r)'
  BY DEF ChargeKept, OneSignedChargePerNonce, Mandated
<1> QED
  BY <1>5, <1>6 DEF OneSignedChargePerNonce, AllCharges, Charge, Mandated

\* submit_receipt charges once, for what was signed.
LEMMA SubmitCharges ==
  ASSUME TypeInv, OneSignedChargePerNonce, NEW s \in Signers, NEW r \in Receipts,
         NEW u \in Users, NEW p \in Providers, NEW charge \in Charges,
         Submit(s, r, u, p, charge)
  PROVE  OneSignedChargePerNonce'
<1>1. RecordMiningFromReceipt(r, u, p, charge) /\ SignedMessage(s, r, u, p, charge) \in Attested
  BY DEF Submit, SubmitReceipt
<1>2. /\ TypeInv' /\ settlement[r] = None /\ settlement'[r] \in ReceiptSettlement
      /\ settlement'[r].payer_user = u /\ settlement'[r].provider_wallet = p
      /\ Changed(settlement, settlement', Receipts, r)
  BY <1>1, RecordEffect
<1>3. settlement'[r] # None /\ settlement'[r].usdc_to_treasury \in Nat
  BY <1>2, NoneAssumption, WidthFacts DEF ReceiptSettlement
<1>4. settlement'[r].usdc_total_paid = charge
  BY <1>1 DEF RecordMiningFromReceipt, NewSettlement, TypeInv, TypeOK
<1>5. vault'.treasury = vault.treasury + settlement'[r].usdc_to_treasury
  BY <1>1, RecordFields
<1> DEFINE f == AllCharges
           g == AllCharges'
<1>6. /\ IsFiniteSet(Receipts) /\ f \in [Receipts -> Nat] /\ g \in [Receipts -> Nat]
  <2>1. \A y \in Receipts : Charge(y)' \in Nat
    BY <1>2, WidthFacts DEF Charge, TypeInv, TypeOK, ReceiptSettlement
  <2>2. g \in [Receipts -> Nat]
    BY <2>1 DEF AllCharges
  <2> QED
    BY <2>2, ChargesType
<1>7. /\ g[r] = f[r] + settlement'[r].usdc_to_treasury
      /\ \A y \in Receipts \ {r} : g[y] = f[y]
  BY <1>2, <1>3 DEF AllCharges, Charge, Changed
<1>8. vault.treasury = Total(Receipts, f)
  BY DEF OneSignedChargePerNonce, AllCharges, Charge
<1> HIDE DEF f, g
<1>9. Total(Receipts, g) = Total(Receipts, f) + settlement'[r].usdc_to_treasury
  BY <1>3, <1>6, <1>7, TotalAdd
<1>10. vault'.treasury = Total(Receipts, g)
  BY <1>5, <1>8, <1>9
<1>11. vault'.treasury = Total(Receipts, AllCharges')
  BY <1>10 DEF g
<1>12. ASSUME NEW y \in Receipts, settlement'[y] # None
       PROVE  Mandated(y)'
  BY <1>1, <1>2, <1>4, <1>12 DEF Mandated, OneSignedChargePerNonce, Changed
<1> QED
  BY <1>11, <1>12 DEF OneSignedChargePerNonce, AllCharges, Charge, Mandated

\* No other transaction touches the treasury or what a receipt was charged.
LEMMA OthersCharge ==
  ASSUME TypeInv, [ClawfarmNext]_vars,
         ~ \E s \in Signers, r \in Receipts, u \in Users, p \in Providers, charge \in Charges :
             Submit(s, r, u, p, charge)
  PROVE  vault'.treasury = vault.treasury /\ \A r \in Receipts : ChargeKept(r)
<1> DEFINE Goal == vault'.treasury = vault.treasury /\ \A r \in Receipts : ChargeKept(r)
<1>1. vault \in Vaults /\ settlement \in [Receipts -> ReceiptSettlement \cup {None}]
  BY DEF TypeInv, TypeOK
<1>2. settlement' = settlement => \A r \in Receipts : ChargeKept(r)
  BY DEF ChargeKept
<1>3. ASSUME NEW r \in Receipts, SettleFinalizedReceipt(r, "Finalized")
      PROVE  Goal
  <2>1. /\ settlement[r] \in ReceiptSettlement /\ settlement'[r] \in ReceiptSettlement
        /\ settlement'[r] = [settlement[r] EXCEPT !.reward_lock_started_at = now,
                                                  !.status = "FinalizedSettled"]
        /\ Changed(settlement, settlement', Receipts, r)
    BY <1>3, SettleEffect
  <2>2. vault'.treasury = vault.treasury
    BY <1>3, SettleFields
  <2>3. ChargeKept(r)
    BY <2>1, NoneAssumption DEF ChargeKept, ReceiptSettlement
  <2>4. \A y \in Receipts \ {r} : ChargeKept(y)
    BY <2>1 DEF ChargeKept, Changed
  <2> QED
    BY <2>2, <2>3, <2>4
<1>4. ASSUME NEW r \in Receipts, NEW code, ResolveChallengeEconomics(r, r, code)
      PROVE  Goal
  <2>1. r \in Challenges /\ Resolvable(r, r) /\ UNCHANGED <<now, config, allowance>>
    BY <1>4, ClawfarmAssumption DEF ResolveChallengeEconomics
  <2>2. CASE BurnBond(r, r)
    BY <1>1, <1>2, <2>2 DEF BurnBond, Terms, Vaults
  <2>3. CASE RevertReceipt(r, r)
    <3>1. /\ settlement[r] \in ReceiptSettlement /\ settlement'[r] \in ReceiptSettlement
          /\ settlement'[r] = [settlement[r] EXCEPT !.status = "ChallengedReverted"]
          /\ Changed(settlement, settlement', Receipts, r)
      BY <2>1, <2>3, RevertEffect
    <3>2. vault'.treasury = vault.treasury
      BY <2>1, <2>3, RevertFields
    <3> QED
      BY <3>1, <3>2, NoneAssumption DEF ChargeKept, Changed, ReceiptSettlement
  <2> QED
    BY <1>4, <2>2, <2>3 DEF ResolveChallengeEconomics
<1>5. ASSUME NEW r \in Receipts, NEW w, RecordChallengeBond(r, r, w)
      PROVE  Goal
  BY <1>1, <1>2, <1>5 DEF RecordChallengeBond, Vaults
<1>6. CASE DirectStep
  <2>1. ASSUME NEW r \in Receipts, NEW target \in ReleaseTargets, NEW amount \in ReleaseAmounts,
               MaterializeRewardRelease(r, target, amount)
        PROVE  Goal
    <3>1. amount \in Nat
      BY MasterpoolAssumption
    <3>2. /\ settlement[r] \in ReceiptSettlement /\ settlement'[r] \in ReceiptSettlement
          /\ \/ settlement'[r] = [settlement[r] EXCEPT !.user_claw_released = @ + amount]
             \/ settlement'[r] = [settlement[r] EXCEPT !.provider_claw_released = @ + amount]
          /\ Changed(settlement, settlement', Receipts, r)
          /\ UNCHANGED vault
      BY <2>1, <3>1, ReleaseEffect
    <3> QED
      BY <3>2, NoneAssumption DEF ChargeKept, Changed, ReceiptSettlement
  <2>2. ASSUME NEW p \in Providers, RegisterProvider(p)
        PROVE  Goal
    BY <1>1, <1>2, <2>2 DEF RegisterProvider, Vaults
  <2>3. ASSUME NEW p \in Providers, NEW w \in Holders, ExitProvider(p, w)
        PROVE  Goal
    BY <1>1, <1>2, <2>3 DEF ExitProvider, Vaults
  <2>4. ASSUME \/ \E u \in Users : ClaimUserClaw(u)
               \/ \E p \in Providers : ClaimProviderClaw(p)
               \/ MintGenesisSupply
        PROVE  Goal
    BY <1>1, <1>2, <2>4 DEF ClaimUserClaw, ClaimProviderClaw, MintGenesisSupply, Vaults
  <2>5. ASSUME \/ \E params \in ParamChoices : InitializeMasterpool(params) \/ UpdateConfig(params)
               \/ \E flags \in PauseChoices : SetPauseFlags(flags)
               \/ \E u \in Users, amount \in Allowances : Approve(u, amount)
        PROVE  Goal
    BY <1>2, <2>5 DEF InitializeMasterpool, UpdateConfig, SetPauseFlags, Approve, tokens
  <2> QED
    BY <1>6, <2>1, <2>2, <2>3, <2>4, <2>5 DEF DirectStep
<1>7. CASE UNCHANGED masterpool_vars
  BY <1>2, <1>7 DEF masterpool_vars, tokens
<1>8. CASE CrossProgramStep
  BY <1>3, <1>4, <1>5, <1>8 DEF CrossProgramStep, Finalize, TimeoutReject, Open, Resolve
<1> QED
  BY <1>6, <1>7, <1>8 DEF ClawfarmNext, MasterpoolTick, vars

\* Nothing is charged at first.
LEMMA ChargesInit == Init => OneSignedChargePerNonce
<1> SUFFICES ASSUME Init PROVE OneSignedChargePerNonce
  OBVIOUS
<1>1. vault.treasury = 0 /\ \A r \in Receipts : settlement[r] = None
  BY DEF Init, MasterpoolInit
<1>2. \A r \in Receipts : AllCharges[r] = 0
  BY <1>1 DEF AllCharges, Charge
<1>3. Total(Receipts, AllCharges) = 0
  BY <1>2, TotalZero
<1> QED
  BY <1>1, <1>3 DEF OneSignedChargePerNonce, AllCharges, Charge

\* No transaction charges twice, or what was not signed.
LEMMA ChargesStep ==
  TypeInv /\ OneSignedChargePerNonce /\ [ClawfarmNext]_vars => OneSignedChargePerNonce'
<1> SUFFICES ASSUME TypeInv, OneSignedChargePerNonce, [ClawfarmNext]_vars
             PROVE  OneSignedChargePerNonce'
  OBVIOUS
<1> QED
  BY SubmitCharges, OthersCharge, ChargesSame

\* One nonce charges its payer at most once and only for what a key of the
\* provider signed, for any number of receipts and however often the address of
\* a closed receipt is used again.
THEOREM ChargesAlwaysSigned == ClawfarmSpec => []OneSignedChargePerNonce
<1>1. Init => OneSignedChargePerNonce
  BY ChargesInit
<1>2. TypeInv /\ OneSignedChargePerNonce /\ [ClawfarmNext]_vars => OneSignedChargePerNonce'
  BY ChargesStep
<1>3. ClawfarmSpec => []TypeInv
  BY ClawfarmImplementsMasterpool, TypeInvAlways, PTL
<1> QED
  BY <1>1, <1>2, <1>3, PTL DEF ClawfarmSpec

-----------------------------------------------------------------------------
(* Charges need a mandate *)

\* Who may serve has its stake in the pool.
ServersStaked ==
    \A p \in Providers : HasStatus(provider[p], "Active") => provider[p].staked_usdc_amount > 0

\* An account whose status and stake stay keeps being staked.
LEMMA ServerKept ==
  ASSUME ServersStaked, NEW p \in Providers, Changed(provider, provider', Providers, p),
         provider[p] # None,
         provider'[p].staked_usdc_amount = provider[p].staked_usdc_amount,
         provider'[p].status = provider[p].status
  PROVE  ServersStaked'
BY DEF ServersStaked, Changed, HasStatus

LEMMA ServersStep == TypeInv /\ ServersStaked /\ [Next]_mvars => ServersStaked'
<1> SUFFICES ASSUME TypeInv, ServersStaked, [Next]_mvars PROVE ServersStaked'
  OBVIOUS
<1>1. ASSUME NEW p \in Providers, RegisterProvider(p) PROVE ServersStaked'
  <2>1. config \in GlobalConfig /\ ValidParams(config.params)
    BY <1>1 DEF RegisterProvider, TypeInv, TypeOK
  <2>2. config.params.provider_stake_usdc > 0
    BY <2>1 DEF ValidParams
  <2>3. provider'[p].staked_usdc_amount > 0 /\ Changed(provider, provider', Providers, p)
    BY <1>1, <2>2, RegisterEffect
  <2> QED
    BY <2>3 DEF ServersStaked, Changed, HasStatus
<1>2. ASSUME NEW p \in Providers, NEW destination \in Holders, ExitProvider(p, destination)
      PROVE  ServersStaked'
  <2>1. provider'[p].status = "Exited" /\ Changed(provider, provider', Providers, p)
    <3>1. /\ provider[p] \in ProviderAccount
          /\ provider'[p] = [provider[p] EXCEPT !.staked_usdc_amount = 0, !.status = "Exited"]
          /\ Changed(provider, provider', Providers, p)
      BY <1>2, ExitEffect
    <3> QED
      BY <3>1 DEF ProviderAccount
  <2> QED
    BY <2>1 DEF ServersStaked, Changed, HasStatus
<1>3. ASSUME NEW r \in Receipts, NEW u \in Users, NEW p \in Providers, NEW total \in Charges,
             RecordMiningFromReceipt(r, u, p, total)
      PROVE  ServersStaked'
  <2>1. /\ provider[p] # None /\ Changed(provider, provider', Providers, p)
        /\ provider'[p].staked_usdc_amount = provider[p].staked_usdc_amount
        /\ provider'[p].status = provider[p].status
    BY <1>3, RecordEffect, RecordFields DEF HasStatus
  <2> QED
    BY <2>1, ServerKept
<1>4. ASSUME NEW r \in Receipts, NEW status \in ReceiptStatuses, SettleFinalizedReceipt(r, status)
      PROVE  ServersStaked'
  <2>0. PICK p : p = settlement[r].provider_wallet
    OBVIOUS
  <2>1. /\ p \in Providers /\ provider[p] \in ProviderAccount
        /\ Changed(provider, provider', Providers, p)
        /\ provider'[p].staked_usdc_amount = provider[p].staked_usdc_amount
        /\ provider'[p].status = provider[p].status
    BY <1>4, <2>0, SettleEffect, SettleFields
  <2> QED
    BY <2>1, NoneAssumption, ServerKept
<1>5. ASSUME NEW c \in Challenges, NEW r \in Receipts, NEW w \in Challengers,
             RecordChallengeBond(c, r, w)
      PROVE  ServersStaked'
  <2>0. PICK p : p = settlement[r].provider_wallet
    OBVIOUS
  <2>1. /\ p \in Providers /\ provider[p] \in ProviderAccount
        /\ Changed(provider, provider', Providers, p)
        /\ provider'[p].staked_usdc_amount = provider[p].staked_usdc_amount
        /\ provider'[p].status = provider[p].status
    BY <1>5, <2>0, BondEffect, BondFields
  <2> QED
    BY <2>1, NoneAssumption, ServerKept
<1>6. ASSUME NEW c \in Challenges, NEW r \in Receipts, Resolvable(c, r),
             BurnBond(c, r) \/ RevertReceipt(c, r), UNCHANGED <<now, config, allowance>>
      PROVE  ServersStaked'
  <2>0. PICK p : p = settlement[r].provider_wallet
    OBVIOUS
  <2>1. /\ p \in Providers /\ provider[p] \in ProviderAccount
        /\ Changed(provider, provider', Providers, p)
        /\ provider'[p].staked_usdc_amount = provider[p].staked_usdc_amount
        /\ provider'[p].status = provider[p].status
    <3>1. CASE BurnBond(c, r)
      BY <1>6, <2>0, <3>1, BurnEffect, BurnFields
    <3>2. CASE RevertReceipt(c, r)
      BY <1>6, <2>0, <3>2, RevertEffect, RevertFields
    <3> QED
      BY <1>6, <3>1, <3>2
  <2> QED
    BY <2>1, NoneAssumption, ServerKept
<1>7. UNCHANGED provider => ServersStaked'
  BY DEF ServersStaked, HasStatus
<1>8. ASSUME NEW r \in Receipts, NEW target \in ReleaseTargets, NEW amount \in Nat,
             MaterializeRewardRelease(r, target, amount)
      PROVE  ServersStaked'
  BY <1>7, <1>8, ReleaseEffect
<1>9. ASSUME \/ \E params : InitializeMasterpool(params) \/ UpdateConfig(params)
             \/ MintGenesisSupply
             \/ \E flags : SetPauseFlags(flags)
             \/ \E x : ClaimUserClaw(x) \/ ClaimProviderClaw(x)
             \/ \E u, amount : Approve(u, amount)
             \/ MasterpoolTick
             \/ UNCHANGED mvars
      PROVE  ServersStaked'
  BY <1>7, <1>9, OtherEffect
<1> QED
  BY <1>1, <1>2, <1>3, <1>4, <1>5, <1>6, <1>8, <1>9, StepCases

\* What submit_receipt takes, it takes with a mandate.
LEMMA SubmitMandates ==
  ASSUME TypeInv, ServersStaked, NEW s \in Signers, NEW r \in Receipts, NEW u \in Users,
         NEW p \in Providers, NEW charge \in Charges, Submit(s, r, u, p, charge),
         NEW v \in Users, usdc'[v] < usdc[v]
  PROVE  Mandate(v)
<1>1. /\ RecordMiningFromReceipt(r, u, p, charge) /\ SubmitReceipt(s, r, u, p, charge)
      /\ charge \in Nat
  BY MasterpoolAssumption DEF Submit
<1>2. /\ settlement[r] = None /\ settlement'[r] \in ReceiptSettlement
      /\ settlement'[r].provider_wallet = p /\ HasStatus(provider[p], "Active")
  BY <1>1, RecordEffect
<1>3. settlement'[r] # None
  BY <1>2, NoneAssumption
<1>4. PICK q : q = NewSettlement(u, p, charge)
  OBVIOUS
<1>5. /\ Recordable(r, charge) /\ FitsU64(q.claw_to_user + q.claw_to_provider_total)
      /\ usdc' = [usdc EXCEPT ![u] = @ - (q.usdc_to_treasury + q.usdc_to_provider)]
      /\ allowance' = [allowance EXCEPT ![u] = @ - (q.usdc_to_treasury + q.usdc_to_provider)]
      /\ settlement' = [settlement EXCEPT ![r] = q]
  BY <1>1, <1>4 DEF RecordMiningFromReceipt, TotalsFit
<1>6. q.usdc_to_treasury + q.usdc_to_provider = charge
  BY <1>2, <1>4, <1>5, NewSettlementFacts
<1>7. q.usdc_total_paid = charge
  BY <1>4 DEF NewSettlement
<1>8. /\ usdc \in [Holders -> Nat] /\ allowance \in [Users -> Nat]
      /\ settlement \in [Receipts -> ReceiptSettlement \cup {None}]
      /\ Users \subseteq Holders
  BY DEF TypeInv, TypeOK, Holders, Wallets
<1>9. v = u
  BY <1>5, <1>8
<1>10. /\ usdc[u] - usdc'[u] = charge /\ allowance[u] - allowance'[u] = charge
       /\ settlement'[r].usdc_total_paid = charge
  BY <1>1, <1>5, <1>6, <1>7, <1>8
<1>11. provider[p].status = "Active" /\ provider[p].staked_usdc_amount > 0
  BY <1>2 DEF ServersStaked, HasStatus
<1>12. /\ ~att_config.is_paused /\ "receipt_recording" \notin config.paused
       /\ SignerUsable(provider_signer[<<p, s>>]) /\ SignedMessage(s, r, u, p, charge) \in Attested
  BY <1>1, <1>5 DEF SubmitReceipt, Recordable, Running
<1> QED
  BY <1>2, <1>3, <1>9, <1>10, <1>11, <1>12 DEF Mandate, SignerUsable

\* No other transaction takes USDC from a wallet, but a stake.
LEMMA OthersDebit ==
  ASSUME TypeInv, [ClawfarmNext]_vars,
         ~ \E s \in Signers, r \in Receipts, u \in Users, p \in Providers, charge \in Charges :
             Submit(s, r, u, p, charge),
         NEW v \in Users, ~PaysStake(v)
  PROVE  ~(usdc'[v] < usdc[v])
<1> DEFINE Goal == ~(usdc'[v] < usdc[v])
<1>1. /\ usdc \in [Holders -> Nat] /\ v \in Holders /\ usdc[v] \in Nat
      /\ settlement \in [Receipts -> ReceiptSettlement \cup {None}]
      /\ provider \in [Providers -> ProviderAccount \cup {None}]
  BY DEF TypeInv, TypeOK, Holders, Wallets
<1>2. usdc' = usdc => Goal
  BY <1>1
<1>3. ASSUME NEW w, NEW amount \in Nat, usdc' = [usdc EXCEPT ![w] = @ + amount]
      PROVE  Goal
  BY <1>1, <1>3
<1>4. ASSUME NEW r \in Receipts, SettleFinalizedReceipt(r, "Finalized")
      PROVE  Goal
  <2>1. settlement[r].usdc_to_provider \in Nat
    BY <1>4, SettleEffect, WidthFacts DEF ReceiptSettlement
  <2> QED
    BY <1>3, <1>4, <2>1 DEF SettleFinalizedReceipt
<1>5. ASSUME NEW r \in Receipts, NEW code, ResolveChallengeEconomics(r, r, code)
      PROVE  Goal
  <2>1. r \in Challenges /\ Resolvable(r, r) /\ UNCHANGED <<now, config, allowance>>
    BY <1>5, ClawfarmAssumption DEF ResolveChallengeEconomics
  <2>2. ASSUME BurnBond(r, r) PROVE Goal
    BY <1>2, <2>2 DEF BurnBond
  <2>3. ASSUME RevertReceipt(r, r) PROVE Goal
    <3>1. settlement[r].usdc_to_provider \in Nat
      BY <2>1, <2>3, RevertEffect, WidthFacts DEF ReceiptSettlement
    <3> QED
      BY <1>3, <2>3, <3>1 DEF RevertReceipt
  <2> QED
    BY <1>5, <2>2, <2>3 DEF ResolveChallengeEconomics
<1>6. ASSUME NEW r \in Receipts, NEW w, RecordChallengeBond(r, r, w) PROVE Goal
  BY <1>2, <1>6 DEF RecordChallengeBond
<1>7. ASSUME NEW p \in Providers, RegisterProvider(p) PROVE Goal
  <2>1. provider[p] = None /\ provider'[p] \in ProviderAccount
    BY <1>7, RegisterEffect
  <2>2. v # p
    BY <2>1, NoneAssumption DEF PaysStake
  <2> QED
    BY <1>1, <1>7, <2>2 DEF RegisterProvider
<1>8. ASSUME NEW p \in Providers, NEW w \in Holders, ExitProvider(p, w) PROVE Goal
  <2>1. provider[p].staked_usdc_amount \in Nat
    BY <1>8, ExitEffect, WidthFacts DEF ProviderAccount
  <2> QED
    BY <1>3, <1>8, <2>1 DEF ExitProvider
<1>9. ASSUME \/ \E u \in Users : ClaimUserClaw(u)
             \/ \E p \in Providers : ClaimProviderClaw(p)
             \/ MintGenesisSupply
      PROVE  Goal
  BY <1>2, <1>9 DEF ClaimUserClaw, ClaimProviderClaw, MintGenesisSupply
<1>10. ASSUME \/ \E params \in ParamChoices : InitializeMasterpool(params) \/ UpdateConfig(params)
              \/ \E flags \in PauseChoices : SetPauseFlags(flags)
              \/ \E u \in Users, amount \in Allowances : Approve(u, amount)
              \/ \E r, target, amount : MaterializeRewardRelease(r, target, amount)
       PROVE  Goal
  BY <1>2, <1>10 DEF InitializeMasterpool, UpdateConfig, SetPauseFlags, Approve,
                     MaterializeRewardRelease, tokens
<1>11. ASSUME DirectStep PROVE Goal
  BY <1>7, <1>8, <1>9, <1>10, <1>11 DEF DirectStep
<1>12. ASSUME UNCHANGED masterpool_vars PROVE Goal
  BY <1>2, <1>12 DEF masterpool_vars, tokens
<1>13. ASSUME CrossProgramStep PROVE Goal
  BY <1>4, <1>5, <1>6, <1>13 DEF CrossProgramStep, Finalize, TimeoutReject, Open, Resolve
<1> QED
  BY <1>11, <1>12, <1>13 DEF ClawfarmNext, MasterpoolTick, vars

\* A step of both programs takes USDC of a payer for its stake or with a mandate.
LEMMA StepMandates ==
  ASSUME TypeInv, ServersStaked, [ClawfarmNext]_vars,
         NEW u \in Users, usdc'[u] < usdc[u], ~PaysStake(u)
  PROVE  Mandate(u)
<1>1. PICK s \in Signers, r \in Receipts, payer \in Users, p \in Providers, charge \in Charges :
        Submit(s, r, payer, p, charge)
  BY OthersDebit
<1> QED
  BY <1>1, SubmitMandates

\* For every instance: whoever pays, pays for one receipt, what a usable key of its
\* provider signed, out of an approval, to a provider whose stake is in the pool.
\* Keys, pauses and parameters may have changed in any order before.
THEOREM ChargesNeedMandate == ClawfarmSpec => ChargedOnlyWithMandate
<1>1. MasterpoolInit => ServersStaked
  BY DEF MasterpoolInit, ServersStaked, HasStatus
<1>2. Spec => []ServersStaked
  BY <1>1, ServersStep, TypeInvAlways, PTL DEF Spec
<1>3. TypeInv /\ ServersStaked /\ [ClawfarmNext]_vars =>
        [\A u \in Users : usdc'[u] < usdc[u] /\ ~PaysStake(u) => Mandate(u)]_vars
  BY StepMandates
<1>4. ClawfarmSpec => [][\A u \in Users :
                           usdc'[u] < usdc[u] /\ ~PaysStake(u) => Mandate(u)]_vars
  BY <1>2, <1>3, ClawfarmImplementsMasterpool, TypeInvAlways, PTL DEF ClawfarmSpec
<1> QED
  BY <1>4 DEF ChargedOnlyWithMandate

-----------------------------------------------------------------------------
(* ReceiptContract: each transaction is one of its steps, or none *)

\* What the contract sees of a receipt stays as it is.
ViewKept(r) ==
    /\ stage'[r] = stage[r]
    /\ share'[r] = share[r]
    /\ deadline'[r] = deadline[r]

\* The view of one receipt, field by field.
LEMMA ViewOf ==
  ASSUME NEW r \in Receipts
  PROVE  /\ stage[r] = StageOf(r)
         /\ share[r] = (IF Recorded(r) THEN settlement[r].usdc_to_provider ELSE 0)
         /\ deadline[r] = (IF StageOf(r) = "open" THEN receipt[r].challenge_deadline ELSE 0)
         /\ stage'[r] = StageOf(r)'
         /\ share'[r] = (IF Recorded(r)' THEN settlement'[r].usdc_to_provider ELSE 0)
         /\ deadline'[r] = (IF StageOf(r)' = "open" THEN receipt'[r].challenge_deadline ELSE 0)
BY DEF stage, share, deadline

\* The stages, from the records of the masterpool.
LEMMA StageCases ==
  ASSUME NEW r \in Receipts
  PROVE  /\ settlement[r] = None => StageOf(r) = "none"
         /\ FinalizedSettled(r) => StageOf(r) = "paid"
         /\ ChallengedReverted(r) => StageOf(r) = "refunded"
         /\ Recorded(r) => StageOf(r) = IF bond[r] = None THEN "open"
                                        ELSE IF BondLocked(r) THEN "disputed" ELSE "dismissed"
BY DEF StageOf, Recorded, FinalizedSettled, ChallengedReverted, HasStatus

\* The same after the step.
LEMMA NextStageCases ==
  ASSUME NEW r \in Receipts
  PROVE  /\ settlement'[r] = None => StageOf(r)' = "none"
         /\ FinalizedSettled(r)' => StageOf(r)' = "paid"
         /\ ChallengedReverted(r)' => StageOf(r)' = "refunded"
         /\ Recorded(r)' => StageOf(r)' = IF bond'[r] = None THEN "open"
                                          ELSE IF BondLocked(r)' THEN "disputed" ELSE "dismissed"
BY DEF StageOf, Recorded, FinalizedSettled, ChallengedReverted, HasStatus

\* A receipt whose records do not change is seen as before; its attestation
\* account matters only while the receipt may be disputed.
LEMMA KeepsView ==
  ASSUME NEW r \in Receipts, bond'[r] = bond[r],
         \/ settlement'[r] = settlement[r]
         \/ settlement[r] # None /\ settlement'[r] # None
            /\ settlement'[r].status = settlement[r].status
            /\ settlement'[r].usdc_to_provider = settlement[r].usdc_to_provider,
         receipt'[r] = receipt[r] \/ StageOf(r) # "open"
  PROVE  ViewKept(r)
<1>1. StageOf(r)' = StageOf(r) /\ (Recorded(r)' <=> Recorded(r))
  BY DEF StageOf, Recorded, FinalizedSettled, ChallengedReverted, BondLocked, HasStatus
<1>2. Recorded(r) => settlement'[r].usdc_to_provider = settlement[r].usdc_to_provider
  BY DEF Recorded, HasStatus
<1> QED
  BY <1>1, <1>2, ViewOf DEF ViewKept

\* A transaction on one receipt moves only that receipt.
LEMMA OneMoves ==
  ASSUME NEW r \in Receipts, \A y \in Receipts \ {r} : ViewKept(y)
  PROVE  /\ stage' = [stage EXCEPT ![r] = stage'[r]]
         /\ share' = [share EXCEPT ![r] = share'[r]]
         /\ deadline' = [deadline EXCEPT ![r] = deadline'[r]]
<1> DEFINE s == stage'
           h == share'
           d == deadline'
<1>1. /\ s \in [Receipts -> {s[x] : x \in Receipts}] /\ DOMAIN stage = Receipts
      /\ stage = [x \in Receipts |-> stage[x]] /\ s = [x \in Receipts |-> s[x]]
  BY DEF stage
<1>2. /\ share = [x \in Receipts |-> share[x]] /\ h = [x \in Receipts |-> h[x]]
  BY DEF share
<1>3. /\ deadline = [x \in Receipts |-> deadline[x]] /\ d = [x \in Receipts |-> d[x]]
  BY DEF deadline
<1>4. \A y \in Receipts \ {r} : s[y] = stage[y] /\ h[y] = share[y] /\ d[y] = deadline[y]
  BY DEF ViewKept
<1> HIDE DEF s, h, d
<1>5. s = [stage EXCEPT ![r] = s[r]]
  BY <1>1, <1>4
<1>6. h = [share EXCEPT ![r] = h[r]]
  BY <1>2, <1>4
<1>7. d = [deadline EXCEPT ![r] = d[r]]
  BY <1>3, <1>4
<1> QED
  BY <1>5, <1>6, <1>7 DEF s, h, d

\* A transaction that moves no receipt leaves the whole view alone.
LEMMA NoneMoves ==
  ASSUME \A y \in Receipts : ViewKept(y)
  PROVE  UNCHANGED <<stage, share, deadline>>
<1> DEFINE s == stage'
           h == share'
           d == deadline'
<1>1. /\ stage = [x \in Receipts |-> stage[x]] /\ s = [x \in Receipts |-> s[x]]
      /\ share = [x \in Receipts |-> share[x]] /\ h = [x \in Receipts |-> h[x]]
      /\ deadline = [x \in Receipts |-> deadline[x]] /\ d = [x \in Receipts |-> d[x]]
  BY DEF stage, share, deadline
<1>2. \A y \in Receipts : s[y] = stage[y] /\ h[y] = share[y] /\ d[y] = deadline[y]
  BY DEF ViewKept
<1> HIDE DEF s, h, d
<1>3. s = stage /\ h = share /\ d = deadline
  BY <1>1, <1>2
<1> QED
  BY <1>3 DEF s, h, d

-----------------------------------------------------------------------------
(* One transaction, one step of the contract *)

\* submit_receipt takes a share into escrow.
LEMMA SubmitTakes ==
  ASSUME ClawfarmInv, ClawfarmInv', NEW s \in Signers, NEW r \in Receipts, NEW u \in Users,
         NEW p \in Providers, NEW charge \in Charges, Submit(s, r, u, p, charge)
  PROVE  Contract!Take(r)
<1>0. TypeInv /\ AttestationTypeOK /\ WindowsLast /\ Agree(r)
  BY DEF ClawfarmInv
<1>1. SubmitReceipt(s, r, u, p, charge) /\ RecordMiningFromReceipt(r, u, p, charge)
  BY DEF Submit
<1>2. /\ settlement[r] = None /\ settlement'[r] \in ReceiptSettlement
      /\ settlement'[r].status = "Recorded"
      /\ Changed(settlement, settlement', Receipts, r)
      /\ UNCHANGED bond
  BY <1>0, <1>1, RecordEffect
<1>3. /\ receipt' = [receipt EXCEPT ![r] =
                       [signer             |-> s,
                        payer_user         |-> u,
                        provider_wallet    |-> p,
                        challenge_deadline |-> now + att_config.challenge_window_seconds,
                        status             |-> "Submitted",
                        economics_settled  |-> FALSE]]
      /\ att_config # None /\ now' = now
  BY <1>1 DEF SubmitReceipt
<1>4. /\ receipt'[r].challenge_deadline = now + att_config.challenge_window_seconds
      /\ \A y \in Receipts \ {r} : receipt'[y] = receipt[y]
  BY <1>0, <1>3 DEF AttestationTypeOK
<1>5. now + att_config.challenge_window_seconds > now
  BY <1>0, <1>3 DEF TypeInv, TypeOK, AttestationTypeOK, AttConfig, WindowsLast
<1>6. bond'[r] = None /\ Recorded(r)' /\ ~Recorded(r)
  BY <1>0, <1>2, NoneAssumption DEF Agree, Recorded, HasStatus
<1>7. \A y \in Receipts \ {r} : ViewKept(y)
  BY <1>2, <1>4, KeepsView DEF Changed
<1>8. stage[r] = "none" /\ stage'[r] = "open"
  BY <1>2, <1>6, ViewOf, StageCases, NextStageCases
<1>9. share'[r] = settlement'[r].usdc_to_provider /\ share'[r] \in Nat
  BY <1>2, <1>6, ViewOf, WidthFacts DEF ReceiptSettlement
<1>10. deadline'[r] > now
  BY <1>4, <1>5, <1>8, ViewOf
<1>11. vault'.provider_pending = vault.provider_pending + share'[r]
  BY <1>0, <1>1, <1>9, RecordFields
<1> QED
  BY <1>3, <1>7, <1>8, <1>9, <1>10, <1>11, OneMoves DEF Contract!Take

\* finalize_receipt pays the share out, after an undisputed window or a dismissal.
LEMMA FinalizePays ==
  ASSUME ClawfarmInv, NEW r \in Receipts, Finalize(r)
  PROVE  Contract!Pay(r)
<1>0. TypeInv /\ AttestationTypeOK /\ Agree(r)
  BY DEF ClawfarmInv
<1>1. FinalizeReceipt(r) /\ SettleFinalizedReceipt(r, "Finalized")
  BY DEF Finalize
<1>2. /\ Recorded(r) /\ settlement[r] \in ReceiptSettlement
      /\ settlement'[r] \in ReceiptSettlement
      /\ settlement'[r] = [settlement[r] EXCEPT !.reward_lock_started_at = now,
                                                !.status = "FinalizedSettled"]
      /\ Changed(settlement, settlement', Receipts, r)
  BY <1>0, <1>1, SettleEffect
<1>3. UNCHANGED <<now, bond>>
  BY <1>1 DEF FinalizeReceipt, SettleFinalizedReceipt
<1>4. FinalizedSettled(r)' /\ ~Recorded(r)'
  BY <1>2, NoneAssumption DEF FinalizedSettled, Recorded, HasStatus, ReceiptSettlement
<1>5. \A y \in Receipts \ {r} : receipt'[y] = receipt[y]
  BY <1>0, <1>1 DEF AttestationTypeOK, FinalizeReceipt
<1>6. \A y \in Receipts \ {r} : ViewKept(y)
  BY <1>2, <1>3, <1>5, KeepsView DEF Changed
<1>7. stage'[r] = "paid" /\ share'[r] = 0 /\ deadline'[r] = 0
  BY <1>4, ViewOf, NextStageCases
<1>8. \/ stage[r] = "open" /\ now > deadline[r]
      \/ stage[r] = "dismissed"
  <2>1. CASE ReceiptIs(r, "Submitted") /\ now > receipt[r].challenge_deadline
    <3>1. bond[r] = None
      BY <1>0, <2>1 DEF Agree, ReceiptMatches
    <3> QED
      BY <1>2, <2>1, <3>1, ViewOf, StageCases
  <2>2. CASE ReceiptIs(r, "Finalized") /\ ~receipt[r].economics_settled
    <3>1. bond[r] # None /\ ~BondLocked(r)
      BY <1>0, <2>2 DEF Agree, ReceiptMatches, BondIs, BondLocked, HasStatus
    <3> QED
      BY <1>2, <3>1, ViewOf, StageCases
  <2> QED
    BY <1>1, <2>1, <2>2 DEF FinalizeReceipt
<1>9. vault'.provider_pending = vault.provider_pending - share[r]
  BY <1>0, <1>1, <1>2, SettleFields, ViewOf
<1> QED
  BY <1>3, <1>6, <1>7, <1>8, <1>9, OneMoves DEF Contract!Pay, Contract!Move, Contract!LeaveEscrow

\* open_challenge disputes an open receipt in time.
LEMMA OpenDisputes ==
  ASSUME ClawfarmInv, NEW r \in Receipts, NEW w \in Challengers, Open(r, w)
  PROVE  Contract!Dispute(r)
<1>0. TypeInv /\ AttestationTypeOK /\ Agree(r)
  BY DEF ClawfarmInv
<1>1. /\ OpenChallenge(r, w, config.params.challenge_bond_claw_amount)
      /\ RecordChallengeBond(r, r, w)
  BY DEF Open
<1>2. r \in Challenges
  BY ClawfarmAssumption
<1>3. /\ Recorded(r) /\ bond[r] = None /\ bond'[r] \in ChallengeBondRecord
      /\ bond'[r].status = "Locked"
      /\ Changed(bond, bond', Challenges, r)
      /\ UNCHANGED settlement
  BY <1>0, <1>1, <1>2, BondEffect
<1>4. /\ UNCHANGED now /\ now <= receipt[r].challenge_deadline
      /\ \A y \in Receipts \ {r} : receipt'[y] = receipt[y]
  BY <1>0, <1>1 DEF OpenChallenge, AttestationTypeOK
<1>5. bond'[r] # None /\ BondLocked(r)' /\ Recorded(r)'
  BY <1>3, NoneAssumption DEF BondLocked, Recorded, HasStatus
<1>6. \A y \in Receipts \ {r} : ViewKept(y)
  BY <1>3, <1>4, KeepsView, ClawfarmAssumption DEF Changed
<1>7. stage[r] = "open" /\ now <= deadline[r] /\ stage'[r] = "disputed" /\ deadline'[r] = 0
  BY <1>3, <1>4, <1>5, ViewOf, StageCases, NextStageCases
<1>8. share'[r] = share[r]
  BY <1>3, <1>5, ViewOf
<1>9. share' = share
  BY <1>6, <1>8, OneMoves DEF share
<1>10. vault'.provider_pending = vault.provider_pending
  BY <1>0, <1>1 DEF TypeInv, TypeOK, Vaults, RecordChallengeBond
<1> QED
  BY <1>4, <1>6, <1>7, <1>9, <1>10, OneMoves DEF Contract!Dispute, Contract!Move, Contract!Keep

\* A dispute ends as the challenge does, whoever sends the resolution.
LEMMA DisputeEnds ==
  ASSUME ClawfarmInv, NEW r \in Receipts, NEW code, CloseDispute(r, code),
         ResolveChallengeEconomics(r, r, code)
  PROVE  Contract!Dismiss(r) \/ Contract!Uphold(r)
<1>0. TypeInv /\ AttestationTypeOK /\ Agree(r)
  BY DEF ClawfarmInv
<1>1. r \in Challenges /\ Resolvable(r, r) /\ UNCHANGED <<now, config, allowance>>
  BY ClawfarmAssumption DEF ResolveChallengeEconomics
<1>2. Recorded(r) /\ BondLocked(r) /\ bond[r] # None
  BY <1>1 DEF Resolvable, BondLocked, HasStatus
<1>3. stage[r] = "disputed" /\ share[r] = settlement[r].usdc_to_provider
  BY <1>2, ViewOf, StageCases
<1>4. \A y \in Receipts \ {r} : receipt'[y] = receipt[y]
  BY <1>0 DEF CloseDispute, AttestationTypeOK
<1>5. CASE BurnBond(r, r)
  <2>1. /\ bond'[r] \in ChallengeBondRecord /\ bond[r] \in ChallengeBondRecord
        /\ bond'[r] = [bond[r] EXCEPT !.status = "Burned"]
        /\ Changed(bond, bond', Challenges, r)
        /\ UNCHANGED settlement
    BY <1>0, <1>1, <1>5, BurnEffect
  <2>2. Recorded(r)' /\ bond'[r] # None /\ ~BondLocked(r)'
    BY <1>2, <2>1, NoneAssumption DEF BondLocked, Recorded, HasStatus, ChallengeBondRecord
  <2>3. \A y \in Receipts \ {r} : ViewKept(y)
    BY <1>4, <2>1, KeepsView, ClawfarmAssumption DEF Changed
  <2>4. stage'[r] = "dismissed" /\ deadline'[r] = 0
    BY <2>2, ViewOf, NextStageCases
  <2>5. share'[r] = share[r]
    BY <1>3, <2>1, <2>2, ViewOf
  <2>6. share' = share
    BY <2>3, <2>5, OneMoves DEF share
  <2>7. vault'.provider_pending = vault.provider_pending
    BY <1>0, <1>5 DEF TypeInv, TypeOK, Vaults, BurnBond, Terms
  <2> QED
    BY <1>1, <1>3, <2>3, <2>4, <2>6, <2>7, OneMoves
       DEF Contract!Dismiss, Contract!Move, Contract!Keep
<1>6. CASE RevertReceipt(r, r)
  <2>1. /\ settlement[r] \in ReceiptSettlement /\ settlement'[r] \in ReceiptSettlement
        /\ settlement'[r] = [settlement[r] EXCEPT !.status = "ChallengedReverted"]
        /\ Changed(settlement, settlement', Receipts, r)
        /\ Changed(bond, bond', Challenges, r)
    BY <1>0, <1>1, <1>6, RevertEffect
  <2>2. ChallengedReverted(r)' /\ ~Recorded(r)'
    BY <2>1, NoneAssumption DEF ChallengedReverted, Recorded, HasStatus, ReceiptSettlement
  <2>3. \A y \in Receipts \ {r} : ViewKept(y)
    BY <1>4, <2>1, KeepsView, ClawfarmAssumption DEF Changed
  <2>4. stage'[r] = "refunded" /\ deadline'[r] = 0 /\ share'[r] = 0
    BY <2>2, ViewOf, NextStageCases
  <2>5. vault'.provider_pending = vault.provider_pending - share[r]
    BY <1>0, <1>1, <1>3, <1>6, RevertFields
  <2> QED
    BY <1>1, <1>3, <2>3, <2>4, <2>5, OneMoves
       DEF Contract!Uphold, Contract!Move, Contract!LeaveEscrow
<1> QED
  BY <1>5, <1>6 DEF ResolveChallengeEconomics

\* Governance, stakes, releases and claims are invisible to the contract.
LEMMA DirectInvisible ==
  ASSUME TypeInv, DirectStep, UNCHANGED attestation_vars
  PROVE  UNCHANGED Contract!cvars
<1>1. vault \in Vaults /\ UNCHANGED receipt
  BY DEF TypeInv, TypeOK, attestation_vars
<1> DEFINE Goal == now' = now /\ vault'.provider_pending = vault.provider_pending
                   /\ \A y \in Receipts : ViewKept(y)
<1>2. UNCHANGED <<settlement, bond>> => \A y \in Receipts : ViewKept(y)
  BY <1>1, KeepsView
<1>3. ASSUME NEW r \in Receipts, NEW target \in ReleaseTargets, NEW amount \in ReleaseAmounts,
             MaterializeRewardRelease(r, target, amount)
      PROVE  Goal
  <2>1. amount \in Nat
    BY MasterpoolAssumption
  <2>2. /\ settlement[r] \in ReceiptSettlement /\ settlement'[r] \in ReceiptSettlement
        /\ \/ settlement'[r] = [settlement[r] EXCEPT !.user_claw_released = @ + amount]
           \/ settlement'[r] = [settlement[r] EXCEPT !.provider_claw_released = @ + amount]
        /\ Changed(settlement, settlement', Receipts, r)
        /\ UNCHANGED <<bond, vault>>
    BY <1>3, <2>1, ReleaseEffect
  <2>3. /\ settlement[r] # None /\ settlement'[r] # None
        /\ settlement'[r].status = settlement[r].status
        /\ settlement'[r].usdc_to_provider = settlement[r].usdc_to_provider
    BY <2>2, NoneAssumption DEF ReceiptSettlement
  <2>4. \A y \in Receipts : ViewKept(y)
    BY <1>1, <2>2, <2>3, KeepsView DEF Changed
  <2> QED
    BY <1>3, <2>2, <2>4 DEF MaterializeRewardRelease
<1>4. ASSUME NEW p \in Providers, RegisterProvider(p)
      PROVE  Goal
  BY <1>1, <1>2, <1>4 DEF RegisterProvider, Vaults
<1>5. ASSUME NEW p \in Providers, NEW w \in Holders, ExitProvider(p, w)
      PROVE  Goal
  BY <1>1, <1>2, <1>5 DEF ExitProvider, Vaults
<1>6. ASSUME \/ \E u \in Users : ClaimUserClaw(u)
             \/ \E p \in Providers : ClaimProviderClaw(p)
             \/ MintGenesisSupply
      PROVE  Goal
  BY <1>1, <1>2, <1>6 DEF ClaimUserClaw, ClaimProviderClaw, MintGenesisSupply, Vaults
<1>7. ASSUME \/ \E params \in ParamChoices : InitializeMasterpool(params) \/ UpdateConfig(params)
             \/ \E flags \in PauseChoices : SetPauseFlags(flags)
             \/ \E u \in Users, amount \in Allowances : Approve(u, amount)
      PROVE  Goal
  BY <1>2, <1>7 DEF InitializeMasterpool, UpdateConfig, SetPauseFlags, Approve, tokens
<1>8. Goal
  BY <1>3, <1>4, <1>5, <1>6, <1>7 DEF DirectStep
<1> QED
  BY <1>8, NoneMoves DEF Contract!cvars

\* Closing accounts and administering keys is invisible too: a receipt is closed
\* only when it can no longer be disputed.
LEMMA AttestationInvisible ==
  ASSUME ClawfarmInv, AttestationOnlyStep, UNCHANGED masterpool_vars
  PROVE  UNCHANGED Contract!cvars
<1>1. UNCHANGED <<settlement, bond, vault>>
  BY DEF masterpool_vars, tokens
<1>2. UNCHANGED now
  BY DEF AttestationOnlyStep, InitializeConfig, UpsertProviderSigner, RevokeProviderSigner,
         SetPause, CloseReceipt, CloseChallenge
<1>3. ASSUME NEW r \in Receipts, CloseReceipt(r), NEW y \in Receipts
      PROVE  ViewKept(y)
  <2>1. CASE y = r
    <3>1. FinalizedSettled(r) \/ ChallengedReverted(r)
      BY <1>3 DEF CloseReceipt, ClawfarmInv, Agree, ReceiptMatches
    <3>2. StageOf(r) # "open"
      BY <3>1, StageCases
    <3> QED
      BY <1>1, <2>1, <3>2, KeepsView
  <2>2. CASE y # r
    <3>1. receipt'[y] = receipt[y]
      BY <1>3, <2>2 DEF CloseReceipt, ClawfarmInv, AttestationTypeOK
    <3> QED
      BY <1>1, <3>1, KeepsView
  <2> QED
    BY <2>1, <2>2
<1>4. ASSUME ~ \E r \in Receipts : CloseReceipt(r), NEW y \in Receipts
      PROVE  ViewKept(y)
  <2>1. UNCHANGED receipt
    BY <1>4 DEF AttestationOnlyStep, InitializeConfig, UpsertProviderSigner,
                RevokeProviderSigner, SetPause, CloseChallenge
  <2> QED
    BY <1>1, <2>1, KeepsView
<1> QED
  BY <1>1, <1>2, <1>3, <1>4, NoneMoves DEF Contract!cvars

\* Each transaction is a step of the contract, or invisible to it.
LEMMA StepKeepsContract ==
  ClawfarmInv /\ ClawfarmInv' /\ [ClawfarmNext]_vars => [Contract!ContractNext]_(Contract!cvars)
<1> SUFFICES ASSUME ClawfarmInv, ClawfarmInv', [ClawfarmNext]_vars
             PROVE  [Contract!ContractNext]_(Contract!cvars)
  OBVIOUS
<1>0. TypeInv
  BY DEF ClawfarmInv
<1>1. CASE CrossProgramStep
  <2>1. ASSUME NEW s \in Signers, NEW r \in Receipts, NEW u \in Users, NEW p \in Providers,
               NEW charge \in Charges, Submit(s, r, u, p, charge)
        PROVE  Contract!ContractNext
    BY <2>1, SubmitTakes DEF Contract!ContractNext
  <2>2. ASSUME NEW r \in Receipts, Finalize(r)
        PROVE  Contract!ContractNext
    BY <2>2, FinalizePays DEF Contract!ContractNext
  <2>3. ASSUME NEW r \in Receipts, TimeoutReject(r)
        PROVE  Contract!ContractNext
    BY <2>3, DisputeEnds DEF Contract!ContractNext, TimeoutReject, TimeoutRejectChallenge
  <2>4. ASSUME NEW r \in Receipts, NEW w \in Challengers, Open(r, w)
        PROVE  Contract!ContractNext
    BY <2>4, OpenDisputes DEF Contract!ContractNext
  <2>5. ASSUME NEW r \in Receipts, NEW code \in ResolutionCodes, Resolve(r, code)
        PROVE  Contract!ContractNext
    BY <2>5, DisputeEnds DEF Contract!ContractNext, Resolve, ResolveChallenge
  <2> QED
    BY <1>1, <2>1, <2>2, <2>3, <2>4, <2>5 DEF CrossProgramStep
<1>2. CASE DirectStep /\ UNCHANGED attestation_vars
  BY <1>0, <1>2, DirectInvisible
<1>3. CASE AttestationOnlyStep /\ UNCHANGED masterpool_vars
  BY <1>3, AttestationInvisible
<1>4. CASE MasterpoolTick /\ UNCHANGED attestation_vars
  <2>1. now' \in Nat /\ now' > now
    BY <1>0, <1>4, ChainAssumption DEF MasterpoolTick, Tick, TypeInv, TypeOK
  <2>2. UNCHANGED <<settlement, bond, vault, receipt>>
    BY <1>4 DEF MasterpoolTick, masterpool_vars, tokens, attestation_vars
  <2>3. \A y \in Receipts : ViewKept(y)
    BY <2>2, KeepsView
  <2> QED
    BY <2>1, <2>2, <2>3, NoneMoves DEF Contract!ContractNext, Contract!Pass
<1>5. CASE UNCHANGED vars
  <2>1. UNCHANGED <<now, settlement, bond, vault, receipt>>
    BY <1>5 DEF vars, masterpool_vars, tokens, attestation_vars
  <2>2. \A y \in Receipts : ViewKept(y)
    BY <2>1, KeepsView
  <2> QED
    BY <2>1, <2>2, NoneMoves DEF Contract!cvars
<1> QED
  BY <1>1, <1>2, <1>3, <1>4, <1>5 DEF ClawfarmNext

\* Nothing is in escrow at first.
LEMMA InitKeepsContract == Init => Contract!ContractInit
<1> SUFFICES ASSUME Init PROVE Contract!ContractInit
  OBVIOUS
<1>1. /\ now \in Nat /\ vault.provider_pending = 0
      /\ \A r \in Receipts : settlement[r] = None
  BY ChainAssumption DEF Init, MasterpoolInit, ClockInit
<1>2. \A r \in Receipts : StageOf(r) = "none" /\ ~Recorded(r)
  BY <1>1, StageCases DEF Recorded, HasStatus
<1>3. /\ stage = [r \in Receipts |-> "none"]
      /\ share = [r \in Receipts |-> 0]
      /\ deadline = [r \in Receipts |-> 0]
  BY <1>2 DEF stage, share, deadline
<1> QED
  BY <1>1, <1>3 DEF Contract!ContractInit

\* Clawfarm implements the contract: for any number of receipts, users and
\* providers, the escrow of a receipt leaves the shared vault once, to the
\* provider only after an undisputed window or a dismissed dispute, to the payer
\* only when a dispute opened in time was upheld.
THEOREM ClawfarmKeepsContract == ClawfarmSpec => KeepsContract
<1>1. Init => Contract!ContractInit
  BY InitKeepsContract
<1>2. ClawfarmInv /\ ClawfarmInv' /\ [ClawfarmNext]_vars => [Contract!ContractNext]_(Contract!cvars)
  BY StepKeepsContract
<1> QED
  BY <1>1, <1>2, ClawfarmInvAlways, PTL DEF ClawfarmSpec, KeepsContract, Contract!ContractSpec
=============================================================================
