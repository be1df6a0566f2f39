----------------------- MODULE MasterpoolAccountProofs ------------------------
(***************************************************************************)
(* The accounts of providers and rewards, for every instance.              *)
(* exit_provider looks at two counters and at the net position, never at   *)
(* receipts or bonds: the counters count what they stand for, so a         *)
(* provider that left has no receipt and no bond that could still be       *)
(* charged to it.  The position is what was earned less what was slashed,  *)
(* and withholding, decided on positions that later reverts change, never  *)
(* takes more than that.  Nothing is released before it has vested; what a *)
(* reward account has pending, locked and released is the sum over its     *)
(* receipts; and every CLAW ever minted is accounted for.                  *)
(***************************************************************************)
EXTENDS MasterpoolProofs

(* What a provider owes *)

OpenReceipts(p) == {r \in Receipts : Recorded(r) /\ OfProvider(r, p)}
OpenBonds(p) == {c \in Challenges : BondLocked(c) /\ bond[c].provider_wallet = p}

\* A bond is of the provider of its receipt.
BondsKnown ==
    \A c \in Challenges : bond[c] # None =>
        LET r == bond[c].attestation_receipt IN
        settlement[r] # None /\ settlement[r].provider_wallet = bond[c].provider_wallet

ExitInv == BondsKnown /\ ObligationCounts /\ ObligationsKeepProviderStaked

\* The parties of a settlement are fixed when it is written.
LEMMA SettlementsKept ==
  ASSUME TypeInv, [Next]_mvars, NEW x \in Receipts, settlement[x] # None
  PROVE  /\ settlement'[x] # None
         /\ settlement'[x].provider_wallet = settlement[x].provider_wallet
<1> DEFINE Kept == /\ settlement'[x] # None
                   /\ settlement'[x].provider_wallet = settlement[x].provider_wallet
<1>0. settlement[x] \in ReceiptSettlement
  BY DEF TypeInv, TypeOK
<1>1. ASSUME UNCHANGED settlement
      PROVE  Kept
  BY <1>1
<1>2. ASSUME NEW r \in Receipts, Changed(settlement, settlement', Receipts, r), x # r
      PROVE  Kept
  BY <1>2 DEF Changed
<1>3. ASSUME NEW r \in Receipts, NEW u \in Users, NEW p \in Providers, NEW total \in Charges,
             RecordMiningFromReceipt(r, u, p, total)
      PROVE  Kept
  <2>1. settlement[r] = None /\ Changed(settlement, settlement', Receipts, r)
    BY <1>3, RecordEffect
  <2> QED
    BY <1>2, <2>1
<1>4. ASSUME NEW r \in Receipts, NEW status, SettleFinalizedReceipt(r, status)
      PROVE  Kept
  <2>1. /\ Changed(settlement, settlement', Receipts, r)
        /\ settlement'[r] = [settlement[r] EXCEPT !.reward_lock_started_at = now,
                                                  !.status = "FinalizedSettled"]
        /\ settlement'[r] \in ReceiptSettlement
    BY <1>4, SettleEffect
  <2>2. CASE x = r
    BY <1>0, <2>1, <2>2, NoneAssumption DEF ReceiptSettlement
  <2> QED
    BY <1>2, <2>1, <2>2
<1>5. ASSUME NEW c \in Challenges, NEW r \in Receipts, Resolvable(c, r),
             RevertReceipt(c, r), UNCHANGED <<now, config, allowance>>
      PROVE  Kept
  <2>1. /\ Changed(settlement, settlement', Receipts, r)
        /\ settlement'[r] = [settlement[r] EXCEPT !.status = "ChallengedReverted"]
        /\ settlement'[r] \in ReceiptSettlement
    BY <1>5, RevertEffect
  <2>2. CASE x = r
    BY <1>0, <2>1, <2>2, NoneAssumption DEF ReceiptSettlement
  <2> QED
    BY <1>2, <2>1, <2>2
<1>6. ASSUME NEW r \in Receipts, NEW target, NEW amount \in Nat,
             MaterializeRewardRelease(r, target, amount)
      PROVE  Kept
  <2>1. /\ Changed(settlement, settlement', Receipts, r)
        /\ settlement[r] \in ReceiptSettlement /\ settlement'[r] \in ReceiptSettlement
        /\ \/ settlement'[r] = [settlement[r] EXCEPT !.user_claw_released = @ + amount]
           \/ settlement'[r] = [settlement[r] EXCEPT !.provider_claw_released = @ + amount]
    BY <1>6, ReleaseEffect
  <2>2. CASE x = r
    BY <1>0, <2>1, <2>2, NoneAssumption DEF ReceiptSettlement
  <2> QED
    BY <1>2, <2>1, <2>2
<1>7. ASSUME NEW p \in Providers, RegisterProvider(p)
      PROVE  Kept
  BY <1>1, <1>7, RegisterEffect
<1>8. ASSUME NEW p \in Providers, NEW destination \in Holders, ExitProvider(p, destination)
      PROVE  Kept
  BY <1>1, <1>8, ExitEffect
<1>9. ASSUME NEW c \in Challenges, NEW r \in Receipts, NEW w \in Challengers,
             RecordChallengeBond(c, r, w)
      PROVE  Kept
  BY <1>1, <1>9, BondEffect
<1>10. ASSUME NEW c \in Challenges, NEW r \in Receipts, Resolvable(c, r), BurnBond(c, r),
              UNCHANGED <<now, config, allowance>>
       PROVE  Kept
  BY <1>1, <1>10, BurnEffect
<1>11. (\/ \E params : InitializeMasterpool(params) \/ UpdateConfig(params)
        \/ MintGenesisSupply
        \/ \E flags : SetPauseFlags(flags)
        \/ \E y : ClaimUserClaw(y) \/ ClaimProviderClaw(y)
        \/ \E u, amount : Approve(u, amount)
        \/ MasterpoolTick
        \/ UNCHANGED mvars) => Kept
  BY <1>1, OtherEffect
<1> HIDE DEF Kept
<1>12. Kept
  BY <1>3, <1>4, <1>5, <1>6, <1>7, <1>8, <1>9, <1>10, <1>11, StepCases
<1> QED
  BY <1>12 DEF Kept

\* Every step keeps bonds tied to the provider of their receipt.
LEMMA BondsKnownStep ==
  ASSUME TypeInv, BondsKnown, [Next]_mvars
  PROVE  BondsKnown'
<1>0. \A c \in Challenges : bond[c] # None =>
        /\ bond[c] \in ChallengeBondRecord /\ bond[c].attestation_receipt \in Receipts
  BY DEF TypeInv, TypeOK, ChallengeBondRecord
<1>1. \A x \in Receipts : settlement[x] # None =>
        /\ settlement'[x] # None
        /\ settlement'[x].provider_wallet = settlement[x].provider_wallet
  BY SettlementsKept
\* A bond keeps its receipt and its provider; a new bond takes them from the
\* settlement.
<1>2. ASSUME \A c \in Challenges :
               bond'[c] # None =>
                 \/ /\ bond[c] # None
                    /\ bond'[c].attestation_receipt = bond[c].attestation_receipt
                    /\ bond'[c].provider_wallet = bond[c].provider_wallet
                 \/ /\ bond'[c].attestation_receipt \in Receipts
                    /\ settlement[bond'[c].attestation_receipt] # None
                    /\ bond'[c].provider_wallet =
                         settlement[bond'[c].attestation_receipt].provider_wallet
      PROVE  BondsKnown'
  BY <1>0, <1>1, <1>2 DEF BondsKnown
<1>3. ASSUME UNCHANGED bond
      PROVE  BondsKnown'
  BY <1>2, <1>3
<1>4. ASSUME NEW c \in Challenges, NEW r \in Receipts, NEW w \in Challengers,
             RecordChallengeBond(c, r, w)
      PROVE  BondsKnown'
  <2>1. /\ Recorded(r) /\ Changed(bond, bond', Challenges, c)
        /\ bond'[c].attestation_receipt = r
        /\ bond'[c].provider_wallet = settlement[r].provider_wallet
    BY <1>4, BondEffect
  <2> QED
    BY <1>2, <2>1 DEF Changed, Recorded, HasStatus
<1>5. ASSUME NEW c \in Challenges, NEW r \in Receipts, Resolvable(c, r),
             BurnBond(c, r) \/ RevertReceipt(c, r), UNCHANGED <<now, config, allowance>>
      PROVE  BondsKnown'
  <2>1. /\ BondLocked(c) /\ bond[c] \in ChallengeBondRecord
        /\ \/ bond'[c] = [bond[c] EXCEPT !.status = "Burned"]
           \/ bond'[c] = [bond[c] EXCEPT !.status = "Returned"]
        /\ Changed(bond, bond', Challenges, c)
    BY <1>5, BurnEffect, RevertEffect
  <2>2. /\ bond[c] # None
        /\ bond'[c].attestation_receipt = bond[c].attestation_receipt
        /\ bond'[c].provider_wallet = bond[c].provider_wallet
    BY <2>1 DEF ChallengeBondRecord, BondLocked, HasStatus
  <2> QED
    BY <1>2, <2>1, <2>2 DEF Changed
<1>6. ASSUME NEW p \in Providers, RegisterProvider(p)
      PROVE  BondsKnown'
  BY <1>3, <1>6, RegisterEffect
<1>7. ASSUME NEW p \in Providers, NEW destination \in Holders, ExitProvider(p, destination)
      PROVE  BondsKnown'
  BY <1>3, <1>7, ExitEffect
<1>8. ASSUME NEW r \in Receipts, NEW u \in Users, NEW p \in Providers, NEW total \in Charges,
             RecordMiningFromReceipt(r, u, p, total)
      PROVE  BondsKnown'
  BY <1>3, <1>8, RecordEffect
<1>9. ASSUME NEW r \in Receipts, NEW status, SettleFinalizedReceipt(r, status)
      PROVE  BondsKnown'
  BY <1>3, <1>9, SettleEffect
<1>10. ASSUME NEW r \in Receipts, NEW target, NEW amount \in Nat,
              MaterializeRewardRelease(r, target, amount)
       PROVE  BondsKnown'
  BY <1>3, <1>10, ReleaseEffect
<1>11. (\/ \E params : InitializeMasterpool(params) \/ UpdateConfig(params)
        \/ MintGenesisSupply
        \/ \E flags : SetPauseFlags(flags)
        \/ \E x : ClaimUserClaw(x) \/ ClaimProviderClaw(x)
        \/ \E u, amount : Approve(u, amount)
        \/ MasterpoolTick
        \/ UNCHANGED mvars) => BondsKnown'
  BY <1>3, OtherEffect
<1> HIDE DEF BondsKnown
<1> QED
  BY <1>4, <1>5, <1>6, <1>7, <1>8, <1>9, <1>10, <1>11, StepCases

-----------------------------------------------------------------------------
(* The counters *)

\* The open receipts and bonds of a provider can be counted.
LEMMA OpenFinite ==
  ASSUME NEW p
  PROVE  /\ IsFiniteSet(OpenReceipts(p)) /\ Cardinality(OpenReceipts(p)) \in Nat
         /\ IsFiniteSet(OpenBonds(p)) /\ Cardinality(OpenBonds(p)) \in Nat
<1>1. OpenReceipts(p) \subseteq Receipts /\ OpenBonds(p) \subseteq Challenges
  BY DEF OpenReceipts, OpenBonds
<1>2. IsFiniteSet(Receipts) /\ IsFiniteSet(Challenges)
  BY MasterpoolAssumption
<1> QED
  BY <1>1, <1>2, FS_Subset, FS_CardinalityType

\* A receipt that is recorded, or ceases to be, changes the open receipts of
\* its provider alone.
LEMMA ReceiptOpens ==
  ASSUME NEW r \in Receipts, Changed(settlement, settlement', Receipts, r),
         NEW p, ~Recorded(r), Recorded(r)', settlement'[r].provider_wallet = p
  PROVE  /\ Cardinality(OpenReceipts(p)') = Cardinality(OpenReceipts(p)) + 1
         /\ \A q : q # p => OpenReceipts(q)' = OpenReceipts(q)
<1>1. OpenReceipts(p)' = OpenReceipts(p) \cup {r} /\ r \notin OpenReceipts(p)
  BY DEF OpenReceipts, Recorded, HasStatus, OfProvider, Changed
<1>2. \A q : q # p => OpenReceipts(q)' = OpenReceipts(q)
  BY DEF OpenReceipts, Recorded, HasStatus, OfProvider, Changed
<1> QED
  BY <1>1, <1>2, OpenFinite, FS_AddElement

\* A receipt that is settled or reverted leaves the open ones.
LEMMA ReceiptCloses ==
  ASSUME NEW r \in Receipts, Changed(settlement, settlement', Receipts, r),
         NEW p, Recorded(r), settlement[r].provider_wallet = p, ~Recorded(r)'
  PROVE  /\ Cardinality(OpenReceipts(p)') = Cardinality(OpenReceipts(p)) - 1
         /\ \A q : q # p => OpenReceipts(q)' = OpenReceipts(q)
<1>1. OpenReceipts(p)' = OpenReceipts(p) \ {r} /\ r \in OpenReceipts(p)
  BY DEF OpenReceipts, Recorded, HasStatus, OfProvider, Changed
<1>2. \A q : q # p => OpenReceipts(q)' = OpenReceipts(q)
  BY DEF OpenReceipts, Recorded, HasStatus, OfProvider, Changed
<1> QED
  BY <1>1, <1>2, OpenFinite, FS_RemoveElement

\* A bond that is locked joins the open ones of its provider alone.
LEMMA BondOpens ==
  ASSUME NEW c \in Challenges, Changed(bond, bond', Challenges, c),
         NEW p, ~BondLocked(c), BondLocked(c)', bond'[c].provider_wallet = p
  PROVE  /\ Cardinality(OpenBonds(p)') = Cardinality(OpenBonds(p)) + 1
         /\ \A q : q # p => OpenBonds(q)' = OpenBonds(q)
<1>1. OpenBonds(p)' = OpenBonds(p) \cup {c} /\ c \notin OpenBonds(p)
  BY DEF OpenBonds, BondLocked, HasStatus, Changed
<1>2. \A q : q # p => OpenBonds(q)' = OpenBonds(q)
  BY DEF OpenBonds, BondLocked, HasStatus, Changed
<1> QED
  BY <1>1, <1>2, OpenFinite, FS_AddElement

\* A bond that is resolved leaves the open ones of its provider alone.
LEMMA BondCloses ==
  ASSUME NEW c \in Challenges, Changed(bond, bond', Challenges, c),
         NEW p, BondLocked(c), bond[c].provider_wallet = p, ~BondLocked(c)'
  PROVE  /\ Cardinality(OpenBonds(p)') = Cardinality(OpenBonds(p)) - 1
         /\ \A q : q # p => OpenBonds(q)' = OpenBonds(q)
<1>1. OpenBonds(p)' = OpenBonds(p) \ {c} /\ c \in OpenBonds(p)
  BY DEF OpenBonds, BondLocked, HasStatus, Changed
<1>2. \A q : q # p => OpenBonds(q)' = OpenBonds(q)
  BY DEF OpenBonds, BondLocked, HasStatus, Changed
<1> QED
  BY <1>1, <1>2, OpenFinite, FS_RemoveElement

\* Without a change to a settlement, or to a bond, nothing opens or closes.
LEMMA ReceiptsStay ==
  ASSUME UNCHANGED settlement, NEW q
  PROVE  OpenReceipts(q)' = OpenReceipts(q)
BY DEF OpenReceipts, Recorded, OfProvider

\* Without a change to a bond, no bond opens or closes.
LEMMA BondsStay ==
  ASSUME UNCHANGED bond, NEW q
  PROVE  OpenBonds(q)' = OpenBonds(q)
BY DEF OpenBonds, BondLocked

\* The counters of p follow its open receipts and bonds.
LEMMA CountsMoved ==
  ASSUME ObligationCounts, NEW p \in Providers, Changed(provider, provider', Providers, p),
         provider[p] \in ProviderAccount, NEW m \in Int, NEW n \in Int,
         provider'[p].unsettled_receipt_count = provider[p].unsettled_receipt_count + m,
         provider'[p].unresolved_challenge_count = provider[p].unresolved_challenge_count + n,
         Cardinality(OpenReceipts(p)') = Cardinality(OpenReceipts(p)) + m,
         Cardinality(OpenBonds(p)') = Cardinality(OpenBonds(p)) + n,
         \A q : q # p => OpenReceipts(q)' = OpenReceipts(q) /\ OpenBonds(q)' = OpenBonds(q)
  PROVE  ObligationCounts'
<1>1. \A q \in Providers : provider[q] # None =>
        /\ provider[q].unsettled_receipt_count = Cardinality(OpenReceipts(q))
        /\ provider[q].unresolved_challenge_count = Cardinality(OpenBonds(q))
  BY DEF ObligationCounts, OpenReceipts, OpenBonds
<1>2. provider[p] # None
  BY NoneAssumption
<1>3. ASSUME NEW q \in Providers, provider'[q] # None
      PROVE  /\ provider'[q].unsettled_receipt_count = Cardinality(OpenReceipts(q)')
             /\ provider'[q].unresolved_challenge_count = Cardinality(OpenBonds(q)')
  <2>1. CASE q = p
    BY <1>1, <1>2, <2>1
  <2>2. CASE q # p
    BY <1>1, <1>3, <2>2 DEF Changed
  <2> QED
    BY <2>1, <2>2
<1> QED
  BY <1>3 DEF ObligationCounts, OpenReceipts, OpenBonds

\* Every step keeps the two counters exact.
LEMMA CountsStep ==
  ASSUME TypeInv, BondsKnown, ObligationCounts, [Next]_mvars
  PROVE  ObligationCounts'
<1>0. /\ \A q : OpenReceipts(q) = {r \in Receipts : Recorded(r) /\ OfProvider(r, q)}
      /\ \A q : OpenBonds(q) = {c \in Challenges : BondLocked(c) /\ bond[c].provider_wallet = q}
  BY DEF OpenReceipts, OpenBonds
<1>1. ASSUME NEW r \in Receipts, NEW u \in Users, NEW p \in Providers, NEW total \in Charges,
             RecordMiningFromReceipt(r, u, p, total)
      PROVE  ObligationCounts'
  <2>1. /\ settlement[r] = None /\ settlement'[r] \in ReceiptSettlement
        /\ settlement'[r].provider_wallet = p /\ settlement'[r].status = "Recorded"
        /\ Changed(settlement, settlement', Receipts, r) /\ UNCHANGED bond
        /\ Changed(provider, provider', Providers, p)
        /\ provider[p] \in ProviderAccount
    BY <1>1, RecordEffect
  <2>2. /\ provider'[p].unsettled_receipt_count = provider[p].unsettled_receipt_count + 1
        /\ provider'[p].unresolved_challenge_count = provider[p].unresolved_challenge_count
    BY <1>1, RecordFields
  <2>3. ~Recorded(r) /\ Recorded(r)'
    BY <2>1, NoneAssumption DEF Recorded, HasStatus
  <2>4. /\ Cardinality(OpenReceipts(p)') = Cardinality(OpenReceipts(p)) + 1
        /\ \A q : q # p => OpenReceipts(q)' = OpenReceipts(q)
    BY <2>1, <2>3, ReceiptOpens
  <2>5. \A q : OpenBonds(q)' = OpenBonds(q)
    BY <2>1, BondsStay
  <2>6. /\ provider'[p].unresolved_challenge_count = provider[p].unresolved_challenge_count + 0
        /\ Cardinality(OpenBonds(p)') = Cardinality(OpenBonds(p)) + 0
    <3>1. provider[p].unresolved_challenge_count \in Int
      BY <2>1, WidthFacts DEF ProviderAccount
    <3> QED
      BY <2>2, <2>5, <3>1, OpenFinite
  <2> QED
    BY <2>1, <2>2, <2>4, <2>5, <2>6, CountsMoved
<1>2. ASSUME NEW r \in Receipts, NEW p \in Providers, Recorded(r), ~Recorded(r)',
             settlement[r].provider_wallet = p, provider[p] \in ProviderAccount,
             Changed(settlement, settlement', Receipts, r),
             Changed(provider, provider', Providers, p),
             NEW n \in Int,
             provider'[p].unsettled_receipt_count = provider[p].unsettled_receipt_count - 1,
             provider'[p].unresolved_challenge_count =
               provider[p].unresolved_challenge_count + n,
             Cardinality(OpenBonds(p)') = Cardinality(OpenBonds(p)) + n,
             \A q : q # p => OpenBonds(q)' = OpenBonds(q)
      PROVE  ObligationCounts'
  <2>1. /\ Cardinality(OpenReceipts(p)') = Cardinality(OpenReceipts(p)) - 1
        /\ \A q : q # p => OpenReceipts(q)' = OpenReceipts(q)
    BY <1>2, ReceiptCloses
  <2>2. provider[p].unsettled_receipt_count \in Int
    BY <1>2, WidthFacts DEF ProviderAccount
  <2> DEFINE m == -1
  <2>3. /\ provider'[p].unsettled_receipt_count = provider[p].unsettled_receipt_count + m
        /\ Cardinality(OpenReceipts(p)') = Cardinality(OpenReceipts(p)) + m
        /\ m \in Int
    BY <1>2, <2>1, <2>2, OpenFinite
  <2> HIDE DEF m
  <2> QED
    BY <1>2, <2>1, <2>3, CountsMoved
<1>3. ASSUME NEW r \in Receipts, NEW status, SettleFinalizedReceipt(r, status)
      PROVE  ObligationCounts'
  <2> DEFINE p == settlement[r].provider_wallet
  <2>1. /\ Recorded(r) /\ settlement[r] \in ReceiptSettlement /\ p \in Providers
        /\ settlement'[r] = [settlement[r] EXCEPT !.reward_lock_started_at = now,
                                                  !.status = "FinalizedSettled"]
        /\ Changed(settlement, settlement', Receipts, r)
        /\ provider[p] \in ProviderAccount
        /\ Changed(provider, provider', Providers, p)
        /\ UNCHANGED bond
    BY <1>3, SettleEffect
  <2>2. /\ provider'[p].unsettled_receipt_count = provider[p].unsettled_receipt_count - 1
        /\ provider'[p].unresolved_challenge_count = provider[p].unresolved_challenge_count
    BY <1>3, SettleFields
  <2>3. ~Recorded(r)'
    BY <2>1 DEF ReceiptSettlement, Recorded, HasStatus
  <2>4. \A q : OpenBonds(q)' = OpenBonds(q)
    BY <2>1, BondsStay
  <2>5. PICK o : o = p
    OBVIOUS
  <2> HIDE DEF p
  <2>6. /\ provider'[o].unresolved_challenge_count = provider[o].unresolved_challenge_count + 0
        /\ Cardinality(OpenBonds(o)') = Cardinality(OpenBonds(o)) + 0
    <3>1. provider[o].unresolved_challenge_count \in Int
      BY <2>1, <2>5, WidthFacts DEF ProviderAccount
    <3> QED
      BY <2>2, <2>4, <2>5, <3>1, OpenFinite
  <2> QED
    BY <1>2, <2>1, <2>2, <2>3, <2>4, <2>5, <2>6 DEF p
\* The steps that open or close a bond and leave the receipts.
<1>4. ASSUME NEW p \in Providers, provider[p] \in ProviderAccount, UNCHANGED settlement,
             Changed(provider, provider', Providers, p),
             NEW n \in Int,
             provider'[p].unsettled_receipt_count = provider[p].unsettled_receipt_count,
             provider'[p].unresolved_challenge_count =
               provider[p].unresolved_challenge_count + n,
             Cardinality(OpenBonds(p)') = Cardinality(OpenBonds(p)) + n,
             \A q : q # p => OpenBonds(q)' = OpenBonds(q)
      PROVE  ObligationCounts'
  <2>1. \A q : OpenReceipts(q)' = OpenReceipts(q)
    BY <1>4, ReceiptsStay
  <2>2. /\ provider'[p].unsettled_receipt_count = provider[p].unsettled_receipt_count + 0
        /\ Cardinality(OpenReceipts(p)') = Cardinality(OpenReceipts(p)) + 0
    <3>1. provider[p].unsettled_receipt_count \in Int
      BY <1>4, WidthFacts DEF ProviderAccount
    <3> QED
      BY <1>4, <2>1, <3>1, OpenFinite
  <2> QED
    BY <1>4, <2>1, <2>2, CountsMoved
<1>5. ASSUME NEW c \in Challenges, NEW r \in Receipts, NEW w \in Challengers,
             RecordChallengeBond(c, r, w)
      PROVE  ObligationCounts'
  <2>1. PICK p : p = settlement[r].provider_wallet
    OBVIOUS
  <2>2. /\ bond[c] = None /\ bond'[c] \in ChallengeBondRecord /\ bond'[c].status = "Locked"
        /\ bond'[c].provider_wallet = p /\ Changed(bond, bond', Challenges, c)
        /\ p \in Providers /\ provider[p] \in ProviderAccount
        /\ Changed(provider, provider', Providers, p) /\ UNCHANGED settlement
    BY <1>5, <2>1, BondEffect
  <2>3. /\ provider'[p].unsettled_receipt_count = provider[p].unsettled_receipt_count
        /\ provider'[p].unresolved_challenge_count = provider[p].unresolved_challenge_count + 1
    BY <1>5, <2>1, BondFields
  <2>4. ~BondLocked(c) /\ BondLocked(c)'
    BY <2>2, NoneAssumption DEF BondLocked, HasStatus
  <2>5. /\ Cardinality(OpenBonds(p)') = Cardinality(OpenBonds(p)) + 1
        /\ \A q : q # p => OpenBonds(q)' = OpenBonds(q)
    BY <2>2, <2>4, BondOpens
  <2> QED
    BY <1>4, <2>2, <2>3, <2>5
\* Resolving closes the bond, on either branch.
<1>6. ASSUME NEW c \in Challenges, NEW r \in Receipts, BondLocked(c), ~BondLocked(c)',
             bond[c].attestation_receipt = r,
             bond[c] \in ChallengeBondRecord, Changed(bond, bond', Challenges, c),
             NEW p, p = settlement[r].provider_wallet,
             provider[p] \in ProviderAccount,
             provider'[p].unresolved_challenge_count =
               provider[p].unresolved_challenge_count - 1
      PROVE  \E n \in Int :
               /\ n = -1
               /\ provider'[p].unresolved_challenge_count =
                    provider[p].unresolved_challenge_count + n
               /\ Cardinality(OpenBonds(p)') = Cardinality(OpenBonds(p)) + n
               /\ \A q : q # p => OpenBonds(q)' = OpenBonds(q)
  <2>1. bond[c].provider_wallet = p
    BY <1>6 DEF BondsKnown, BondLocked, HasStatus
  <2>2. /\ Cardinality(OpenBonds(p)') = Cardinality(OpenBonds(p)) - 1
        /\ \A q : q # p => OpenBonds(q)' = OpenBonds(q)
    BY <1>6, <2>1, BondCloses
  <2>3. provider[p].unresolved_challenge_count \in Int
    BY <1>6, WidthFacts DEF ProviderAccount
  <2>4. /\ provider'[p].unresolved_challenge_count = provider[p].unresolved_challenge_count + (-1)
        /\ Cardinality(OpenBonds(p)') = Cardinality(OpenBonds(p)) + (-1)
    BY <1>6, <2>2, <2>3, OpenFinite
  <2> WITNESS -1 \in Int
  <2> QED
    BY <2>2, <2>4
<1>7. ASSUME NEW c \in Challenges, NEW r \in Receipts, Resolvable(c, r), BurnBond(c, r),
             UNCHANGED <<now, config, allowance>>
      PROVE  ObligationCounts'
  <2>1. PICK p : p = settlement[r].provider_wallet
    OBVIOUS
  <2>2. /\ BondLocked(c) /\ bond[c].attestation_receipt = r /\ bond[c] \in ChallengeBondRecord
        /\ bond'[c] = [bond[c] EXCEPT !.status = "Burned"]
        /\ Changed(bond, bond', Challenges, c)
        /\ p \in Providers /\ provider[p] \in ProviderAccount
        /\ Changed(provider, provider', Providers, p) /\ UNCHANGED settlement
    BY <1>7, <2>1, BurnEffect
  <2>3. /\ provider'[p].unsettled_receipt_count = provider[p].unsettled_receipt_count
        /\ provider'[p].unresolved_challenge_count = provider[p].unresolved_challenge_count - 1
    BY <1>7, <2>1, BurnFields
  <2>4. ~BondLocked(c)'
    BY <2>2 DEF BondLocked, HasStatus, ChallengeBondRecord
  <2>5. PICK n \in Int :
          /\ provider'[p].unresolved_challenge_count =
               provider[p].unresolved_challenge_count + n
          /\ Cardinality(OpenBonds(p)') = Cardinality(OpenBonds(p)) + n
          /\ \A q : q # p => OpenBonds(q)' = OpenBonds(q)
    BY <1>6, <2>1, <2>2, <2>3, <2>4
  <2> QED
    BY <1>4, <2>2, <2>3, <2>5
<1>8. ASSUME NEW c \in Challenges, NEW r \in Receipts, Resolvable(c, r),
             RevertReceipt(c, r), UNCHANGED <<now, config, allowance>>
      PROVE  ObligationCounts'
  <2>1. PICK p : p = settlement[r].provider_wallet
    OBVIOUS
  <2>2. /\ Recorded(r) /\ settlement[r] \in ReceiptSettlement
        /\ BondLocked(c) /\ bond[c].attestation_receipt = r /\ bond[c] \in ChallengeBondRecord
        /\ bond'[c] = [bond[c] EXCEPT !.status = "Returned"]
        /\ Changed(bond, bond', Challenges, c)
        /\ settlement'[r] = [settlement[r] EXCEPT !.status = "ChallengedReverted"]
        /\ Changed(settlement, settlement', Receipts, r)
        /\ p \in Providers /\ provider[p] \in ProviderAccount
        /\ Changed(provider, provider', Providers, p)
    BY <1>8, <2>1, RevertEffect
  <2>3. /\ provider'[p].unsettled_receipt_count = provider[p].unsettled_receipt_count - 1
        /\ provider'[p].unresolved_challenge_count = provider[p].unresolved_challenge_count - 1
    BY <1>8, <2>1, RevertFields
  <2>4. ~BondLocked(c)'
    BY <2>2 DEF BondLocked, HasStatus, ChallengeBondRecord
  <2>5. ~Recorded(r)'
    BY <2>2 DEF Recorded, HasStatus, ReceiptSettlement
  <2>6. PICK n \in Int :
          /\ provider'[p].unresolved_challenge_count =
               provider[p].unresolved_challenge_count + n
          /\ Cardinality(OpenBonds(p)') = Cardinality(OpenBonds(p)) + n
          /\ \A q : q # p => OpenBonds(q)' = OpenBonds(q)
    BY <1>6, <2>1, <2>2, <2>3, <2>4
  <2> QED
    BY <1>2, <2>1, <2>2, <2>3, <2>5, <2>6
\* A provider that registers has neither receipts nor bonds.
<1>9. ASSUME NEW p \in Providers, RegisterProvider(p)
      PROVE  ObligationCounts'
  <2>1. /\ provider[p] = None /\ UNCHANGED <<settlement, bond>>
        /\ provider'[p].unsettled_receipt_count = 0
        /\ provider'[p].unresolved_challenge_count = 0
        /\ Changed(provider, provider', Providers, p)
    BY <1>9, RegisterEffect
  <2>2. OpenReceipts(p) = {}
    BY <2>1 DEF OpenReceipts, OfProvider, TypeInv, ProvidersKnown
  <2>3. OpenBonds(p) = {}
    <3>1. \A c \in Challenges : bond[c] # None => bond[c].attestation_receipt \in Receipts
      BY DEF TypeInv, TypeOK, ChallengeBondRecord
    <3> QED
      BY <2>1, <3>1 DEF OpenBonds, BondLocked, HasStatus, BondsKnown, TypeInv, ProvidersKnown
  <2>4. \A q : OpenReceipts(q)' = OpenReceipts(q) /\ OpenBonds(q)' = OpenBonds(q)
    BY <2>1, ReceiptsStay, BondsStay
  <2> QED
    BY <2>1, <2>2, <2>3, <2>4, FS_EmptySet
       DEF ObligationCounts, OpenReceipts, OpenBonds, Changed
\* Nothing opens or closes and every account keeps its counters.
<1>10. ASSUME \A q : OpenReceipts(q)' = OpenReceipts(q) /\ OpenBonds(q)' = OpenBonds(q),
              \A q \in Providers : provider'[q] # None =>
                /\ provider[q] # None
                /\ provider'[q].unsettled_receipt_count = provider[q].unsettled_receipt_count
                /\ provider'[q].unresolved_challenge_count =
                     provider[q].unresolved_challenge_count
       PROVE  ObligationCounts'
  BY <1>10 DEF ObligationCounts, OpenReceipts, OpenBonds
<1>11. ASSUME NEW p \in Providers, NEW destination \in Holders, ExitProvider(p, destination)
       PROVE  ObligationCounts'
  <2>1. /\ provider[p] \in ProviderAccount /\ UNCHANGED <<settlement, bond>>
        /\ provider'[p] = [provider[p] EXCEPT !.staked_usdc_amount = 0, !.status = "Exited"]
        /\ Changed(provider, provider', Providers, p)
    BY <1>11, ExitEffect
  <2>2. \A q : OpenReceipts(q)' = OpenReceipts(q) /\ OpenBonds(q)' = OpenBonds(q)
    BY <2>1, ReceiptsStay, BondsStay
  <2>3. /\ provider[p] # None
        /\ provider'[p].unsettled_receipt_count = provider[p].unsettled_receipt_count
        /\ provider'[p].unresolved_challenge_count = provider[p].unresolved_challenge_count
    BY <2>1, NoneAssumption DEF ProviderAccount
  <2> QED
    BY <1>10, <2>1, <2>2, <2>3 DEF Changed
<1>12. ASSUME NEW r \in Receipts, NEW target, NEW amount \in Nat,
              MaterializeRewardRelease(r, target, amount)
       PROVE  ObligationCounts'
  <2>1. /\ FinalizedSettled(r) /\ settlement[r] \in ReceiptSettlement
        /\ \/ settlement'[r] = [settlement[r] EXCEPT !.user_claw_released = @ + amount]
           \/ settlement'[r] = [settlement[r] EXCEPT !.provider_claw_released = @ + amount]
        /\ Changed(settlement, settlement', Receipts, r)
        /\ UNCHANGED <<provider, bond, vault>>
    BY <1>12, ReleaseEffect
  <2>2. ~Recorded(r) /\ ~Recorded(r)'
    BY <2>1 DEF FinalizedSettled, Recorded, HasStatus, ReceiptSettlement
  <2>3. \A q : OpenReceipts(q)' = OpenReceipts(q)
    BY <2>1, <2>2 DEF OpenReceipts, Recorded, OfProvider, Changed
  <2>4. \A q : OpenBonds(q)' = OpenBonds(q)
    BY <2>1, BondsStay
  <2> QED
    BY <1>10, <2>1, <2>3, <2>4
<1>13. (\/ \E params : InitializeMasterpool(params) \/ UpdateConfig(params)
        \/ MintGenesisSupply
        \/ \E flags : SetPauseFlags(flags)
        \/ \E x : ClaimUserClaw(x) \/ ClaimProviderClaw(x)
        \/ \E u, amount : Approve(u, amount)
        \/ MasterpoolTick
        \/ UNCHANGED mvars) => ObligationCounts'
  <2>1. ASSUME UNCHANGED <<provider, settlement, bond>>
        PROVE  ObligationCounts'
    BY <1>10, <2>1, ReceiptsStay, BondsStay
  <2> QED
    BY <2>1, OtherEffect
<1> HIDE DEF ObligationCounts
<1> QED
  BY <1>1, <1>3, <1>5, <1>7, <1>8, <1>9, <1>11, <1>12, <1>13, StepCases

-----------------------------------------------------------------------------
(* No obligation is left behind *)

Active(p) == HasStatus(provider[p], "Active")

\* A step that opens nothing for a provider that is not active, and that takes
\* the status of no provider with something open, keeps obligations and stakes
\* together.
LEMMA StakedKept ==
  ASSUME TypeInv, ExitInv,
         \A r \in Receipts : Recorded(r)' =>
            \/ Recorded(r) /\ settlement'[r].provider_wallet = settlement[r].provider_wallet
            \/ HasStatus(provider'[settlement'[r].provider_wallet], "Active"),
         \A c \in Challenges : BondLocked(c)' =>
            \/ BondLocked(c) /\ bond'[c].provider_wallet = bond[c].provider_wallet
            \/ HasStatus(provider'[bond'[c].provider_wallet], "Active"),
         \A p \in Providers : Active(p) => HasStatus(provider'[p], "Active"),
         \A p \in Providers : HasStatus(provider'[p], "Exited") =>
            HasStatus(provider[p], "Exited") /\ provider'[p] = provider[p]
  PROVE  ObligationsKeepProviderStaked'
<1>1. \A r \in Receipts : Recorded(r) =>
         settlement[r].provider_wallet \in Providers /\ Active(settlement[r].provider_wallet)
  BY DEF ExitInv, ObligationsKeepProviderStaked, Active, Recorded, HasStatus,
         TypeInv, TypeOK, ReceiptSettlement
<1>2. \A c \in Challenges : BondLocked(c) =>
         bond[c].provider_wallet \in Providers /\ Active(bond[c].provider_wallet)
  BY DEF ExitInv, ObligationsKeepProviderStaked, Active, BondLocked, HasStatus,
         TypeInv, TypeOK, ChallengeBondRecord
<1>3. \A r \in Receipts : Recorded(r)' =>
        HasStatus(provider'[settlement'[r].provider_wallet], "Active")
  BY <1>1 DEF Active, HasStatus
<1>4. \A c \in Challenges : BondLocked(c)' =>
        HasStatus(provider'[bond'[c].provider_wallet], "Active")
  BY <1>2 DEF Active, HasStatus
<1>5. \A p \in Providers : HasStatus(provider'[p], "Exited") => provider'[p].claw_net_position >= 0
  BY DEF ExitInv, ObligationsKeepProviderStaked, HasStatus
<1> QED
  BY <1>3, <1>4, <1>5 DEF ObligationsKeepProviderStaked

\* Every step keeps obligations on providers that are still active.
LEMMA StakedStep ==
  ASSUME TypeInv, ExitInv, [Next]_mvars
  PROVE  ObligationsKeepProviderStaked'
<1>0. /\ \A r \in Receipts : Recorded(r) =>
           Active(settlement[r].provider_wallet) /\ settlement[r].provider_wallet \in Providers
      /\ \A c \in Challenges : BondLocked(c) => Active(bond[c].provider_wallet)
      /\ \A p \in Providers : HasStatus(provider[p], "Exited") =>
           provider[p].claw_net_position >= 0
  BY DEF ExitInv, ObligationsKeepProviderStaked, Active, Recorded, HasStatus,
         TypeInv, TypeOK, ReceiptSettlement
<1>1. ASSUME NEW r \in Receipts, NEW u \in Users, NEW p \in Providers, NEW total \in Charges,
             RecordMiningFromReceipt(r, u, p, total)
      PROVE  ObligationsKeepProviderStaked'
  <2>1. /\ settlement'[r].provider_wallet = p
        /\ Changed(settlement, settlement', Receipts, r) /\ UNCHANGED bond
        /\ Changed(provider, provider', Providers, p)
        /\ HasStatus(provider[p], "Active") /\ provider'[p] \in ProviderAccount
    BY <1>1, RecordEffect
  <2>2. provider'[p].status = provider[p].status
    BY <1>1, RecordFields
  <2>3. HasStatus(provider'[p], "Active")
    BY <2>1, <2>2, NoneAssumption DEF HasStatus
  <2> QED
    BY <2>1, <2>3, StakedKept DEF Changed, Recorded, BondLocked, HasStatus, Active
\* Settling and reverting touch the account of a provider that is active.
<1>2. ASSUME NEW p \in Providers, Active(p), provider'[p] \in ProviderAccount,
             provider'[p].status = provider[p].status,
             Changed(provider, provider', Providers, p),
             \A x \in Receipts : Recorded(x)' =>
               Recorded(x) /\ settlement'[x].provider_wallet = settlement[x].provider_wallet,
             \A d \in Challenges : BondLocked(d)' =>
               \/ BondLocked(d) /\ bond'[d].provider_wallet = bond[d].provider_wallet
               \/ bond'[d].provider_wallet = p
      PROVE  ObligationsKeepProviderStaked'
  <2>1. HasStatus(provider'[p], "Active")
    BY <1>2, NoneAssumption DEF HasStatus, Active
  <2> QED
    BY <1>2, <2>1, StakedKept DEF Changed, HasStatus, Active
<1>3. ASSUME NEW r \in Receipts, NEW status, SettleFinalizedReceipt(r, status)
      PROVE  ObligationsKeepProviderStaked'
  <2>1. PICK p : p = settlement[r].provider_wallet
    OBVIOUS
  <2>2. /\ Recorded(r) /\ settlement[r] \in ReceiptSettlement /\ p \in Providers
        /\ settlement'[r] = [settlement[r] EXCEPT !.reward_lock_started_at = now,
                                                  !.status = "FinalizedSettled"]
        /\ Changed(settlement, settlement', Receipts, r)
        /\ provider'[p] \in ProviderAccount
        /\ Changed(provider, provider', Providers, p)
        /\ UNCHANGED bond
    BY <1>3, <2>1, SettleEffect
  <2>3. provider'[p].status = provider[p].status
    BY <1>3, <2>1, SettleFields
  <2>4. ~Recorded(r)'
    BY <2>2 DEF ReceiptSettlement, Recorded, HasStatus
  <2>5. \A x \in Receipts : Recorded(x)' =>
          Recorded(x) /\ settlement'[x].provider_wallet = settlement[x].provider_wallet
    BY <2>2, <2>4 DEF Changed, Recorded
  <2>6. \A d \in Challenges : BondLocked(d)' =>
          BondLocked(d) /\ bond'[d].provider_wallet = bond[d].provider_wallet
    BY <2>2 DEF BondLocked
  <2> QED
    BY <1>0, <1>2, <2>1, <2>2, <2>3, <2>5, <2>6
<1>4. ASSUME NEW c \in Challenges, NEW r \in Receipts, NEW w \in Challengers,
             RecordChallengeBond(c, r, w)
      PROVE  ObligationsKeepProviderStaked'
  <2>1. PICK p : p = settlement[r].provider_wallet
    OBVIOUS
  <2>2. /\ Recorded(r) /\ bond'[c].provider_wallet = p /\ Changed(bond, bond', Challenges, c)
        /\ p \in Providers /\ provider'[p] \in ProviderAccount
        /\ Changed(provider, provider', Providers, p) /\ UNCHANGED settlement
    BY <1>4, <2>1, BondEffect
  <2>3. provider'[p].status = provider[p].status
    BY <1>4, <2>1, BondFields
  <2>4. \A x \in Receipts : Recorded(x)' =>
          Recorded(x) /\ settlement'[x].provider_wallet = settlement[x].provider_wallet
    BY <2>2 DEF Recorded
  <2>5. \A d \in Challenges : BondLocked(d)' =>
          \/ BondLocked(d) /\ bond'[d].provider_wallet = bond[d].provider_wallet
          \/ bond'[d].provider_wallet = p
    BY <2>2 DEF BondLocked, Changed
  <2> QED
    BY <1>0, <1>2, <2>1, <2>2, <2>3, <2>4, <2>5
<1>5. ASSUME NEW c \in Challenges, NEW r \in Receipts, Resolvable(c, r),
             BurnBond(c, r) \/ RevertReceipt(c, r), UNCHANGED <<now, config, allowance>>
      PROVE  ObligationsKeepProviderStaked'
  <2>1. PICK p : p = settlement[r].provider_wallet
    OBVIOUS
  <2>2. /\ Recorded(r) /\ bond[c] \in ChallengeBondRecord
        /\ \/ bond'[c] = [bond[c] EXCEPT !.status = "Burned"]
           \/ bond'[c] = [bond[c] EXCEPT !.status = "Returned"]
        /\ Changed(bond, bond', Challenges, c)
        /\ p \in Providers /\ provider'[p] \in ProviderAccount
        /\ Changed(provider, provider', Providers, p)
    BY <1>5, <2>1, BurnEffect, RevertEffect
  <2>3. provider'[p].status = provider[p].status
    BY <1>5, <2>1, BurnFields, RevertFields
  <2>4. \A x \in Receipts : Recorded(x)' =>
          Recorded(x) /\ settlement'[x].provider_wallet = settlement[x].provider_wallet
    <3>1. CASE UNCHANGED settlement
      BY <3>1 DEF Recorded
    <3>2. CASE /\ settlement[r] \in ReceiptSettlement
               /\ settlement'[r] = [settlement[r] EXCEPT !.status = "ChallengedReverted"]
               /\ Changed(settlement, settlement', Receipts, r)
      <4>1. ~Recorded(r)'
        BY <3>2 DEF Recorded, HasStatus, ReceiptSettlement
      <4> QED
        BY <3>2, <4>1 DEF Recorded, Changed
    <3> QED
      BY <1>5, <3>1, <3>2, BurnEffect, RevertEffect
  <2>5. \A d \in Challenges : BondLocked(d)' =>
          BondLocked(d) /\ bond'[d].provider_wallet = bond[d].provider_wallet
    <3>1. ~BondLocked(c)'
      BY <2>2 DEF BondLocked, HasStatus, ChallengeBondRecord
    <3> QED
      BY <2>2, <3>1 DEF BondLocked, Changed
  <2> QED
    BY <1>0, <1>2, <2>1, <2>2, <2>3, <2>4, <2>5
<1>6. ASSUME NEW p \in Providers, RegisterProvider(p)
      PROVE  ObligationsKeepProviderStaked'
  <2>1. /\ provider[p] = None /\ UNCHANGED <<settlement, bond>>
        /\ provider'[p].status = "Active" /\ Changed(provider, provider', Providers, p)
    BY <1>6, RegisterEffect
  <2> QED
    BY <2>1, StakedKept DEF Recorded, BondLocked, HasStatus, Changed, Active
\* The provider that leaves has neither receipts nor bonds, and owes nothing.
<1>7. ASSUME NEW p \in Providers, NEW destination \in Holders, ExitProvider(p, destination)
      PROVE  ObligationsKeepProviderStaked'
  <2>1. /\ provider[p] \in ProviderAccount /\ MayExit(provider[p])
        /\ UNCHANGED <<settlement, bond>>
        /\ provider'[p] = [provider[p] EXCEPT !.staked_usdc_amount = 0, !.status = "Exited"]
        /\ Changed(provider, provider', Providers, p)
    BY <1>7, ExitEffect
  <2>2. OpenReceipts(p) = {} /\ OpenBonds(p) = {}
    <3>1. Cardinality(OpenReceipts(p)) = 0 /\ Cardinality(OpenBonds(p)) = 0
      BY <2>1, NoneAssumption DEF MayExit, ExitInv, ObligationCounts, OpenReceipts, OpenBonds
    <3> QED
      BY <3>1, OpenFinite, FS_EmptySet
  <2>3. provider'[p].claw_net_position >= 0
    BY <2>1 DEF ProviderAccount, MayExit
  <2>4. \A r \in Receipts : Recorded(r) => settlement[r].provider_wallet # p
    BY <2>2 DEF OpenReceipts, OfProvider, Recorded, HasStatus
  <2>5. \A c \in Challenges : BondLocked(c) => bond[c].provider_wallet # p
    BY <2>2 DEF OpenBonds
  <2>6. \A r \in Receipts : Recorded(r)' =>
          HasStatus(provider'[settlement'[r].provider_wallet], "Active")
    BY <1>0, <2>1, <2>4 DEF Recorded, Changed, Active
  <2>7. \A c \in Challenges : BondLocked(c)' =>
          HasStatus(provider'[bond'[c].provider_wallet], "Active")
    <3>1. \A c \in Challenges : BondLocked(c) => bond[c].provider_wallet \in Providers
      BY DEF BondLocked, HasStatus, TypeInv, TypeOK, ChallengeBondRecord
    <3> QED
      BY <1>0, <2>1, <2>5, <3>1 DEF BondLocked, Changed, Active
  <2>8. \A q \in Providers : HasStatus(provider'[q], "Exited") =>
          provider'[q].claw_net_position >= 0
    BY <1>0, <2>1, <2>3 DEF Changed
  <2> QED
    BY <2>6, <2>7, <2>8 DEF ObligationsKeepProviderStaked
<1>8. ASSUME NEW r \in Receipts, NEW target, NEW amount \in Nat,
             MaterializeRewardRelease(r, target, amount)
      PROVE  ObligationsKeepProviderStaked'
  <2>1. /\ FinalizedSettled(r) /\ settlement[r] \in ReceiptSettlement
        /\ \/ settlement'[r] = [settlement[r] EXCEPT !.user_claw_released = @ + amount]
           \/ settlement'[r] = [settlement[r] EXCEPT !.provider_claw_released = @ + amount]
        /\ Changed(settlement, settlement', Receipts, r)
        /\ UNCHANGED <<provider, bond>>
    BY <1>8, ReleaseEffect
  <2>2. ~Recorded(r)'
    BY <2>1 DEF FinalizedSettled, Recorded, HasStatus, ReceiptSettlement
  <2>3. \A x \in Receipts : Recorded(x)' =>
          Recorded(x) /\ settlement'[x].provider_wallet = settlement[x].provider_wallet
    BY <2>1, <2>2 DEF Recorded, Changed
  <2> QED
    BY <2>1, <2>3, StakedKept DEF BondLocked, Active
<1>9. (\/ \E params : InitializeMasterpool(params) \/ UpdateConfig(params)
       \/ MintGenesisSupply
       \/ \E flags : SetPauseFlags(flags)
       \/ \E x : ClaimUserClaw(x) \/ ClaimProviderClaw(x)
       \/ \E u, amount : Approve(u, amount)
       \/ MasterpoolTick
       \/ UNCHANGED mvars) => ObligationsKeepProviderStaked'
  <2>1. ASSUME UNCHANGED <<provider, settlement, bond>>
        PROVE  ObligationsKeepProviderStaked'
    BY <1>0, <2>1 DEF ObligationsKeepProviderStaked, Recorded, BondLocked, Active
  <2> QED
    BY <2>1, OtherEffect
<1> HIDE DEF ObligationsKeepProviderStaked
<1> QED
  BY <1>1, <1>3, <1>4, <1>5, <1>6, <1>7, <1>8, <1>9, StepCases

\* No provider has an obligation at first.
LEMMA ExitInit == MasterpoolInit => ExitInv
<1> SUFFICES ASSUME MasterpoolInit
             PROVE  ExitInv
  OBVIOUS
<1>1. BondsKnown /\ ObligationCounts
  BY DEF MasterpoolInit, BondsKnown, ObligationCounts
<1>2. ObligationsKeepProviderStaked
  BY DEF MasterpoolInit, ObligationsKeepProviderStaked, Recorded, BondLocked, HasStatus
<1> QED
  BY <1>1, <1>2 DEF ExitInv

\* Bonds are tied to their providers, the counters are exact and no
\* obligation is on an exited provider, in every reachable state.
THEOREM ExitInvAlways == Spec => []ExitInv
<1>1. MasterpoolInit => ExitInv
  BY ExitInit
<1>2. TypeInv /\ ExitInv /\ [Next]_mvars => ExitInv'
  BY BondsKnownStep, CountsStep, StakedStep DEF ExitInv
<1> QED
  BY <1>1, <1>2, TypeInvAlways, PTL DEF Spec

\* In every instance the two counters exit_provider reads count exactly the
\* receipts still Recorded and the bonds still Locked of the provider.
THEOREM CountersAlwaysExact == Spec => []ObligationCounts
<1>1. ExitInv => ObligationCounts
  BY DEF ExitInv
<1> QED
  BY <1>1, ExitInvAlways, PTL

\* In every instance, whatever order receipts are recorded, settled, challenged
\* and resolved in, a provider that left owes nothing on any of them.
THEOREM ExitLeavesNothingOpen == Spec => []ObligationsKeepProviderStaked
<1>1. ExitInv => ObligationsKeepProviderStaked
  BY DEF ExitInv
<1> QED
  BY <1>1, ExitInvAlways, PTL

-----------------------------------------------------------------------------
(* The net position *)

\* What one receipt earned, or withheld of, provider p, and what the resolution
\* of one challenge charged it.
EarnedOn(r, p) ==
    IF OfProvider(r, p) /\ ~ChallengedReverted(r)
    THEN settlement[r].claw_to_provider_total ELSE 0
WithheldOn(r, p) ==
    IF OfProvider(r, p) /\ ~ChallengedReverted(r)
    THEN settlement[r].claw_provider_debt_offset ELSE 0
SlashedBy(c, p) ==
    IF HasStatus(bond[c], "Returned") /\ bond[c].provider_wallet = p
    THEN bond[c].slash_claw_amount_snapshot ELSE 0

EarnedOnEach(p) == [r \in Receipts |-> EarnedOn(r, p)]
WithheldOnEach(p) == [r \in Receipts |-> WithheldOn(r, p)]
SlashedByEach(p) == [c \in Challenges |-> SlashedBy(c, p)]

\* The rewards earned are natural numbers and Earned is their sum.
LEMMA EarnedType ==
  ASSUME TypeInv, NEW p
  PROVE  /\ IsFiniteSet(Receipts) /\ EarnedOnEach(p) \in [Receipts -> Nat]
         /\ Earned(p) = Total(Receipts, EarnedOnEach(p)) /\ Earned(p) \in Nat
<1>1. IsFiniteSet(Receipts)
  BY MasterpoolAssumption
<1>2. EarnedOnEach(p) \in [Receipts -> Nat]
  BY WidthFacts DEF EarnedOnEach, EarnedOn, OfProvider, ChallengedReverted, HasStatus,
                    TypeInv, TypeOK, ReceiptSettlement
<1>3. Earned(p) = Total(Receipts, EarnedOnEach(p))
  BY DEF Earned, EarnedOnEach, EarnedOn
<1> QED
  BY <1>1, <1>2, <1>3, TotalType

\* When one settlement changes, Earned changes by what it earned.
LEMMA EarnedChange ==
  ASSUME TypeInv, TypeInv', NEW p, NEW x \in Receipts, Changed(settlement, settlement', Receipts, x)
  PROVE  Earned(p)' = Earned(p) + EarnedOn(x, p)' - EarnedOn(x, p)
<1> DEFINE f == EarnedOnEach(p)
           g == EarnedOnEach(p)'
<1>1. IsFiniteSet(Receipts) /\ f \in [Receipts -> Nat] /\ Earned(p) = Total(Receipts, f)
  BY EarnedType
<1>2. g \in [Receipts -> Nat]
  BY WidthFacts DEF EarnedOnEach, EarnedOn, OfProvider, ChallengedReverted, HasStatus,
                    TypeInv, TypeOK, ReceiptSettlement
<1>3. Earned(p)' = Total(Receipts, g)
  BY DEF Earned, EarnedOnEach, EarnedOn
<1>4. \A y \in Receipts \ {x} : g[y] = f[y]
  BY DEF EarnedOnEach, EarnedOn, OfProvider, ChallengedReverted, HasStatus, Changed
<1>5. g[x] = EarnedOn(x, p)' /\ f[x] = EarnedOn(x, p)
  BY DEF EarnedOnEach
<1> HIDE DEF f, g
<1>6. Total(Receipts, g) = Total(Receipts, f) + g[x] - f[x]
  BY <1>1, <1>2, <1>4, TotalChange
<1> QED
  BY <1>1, <1>3, <1>5, <1>6

\* The offsets are natural numbers and Withheld is their sum.
LEMMA WithheldType ==
  ASSUME TypeInv, NEW p
  PROVE  /\ IsFiniteSet(Receipts) /\ WithheldOnEach(p) \in [Receipts -> Nat]
         /\ Withheld(p) = Total(Receipts, WithheldOnEach(p)) /\ Withheld(p) \in Nat
<1>1. IsFiniteSet(Receipts)
  BY MasterpoolAssumption
<1>2. WithheldOnEach(p) \in [Receipts -> Nat]
  BY WidthFacts DEF WithheldOnEach, WithheldOn, OfProvider, ChallengedReverted, HasStatus,
                    TypeInv, TypeOK, ReceiptSettlement
<1>3. Withheld(p) = Total(Receipts, WithheldOnEach(p))
  BY DEF Withheld, WithheldOnEach, WithheldOn
<1> QED
  BY <1>1, <1>2, <1>3, TotalType

\* When one settlement changes, Withheld changes by its offset.
LEMMA WithheldChange ==
  ASSUME TypeInv, TypeInv', NEW p, NEW x \in Receipts, Changed(settlement, settlement', Receipts, x)
  PROVE  Withheld(p)' = Withheld(p) + WithheldOn(x, p)' - WithheldOn(x, p)
<1> DEFINE f == WithheldOnEach(p)
           g == WithheldOnEach(p)'
<1>1. IsFiniteSet(Receipts) /\ f \in [Receipts -> Nat] /\ Withheld(p) = Total(Receipts, f)
  BY WithheldType
<1>2. g \in [Receipts -> Nat]
  BY WidthFacts DEF WithheldOnEach, WithheldOn, OfProvider, ChallengedReverted, HasStatus,
                    TypeInv, TypeOK, ReceiptSettlement
<1>3. Withheld(p)' = Total(Receipts, g)
  BY DEF Withheld, WithheldOnEach, WithheldOn
<1>4. \A y \in Receipts \ {x} : g[y] = f[y]
  BY DEF WithheldOnEach, WithheldOn, OfProvider, ChallengedReverted, HasStatus, Changed
<1>5. g[x] = WithheldOn(x, p)' /\ f[x] = WithheldOn(x, p)
  BY DEF WithheldOnEach
<1> HIDE DEF f, g
<1>6. Total(Receipts, g) = Total(Receipts, f) + g[x] - f[x]
  BY <1>1, <1>2, <1>4, TotalChange
<1> QED
  BY <1>1, <1>3, <1>5, <1>6

\* The slashes are natural numbers and Slashed is their sum.
LEMMA SlashedType ==
  ASSUME TypeInv, NEW p
  PROVE  /\ IsFiniteSet(Challenges) /\ SlashedByEach(p) \in [Challenges -> Nat]
         /\ Slashed(p) = Total(Challenges, SlashedByEach(p)) /\ Slashed(p) \in Nat
<1>1. IsFiniteSet(Challenges)
  BY MasterpoolAssumption
<1>2. SlashedByEach(p) \in [Challenges -> Nat]
  BY WidthFacts DEF SlashedByEach, SlashedBy, HasStatus, TypeInv, TypeOK, ChallengeBondRecord
<1>3. Slashed(p) = Total(Challenges, SlashedByEach(p))
  BY DEF Slashed, SlashedByEach, SlashedBy
<1> QED
  BY <1>1, <1>2, <1>3, TotalType

\* When one bond changes, Slashed changes by its slash.
LEMMA SlashedChange ==
  ASSUME TypeInv, TypeInv', NEW p, NEW x \in Challenges, Changed(bond, bond', Challenges, x)
  PROVE  Slashed(p)' = Slashed(p) + SlashedBy(x, p)' - SlashedBy(x, p)
<1> DEFINE f == SlashedByEach(p)
           g == SlashedByEach(p)'
<1>1. IsFiniteSet(Challenges) /\ f \in [Challenges -> Nat] /\ Slashed(p) = Total(Challenges, f)
  BY SlashedType
<1>2. g \in [Challenges -> Nat]
  BY WidthFacts DEF SlashedByEach, SlashedBy, HasStatus, TypeInv, TypeOK, ChallengeBondRecord
<1>3. Slashed(p)' = Total(Challenges, g)
  BY DEF Slashed, SlashedByEach, SlashedBy
<1>4. \A y \in Challenges \ {x} : g[y] = f[y]
  BY DEF SlashedByEach, SlashedBy, HasStatus, Changed
<1>5. g[x] = SlashedBy(x, p)' /\ f[x] = SlashedBy(x, p)
  BY DEF SlashedByEach
<1> HIDE DEF f, g
<1>6. Total(Challenges, g) = Total(Challenges, f) + g[x] - f[x]
  BY <1>1, <1>2, <1>4, TotalChange
<1> QED
  BY <1>1, <1>3, <1>5, <1>6

\* Nothing earned, withheld or slashed changes with the other tables.
LEMMA SumsStay ==
  ASSUME NEW p
  PROVE  /\ UNCHANGED settlement => Earned(p)' = Earned(p) /\ Withheld(p)' = Withheld(p)
         /\ UNCHANGED bond => Slashed(p)' = Slashed(p)
BY DEF Earned, Withheld, Slashed, OfProvider, ChallengedReverted, HasStatus

-----------------------------------------------------------------------------
(* The inductive invariant *)

\* A receipt withholds no more than it earns.
OffsetsBounded ==
    \A r \in Receipts : settlement[r] # None =>
        settlement[r].claw_provider_debt_offset <= settlement[r].claw_to_provider_total

PositionInv == OffsetsBounded /\ NetPositionAgrees /\ WithheldNeverExceedsSlashed

\* No provider has more withheld than it has earned.
LEMMA WithheldWithinEarned ==
  ASSUME TypeInv, OffsetsBounded, NEW p
  PROVE  Withheld(p) <= Earned(p)
<1> DEFINE f == WithheldOnEach(p)
           g == EarnedOnEach(p)
<1>1. /\ IsFiniteSet(Receipts) /\ f \in [Receipts -> Nat] /\ Withheld(p) = Total(Receipts, f)
      /\ g \in [Receipts -> Nat] /\ Earned(p) = Total(Receipts, g)
  BY WithheldType, EarnedType
<1>2. \A r \in Receipts : f[r] <= g[r]
  BY DEF OffsetsBounded, WithheldOnEach, EarnedOnEach, WithheldOn, EarnedOn, OfProvider
<1> HIDE DEF f, g
<1> QED
  BY <1>1, <1>2, TotalMonotone

\* What is withheld on a new receipt still fits what the provider was slashed.
LEMMA OffsetFits ==
  ASSUME NEW net \in Int, NEW total \in Nat, NEW earned \in Nat, NEW withheld \in Nat,
         NEW slashed \in Nat, net = earned - slashed, withheld <= earned, withheld <= slashed
  PROVE  withheld + DebtOffset(net, total) <= slashed
BY DEF DebtOffset, Least

\* A step after which no sum and no position differs.
LEMMA PositionKept ==
  ASSUME PositionInv, OffsetsBounded',
         \A q \in Providers : /\ Earned(q)' = Earned(q) /\ Withheld(q)' = Withheld(q)
                              /\ Slashed(q)' = Slashed(q),
         \A q \in Providers : provider'[q] # None =>
            /\ provider[q] # None
            /\ provider'[q].claw_net_position = provider[q].claw_net_position
  PROVE  PositionInv'
BY DEF PositionInv, NetPositionAgrees, WithheldNeverExceedsSlashed

\* A step that moves the sums and the position of one provider.
LEMMA PositionMoved ==
  ASSUME PositionInv, OffsetsBounded', NEW p \in Providers,
         Changed(provider, provider', Providers, p),
         provider'[p].claw_net_position = Earned(p)' - Slashed(p)',
         Withheld(p)' <= Slashed(p)',
         \A q \in Providers \ {p} : /\ Earned(q)' = Earned(q) /\ Withheld(q)' = Withheld(q)
                                    /\ Slashed(q)' = Slashed(q)
  PROVE  PositionInv'
<1>1. ASSUME NEW q \in Providers, provider'[q] # None
      PROVE  provider'[q].claw_net_position = Earned(q)' - Slashed(q)'
  BY <1>1 DEF PositionInv, NetPositionAgrees, Changed
<1>2. ASSUME NEW q \in Providers
      PROVE  Withheld(q)' <= Slashed(q)'
  BY <1>2 DEF PositionInv, WithheldNeverExceedsSlashed
<1> QED
  BY <1>1, <1>2 DEF PositionInv, NetPositionAgrees, WithheldNeverExceedsSlashed

\* A settlement that stays unreverted and keeps its amounts earns the same.
LEMMA SettlementKept ==
  ASSUME TypeInv, TypeInv', PositionInv, NEW r \in Receipts,
         Changed(settlement, settlement', Receipts, r),
         settlement[r] # None, settlement'[r] # None,
         settlement'[r].provider_wallet = settlement[r].provider_wallet,
         settlement'[r].claw_to_provider_total = settlement[r].claw_to_provider_total,
         settlement'[r].claw_provider_debt_offset = settlement[r].claw_provider_debt_offset,
         ~ChallengedReverted(r), ~ChallengedReverted(r)'
  PROVE  /\ OffsetsBounded'
         /\ \A q : Earned(q)' = Earned(q) /\ Withheld(q)' = Withheld(q)
<1>1. OffsetsBounded'
  BY DEF PositionInv, OffsetsBounded, Changed
<1>2. ASSUME NEW q
      PROVE  Earned(q)' = Earned(q) /\ Withheld(q)' = Withheld(q)
  <2>1. EarnedOn(r, q)' = EarnedOn(r, q) /\ WithheldOn(r, q)' = WithheldOn(r, q)
    BY DEF EarnedOn, WithheldOn, OfProvider
  <2>2. EarnedOn(r, q) \in Int /\ WithheldOn(r, q) \in Int
    <3>1. EarnedOnEach(q) \in [Receipts -> Nat] /\ WithheldOnEach(q) \in [Receipts -> Nat]
      BY EarnedType, WithheldType
    <3>2. EarnedOnEach(q)[r] = EarnedOn(r, q) /\ WithheldOnEach(q)[r] = WithheldOn(r, q)
      BY DEF EarnedOnEach, WithheldOnEach
    <3>3. EarnedOnEach(q)[r] \in Nat /\ WithheldOnEach(q)[r] \in Nat
      BY <3>1
    <3> QED
      BY <3>2, <3>3
  <2>3. /\ Earned(q)' = Earned(q) + EarnedOn(r, q)' - EarnedOn(r, q)
        /\ Withheld(q)' = Withheld(q) + WithheldOn(r, q)' - WithheldOn(r, q)
    BY EarnedChange, WithheldChange
  <2> QED
    BY <2>1, <2>2, <2>3, EarnedType, WithheldType
<1> QED
  BY <1>1, <1>2

\* Every step keeps positions equal to earned less slashed, and what is
\* withheld within what is slashed.
LEMMA PositionStep ==
  ASSUME TypeInv, ExitInv, PositionInv, [Next]_mvars
  PROVE  PositionInv'
<1>0. /\ OffsetsBounded
      /\ \A q : Earned(q) \in Nat /\ Withheld(q) \in Nat /\ Slashed(q) \in Nat
      /\ \A q : Withheld(q) <= Earned(q)
      /\ \A q \in Providers : Withheld(q) <= Slashed(q)
      /\ \A q \in Providers : provider[q] # None =>
           provider[q].claw_net_position = Earned(q) - Slashed(q)
  BY EarnedType, WithheldType, SlashedType, WithheldWithinEarned
     DEF PositionInv, NetPositionAgrees, WithheldNeverExceedsSlashed
<1>1. ASSUME NEW r \in Receipts, NEW u \in Users, NEW p \in Providers, NEW total \in Charges,
             RecordMiningFromReceipt(r, u, p, total)
      PROVE  PositionInv'
  <2>1. PICK s : s = settlement'[r]
    OBVIOUS
  <2>2. /\ TypeInv' /\ settlement[r] = None /\ s \in ReceiptSettlement
        /\ s.provider_wallet = p /\ s.status = "Recorded"
        /\ s.claw_provider_debt_offset + s.claw_to_provider_locked = s.claw_to_provider_total
        /\ s.claw_provider_debt_offset =
             DebtOffset(provider[p].claw_net_position, s.claw_to_provider_total)
        /\ Changed(settlement, settlement', Receipts, r) /\ UNCHANGED bond
        /\ Changed(provider, provider', Providers, p) /\ provider[p] \in ProviderAccount
    <3>1. /\ TypeInv' /\ settlement[r] = None /\ settlement'[r] \in ReceiptSettlement
          /\ settlement'[r].provider_wallet = p /\ settlement'[r].status = "Recorded"
          /\ settlement'[r].claw_provider_debt_offset + settlement'[r].claw_to_provider_locked
               = settlement'[r].claw_to_provider_total
          /\ settlement'[r].claw_provider_debt_offset =
               DebtOffset(provider[p].claw_net_position, settlement'[r].claw_to_provider_total)
      BY <1>1, RecordEffect
    <3>2. /\ Changed(settlement, settlement', Receipts, r) /\ UNCHANGED bond
          /\ Changed(provider, provider', Providers, p) /\ provider[p] \in ProviderAccount
      BY <1>1, RecordEffect
    <3> QED
      BY <2>1, <3>1, <3>2
  <2>3. provider'[p].claw_net_position = provider[p].claw_net_position + s.claw_to_provider_total
    BY <1>1, <2>1, RecordFields
  <2>4. /\ s.claw_to_provider_total \in Nat /\ s.claw_provider_debt_offset \in Nat
        /\ s.claw_to_provider_locked \in Nat /\ s # None
    BY <2>2, WidthFacts, NoneAssumption DEF ReceiptSettlement
  <2>5. OffsetsBounded'
    BY <1>0, <2>1, <2>2, <2>4 DEF OffsetsBounded, Changed
  <2>6. /\ \A q : EarnedOn(r, q) = 0 /\ WithheldOn(r, q) = 0
        /\ \A q \in Providers \ {p} : EarnedOn(r, q)' = 0 /\ WithheldOn(r, q)' = 0
        /\ EarnedOn(r, p)' = s.claw_to_provider_total
        /\ WithheldOn(r, p)' = s.claw_provider_debt_offset
    BY <2>1, <2>2, <2>4 DEF EarnedOn, WithheldOn, OfProvider, ChallengedReverted, HasStatus
  <2>7. \A q : Slashed(q)' = Slashed(q)
    BY <2>2, SumsStay
  <2>8. \A q : /\ Earned(q)' = Earned(q) + EarnedOn(r, q)' - EarnedOn(r, q)
               /\ Withheld(q)' = Withheld(q) + WithheldOn(r, q)' - WithheldOn(r, q)
    BY <2>2, EarnedChange, WithheldChange
  <2>9. /\ Earned(p)' = Earned(p) + s.claw_to_provider_total
        /\ Withheld(p)' = Withheld(p) + s.claw_provider_debt_offset
        /\ \A q \in Providers \ {p} : Earned(q)' = Earned(q) /\ Withheld(q)' = Withheld(q)
    BY <1>0, <2>4, <2>6, <2>8
  <2>10. /\ provider[p].claw_net_position = Earned(p) - Slashed(p)
         /\ provider[p].claw_net_position \in Int
    BY <1>0, <2>2, NoneAssumption DEF ProviderAccount
  <2>11. provider'[p].claw_net_position = Earned(p)' - Slashed(p)'
    BY <1>0, <2>3, <2>4, <2>7, <2>9, <2>10
  <2>12. Withheld(p)' <= Slashed(p)'
    <3> DEFINE net == provider[p].claw_net_position
               claw_total == s.claw_to_provider_total
    <3>1. net \in Int /\ claw_total \in Nat /\ net = Earned(p) - Slashed(p)
      BY <2>4, <2>10
    <3> HIDE DEF net, claw_total
    <3>2. Withheld(p) + DebtOffset(net, claw_total) <= Slashed(p)
      BY <1>0, <3>1, OffsetFits
    <3> QED
      BY <2>2, <2>7, <2>9, <3>2 DEF net, claw_total
  <2> QED
    BY <2>2, <2>5, <2>7, <2>9, <2>11, <2>12, PositionMoved
<1>2. ASSUME NEW r \in Receipts, NEW status, SettleFinalizedReceipt(r, status)
      PROVE  PositionInv'
  <2>1. PICK p : p = settlement[r].provider_wallet
    OBVIOUS
  <2>2. /\ TypeInv' /\ Recorded(r) /\ settlement[r] \in ReceiptSettlement
        /\ settlement'[r] \in ReceiptSettlement /\ p \in Providers
        /\ settlement'[r] = [settlement[r] EXCEPT !.reward_lock_started_at = now,
                                                  !.status = "FinalizedSettled"]
        /\ Changed(settlement, settlement', Receipts, r) /\ UNCHANGED bond
        /\ provider[p] \in ProviderAccount /\ Changed(provider, provider', Providers, p)
    BY <1>2, <2>1, SettleEffect
  <2>3. provider'[p].claw_net_position = provider[p].claw_net_position
    BY <1>2, <2>1, SettleFields
  <2>4. /\ settlement[r] # None /\ settlement'[r] # None
        /\ settlement'[r].provider_wallet = settlement[r].provider_wallet
        /\ settlement'[r].claw_to_provider_total = settlement[r].claw_to_provider_total
        /\ settlement'[r].claw_provider_debt_offset = settlement[r].claw_provider_debt_offset
    BY <2>2, NoneAssumption DEF ReceiptSettlement
  <2>5. ~ChallengedReverted(r) /\ ~ChallengedReverted(r)'
    BY <2>2 DEF ReceiptSettlement, Recorded, ChallengedReverted, HasStatus
  <2>6. OffsetsBounded' /\ \A q : Earned(q)' = Earned(q) /\ Withheld(q)' = Withheld(q)
    BY <2>2, <2>4, <2>5, SettlementKept
  <2>7. \A q : Slashed(q)' = Slashed(q)
    BY <2>2, SumsStay
  <2> QED
    BY <2>2, <2>3, <2>6, <2>7, PositionKept, NoneAssumption DEF Changed
<1>3. ASSUME NEW r \in Receipts, NEW target, NEW amount \in Nat,
             MaterializeRewardRelease(r, target, amount)
      PROVE  PositionInv'
  <2>1. /\ TypeInv' /\ FinalizedSettled(r) /\ settlement[r] \in ReceiptSettlement
        /\ settlement'[r] \in ReceiptSettlement
        /\ \/ settlement'[r] = [settlement[r] EXCEPT !.user_claw_released = @ + amount]
           \/ settlement'[r] = [settlement[r] EXCEPT !.provider_claw_released = @ + amount]
        /\ Changed(settlement, settlement', Receipts, r)
        /\ UNCHANGED <<provider, bond>>
    BY <1>3, ReleaseEffect
  <2>2. /\ settlement[r] # None /\ settlement'[r] # None
        /\ settlement'[r].provider_wallet = settlement[r].provider_wallet
        /\ settlement'[r].claw_to_provider_total = settlement[r].claw_to_provider_total
        /\ settlement'[r].claw_provider_debt_offset = settlement[r].claw_provider_debt_offset
        /\ settlement'[r].status = settlement[r].status
    BY <2>1, NoneAssumption DEF ReceiptSettlement
  <2>3. ~ChallengedReverted(r) /\ ~ChallengedReverted(r)'
    BY <2>1, <2>2 DEF FinalizedSettled, ChallengedReverted, HasStatus
  <2>4. OffsetsBounded' /\ \A q : Earned(q)' = Earned(q) /\ Withheld(q)' = Withheld(q)
    BY <2>1, <2>2, <2>3, SettlementKept
  <2>5. \A q : Slashed(q)' = Slashed(q)
    BY <2>1, SumsStay
  <2> QED
    BY <2>1, <2>4, <2>5, PositionKept
\* Steps that leave the settlements, and slash nobody.
<1>4. ASSUME UNCHANGED settlement, \A q \in Providers : Slashed(q)' = Slashed(q),
             \A q \in Providers : provider'[q] # None =>
                /\ provider[q] # None
                /\ provider'[q].claw_net_position = provider[q].claw_net_position
      PROVE  PositionInv'
  <2>1. OffsetsBounded'
    BY <1>0, <1>4 DEF OffsetsBounded
  <2>2. \A q : Earned(q)' = Earned(q) /\ Withheld(q)' = Withheld(q)
    BY <1>4, SumsStay
  <2> QED
    BY <1>4, <2>1, <2>2, PositionKept
<1>5. ASSUME NEW c \in Challenges, NEW r \in Receipts, NEW w \in Challengers,
             RecordChallengeBond(c, r, w)
      PROVE  PositionInv'
  <2>1. PICK p : p = settlement[r].provider_wallet
    OBVIOUS
  <2>2. /\ TypeInv' /\ bond[c] = None /\ bond'[c] \in ChallengeBondRecord
        /\ bond'[c].status = "Locked" /\ Changed(bond, bond', Challenges, c)
        /\ p \in Providers /\ provider[p] \in ProviderAccount
        /\ Changed(provider, provider', Providers, p) /\ UNCHANGED settlement
    BY <1>5, <2>1, BondEffect
  <2>3. provider'[p].claw_net_position = provider[p].claw_net_position
    BY <1>5, <2>1, BondFields
  <2>4. \A q : SlashedBy(c, q) = 0 /\ SlashedBy(c, q)' = 0
    BY <2>2 DEF SlashedBy, HasStatus
  <2>5. \A q : Slashed(q)' = Slashed(q) + SlashedBy(c, q)' - SlashedBy(c, q)
    BY <2>2, SlashedChange
  <2>6. \A q : Slashed(q)' = Slashed(q)
    BY <1>0, <2>4, <2>5
  <2> QED
    BY <1>4, <2>2, <2>3, <2>6, NoneAssumption DEF Changed
<1>6. ASSUME NEW c \in Challenges, NEW r \in Receipts, Resolvable(c, r), BurnBond(c, r),
             UNCHANGED <<now, config, allowance>>
      PROVE  PositionInv'
  <2>1. PICK p : p = settlement[r].provider_wallet
    OBVIOUS
  <2>2. /\ TypeInv' /\ BondLocked(c) /\ bond[c] \in ChallengeBondRecord
        /\ bond'[c] = [bond[c] EXCEPT !.status = "Burned"]
        /\ Changed(bond, bond', Challenges, c)
        /\ p \in Providers /\ provider[p] \in ProviderAccount
        /\ Changed(provider, provider', Providers, p) /\ UNCHANGED settlement
    BY <1>6, <2>1, BurnEffect
  <2>3. provider'[p].claw_net_position = provider[p].claw_net_position
    BY <1>6, <2>1, BurnFields
  <2>4. bond[c].status = "Locked" /\ bond'[c].status = "Burned"
    BY <2>2 DEF BondLocked, HasStatus, ChallengeBondRecord
  <2>5. \A q : SlashedBy(c, q) = 0 /\ SlashedBy(c, q)' = 0
    BY <2>4 DEF SlashedBy, HasStatus
  <2>6. \A q : Slashed(q)' = Slashed(q) + SlashedBy(c, q)' - SlashedBy(c, q)
    BY <2>2, SlashedChange
  <2>7. \A q : Slashed(q)' = Slashed(q)
    BY <1>0, <2>5, <2>6
  <2> QED
    BY <1>4, <2>2, <2>3, <2>7, NoneAssumption DEF Changed
\* A revert takes back what the receipt earned and charges the slash.
<1>7. ASSUME NEW c \in Challenges, NEW r \in Receipts, Resolvable(c, r),
             RevertReceipt(c, r), UNCHANGED <<now, config, allowance>>
      PROVE  PositionInv'
  <2>1. PICK s, b, p : /\ s = settlement[r] /\ b = bond[c]
                       /\ p = settlement[r].provider_wallet
    OBVIOUS
  <2>2. /\ TypeInv' /\ Recorded(r) /\ s \in ReceiptSettlement
        /\ BondLocked(c) /\ b.attestation_receipt = r /\ b \in ChallengeBondRecord
        /\ bond'[c] = [b EXCEPT !.status = "Returned"] /\ bond'[c] \in ChallengeBondRecord
        /\ Changed(bond, bond', Challenges, c)
        /\ settlement'[r] = [s EXCEPT !.status = "ChallengedReverted"]
        /\ settlement'[r] \in ReceiptSettlement
        /\ Changed(settlement, settlement', Receipts, r)
        /\ p \in Providers /\ provider[p] \in ProviderAccount
        /\ Changed(provider, provider', Providers, p)
    BY <1>7, <2>1, RevertEffect
  <2>3. provider'[p].claw_net_position =
          provider[p].claw_net_position - s.claw_to_provider_total - b.slash_claw_amount_snapshot
    BY <1>7, <2>1, RevertFields
  <2>4. b.provider_wallet = p /\ s.provider_wallet = p
    BY <2>1, <2>2 DEF ExitInv, BondsKnown, BondLocked, HasStatus
  <2>5. /\ s.claw_to_provider_total \in Nat /\ s.claw_provider_debt_offset \in Nat
        /\ b.slash_claw_amount_snapshot \in Nat /\ s # None /\ b # None
        /\ settlement'[r] # None /\ bond'[c] # None
    BY <2>2, WidthFacts, NoneAssumption DEF ReceiptSettlement, ChallengeBondRecord
  <2>6. /\ settlement'[r].claw_to_provider_total = s.claw_to_provider_total
        /\ settlement'[r].claw_provider_debt_offset = s.claw_provider_debt_offset
        /\ settlement'[r].status = "ChallengedReverted" /\ s.status = "Recorded"
    <3>1. s.status = "Recorded"
      BY <2>1, <2>2 DEF Recorded, HasStatus
    <3> QED
      BY <2>2, <3>1 DEF ReceiptSettlement
  <2>7. /\ bond'[c].provider_wallet = p /\ bond'[c].status = "Returned"
        /\ bond'[c].slash_claw_amount_snapshot = b.slash_claw_amount_snapshot
        /\ b.status = "Locked"
    BY <2>1, <2>2, <2>4 DEF ChallengeBondRecord, BondLocked, HasStatus
  <2>8. OffsetsBounded'
    <3>1. s.claw_provider_debt_offset <= s.claw_to_provider_total
      BY <1>0, <2>1, <2>5 DEF OffsetsBounded
    <3>2. settlement'[r].claw_provider_debt_offset <= settlement'[r].claw_to_provider_total
      BY <2>6, <3>1
    <3>3. \A x \in Receipts \ {r} : settlement'[x] = settlement[x]
      BY <2>2 DEF Changed
    <3> QED
      BY <1>0, <3>2, <3>3 DEF OffsetsBounded
  <2>9. /\ \A q : EarnedOn(r, q)' = 0 /\ WithheldOn(r, q)' = 0
        /\ \A q \in Providers \ {p} : EarnedOn(r, q) = 0 /\ WithheldOn(r, q) = 0
        /\ EarnedOn(r, p) = s.claw_to_provider_total
        /\ WithheldOn(r, p) = s.claw_provider_debt_offset
    BY <2>1, <2>4, <2>5, <2>6 DEF EarnedOn, WithheldOn, OfProvider, ChallengedReverted, HasStatus
  <2>10. /\ \A q : SlashedBy(c, q) = 0
         /\ \A q \in Providers \ {p} : SlashedBy(c, q)' = 0
         /\ SlashedBy(c, p)' = b.slash_claw_amount_snapshot
    BY <2>1, <2>5, <2>7 DEF SlashedBy, HasStatus
  <2>11. \A q : /\ Earned(q)' = Earned(q) + EarnedOn(r, q)' - EarnedOn(r, q)
                /\ Withheld(q)' = Withheld(q) + WithheldOn(r, q)' - WithheldOn(r, q)
                /\ Slashed(q)' = Slashed(q) + SlashedBy(c, q)' - SlashedBy(c, q)
    BY <2>2, EarnedChange, WithheldChange, SlashedChange
  <2>12. /\ Earned(p)' = Earned(p) - s.claw_to_provider_total
         /\ Withheld(p)' = Withheld(p) - s.claw_provider_debt_offset
         /\ Slashed(p)' = Slashed(p) + b.slash_claw_amount_snapshot
    BY <1>0, <2>5, <2>9, <2>10, <2>11
  <2>13. \A q \in Providers \ {p} : /\ Earned(q)' = Earned(q) /\ Withheld(q)' = Withheld(q)
                                    /\ Slashed(q)' = Slashed(q)
    BY <1>0, <2>9, <2>10, <2>11
  <2>14. provider[p].claw_net_position = Earned(p) - Slashed(p)
    BY <1>0, <2>2, NoneAssumption
  <2>15. /\ provider'[p].claw_net_position = Earned(p)' - Slashed(p)'
         /\ Withheld(p)' <= Slashed(p)'
    BY <1>0, <2>2, <2>3, <2>5, <2>12, <2>14
  <2> QED
    BY <2>2, <2>8, <2>13, <2>15, PositionMoved
\* A provider that registers has earned nothing and was never slashed.
<1>8. ASSUME NEW p \in Providers, RegisterProvider(p)
      PROVE  PositionInv'
  <2>1. /\ provider[p] = None /\ UNCHANGED <<settlement, bond>>
        /\ provider'[p].claw_net_position = 0
        /\ Changed(provider, provider', Providers, p)
    BY <1>8, RegisterEffect
  <2>2. \A q : /\ Earned(q)' = Earned(q) /\ Withheld(q)' = Withheld(q)
               /\ Slashed(q)' = Slashed(q)
    BY <2>1, SumsStay
  <2>3. Earned(p) = 0
    <3>1. \A r \in Receipts : EarnedOnEach(p)[r] = 0
      BY <2>1 DEF EarnedOnEach, EarnedOn, OfProvider, TypeInv, ProvidersKnown
    <3> QED
      BY <3>1, EarnedType, TotalZero
  <2>4. Slashed(p) = 0
    <3>1. \A c \in Challenges : bond[c] # None => bond[c].attestation_receipt \in Receipts
      BY DEF TypeInv, TypeOK, ChallengeBondRecord
    <3>2. \A c \in Challenges : SlashedByEach(p)[c] = 0
      BY <2>1, <3>1 DEF SlashedByEach, SlashedBy, HasStatus, ExitInv, BondsKnown,
                        TypeInv, ProvidersKnown
    <3> QED
      BY <3>2, SlashedType, TotalZero
  <2>5. OffsetsBounded'
    BY <1>0, <2>1 DEF OffsetsBounded
  <2> QED
    BY <1>0, <2>1, <2>2, <2>3, <2>4, <2>5, PositionMoved
<1>9. ASSUME NEW p \in Providers, NEW destination \in Holders, ExitProvider(p, destination)
      PROVE  PositionInv'
  <2>1. /\ provider[p] \in ProviderAccount /\ UNCHANGED <<settlement, bond>>
        /\ provider'[p] = [provider[p] EXCEPT !.staked_usdc_amount = 0, !.status = "Exited"]
        /\ Changed(provider, provider', Providers, p)
    BY <1>9, ExitEffect
  <2>2. provider'[p].claw_net_position = provider[p].claw_net_position
    BY <2>1 DEF ProviderAccount
  <2>3. \A q : Slashed(q)' = Slashed(q)
    BY <2>1, SumsStay
  <2> QED
    BY <1>4, <2>1, <2>2, <2>3, NoneAssumption DEF Changed
<1>10. (\/ \E params : InitializeMasterpool(params) \/ UpdateConfig(params)
        \/ MintGenesisSupply
        \/ \E flags : SetPauseFlags(flags)
        \/ \E x : ClaimUserClaw(x) \/ ClaimProviderClaw(x)
        \/ \E u, amount : Approve(u, amount)
        \/ MasterpoolTick
        \/ UNCHANGED mvars) => PositionInv'
  <2>1. ASSUME UNCHANGED <<provider, settlement, bond>>
        PROVE  PositionInv'
    BY <1>4, <2>1, SumsStay
  <2> QED
    BY <2>1, OtherEffect
<1> HIDE DEF PositionInv
<1> QED
  BY <1>1, <1>2, <1>3, <1>5, <1>6, <1>7, <1>8, <1>9, <1>10, StepCases

\* Nothing is earned, withheld or slashed at first.
LEMMA PositionInit == MasterpoolInit => PositionInv
<1> SUFFICES ASSUME MasterpoolInit
             PROVE  PositionInv
  OBVIOUS
<1>1. OffsetsBounded /\ NetPositionAgrees
  BY DEF MasterpoolInit, OffsetsBounded, NetPositionAgrees
<1>2. \A q \in Providers : Withheld(q) = 0 /\ Slashed(q) = 0
  BY TotalZero DEF MasterpoolInit, Withheld, Slashed, OfProvider, HasStatus
<1> QED
  BY <1>1, <1>2 DEF PositionInv, WithheldNeverExceedsSlashed

\* The inductive invariant of positions and offsets holds in every
\* reachable state.
THEOREM PositionInvAlways == Spec => []PositionInv
<1>1. MasterpoolInit => PositionInv
  BY PositionInit
<1>2. TypeInv /\ ExitInv /\ PositionInv /\ [Next]_mvars => PositionInv'
  BY PositionStep
<1> QED
  BY <1>1, <1>2, TypeInvAlways, ExitInvAlways, PTL DEF Spec

\* In every instance a provider's net position is what it earned on receipts
\* that stand less what upheld challenges charged it.
THEOREM NetPositionAlwaysAgrees == Spec => []NetPositionAgrees
<1>1. PositionInv => NetPositionAgrees
  BY DEF PositionInv
<1> QED
  BY <1>1, PositionInvAlways, PTL

\* In every instance, over any history of debts, offsets and reverts, what is
\* withheld from a provider on receipts that stand never exceeds its slashes.
THEOREM NeverWithheldBeyondSlashes == Spec => []WithheldNeverExceedsSlashed
<1>1. PositionInv => WithheldNeverExceedsSlashed
  BY DEF PositionInv
<1> QED
  BY <1>1, PositionInvAlways, PTL

-----------------------------------------------------------------------------
(* The CLAW of the reward accounts *)

\* What was released of one receipt has vested by now.
Within(r) ==
    settlement[r] # None =>
        LET s == settlement[r] IN
        /\ ~FinalizedSettled(r) => s.user_claw_released = 0 /\ s.provider_claw_released = 0
        /\ FinalizedSettled(r) =>
             /\ s.user_claw_released <=
                  Vested(s.claw_to_user, s.reward_lock_started_at, now, s.lock_days_snapshot)
             /\ s.provider_claw_released <=
                  Vested(s.claw_to_provider_locked, s.reward_lock_started_at, now,
                         s.lock_days_snapshot)

\* What a receipt has vested is within what it locked, and never decreases.
LEMMA VestedOf ==
  ASSUME NEW s \in ReceiptSettlement, NEW at \in Nat, NEW later \in Nat, at <= later
  PROVE  LET vu(t) == Vested(s.claw_to_user, s.reward_lock_started_at, t, s.lock_days_snapshot)
             vp(t) == Vested(s.claw_to_provider_locked, s.reward_lock_started_at, t,
                             s.lock_days_snapshot)
         IN
         /\ vu(at) \in Nat /\ vu(at) <= s.claw_to_user /\ vu(at) <= vu(later)
         /\ vp(at) \in Nat /\ vp(at) <= s.claw_to_provider_locked /\ vp(at) <= vp(later)
         /\ vu(later) \in Nat /\ vp(later) \in Nat
<1> DEFINE vu(t) == Vested(s.claw_to_user, s.reward_lock_started_at, t, s.lock_days_snapshot)
           vp(t) == Vested(s.claw_to_provider_locked, s.reward_lock_started_at, t,
                           s.lock_days_snapshot)
<1>1. /\ s.claw_to_user \in Nat /\ s.claw_to_provider_locked \in Nat
      /\ s.reward_lock_started_at \in Nat /\ s.lock_days_snapshot \in Nat \ {0}
  BY WidthFacts DEF ReceiptSettlement
<1>2. vu(at) \in 0..s.claw_to_user /\ vu(at) <= vu(later)
  BY <1>1, VestedGrows
<1>3. vp(at) \in 0..s.claw_to_provider_locked /\ vp(at) <= vp(later)
  BY <1>1, VestedGrows
<1>4. PICK last \in Nat : last = later
  OBVIOUS
<1>5. /\ vu(later) \in 0..s.claw_to_user /\ vu(later) <= vu(last)
      /\ vp(later) \in 0..s.claw_to_provider_locked /\ vp(later) <= vp(last)
  <2>1. later <= last
    BY <1>4
  <2>2. vu(later) \in 0..s.claw_to_user /\ vu(later) <= vu(last)
    BY <1>1, <2>1, VestedGrows
  <2>3. vp(later) \in 0..s.claw_to_provider_locked /\ vp(later) <= vp(last)
    BY <1>1, <2>1, VestedGrows
  <2> QED
    BY <2>2, <2>3
<1> HIDE DEF vu, vp
<1>6. /\ vu(at) \in Nat /\ vu(at) <= s.claw_to_user /\ vp(at) \in Nat
      /\ vp(at) <= s.claw_to_provider_locked /\ vu(later) \in Nat /\ vp(later) \in Nat
  BY <1>1, <1>2, <1>3, <1>5
<1> QED
  BY <1>2, <1>3, <1>6 DEF vu, vp

\* Time only adds to what has vested.
LEMMA WithinKept ==
  ASSUME TypeInv, NEW r \in Receipts, Within(r), settlement'[r] = settlement[r],
         now' \in Nat, now <= now'
  PROVE  Within(r)'
<1>1. CASE settlement[r] = None
  BY <1>1 DEF Within
<1>2. CASE settlement[r] # None /\ ~FinalizedSettled(r)
  BY <1>2 DEF Within, FinalizedSettled, HasStatus
<1>3. CASE FinalizedSettled(r)
  <2>1. PICK s, t : s = settlement[r] /\ t = now'
    OBVIOUS
  <2> DEFINE vu(at) == Vested(s.claw_to_user, s.reward_lock_started_at, at, s.lock_days_snapshot)
             vp(at) == Vested(s.claw_to_provider_locked, s.reward_lock_started_at, at,
                              s.lock_days_snapshot)
  <2>2. settlement[r] # None /\ s \in ReceiptSettlement /\ now \in Nat /\ t \in Nat /\ now <= t
    BY <1>3, <2>1 DEF FinalizedSettled, HasStatus, TypeInv, TypeOK
  <2>3. s.user_claw_released <= vu(now) /\ s.provider_claw_released <= vp(now)
    BY <1>3, <2>1, <2>2 DEF Within
  <2>4. s.user_claw_released \in Nat /\ s.provider_claw_released \in Nat
    BY <2>2, WidthFacts DEF ReceiptSettlement
  <2>5. /\ vu(now) \in Nat /\ vu(t) \in Nat /\ vu(now) <= vu(t)
        /\ vp(now) \in Nat /\ vp(t) \in Nat /\ vp(now) <= vp(t)
    BY <2>2, VestedOf
  <2> HIDE DEF vu, vp
  <2>6. s.user_claw_released <= vu(t) /\ s.provider_claw_released <= vp(t)
    BY <2>3, <2>4, <2>5
  <2>7. FinalizedSettled(r)'
    BY <1>3 DEF FinalizedSettled, HasStatus
  <2> QED
    BY <2>1, <2>6, <2>7 DEF Within, vu, vp
<1> QED
  BY <1>1, <1>2, <1>3 DEF FinalizedSettled, HasStatus

\* Nothing of a receipt is released before it is settled.
LEMMA WithinUnreleased ==
  ASSUME NEW r \in Receipts, TypeInv', settlement'[r] \in ReceiptSettlement,
         settlement'[r].user_claw_released = 0, settlement'[r].provider_claw_released = 0
  PROVE  Within(r)'
<1>1. PICK s, t : s = settlement'[r] /\ t = now'
  OBVIOUS
<1>2. s \in ReceiptSettlement /\ t \in Nat
  BY <1>1 DEF TypeInv, TypeOK
<1>3. /\ 0 <= Vested(s.claw_to_user, s.reward_lock_started_at, t, s.lock_days_snapshot)
      /\ 0 <= Vested(s.claw_to_provider_locked, s.reward_lock_started_at, t,
                     s.lock_days_snapshot)
  <2>1. /\ Vested(s.claw_to_user, s.reward_lock_started_at, t, s.lock_days_snapshot) \in Nat
        /\ Vested(s.claw_to_provider_locked, s.reward_lock_started_at, t,
                  s.lock_days_snapshot) \in Nat
    BY <1>2, VestedOf
  <2> QED
    BY <2>1
<1> QED
  BY <1>1, <1>3 DEF Within

\* A release stays within what has vested.
LEMMA WithinReleased ==
  ASSUME TypeInv, NEW r \in Receipts, Within(r), NEW target, NEW amount \in Nat,
         MaterializeRewardRelease(r, target, amount)
  PROVE  Within(r)'
<1> DEFINE s == settlement[r]
           vu == Vested(s.claw_to_user, s.reward_lock_started_at, now, s.lock_days_snapshot)
           vp == Vested(s.claw_to_provider_locked, s.reward_lock_started_at, now,
                        s.lock_days_snapshot)
<1>1. /\ FinalizedSettled(r) /\ settlement[r] # None /\ UNCHANGED now
      /\ settlement \in [Receipts -> ReceiptSettlement \cup {None}]
      /\ s \in ReceiptSettlement
  BY DEF MaterializeRewardRelease, FinalizedSettled, HasStatus, TypeInv, TypeOK
<1>2. s.user_claw_released <= vu /\ s.provider_claw_released <= vp
  BY <1>1 DEF Within
<1>3. /\ vu \in Nat /\ vp \in Nat
      /\ s.user_claw_released \in Nat /\ s.provider_claw_released \in Nat
  <2>1. now \in Nat
    BY DEF TypeInv, TypeOK
  <2>2. vu \in Nat /\ vp \in Nat
    BY <1>1, <2>1, VestedOf
  <2> QED
    BY <1>1, <2>2, WidthFacts DEF ReceiptSettlement
<1>4. CASE ReleaseToUser(r, amount)
  <2>1. /\ settlement'[r] = [s EXCEPT !.user_claw_released = @ + amount]
        /\ amount <= vu - s.user_claw_released
    BY <1>1, <1>4 DEF ReleaseToUser, Releasable
  <2>2. /\ settlement'[r].user_claw_released = s.user_claw_released + amount
        /\ settlement'[r].provider_claw_released = s.provider_claw_released
        /\ settlement'[r].claw_to_user = s.claw_to_user
        /\ settlement'[r].claw_to_provider_locked = s.claw_to_provider_locked
        /\ settlement'[r].reward_lock_started_at = s.reward_lock_started_at
        /\ settlement'[r].lock_days_snapshot = s.lock_days_snapshot
        /\ settlement'[r].status = s.status
    BY <1>1, <2>1 DEF ReceiptSettlement
  <2> HIDE DEF vu, vp
  <2>3. s.user_claw_released + amount <= vu
    BY <1>3, <2>1
  <2>4. /\ settlement'[r].user_claw_released <= vu
        /\ settlement'[r].provider_claw_released <= vp
        /\ settlement'[r].status = "FinalizedSettled"
    BY <1>1, <1>2, <2>2, <2>3 DEF FinalizedSettled, HasStatus
  <2> QED
    BY <1>1, <2>2, <2>4 DEF Within, FinalizedSettled, HasStatus, vu, vp
<1>5. CASE ReleaseToProvider(r, amount)
  <2>1. /\ settlement'[r] = [s EXCEPT !.provider_claw_released = @ + amount]
        /\ amount <= vp - s.provider_claw_released
    BY <1>1, <1>5 DEF ReleaseToProvider, Releasable
  <2>2. /\ settlement'[r].provider_claw_released = s.provider_claw_released + amount
        /\ settlement'[r].user_claw_released = s.user_claw_released
        /\ settlement'[r].claw_to_user = s.claw_to_user
        /\ settlement'[r].claw_to_provider_locked = s.claw_to_provider_locked
        /\ settlement'[r].reward_lock_started_at = s.reward_lock_started_at
        /\ settlement'[r].lock_days_snapshot = s.lock_days_snapshot
        /\ settlement'[r].status = s.status
    BY <1>1, <2>1 DEF ReceiptSettlement
  <2> HIDE DEF vu, vp
  <2>3. s.provider_claw_released + amount <= vp
    BY <1>3, <2>1
  <2>4. /\ settlement'[r].user_claw_released <= vu
        /\ settlement'[r].provider_claw_released <= vp
        /\ settlement'[r].status = "FinalizedSettled"
    BY <1>1, <1>2, <2>2, <2>3 DEF FinalizedSettled, HasStatus
  <2> QED
    BY <1>1, <2>2, <2>4 DEF Within, FinalizedSettled, HasStatus, vu, vp
<1> QED
  BY <1>4, <1>5 DEF MaterializeRewardRelease

\* The masterpool's own instructions take no time.
LEMMA ClockStep ==
  ASSUME now \in Nat, Next
  PROVE  now' \in Nat /\ now <= now'
<1>1. CASE MasterpoolTick
  BY <1>1, ChainAssumption DEF MasterpoolTick, Tick
<1>2. CASE DirectStep
  <2>1. UNCHANGED now
    BY <1>2 DEF DirectStep, InitializeMasterpool, UpdateConfig, MintGenesisSupply, SetPauseFlags,
       RegisterProvider, ClaimProviderClaw, ExitProvider, ClaimUserClaw,
       MaterializeRewardRelease, Approve
  <2> QED
    BY <2>1
<1>3. CASE AttestationCall
  <2>1. ASSUME NEW r, NEW u, NEW p, NEW total, RecordMiningFromReceipt(r, u, p, total)
        PROVE  UNCHANGED now
    BY <2>1 DEF RecordMiningFromReceipt
  <2>2. ASSUME NEW r, NEW status, SettleFinalizedReceipt(r, status)
        PROVE  UNCHANGED now
    BY <2>2 DEF SettleFinalizedReceipt
  <2>3. ASSUME NEW c, NEW r, NEW w, RecordChallengeBond(c, r, w)
        PROVE  UNCHANGED now
    BY <2>3 DEF RecordChallengeBond
  <2>4. ASSUME NEW c, NEW r, NEW code, ResolveChallengeEconomics(c, r, code)
        PROVE  UNCHANGED now
    BY <2>4 DEF ResolveChallengeEconomics
  <2>5. UNCHANGED now
    BY <1>3, <2>1, <2>2, <2>3, <2>4 DEF AttestationCall
  <2> QED
    BY <2>5
<1> QED
  BY <1>1, <1>2, <1>3 DEF Next

\* Every step keeps releases within what has vested.
LEMMA WithinStep ==
  ASSUME TypeInv, ReleasedWithinVested, [Next]_mvars
  PROVE  ReleasedWithinVested'
<1> DEFINE Goal == \A y \in Receipts : Within(y)'
<1>0. /\ \A y \in Receipts : Within(y)
      /\ now \in Nat
  BY DEF ReleasedWithinVested, Within, TypeInv, TypeOK
<1>1. now' \in Nat /\ now <= now'
  BY <1>0, ClockStep DEF mvars
<1>2. ASSUME UNCHANGED settlement
      PROVE  Goal
  BY <1>0, <1>1, <1>2, WithinKept
<1>3. ASSUME NEW r \in Receipts, Changed(settlement, settlement', Receipts, r), Within(r)'
      PROVE  Goal
  BY <1>0, <1>1, <1>3, WithinKept DEF Changed
<1>4. ASSUME NEW r \in Receipts, NEW u \in Users, NEW p \in Providers, NEW total \in Charges,
             RecordMiningFromReceipt(r, u, p, total)
      PROVE  Goal
  <2>1. /\ TypeInv' /\ settlement'[r] \in ReceiptSettlement
        /\ settlement'[r].user_claw_released = 0 /\ settlement'[r].provider_claw_released = 0
        /\ Changed(settlement, settlement', Receipts, r)
    BY <1>4, RecordEffect
  <2>2. Within(r)'
    BY <2>1, WithinUnreleased
  <2> QED
    BY <1>3, <2>1, <2>2
<1>5. ASSUME NEW r \in Receipts, NEW status, SettleFinalizedReceipt(r, status)
      PROVE  Goal
  <2>1. /\ TypeInv' /\ settlement'[r] \in ReceiptSettlement
        /\ Recorded(r) /\ settlement[r] \in ReceiptSettlement
        /\ settlement'[r] = [settlement[r] EXCEPT !.reward_lock_started_at = now,
                                                  !.status = "FinalizedSettled"]
        /\ Changed(settlement, settlement', Receipts, r)
    BY <1>5, SettleEffect
  <2>2. settlement[r].user_claw_released = 0 /\ settlement[r].provider_claw_released = 0
    BY <1>0, <2>1 DEF Within, Recorded, FinalizedSettled, HasStatus
  <2>3. settlement'[r].user_claw_released = 0 /\ settlement'[r].provider_claw_released = 0
    BY <2>1, <2>2 DEF ReceiptSettlement
  <2>4. Within(r)'
    BY <2>1, <2>3, WithinUnreleased
  <2> QED
    BY <1>3, <2>1, <2>4
<1>6. ASSUME NEW c \in Challenges, NEW r \in Receipts, Resolvable(c, r), RevertReceipt(c, r),
             UNCHANGED <<now, config, allowance>>
      PROVE  Goal
  <2>1. /\ TypeInv' /\ settlement'[r] \in ReceiptSettlement
        /\ Recorded(r) /\ settlement[r] \in ReceiptSettlement
        /\ settlement'[r] = [settlement[r] EXCEPT !.status = "ChallengedReverted"]
        /\ Changed(settlement, settlement', Receipts, r)
    BY <1>6, RevertEffect
  <2>2. settlement[r].user_claw_released = 0 /\ settlement[r].provider_claw_released = 0
    BY <1>0, <2>1 DEF Within, Recorded, FinalizedSettled, HasStatus
  <2>3. settlement'[r].user_claw_released = 0 /\ settlement'[r].provider_claw_released = 0
    BY <2>1, <2>2 DEF ReceiptSettlement
  <2>4. Within(r)'
    BY <2>1, <2>3, WithinUnreleased
  <2> QED
    BY <1>3, <2>1, <2>4
<1>7. ASSUME NEW r \in Receipts, NEW target, NEW amount \in Nat,
             MaterializeRewardRelease(r, target, amount)
      PROVE  Goal
  <2>1. Changed(settlement, settlement', Receipts, r) /\ Within(r)'
    BY <1>0, <1>7, ReleaseEffect, WithinReleased
  <2> QED
    BY <1>3, <2>1
<1>8. ASSUME NEW c \in Challenges, NEW r \in Receipts, NEW w \in Challengers,
             RecordChallengeBond(c, r, w)
      PROVE  Goal
  BY <1>2, <1>8 DEF RecordChallengeBond
<1>9. ASSUME NEW c \in Challenges, NEW r \in Receipts, Resolvable(c, r), BurnBond(c, r),
             UNCHANGED <<now, config, allowance>>
      PROVE  Goal
  BY <1>2, <1>9 DEF BurnBond
<1>10. ASSUME NEW p \in Providers, RegisterProvider(p)
       PROVE  Goal
  BY <1>2, <1>10 DEF RegisterProvider
<1>11. ASSUME NEW p \in Providers, NEW destination \in Holders, ExitProvider(p, destination)
       PROVE  Goal
  BY <1>2, <1>11 DEF ExitProvider
<1>12. (\/ \E params : InitializeMasterpool(params) \/ UpdateConfig(params)
        \/ MintGenesisSupply
        \/ \E flags : SetPauseFlags(flags)
        \/ \E x : ClaimUserClaw(x) \/ ClaimProviderClaw(x)
        \/ \E u, amount : Approve(u, amount)
        \/ MasterpoolTick
        \/ UNCHANGED mvars) => Goal
  BY <1>2, OtherEffect
<1> HIDE DEF Goal
<1>13. Goal
  BY <1>4, <1>5, <1>6, <1>7, <1>8, <1>9, <1>10, <1>11, <1>12, StepCases
<1> QED
  BY <1>13 DEF Goal, ReleasedWithinVested, Within

\* Nothing is released at first.
LEMMA WithinInit == MasterpoolInit => ReleasedWithinVested
BY DEF MasterpoolInit, ReleasedWithinVested

\* Rewards are never released before they vest, however the authority splits its
\* releases, and never under a lock period set after the receipt was recorded.
THEOREM NeverReleasedEarly == Spec => []ReleasedWithinVested
<1>1. MasterpoolInit => ReleasedWithinVested
  BY WithinInit
<1>2. TypeInv /\ ReleasedWithinVested /\ [Next]_mvars => ReleasedWithinVested'
  BY WithinStep
<1> QED
  BY <1>1, <1>2, TypeInvAlways, PTL DEF Spec

-----------------------------------------------------------------------------
(* When the rewards of a receipt start to vest *)

\* A settled receipt has been vesting since some second that has passed, and not since
\* the 0 its record was written with.
LocksStarted == \A r \in Receipts :
    FinalizedSettled(r) => settlement[r].reward_lock_started_at \in 1..now

\* Only settling starts the lock, and no later step moves its start.
LEMMA LocksStep ==
  ASSUME TypeInv, LocksStarted, [Next]_mvars
  PROVE  LocksStarted'
<1> DEFINE Started(y) == FinalizedSettled(y) => settlement[y].reward_lock_started_at \in 1..now
           Goal == \A y \in Receipts : Started(y)'
<1>0. /\ \A y \in Receipts : Started(y)
      /\ now \in Nat \ {0}
      /\ \A y \in Receipts : settlement[y] # None => settlement[y].reward_lock_started_at \in Nat
  BY DEF LocksStarted, TypeInv, TypeOK, ReceiptSettlement
<1>1. now' \in Nat /\ now <= now'
  BY <1>0, ClockStep DEF mvars
<1>2. ASSUME NEW y \in Receipts, settlement'[y] = settlement[y]
      PROVE  Started(y)'
  <2>1. ASSUME FinalizedSettled(y)'
        PROVE  settlement'[y].reward_lock_started_at \in 1..now'
    <3>1. FinalizedSettled(y) /\ settlement[y] # None
      BY <1>2, <2>1 DEF FinalizedSettled, HasStatus
    <3>2. settlement[y].reward_lock_started_at \in 1..now
      BY <1>0, <3>1
    <3> QED
      BY <1>0, <1>1, <1>2, <3>2
  <2> QED
    BY <2>1
<1>3. ASSUME UNCHANGED settlement
      PROVE  Goal
  BY <1>2, <1>3
<1>4. ASSUME NEW r \in Receipts, Changed(settlement, settlement', Receipts, r), Started(r)'
      PROVE  Goal
  BY <1>2, <1>4 DEF Changed
<1>5. ASSUME NEW r \in Receipts, NEW u \in Users, NEW p \in Providers, NEW total \in Charges,
             RecordMiningFromReceipt(r, u, p, total)
      PROVE  Goal
  <2>1. settlement'[r].status = "Recorded" /\ Changed(settlement, settlement', Receipts, r)
    BY <1>5, RecordEffect
  <2> QED
    BY <1>4, <2>1 DEF FinalizedSettled, HasStatus
<1>6. ASSUME NEW r \in Receipts, NEW status, SettleFinalizedReceipt(r, status)
      PROVE  Goal
  <2>1. /\ settlement[r] \in ReceiptSettlement
        /\ settlement'[r] = [settlement[r] EXCEPT !.reward_lock_started_at = now,
                                                  !.status = "FinalizedSettled"]
        /\ Changed(settlement, settlement', Receipts, r)
    BY <1>6, SettleEffect
  <2>2. settlement'[r].reward_lock_started_at = now
    BY <2>1 DEF ReceiptSettlement
  <2>3. now \in 1..now'
    BY <1>0, <1>1
  <2>4. Started(r)'
    BY <2>2, <2>3
  <2> QED
    BY <1>4, <2>1, <2>4
<1>7. ASSUME NEW c \in Challenges, NEW r \in Receipts, Resolvable(c, r), RevertReceipt(c, r),
             UNCHANGED <<now, config, allowance>>
      PROVE  Goal
  <2>1. /\ settlement[r] \in ReceiptSettlement
        /\ settlement'[r] = [settlement[r] EXCEPT !.status = "ChallengedReverted"]
        /\ Changed(settlement, settlement', Receipts, r)
    BY <1>7, RevertEffect
  <2>2. settlement'[r].status = "ChallengedReverted"
    BY <2>1 DEF ReceiptSettlement
  <2> QED
    BY <1>4, <2>1, <2>2 DEF FinalizedSettled, HasStatus
<1>8. ASSUME NEW r \in Receipts, NEW target, NEW amount \in Nat,
             MaterializeRewardRelease(r, target, amount)
      PROVE  Goal
  <2>1. /\ Changed(settlement, settlement', Receipts, r) /\ settlement[r] \in ReceiptSettlement
        /\ \/ settlement'[r] = [settlement[r] EXCEPT !.user_claw_released = @ + amount]
           \/ settlement'[r] = [settlement[r] EXCEPT !.provider_claw_released = @ + amount]
    BY <1>8, ReleaseEffect
  <2>2. settlement'[r].reward_lock_started_at = settlement[r].reward_lock_started_at
    BY <2>1 DEF ReceiptSettlement
  <2>3. FinalizedSettled(r)
    BY <1>8 DEF MaterializeRewardRelease
  <2>4. settlement[r].reward_lock_started_at \in 1..now
    BY <1>0, <2>3
  <2>5. settlement'[r].reward_lock_started_at \in 1..now'
    BY <1>0, <1>1, <2>2, <2>4
  <2> QED
    BY <1>4, <2>1, <2>5
<1>9. ASSUME NEW c \in Challenges, NEW r \in Receipts, NEW w \in Challengers,
             RecordChallengeBond(c, r, w)
      PROVE  Goal
  BY <1>3, <1>9 DEF RecordChallengeBond
<1>10. ASSUME NEW c \in Challenges, NEW r \in Receipts, Resolvable(c, r), BurnBond(c, r),
              UNCHANGED <<now, config, allowance>>
       PROVE  Goal
  BY <1>3, <1>10 DEF BurnBond
<1>11. ASSUME NEW p \in Providers, RegisterProvider(p)
       PROVE  Goal
  BY <1>3, <1>11 DEF RegisterProvider
<1>12. ASSUME NEW p \in Providers, NEW destination \in Holders, ExitProvider(p, destination)
       PROVE  Goal
  BY <1>3, <1>12 DEF ExitProvider
<1>13. (\/ \E params : InitializeMasterpool(params) \/ UpdateConfig(params)
        \/ MintGenesisSupply
        \/ \E flags : SetPauseFlags(flags)
        \/ \E x : ClaimUserClaw(x) \/ ClaimProviderClaw(x)
        \/ \E u, amount : Approve(u, amount)
        \/ MasterpoolTick
        \/ UNCHANGED mvars) => Goal
  BY <1>3, OtherEffect
<1> HIDE DEF Goal
<1>14. Goal
  BY <1>5, <1>6, <1>7, <1>8, <1>9, <1>10, <1>11, <1>12, <1>13, StepCases
<1> QED
  BY <1>14 DEF Goal, LocksStarted

\* Nothing is settled at first.
LEMMA LocksInit == MasterpoolInit => LocksStarted
BY NoneAssumption DEF MasterpoolInit, LocksStarted, FinalizedSettled, HasStatus

-----------------------------------------------------------------------------
(* What each receipt contributes to the reward accounts *)

UPend(r, u) == IF Recorded(r) /\ OfUser(r, u) THEN settlement[r].claw_to_user ELSE 0
ULock(r, u) == IF FinalizedSettled(r) /\ OfUser(r, u)
               THEN settlement[r].claw_to_user - settlement[r].user_claw_released ELSE 0
URel(r, u) == IF OfUser(r, u) THEN settlement[r].user_claw_released ELSE 0
PPend(r, p) == IF Recorded(r) /\ OfProvider(r, p) THEN settlement[r].claw_to_provider_locked ELSE 0
PLock(r, p) == IF FinalizedSettled(r) /\ OfProvider(r, p)
               THEN settlement[r].claw_to_provider_locked - settlement[r].provider_claw_released
               ELSE 0
PRel(r, p) == IF OfProvider(r, p) THEN settlement[r].provider_claw_released ELSE 0

\* No more is released of a settlement than it locked.
LEMMA ReleasedWithinLocked ==
  ASSUME NEW s \in ReceiptSettlement, NEW at \in Nat,
         s.user_claw_released <=
           Vested(s.claw_to_user, s.reward_lock_started_at, at, s.lock_days_snapshot),
         s.provider_claw_released <=
           Vested(s.claw_to_provider_locked, s.reward_lock_started_at, at, s.lock_days_snapshot)
  PROVE  /\ s.claw_to_user - s.user_claw_released \in Nat
         /\ s.claw_to_provider_locked - s.provider_claw_released \in Nat
<1> DEFINE vu == Vested(s.claw_to_user, s.reward_lock_started_at, at, s.lock_days_snapshot)
           vp == Vested(s.claw_to_provider_locked, s.reward_lock_started_at, at,
                        s.lock_days_snapshot)
<1>1. /\ vu \in Nat /\ vu <= s.claw_to_user
      /\ vp \in Nat /\ vp <= s.claw_to_provider_locked
  BY VestedOf
<1>2. s.user_claw_released <= vu /\ s.provider_claw_released <= vp
  OBVIOUS
<1>3. /\ s.claw_to_user \in Nat /\ s.claw_to_provider_locked \in Nat
      /\ s.user_claw_released \in Nat /\ s.provider_claw_released \in Nat
  BY WidthFacts DEF ReceiptSettlement
<1> HIDE DEF vu, vp
<1> QED
  BY <1>1, <1>2, <1>3

\* Every contribution is a natural number.
LEMMA ContributionsType ==
  ASSUME TypeInv, ReleasedWithinVested, NEW r \in Receipts, NEW x
  PROVE  /\ UPend(r, x) \in Nat /\ ULock(r, x) \in Nat /\ URel(r, x) \in Nat
         /\ PPend(r, x) \in Nat /\ PLock(r, x) \in Nat /\ PRel(r, x) \in Nat
<1>1. CASE settlement[r] = None
  BY <1>1 DEF UPend, ULock, URel, PPend, PLock, PRel, Recorded, FinalizedSettled, HasStatus,
              OfUser, OfProvider
<1>2. CASE settlement[r] # None
  <2>1. PICK s : s = settlement[r]
    OBVIOUS
  <2>2. s \in ReceiptSettlement /\ now \in Nat
    BY <1>2, <2>1 DEF TypeInv, TypeOK
  <2>3. /\ s.claw_to_user \in Nat /\ s.claw_to_provider_locked \in Nat
        /\ s.user_claw_released \in Nat /\ s.provider_claw_released \in Nat
    BY <2>2, WidthFacts DEF ReceiptSettlement
  <2>4. FinalizedSettled(r) => /\ s.claw_to_user - s.user_claw_released \in Nat
                              /\ s.claw_to_provider_locked - s.provider_claw_released \in Nat
    BY <1>2, <2>1, <2>2, ReleasedWithinLocked DEF ReleasedWithinVested
  <2> QED
    BY <2>1, <2>3, <2>4 DEF UPend, ULock, URel, PPend, PLock, PRel
<1> QED
  BY <1>1, <1>2

\* And so it is after a step.
LEMMA NextContributionsType ==
  ASSUME TypeInv', ReleasedWithinVested', NEW r \in Receipts, NEW x
  PROVE  /\ UPend(r, x)' \in Nat /\ ULock(r, x)' \in Nat /\ URel(r, x)' \in Nat
         /\ PPend(r, x)' \in Nat /\ PLock(r, x)' \in Nat /\ PRel(r, x)' \in Nat
<1>1. CASE settlement'[r] = None
  BY <1>1 DEF UPend, ULock, URel, PPend, PLock, PRel, Recorded, FinalizedSettled, HasStatus,
              OfUser, OfProvider
<1>2. CASE settlement'[r] # None
  <2>1. PICK s, t : s = settlement'[r] /\ t = now'
    OBVIOUS
  <2>2. s \in ReceiptSettlement /\ t \in Nat
    BY <1>2, <2>1 DEF TypeInv, TypeOK
  <2>3. /\ s.claw_to_user \in Nat /\ s.claw_to_provider_locked \in Nat
        /\ s.user_claw_released \in Nat /\ s.provider_claw_released \in Nat
    BY <2>2, WidthFacts DEF ReceiptSettlement
  <2>4. FinalizedSettled(r)' => /\ s.claw_to_user - s.user_claw_released \in Nat
                               /\ s.claw_to_provider_locked - s.provider_claw_released \in Nat
    <3>1. FinalizedSettled(r)' =>
            /\ s.user_claw_released <=
                 Vested(s.claw_to_user, s.reward_lock_started_at, t, s.lock_days_snapshot)
            /\ s.provider_claw_released <=
                 Vested(s.claw_to_provider_locked, s.reward_lock_started_at, t,
                        s.lock_days_snapshot)
      BY <1>2, <2>1 DEF ReleasedWithinVested
    <3> QED
      BY <2>2, <3>1, ReleasedWithinLocked
  <2> QED
    BY <2>1, <2>3, <2>4 DEF UPend, ULock, URel, PPend, PLock, PRel
<1> QED
  BY <1>1, <1>2

\* A sum over the receipts, after a step that changes one of its terms.
LEMMA SumMoves ==
  ASSUME NEW f \in [Receipts -> Nat], NEW g \in [Receipts -> Nat], NEW r \in Receipts,
         \A y \in Receipts \ {r} : g[y] = f[y],
         NEW a, a = Total(Receipts, f), NEW b, b = Total(Receipts, g)
  PROVE  a \in Nat /\ b \in Nat /\ b = a + g[r] - f[r]
<1>1. IsFiniteSet(Receipts)
  BY MasterpoolAssumption
<1> QED
  BY <1>1, TotalChange, TotalType

\* When one settlement changes, the sums of a user change by its terms.
LEMMA UserSumsMove ==
  ASSUME TypeInv, TypeInv', ReleasedWithinVested, ReleasedWithinVested',
         NEW r \in Receipts, NEW u, Changed(settlement, settlement', Receipts, r)
  PROVE  /\ UserPending(u) \in Nat /\ UserPending(u)' = UserPending(u) + UPend(r, u)' - UPend(r, u)
         /\ UserLocked(u) \in Nat /\ UserLocked(u)' = UserLocked(u) + ULock(r, u)' - ULock(r, u)
         /\ UserReleased(u) \in Nat /\ UserReleased(u)' = UserReleased(u) + URel(r, u)' - URel(r, u)
<1>0. \A y \in Receipts : /\ UPend(y, u) \in Nat /\ UPend(y, u)' \in Nat
                           /\ ULock(y, u) \in Nat /\ ULock(y, u)' \in Nat
                           /\ URel(y, u) \in Nat /\ URel(y, u)' \in Nat
  <2>1. \A y \in Receipts : /\ UPend(y, u) \in Nat /\ ULock(y, u) \in Nat /\ URel(y, u) \in Nat
    BY ContributionsType
  <2>2. \A y \in Receipts : /\ UPend(y, u)' \in Nat /\ ULock(y, u)' \in Nat /\ URel(y, u)' \in Nat
    <3> SUFFICES ASSUME NEW y \in Receipts
                 PROVE  UPend(y, u)' \in Nat /\ ULock(y, u)' \in Nat /\ URel(y, u)' \in Nat
      OBVIOUS
    <3> QED
      BY NextContributionsType
  <2> QED
    BY <2>1, <2>2
<1>1. UserPending(u) \in Nat /\ UserPending(u)' = UserPending(u) + UPend(r, u)' - UPend(r, u)
  <2> DEFINE f == [y \in Receipts |-> UPend(y, u)]
             g == [y \in Receipts |-> UPend(y, u)']
  <2>1. f \in [Receipts -> Nat] /\ g \in [Receipts -> Nat]
    BY <1>0
  <2>2. UserPending(u) = Total(Receipts, f) /\ UserPending(u)' = Total(Receipts, g)
    BY DEF UserPending, UPend
  <2>3. \A y \in Receipts \ {r} : g[y] = f[y]
    BY DEF UPend, Changed, Recorded, FinalizedSettled, HasStatus, OfUser
  <2>4. f[r] = UPend(r, u) /\ g[r] = UPend(r, u)'
    OBVIOUS
  <2> HIDE DEF f, g
  <2> QED
    BY <2>1, <2>2, <2>3, <2>4, SumMoves
<1>2. UserLocked(u) \in Nat /\ UserLocked(u)' = UserLocked(u) + ULock(r, u)' - ULock(r, u)
  <2> DEFINE f == [y \in Receipts |-> ULock(y, u)]
             g == [y \in Receipts |-> ULock(y, u)']
  <2>1. f \in [Receipts -> Nat] /\ g \in [Receipts -> Nat]
    BY <1>0
  <2>2. UserLocked(u) = Total(Receipts, f) /\ UserLocked(u)' = Total(Receipts, g)
    BY DEF UserLocked, ULock
  <2>3. \A y \in Receipts \ {r} : g[y] = f[y]
    BY DEF ULock, Changed, Recorded, FinalizedSettled, HasStatus, OfUser
  <2>4. f[r] = ULock(r, u) /\ g[r] = ULock(r, u)'
    OBVIOUS
  <2> HIDE DEF f, g
  <2> QED
    BY <2>1, <2>2, <2>3, <2>4, SumMoves
<1>3. UserReleased(u) \in Nat /\ UserReleased(u)' = UserReleased(u) + URel(r, u)' - URel(r, u)
  <2> DEFINE f == [y \in Receipts |-> URel(y, u)]
             g == [y \in Receipts |-> URel(y, u)']
  <2>1. f \in [Receipts -> Nat] /\ g \in [Receipts -> Nat]
    BY <1>0
  <2>2. UserReleased(u) = Total(Receipts, f) /\ UserReleased(u)' = Total(Receipts, g)
    BY DEF UserReleased, URel
  <2>3. \A y \in Receipts \ {r} : g[y] = f[y]
    BY DEF URel, Changed, Recorded, FinalizedSettled, HasStatus, OfUser
  <2>4. f[r] = URel(r, u) /\ g[r] = URel(r, u)'
    OBVIOUS
  <2> HIDE DEF f, g
  <2> QED
    BY <2>1, <2>2, <2>3, <2>4, SumMoves
<1> QED
  BY <1>1, <1>2, <1>3
\* The same for the sums of a provider.
LEMMA ProviderSumsMove ==
  ASSUME TypeInv, TypeInv', ReleasedWithinVested, ReleasedWithinVested',
         NEW r \in Receipts, NEW p, Changed(settlement, settlement', Receipts, r)
  PROVE  /\ ProviderPending(p) \in Nat
         /\ ProviderPending(p)' = ProviderPending(p) + PPend(r, p)' - PPend(r, p)
         /\ ProviderLocked(p) \in Nat
         /\ ProviderLocked(p)' = ProviderLocked(p) + PLock(r, p)' - PLock(r, p)
         /\ ProviderReleased(p) \in Nat
         /\ ProviderReleased(p)' = ProviderReleased(p) + PRel(r, p)' - PRel(r, p)
<1>0. \A y \in Receipts : /\ PPend(y, p) \in Nat /\ PPend(y, p)' \in Nat
                           /\ PLock(y, p) \in Nat /\ PLock(y, p)' \in Nat
                           /\ PRel(y, p) \in Nat /\ PRel(y, p)' \in Nat
  <2>1. \A y \in Receipts : /\ PPend(y, p) \in Nat /\ PLock(y, p) \in Nat /\ PRel(y, p) \in Nat
    BY ContributionsType
  <2>2. \A y \in Receipts : /\ PPend(y, p)' \in Nat /\ PLock(y, p)' \in Nat /\ PRel(y, p)' \in Nat
    <3> SUFFICES ASSUME NEW y \in Receipts
                 PROVE  PPend(y, p)' \in Nat /\ PLock(y, p)' \in Nat /\ PRel(y, p)' \in Nat
      OBVIOUS
    <3> QED
      BY NextContributionsType
  <2> QED
    BY <2>1, <2>2
<1>1. ProviderPending(p) \in Nat /\ ProviderPending(p)' = ProviderPending(p) + PPend(r, p)' - PPend(r, p)
  <2> DEFINE f == [y \in Receipts |-> PPend(y, p)]
             g == [y \in Receipts |-> PPend(y, p)']
  <2>1. f \in [Receipts -> Nat] /\ g \in [Receipts -> Nat]
    BY <1>0
  <2>2. ProviderPending(p) = Total(Receipts, f) /\ ProviderPending(p)' = Total(Receipts, g)
    BY DEF ProviderPending, PPend
  <2>3. \A y \in Receipts \ {r} : g[y] = f[y]
    BY DEF PPend, Changed, Recorded, FinalizedSettled, HasStatus, OfProvider
  <2>4. f[r] = PPend(r, p) /\ g[r] = PPend(r, p)'
    OBVIOUS
  <2> HIDE DEF f, g
  <2> QED
    BY <2>1, <2>2, <2>3, <2>4, SumMoves
<1>2. ProviderLocked(p) \in Nat /\ ProviderLocked(p)' = ProviderLocked(p) + PLock(r, p)' - PLock(r, p)
  <2> DEFINE f == [y \in Receipts |-> PLock(y, p)]
             g == [y \in Receipts |-> PLock(y, p)']
  <2>1. f \in [Receipts -> Nat] /\ g \in [Receipts -> Nat]
    BY <1>0
  <2>2. ProviderLocked(p) = Total(Receipts, f) /\ ProviderLocked(p)' = Total(Receipts, g)
    BY DEF ProviderLocked, PLock
  <2>3. \A y \in Receipts \ {r} : g[y] = f[y]
    BY DEF PLock, Changed, Recorded, FinalizedSettled, HasStatus, OfProvider
  <2>4. f[r] = PLock(r, p) /\ g[r] = PLock(r, p)'
    OBVIOUS
  <2> HIDE DEF f, g
  <2> QED
    BY <2>1, <2>2, <2>3, <2>4, SumMoves
<1>3. ProviderReleased(p) \in Nat /\ ProviderReleased(p)' = ProviderReleased(p) + PRel(r, p)' - PRel(r, p)
  <2> DEFINE f == [y \in Receipts |-> PRel(y, p)]
             g == [y \in Receipts |-> PRel(y, p)']
  <2>1. f \in [Receipts -> Nat] /\ g \in [Receipts -> Nat]
    BY <1>0
  <2>2. ProviderReleased(p) = Total(Receipts, f) /\ ProviderReleased(p)' = Total(Receipts, g)
    BY DEF ProviderReleased, PRel
  <2>3. \A y \in Receipts \ {r} : g[y] = f[y]
    BY DEF PRel, Changed, Recorded, FinalizedSettled, HasStatus, OfProvider
  <2>4. f[r] = PRel(r, p) /\ g[r] = PRel(r, p)'
    OBVIOUS
  <2> HIDE DEF f, g
  <2> QED
    BY <2>1, <2>2, <2>3, <2>4, SumMoves
<1> QED
  BY <1>1, <1>2, <1>3

-----------------------------------------------------------------------------
(* What each instruction does to the reward accounts *)

UsersAgree == \A u \in Users :
    /\ user_reward[u].pending = UserPending(u)
    /\ user_reward[u].locked = UserLocked(u)
    /\ user_reward[u].released = UserReleased(u)
    /\ user_reward[u].claimed <= user_reward[u].released

ProvidersAgree == \A p \in Providers :
    /\ provider_reward[p].pending = ProviderPending(p)
    /\ provider_reward[p].locked = ProviderLocked(p)
    /\ provider_reward[p].released = ProviderReleased(p)
    /\ provider_reward[p].claimed <= provider_reward[p].released

\* One reward account moves: its pending, locked and released by these amounts.
Moved(old, new, S, x, pend, lock, rel) ==
    /\ Changed(old, new, S, x)
    /\ new[x].pending = old[x].pending + pend
    /\ new[x].locked = old[x].locked + lock
    /\ new[x].released = old[x].released + rel
    /\ new[x].claimed = old[x].claimed

\* The receipt's contributions to the accounts move by the same amounts.
UserTermsMove(r, u, pend, lock, rel) == \A x \in Users :
    /\ UPend(r, x)' = UPend(r, x) + IF x = u THEN pend ELSE 0
    /\ ULock(r, x)' = ULock(r, x) + IF x = u THEN lock ELSE 0
    /\ URel(r, x)' = URel(r, x) + IF x = u THEN rel ELSE 0

ProviderTermsMove(r, p, pend, lock, rel) == \A x \in Providers :
    /\ PPend(r, x)' = PPend(r, x) + IF x = p THEN pend ELSE 0
    /\ PLock(r, x)' = PLock(r, x) + IF x = p THEN lock ELSE 0
    /\ PRel(r, x)' = PRel(r, x) + IF x = p THEN rel ELSE 0

\* Then the users' accounts still agree with the sums over the receipts.
LEMMA UsersMove ==
  ASSUME TypeInv, TypeInv', ReleasedWithinVested, ReleasedWithinVested', UsersAgree,
         NEW r \in Receipts, Changed(settlement, settlement', Receipts, r),
         NEW u, NEW pend \in Int, NEW lock \in Int, NEW rel \in Nat,
         Moved(user_reward, user_reward', Users, u, pend, lock, rel),
         UserTermsMove(r, u, pend, lock, rel)
  PROVE  UsersAgree'
<1> SUFFICES ASSUME NEW x \in Users
             PROVE  /\ user_reward'[x].pending = UserPending(x)'
                    /\ user_reward'[x].locked = UserLocked(x)'
                    /\ user_reward'[x].released = UserReleased(x)'
                    /\ user_reward'[x].claimed <= user_reward'[x].released
  BY DEF UsersAgree
<1>1. user_reward[x] \in RewardAccount
  BY DEF TypeInv, TypeOK
<1>2. /\ user_reward[x].pending \in Nat /\ user_reward[x].locked \in Nat
      /\ user_reward[x].released \in Nat /\ user_reward[x].claimed \in Nat
  BY <1>1, WidthFacts DEF RewardAccount
<1>3. /\ user_reward[x].pending = UserPending(x)
      /\ user_reward[x].locked = UserLocked(x)
      /\ user_reward[x].released = UserReleased(x)
      /\ user_reward[x].claimed <= user_reward[x].released
  BY DEF UsersAgree
<1>4. /\ UserPending(x)' = UserPending(x) + UPend(r, x)' - UPend(r, x)
      /\ UserLocked(x)' = UserLocked(x) + ULock(r, x)' - ULock(r, x)
      /\ UserReleased(x)' = UserReleased(x) + URel(r, x)' - URel(r, x)
  BY UserSumsMove
<1>5. UPend(r, x) \in Nat /\ ULock(r, x) \in Nat /\ URel(r, x) \in Nat
  BY ContributionsType
<1>6. CASE x = u
  <2>1. /\ UPend(r, x)' = UPend(r, x) + pend
        /\ ULock(r, x)' = ULock(r, x) + lock
        /\ URel(r, x)' = URel(r, x) + rel
    BY <1>6 DEF UserTermsMove
  <2>2. /\ user_reward'[x].pending = user_reward[x].pending + pend
        /\ user_reward'[x].locked = user_reward[x].locked + lock
        /\ user_reward'[x].released = user_reward[x].released + rel
        /\ user_reward'[x].claimed = user_reward[x].claimed
    BY <1>6 DEF Moved
  <2> QED
    BY <1>2, <1>3, <1>4, <1>5, <2>1, <2>2
<1>7. CASE x # u
  <2>1. /\ UPend(r, x)' = UPend(r, x) + 0
        /\ ULock(r, x)' = ULock(r, x) + 0
        /\ URel(r, x)' = URel(r, x) + 0
    BY <1>7 DEF UserTermsMove
  <2>2. user_reward'[x] = user_reward[x]
    BY <1>7 DEF Moved, Changed
  <2> QED
    BY <1>2, <1>3, <1>4, <1>5, <2>1, <2>2
<1> QED
  BY <1>6, <1>7

\* And the providers' accounts still agree with the sums over the receipts.
LEMMA ProvidersMove ==
  ASSUME TypeInv, TypeInv', ReleasedWithinVested, ReleasedWithinVested', ProvidersAgree,
         NEW r \in Receipts, Changed(settlement, settlement', Receipts, r),
         NEW p, NEW pend \in Int, NEW lock \in Int, NEW rel \in Nat,
         Moved(provider_reward, provider_reward', Providers, p, pend, lock, rel),
         ProviderTermsMove(r, p, pend, lock, rel)
  PROVE  ProvidersAgree'
<1> SUFFICES ASSUME NEW x \in Providers
             PROVE  /\ provider_reward'[x].pending = ProviderPending(x)'
                    /\ provider_reward'[x].locked = ProviderLocked(x)'
                    /\ provider_reward'[x].released = ProviderReleased(x)'
                    /\ provider_reward'[x].claimed <= provider_reward'[x].released
  BY DEF ProvidersAgree
<1>1. provider_reward[x] \in RewardAccount
  BY DEF TypeInv, TypeOK
<1>2. /\ provider_reward[x].pending \in Nat /\ provider_reward[x].locked \in Nat
      /\ provider_reward[x].released \in Nat /\ provider_reward[x].claimed \in Nat
  BY <1>1, WidthFacts DEF RewardAccount
<1>3. /\ provider_reward[x].pending = ProviderPending(x)
      /\ provider_reward[x].locked = ProviderLocked(x)
      /\ provider_reward[x].released = ProviderReleased(x)
      /\ provider_reward[x].claimed <= provider_reward[x].released
  BY DEF ProvidersAgree
<1>4. /\ ProviderPending(x)' = ProviderPending(x) + PPend(r, x)' - PPend(r, x)
      /\ ProviderLocked(x)' = ProviderLocked(x) + PLock(r, x)' - PLock(r, x)
      /\ ProviderReleased(x)' = ProviderReleased(x) + PRel(r, x)' - PRel(r, x)
  BY ProviderSumsMove
<1>5. PPend(r, x) \in Nat /\ PLock(r, x) \in Nat /\ PRel(r, x) \in Nat
  BY ContributionsType
<1>6. CASE x = p
  <2>1. /\ PPend(r, x)' = PPend(r, x) + pend
        /\ PLock(r, x)' = PLock(r, x) + lock
        /\ PRel(r, x)' = PRel(r, x) + rel
    BY <1>6 DEF ProviderTermsMove
  <2>2. /\ provider_reward'[x].pending = provider_reward[x].pending + pend
        /\ provider_reward'[x].locked = provider_reward[x].locked + lock
        /\ provider_reward'[x].released = provider_reward[x].released + rel
        /\ provider_reward'[x].claimed = provider_reward[x].claimed
    BY <1>6 DEF Moved
  <2> QED
    BY <1>2, <1>3, <1>4, <1>5, <2>1, <2>2
<1>7. CASE x # p
  <2>1. /\ PPend(r, x)' = PPend(r, x) + 0
        /\ PLock(r, x)' = PLock(r, x) + 0
        /\ PRel(r, x)' = PRel(r, x) + 0
    BY <1>7 DEF ProviderTermsMove
  <2>2. provider_reward'[x] = provider_reward[x]
    BY <1>7 DEF Moved, Changed
  <2> QED
    BY <1>2, <1>3, <1>4, <1>5, <2>1, <2>2
<1> QED
  BY <1>6, <1>7

\* record_mining_from_receipt adds to what is pending.
LEMMA RecordRewards ==
  ASSUME TypeInv, NEW r \in Receipts, NEW u \in Users, NEW p \in Providers, NEW total,
         RecordMiningFromReceipt(r, u, p, total), NEW s, s = settlement'[r]
  PROVE  /\ Moved(user_reward, user_reward', Users, u, s.claw_to_user, 0, 0)
         /\ Moved(provider_reward, provider_reward', Providers, p,
                  s.claw_to_provider_locked, 0, 0)
<1>1. /\ user_reward' = [user_reward EXCEPT ![u].pending = @ + s.claw_to_user]
      /\ provider_reward' =
           [provider_reward EXCEPT ![p].pending = @ + s.claw_to_provider_locked]
  BY DEF RecordMiningFromReceipt, TypeInv, TypeOK
<1>2. /\ user_reward \in [Users -> RewardAccount] /\ user_reward[u] \in RewardAccount
      /\ provider_reward \in [Providers -> RewardAccount] /\ provider_reward[p] \in RewardAccount
  BY DEF TypeInv, TypeOK
<1>3. /\ user_reward[u].locked \in Nat /\ user_reward[u].released \in Nat
      /\ provider_reward[p].locked \in Nat /\ provider_reward[p].released \in Nat
  BY <1>2, WidthFacts DEF RewardAccount
<1> QED
  BY <1>1, <1>2, <1>3 DEF Moved, Changed, RewardAccount

\* settle_finalized_receipt locks what was pending.
LEMMA SettleRewards ==
  ASSUME TypeInv, NEW r \in Receipts, NEW status, SettleFinalizedReceipt(r, status),
         NEW s, s = settlement[r], NEW u \in Users, u = s.payer_user,
         NEW p \in Providers, p = s.provider_wallet, NEW m \in Nat, m = s.claw_to_user,
         NEW n \in Nat, n = s.claw_to_provider_locked
  PROVE  /\ Moved(user_reward, user_reward', Users, u, -m, m, 0)
         /\ Moved(provider_reward, provider_reward', Providers, p, -n, n, 0)
<1>1. /\ user_reward' = [user_reward EXCEPT ![u].pending = @ - m, ![u].locked = @ + m]
      /\ provider_reward' = [provider_reward EXCEPT ![p].pending = @ - n, ![p].locked = @ + n]
  BY DEF SettleFinalizedReceipt
<1>2. /\ user_reward \in [Users -> RewardAccount] /\ user_reward[u] \in RewardAccount
      /\ provider_reward \in [Providers -> RewardAccount] /\ provider_reward[p] \in RewardAccount
  BY DEF TypeInv, TypeOK
<1>3. /\ user_reward[u].pending \in Nat /\ user_reward[u].released \in Nat
      /\ provider_reward[p].pending \in Nat /\ provider_reward[p].released \in Nat
  BY <1>2, WidthFacts DEF RewardAccount
<1>4. /\ user_reward'[u] = [user_reward[u] EXCEPT !.pending = @ - m, !.locked = @ + m]
      /\ Changed(user_reward, user_reward', Users, u)
      /\ provider_reward'[p] = [provider_reward[p] EXCEPT !.pending = @ - n, !.locked = @ + n]
      /\ Changed(provider_reward, provider_reward', Providers, p)
  BY <1>1, <1>2 DEF Changed, RewardAccount
<1> QED
  BY <1>2, <1>3, <1>4 DEF Moved, RewardAccount

\* An upheld challenge drops what was pending.
LEMMA RevertRewards ==
  ASSUME TypeInv, NEW c \in Challenges, NEW r \in Receipts, RevertReceipt(c, r),
         NEW s, s = settlement[r], NEW u \in Users, u = s.payer_user,
         NEW p \in Providers, p = s.provider_wallet, NEW m \in Nat, m = s.claw_to_user,
         NEW n \in Nat, n = s.claw_to_provider_locked
  PROVE  /\ Moved(user_reward, user_reward', Users, u, -m, 0, 0)
         /\ Moved(provider_reward, provider_reward', Providers, p, -n, 0, 0)
<1>1. /\ user_reward' = [user_reward EXCEPT ![u].pending = @ - m]
      /\ provider_reward' = [provider_reward EXCEPT ![p].pending = @ - n]
  BY DEF RevertReceipt
<1>2. /\ user_reward \in [Users -> RewardAccount] /\ user_reward[u] \in RewardAccount
      /\ provider_reward \in [Providers -> RewardAccount] /\ provider_reward[p] \in RewardAccount
  BY DEF TypeInv, TypeOK
<1>3. /\ user_reward[u].pending \in Nat /\ user_reward[u].released \in Nat
      /\ provider_reward[p].pending \in Nat /\ provider_reward[p].released \in Nat
      /\ user_reward[u].locked \in Nat /\ provider_reward[p].locked \in Nat
  BY <1>2, WidthFacts DEF RewardAccount
<1>4. /\ user_reward'[u] = [user_reward[u] EXCEPT !.pending = @ - m]
      /\ Changed(user_reward, user_reward', Users, u)
      /\ provider_reward'[p] = [provider_reward[p] EXCEPT !.pending = @ - n]
      /\ Changed(provider_reward, provider_reward', Providers, p)
  BY <1>1, <1>2 DEF Changed, RewardAccount
<1> QED
  BY <1>2, <1>3, <1>4 DEF Moved, RewardAccount

\* A release moves its amount from locked to released, for one of the two parties.
LEMMA ReleaseRewards ==
  ASSUME TypeInv, NEW r \in Receipts, NEW target, NEW amount \in Nat,
         MaterializeRewardRelease(r, target, amount),
         NEW s, s = settlement[r], NEW u \in Users, u = s.payer_user,
         NEW p \in Providers, p = s.provider_wallet
  PROVE  \/ /\ settlement'[r] = [s EXCEPT !.user_claw_released = @ + amount]
            /\ Moved(user_reward, user_reward', Users, u, 0, -amount, amount)
            /\ UNCHANGED provider_reward
         \/ /\ settlement'[r] = [s EXCEPT !.provider_claw_released = @ + amount]
            /\ Moved(provider_reward, provider_reward', Providers, p, 0, -amount, amount)
            /\ UNCHANGED user_reward
<1>1. /\ user_reward \in [Users -> RewardAccount] /\ user_reward[u] \in RewardAccount
      /\ provider_reward \in [Providers -> RewardAccount] /\ provider_reward[p] \in RewardAccount
      /\ settlement \in [Receipts -> ReceiptSettlement \cup {None}]
  BY DEF TypeInv, TypeOK
<1>2. /\ user_reward[u].pending \in Nat /\ provider_reward[p].pending \in Nat
      /\ user_reward[u].locked \in Nat /\ provider_reward[p].locked \in Nat
  BY <1>1, WidthFacts DEF RewardAccount
<1>3. CASE ReleaseToUser(r, amount)
  <2>1. /\ settlement'[r] = [s EXCEPT !.user_claw_released = @ + amount]
        /\ user_reward'[u] = [user_reward[u] EXCEPT !.locked = @ - amount, !.released = @ + amount]
        /\ Changed(user_reward, user_reward', Users, u)
        /\ UNCHANGED provider_reward
    BY <1>1, <1>3 DEF ReleaseToUser, Changed, RewardAccount
  <2> QED
    BY <1>1, <1>2, <2>1 DEF Moved, RewardAccount
<1>4. CASE ReleaseToProvider(r, amount)
  <2>1. /\ settlement'[r] = [s EXCEPT !.provider_claw_released = @ + amount]
        /\ provider_reward'[p] =
             [provider_reward[p] EXCEPT !.locked = @ - amount, !.released = @ + amount]
        /\ Changed(provider_reward, provider_reward', Providers, p)
        /\ UNCHANGED user_reward
    BY <1>1, <1>4 DEF ReleaseToProvider, Changed, RewardAccount
  <2> QED
    BY <1>1, <1>2, <2>1 DEF Moved, RewardAccount
<1> QED
  BY <1>3, <1>4 DEF MaterializeRewardRelease

\* An account that does not move is unmoved by nothing.
LEMMA Unmoved ==
  ASSUME NEW S, NEW f \in [S -> RewardAccount], NEW x \in S
  PROVE  Moved(f, f, S, x, 0, 0, 0)
<1>1. f[x] \in RewardAccount
  OBVIOUS
<1>2. f[x].pending \in Nat /\ f[x].locked \in Nat /\ f[x].released \in Nat
  BY <1>1, WidthFacts DEF RewardAccount
<1> QED
  BY <1>2 DEF Moved, Changed

-----------------------------------------------------------------------------
(* What each instruction does to the contributions of its receipt *)

\* A recorded receipt starts to count as pending.
LEMMA RecordTerms ==
  ASSUME NEW r \in Receipts, settlement[r] = None, NEW s \in ReceiptSettlement,
         s = settlement'[r], s.status = "Recorded",
         s.user_claw_released = 0, s.provider_claw_released = 0
  PROVE  /\ UserTermsMove(r, s.payer_user, s.claw_to_user, 0, 0)
         /\ ProviderTermsMove(r, s.provider_wallet, s.claw_to_provider_locked, 0, 0)
<1>1. s # None /\ s.claw_to_user \in Nat /\ s.claw_to_provider_locked \in Nat
  BY NoneAssumption, WidthFacts DEF ReceiptSettlement
<1> QED
  BY <1>1 DEF UserTermsMove, ProviderTermsMove, UPend, ULock, URel, PPend, PLock, PRel, Recorded,
              FinalizedSettled, HasStatus, OfUser, OfProvider

\* A settled receipt counts as locked instead.
LEMMA SettleTerms ==
  ASSUME NEW r \in Receipts, Recorded(r), NEW s \in ReceiptSettlement, s = settlement[r],
         s.user_claw_released = 0, s.provider_claw_released = 0,
         NEW t \in ReceiptSettlement, t = settlement'[r],
         t = [s EXCEPT !.reward_lock_started_at = now, !.status = "FinalizedSettled"]
  PROVE  /\ UserTermsMove(r, s.payer_user, -s.claw_to_user, s.claw_to_user, 0)
         /\ ProviderTermsMove(r, s.provider_wallet, -s.claw_to_provider_locked,
                              s.claw_to_provider_locked, 0)
<1>1. /\ s # None /\ t # None
      /\ s.claw_to_user \in Nat /\ s.claw_to_provider_locked \in Nat
  BY NoneAssumption, WidthFacts DEF ReceiptSettlement
<1>2. /\ t.status = "FinalizedSettled" /\ s.status = "Recorded"
      /\ t.payer_user = s.payer_user /\ t.provider_wallet = s.provider_wallet
      /\ t.claw_to_user = s.claw_to_user
      /\ t.claw_to_provider_locked = s.claw_to_provider_locked
      /\ t.user_claw_released = 0 /\ t.provider_claw_released = 0
  BY DEF ReceiptSettlement, Recorded, HasStatus
<1>3. UserTermsMove(r, s.payer_user, -s.claw_to_user, s.claw_to_user, 0)
  BY <1>1, <1>2 DEF UserTermsMove, UPend, ULock, URel, Recorded, FinalizedSettled, HasStatus, OfUser
<1>4. ProviderTermsMove(r, s.provider_wallet, -s.claw_to_provider_locked,
                        s.claw_to_provider_locked, 0)
  BY <1>1, <1>2 DEF ProviderTermsMove, PPend, PLock, PRel, Recorded, FinalizedSettled, HasStatus,
                    OfProvider
<1> QED
  BY <1>3, <1>4

\* A reverted receipt counts no more.
LEMMA RevertTerms ==
  ASSUME NEW r \in Receipts, Recorded(r), NEW s \in ReceiptSettlement, s = settlement[r],
         s.user_claw_released = 0, s.provider_claw_released = 0,
         NEW t \in ReceiptSettlement, t = settlement'[r],
         t = [s EXCEPT !.status = "ChallengedReverted"]
  PROVE  /\ UserTermsMove(r, s.payer_user, -s.claw_to_user, 0, 0)
         /\ ProviderTermsMove(r, s.provider_wallet, -s.claw_to_provider_locked, 0, 0)
<1>1. /\ s # None /\ t # None
      /\ s.claw_to_user \in Nat /\ s.claw_to_provider_locked \in Nat
  BY NoneAssumption, WidthFacts DEF ReceiptSettlement
<1>2. /\ t.status = "ChallengedReverted" /\ s.status = "Recorded"
      /\ t.payer_user = s.payer_user /\ t.provider_wallet = s.provider_wallet
      /\ t.user_claw_released = 0 /\ t.provider_claw_released = 0
  BY DEF ReceiptSettlement, Recorded, HasStatus
<1>3. UserTermsMove(r, s.payer_user, -s.claw_to_user, 0, 0)
  BY <1>1, <1>2 DEF UserTermsMove, UPend, ULock, URel, Recorded, FinalizedSettled, HasStatus, OfUser
<1>4. ProviderTermsMove(r, s.provider_wallet, -s.claw_to_provider_locked, 0, 0)
  BY <1>1, <1>2 DEF ProviderTermsMove, PPend, PLock, PRel, Recorded, FinalizedSettled, HasStatus,
                    OfProvider
<1> QED
  BY <1>3, <1>4

\* A release moves its amount within the terms of one party.
LEMMA ReleaseTerms ==
  ASSUME NEW r \in Receipts, FinalizedSettled(r), NEW s \in ReceiptSettlement, s = settlement[r],
         NEW t \in ReceiptSettlement, t = settlement'[r], NEW amount \in Nat
  PROVE  /\ t = [s EXCEPT !.user_claw_released = @ + amount] =>
              /\ UserTermsMove(r, s.payer_user, 0, -amount, amount)
              /\ ProviderTermsMove(r, s.provider_wallet, 0, 0, 0)
         /\ t = [s EXCEPT !.provider_claw_released = @ + amount] =>
              /\ UserTermsMove(r, s.payer_user, 0, 0, 0)
              /\ ProviderTermsMove(r, s.provider_wallet, 0, -amount, amount)
<1>1. /\ s # None /\ t # None /\ s.status = "FinalizedSettled"
      /\ s.claw_to_user \in Nat /\ s.claw_to_provider_locked \in Nat
      /\ s.user_claw_released \in Nat /\ s.provider_claw_released \in Nat
  BY NoneAssumption, WidthFacts DEF ReceiptSettlement, FinalizedSettled, HasStatus
<1>2. ASSUME t = [s EXCEPT !.user_claw_released = @ + amount]
      PROVE  /\ UserTermsMove(r, s.payer_user, 0, -amount, amount)
             /\ ProviderTermsMove(r, s.provider_wallet, 0, 0, 0)
  <2>1. /\ t.status = "FinalizedSettled"
        /\ t.payer_user = s.payer_user /\ t.provider_wallet = s.provider_wallet
        /\ t.claw_to_user = s.claw_to_user
        /\ t.claw_to_provider_locked = s.claw_to_provider_locked
        /\ t.user_claw_released = s.user_claw_released + amount
        /\ t.provider_claw_released = s.provider_claw_released
    BY <1>1, <1>2 DEF ReceiptSettlement
  <2>2. UserTermsMove(r, s.payer_user, 0, -amount, amount)
    BY <1>1, <2>1 DEF UserTermsMove, UPend, ULock, URel, Recorded, FinalizedSettled, HasStatus,
                      OfUser
  <2>3. ProviderTermsMove(r, s.provider_wallet, 0, 0, 0)
    BY <1>1, <2>1 DEF ProviderTermsMove, PPend, PLock, PRel, Recorded, FinalizedSettled,
                      HasStatus, OfProvider
  <2> QED
    BY <2>2, <2>3
<1>3. ASSUME t = [s EXCEPT !.provider_claw_released = @ + amount]
      PROVE  /\ UserTermsMove(r, s.payer_user, 0, 0, 0)
             /\ ProviderTermsMove(r, s.provider_wallet, 0, -amount, amount)
  <2>1. /\ t.status = "FinalizedSettled"
        /\ t.payer_user = s.payer_user /\ t.provider_wallet = s.provider_wallet
        /\ t.claw_to_user = s.claw_to_user
        /\ t.claw_to_provider_locked = s.claw_to_provider_locked
        /\ t.user_claw_released = s.user_claw_released
        /\ t.provider_claw_released = s.provider_claw_released + amount
    BY <1>1, <1>3 DEF ReceiptSettlement
  <2>2. UserTermsMove(r, s.payer_user, 0, 0, 0)
    BY <1>1, <2>1 DEF UserTermsMove, UPend, ULock, URel, Recorded, FinalizedSettled, HasStatus,
                      OfUser
  <2>3. ProviderTermsMove(r, s.provider_wallet, 0, -amount, amount)
    BY <1>1, <2>1 DEF ProviderTermsMove, PPend, PLock, PRel, Recorded, FinalizedSettled,
                      HasStatus, OfProvider
  <2> QED
    BY <2>2, <2>3
<1> QED
  BY <1>2, <1>3

-----------------------------------------------------------------------------
(* The reward accounts agree with the receipts *)

\* A claim only raises what is claimed, up to what is released.
LEMMA ClaimsAgree ==
  ASSUME TypeInv, UsersAgree, ProvidersAgree, UNCHANGED settlement,
         \/ \E x \in Users : ClaimUserClaw(x)
         \/ \E x \in Providers : ClaimProviderClaw(x)
  PROVE  UsersAgree' /\ ProvidersAgree'
<1>0. /\ \A u : /\ UserPending(u)' = UserPending(u)
               /\ UserLocked(u)' = UserLocked(u)
               /\ UserReleased(u)' = UserReleased(u)
      /\ \A p : /\ ProviderPending(p)' = ProviderPending(p)
               /\ ProviderLocked(p)' = ProviderLocked(p)
               /\ ProviderReleased(p)' = ProviderReleased(p)
  BY DEF UserPending, UserLocked, UserReleased, ProviderPending, ProviderLocked,
         ProviderReleased, Recorded, FinalizedSettled, HasStatus, OfUser, OfProvider
<1>1. ASSUME NEW w \in Users, ClaimUserClaw(w)
      PROVE  UsersAgree' /\ ProvidersAgree'
  <2>1. /\ user_reward[w] \in RewardAccount /\ UNCHANGED provider_reward
        /\ user_reward'[w] = [user_reward[w] EXCEPT
                                !.claimed = @ + (user_reward[w].released - user_reward[w].claimed)]
        /\ Changed(user_reward, user_reward', Users, w)
    BY <1>1 DEF ClaimUserClaw, TypeInv, TypeOK, Changed
  <2>2. user_reward[w].released \in Nat /\ user_reward[w].claimed \in Nat
    BY <2>1, WidthFacts DEF RewardAccount
  <2>3. /\ user_reward'[w].pending = user_reward[w].pending
        /\ user_reward'[w].locked = user_reward[w].locked
        /\ user_reward'[w].released = user_reward[w].released
        /\ user_reward'[w].claimed <= user_reward'[w].released
    BY <2>1, <2>2 DEF RewardAccount
  <2>4. UsersAgree'
    BY <1>0, <2>1, <2>3 DEF UsersAgree, Changed
  <2>5. ProvidersAgree'
    BY <1>0, <2>1 DEF ProvidersAgree
  <2> QED
    BY <2>4, <2>5
<1>2. ASSUME NEW w \in Providers, ClaimProviderClaw(w)
      PROVE  UsersAgree' /\ ProvidersAgree'
  <2>1. /\ provider_reward[w] \in RewardAccount /\ UNCHANGED user_reward
        /\ provider_reward'[w] =
             [provider_reward[w] EXCEPT
                !.claimed = @ + (provider_reward[w].released - provider_reward[w].claimed)]
        /\ Changed(provider_reward, provider_reward', Providers, w)
    BY <1>2 DEF ClaimProviderClaw, TypeInv, TypeOK, Changed
  <2>2. provider_reward[w].released \in Nat /\ provider_reward[w].claimed \in Nat
    BY <2>1, WidthFacts DEF RewardAccount
  <2>3. /\ provider_reward'[w].pending = provider_reward[w].pending
        /\ provider_reward'[w].locked = provider_reward[w].locked
        /\ provider_reward'[w].released = provider_reward[w].released
        /\ provider_reward'[w].claimed <= provider_reward'[w].released
    BY <2>1, <2>2 DEF RewardAccount
  <2>4. UsersAgree'
    BY <1>0, <2>1 DEF UsersAgree
  <2>5. ProvidersAgree'
    BY <1>0, <2>1, <2>3 DEF ProvidersAgree, Changed
  <2> QED
    BY <2>4, <2>5
<1> QED
  BY <1>1, <1>2

\* Instructions that touch neither the settlements nor the reward accounts.
LEMMA RewardsKept ==
  ASSUME UsersAgree, ProvidersAgree, UNCHANGED <<settlement, user_reward, provider_reward>>
  PROVE  UsersAgree' /\ ProvidersAgree'
BY DEF UsersAgree, ProvidersAgree, UserPending, UserLocked, UserReleased, ProviderPending,
       ProviderLocked, ProviderReleased, Recorded, FinalizedSettled, HasStatus, OfUser, OfProvider

\* One receipt and the accounts of its parties move together, by the same amounts.
UserMoves(r, u, pend, lock, rel) ==
    /\ Moved(user_reward, user_reward', Users, u, pend, lock, rel)
    /\ UserTermsMove(r, u, pend, lock, rel)

ProviderMoves(r, p, pend, lock, rel) ==
    /\ Moved(provider_reward, provider_reward', Providers, p, pend, lock, rel)
    /\ ProviderTermsMove(r, p, pend, lock, rel)

\* The settlement belongs to these parties after the step, and did before it.
SameParties(r, u, p) ==
    /\ settlement'[r] \in ReceiptSettlement
    /\ settlement'[r].payer_user = u /\ settlement'[r].provider_wallet = p
    /\ settlement[r] # None =>
         settlement[r].payer_user = u /\ settlement[r].provider_wallet = p

ReceiptMoves(r) ==
    /\ Changed(settlement, settlement', Receipts, r)
    /\ \E u \in Users, p \in Providers :
         /\ SameParties(r, u, p)
         /\ \E pend, lock \in Int, rel \in Nat : UserMoves(r, u, pend, lock, rel)
         /\ \E pend, lock \in Int, rel \in Nat : ProviderMoves(r, p, pend, lock, rel)

\* To show that a receipt moves, name the amounts.
LEMMA MovesBy ==
  ASSUME NEW r \in Receipts, Changed(settlement, settlement', Receipts, r),
         NEW u \in Users, NEW p \in Providers, SameParties(r, u, p),
         NEW a \in Int, NEW b \in Int, NEW c \in Nat, UserMoves(r, u, a, b, c),
         NEW d \in Int, NEW e \in Int, NEW f \in Nat, ProviderMoves(r, p, d, e, f)
  PROVE  ReceiptMoves(r)
BY DEF ReceiptMoves

RewardClaimed ==
    /\ UNCHANGED settlement
    /\ \/ \E x \in Users : ClaimUserClaw(x)
       \/ \E x \in Providers : ClaimProviderClaw(x)

\* Every step moves the accounts as it moves the receipts.
LEMMA StepMoves ==
  ASSUME TypeInv, ReleasedWithinVested, [Next]_mvars
  PROVE  \/ UNCHANGED <<settlement, user_reward, provider_reward>>
         \/ \E r \in Receipts : ReceiptMoves(r)
         \/ RewardClaimed
<1> DEFINE Goal == \/ UNCHANGED <<settlement, user_reward, provider_reward>>
                   \/ \E r \in Receipts : ReceiptMoves(r)
                   \/ RewardClaimed
<1>1. \A r \in Receipts : Recorded(r) =>
        settlement[r].user_claw_released = 0 /\ settlement[r].provider_claw_released = 0
  BY DEF ReleasedWithinVested, Recorded, FinalizedSettled, HasStatus
<1>2. ASSUME UNCHANGED <<settlement, user_reward, provider_reward>>
      PROVE  Goal
  BY <1>2
<1>3. ASSUME NEW r \in Receipts, NEW u \in Users, NEW p \in Providers, NEW total \in Charges,
             RecordMiningFromReceipt(r, u, p, total)
      PROVE  Goal
  <2>1. PICK s : s = settlement'[r]
    OBVIOUS
  <2>2. /\ settlement[r] = None /\ s \in ReceiptSettlement
        /\ s.payer_user = u /\ s.provider_wallet = p /\ s.status = "Recorded"
        /\ s.user_claw_released = 0 /\ s.provider_claw_released = 0
        /\ Changed(settlement, settlement', Receipts, r)
    <3>1. /\ settlement[r] = None /\ settlement'[r] \in ReceiptSettlement
          /\ settlement'[r].payer_user = u /\ settlement'[r].provider_wallet = p
          /\ settlement'[r].status = "Recorded"
          /\ settlement'[r].user_claw_released = 0 /\ settlement'[r].provider_claw_released = 0
          /\ Changed(settlement, settlement', Receipts, r)
      BY <1>3, RecordEffect
    <3> QED
      BY <2>1, <3>1
  <2>3. s.claw_to_user \in Nat /\ s.claw_to_provider_locked \in Nat
    BY <2>2, WidthFacts DEF ReceiptSettlement
  <2>4. /\ Moved(user_reward, user_reward', Users, u, s.claw_to_user, 0, 0)
        /\ Moved(provider_reward, provider_reward', Providers, p,
                 s.claw_to_provider_locked, 0, 0)
    BY <1>3, <2>1, RecordRewards
  <2>5. /\ UserTermsMove(r, u, s.claw_to_user, 0, 0)
        /\ ProviderTermsMove(r, p, s.claw_to_provider_locked, 0, 0)
    BY <2>1, <2>2, RecordTerms
  <2>6. UserMoves(r, u, s.claw_to_user, 0, 0)
    BY <2>4, <2>5 DEF UserMoves
  <2>7. ProviderMoves(r, p, s.claw_to_provider_locked, 0, 0)
    BY <2>4, <2>5 DEF ProviderMoves
  <2>8. SameParties(r, u, p)
    BY <2>1, <2>2 DEF SameParties
  <2> QED
    BY <2>2, <2>3, <2>6, <2>7, <2>8, MovesBy
<1>4. ASSUME NEW r \in Receipts, NEW status, SettleFinalizedReceipt(r, status)
      PROVE  Goal
  <2>1. PICK s, t, u, p, m, n :
               /\ s = settlement[r] /\ t = settlement'[r]
               /\ u = s.payer_user /\ p = s.provider_wallet
               /\ m = s.claw_to_user /\ n = s.claw_to_provider_locked
    OBVIOUS
  <2>2. /\ t \in ReceiptSettlement /\ s \in ReceiptSettlement /\ Recorded(r)
        /\ t = [s EXCEPT !.reward_lock_started_at = now, !.status = "FinalizedSettled"]
        /\ Changed(settlement, settlement', Receipts, r)
    <3>1. /\ settlement'[r] \in ReceiptSettlement
          /\ Recorded(r) /\ settlement[r] \in ReceiptSettlement
          /\ settlement'[r] = [settlement[r] EXCEPT !.reward_lock_started_at = now,
                                                    !.status = "FinalizedSettled"]
          /\ Changed(settlement, settlement', Receipts, r)
      BY <1>4, SettleEffect
    <3> QED
      BY <2>1, <3>1
  <2>3. /\ s.user_claw_released = 0 /\ s.provider_claw_released = 0
        /\ u \in Users /\ p \in Providers /\ m \in Nat /\ n \in Nat
    BY <1>1, <2>1, <2>2, WidthFacts DEF ReceiptSettlement
  <2>4. /\ Moved(user_reward, user_reward', Users, u, -m, m, 0)
        /\ Moved(provider_reward, provider_reward', Providers, p, -n, n, 0)
    BY <1>4, <2>1, <2>3, SettleRewards
  <2>5. /\ UserTermsMove(r, u, -m, m, 0)
        /\ ProviderTermsMove(r, p, -n, n, 0)
    BY <2>1, <2>2, <2>3, SettleTerms
  <2>6. PICK i \in Int, j \in Int : i = -m /\ j = -n /\ m \in Int /\ n \in Int
    BY <2>3
  <2>7. UserMoves(r, u, i, m, 0)
    BY <2>4, <2>5, <2>6 DEF UserMoves
  <2>8. ProviderMoves(r, p, j, n, 0)
    BY <2>4, <2>5, <2>6 DEF ProviderMoves
  <2>9. SameParties(r, u, p)
    BY <2>1, <2>2 DEF SameParties
  <2> QED
    BY <2>2, <2>3, <2>6, <2>7, <2>8, <2>9, MovesBy
<1>5. ASSUME NEW c \in Challenges, NEW r \in Receipts, Resolvable(c, r), RevertReceipt(c, r),
             UNCHANGED <<now, config, allowance>>
      PROVE  Goal
  <2>1. PICK s, t, u, p, m, n :
               /\ s = settlement[r] /\ t = settlement'[r]
               /\ u = s.payer_user /\ p = s.provider_wallet
               /\ m = s.claw_to_user /\ n = s.claw_to_provider_locked
    OBVIOUS
  <2>2. /\ t \in ReceiptSettlement /\ s \in ReceiptSettlement /\ Recorded(r)
        /\ t = [s EXCEPT !.status = "ChallengedReverted"]
        /\ Changed(settlement, settlement', Receipts, r)
    <3>1. /\ settlement'[r] \in ReceiptSettlement
          /\ Recorded(r) /\ settlement[r] \in ReceiptSettlement
          /\ settlement'[r] = [settlement[r] EXCEPT !.status = "ChallengedReverted"]
          /\ Changed(settlement, settlement', Receipts, r)
      BY <1>5, RevertEffect
    <3> QED
      BY <2>1, <3>1
  <2>3. /\ s.user_claw_released = 0 /\ s.provider_claw_released = 0
        /\ u \in Users /\ p \in Providers /\ m \in Nat /\ n \in Nat
    BY <1>1, <2>1, <2>2, WidthFacts DEF ReceiptSettlement
  <2>4. /\ Moved(user_reward, user_reward', Users, u, -m, 0, 0)
        /\ Moved(provider_reward, provider_reward', Providers, p, -n, 0, 0)
    BY <1>5, <2>1, <2>3, RevertRewards
  <2>5. /\ UserTermsMove(r, u, -m, 0, 0)
        /\ ProviderTermsMove(r, p, -n, 0, 0)
    BY <2>1, <2>2, <2>3, RevertTerms
  <2>6. PICK i \in Int, j \in Int : i = -m /\ j = -n /\ m \in Int /\ n \in Int
    BY <2>3
  <2>7. UserMoves(r, u, i, 0, 0)
    BY <2>4, <2>5, <2>6 DEF UserMoves
  <2>8. ProviderMoves(r, p, j, 0, 0)
    BY <2>4, <2>5, <2>6 DEF ProviderMoves
  <2>9. SameParties(r, u, p)
    BY <2>1, <2>2 DEF SameParties
  <2> QED
    BY <2>2, <2>3, <2>6, <2>7, <2>8, <2>9, MovesBy
<1>6. ASSUME NEW r \in Receipts, NEW target, NEW amount \in Nat,
             MaterializeRewardRelease(r, target, amount)
      PROVE  Goal
  <2>1. PICK s, t, u, p :
               /\ s = settlement[r] /\ t = settlement'[r]
               /\ u = s.payer_user /\ p = s.provider_wallet
    OBVIOUS
  <2>2. /\ t \in ReceiptSettlement /\ s \in ReceiptSettlement /\ FinalizedSettled(r)
        /\ Changed(settlement, settlement', Receipts, r)
    <3>1. /\ settlement'[r] \in ReceiptSettlement /\ settlement[r] \in ReceiptSettlement
          /\ FinalizedSettled(r) /\ Changed(settlement, settlement', Receipts, r)
      BY <1>6, ReleaseEffect
    <3> QED
      BY <2>1, <3>1
  <2>3. u \in Users /\ p \in Providers
    BY <2>1, <2>2 DEF ReceiptSettlement
  <2>4. /\ Moved(user_reward, user_reward, Users, u, 0, 0, 0)
        /\ Moved(provider_reward, provider_reward, Providers, p, 0, 0, 0)
    BY <2>3, Unmoved DEF TypeInv, TypeOK
  <2>5. PICK i \in Int : i = -amount
    OBVIOUS
  <2>6. CASE /\ t = [s EXCEPT !.user_claw_released = @ + amount]
             /\ Moved(user_reward, user_reward', Users, u, 0, -amount, amount)
             /\ UNCHANGED provider_reward
    <3>1. /\ UserTermsMove(r, u, 0, -amount, amount)
          /\ ProviderTermsMove(r, p, 0, 0, 0)
      BY <2>1, <2>2, <2>6, ReleaseTerms
    <3>2. Moved(provider_reward, provider_reward', Providers, p, 0, 0, 0)
      BY <2>4, <2>6
    <3>3. UserMoves(r, u, 0, i, amount)
      BY <2>5, <2>6, <3>1 DEF UserMoves
    <3>4. ProviderMoves(r, p, 0, 0, 0)
      BY <3>1, <3>2 DEF ProviderMoves
    <3>5. SameParties(r, u, p)
      BY <2>1, <2>2, <2>6 DEF SameParties, ReceiptSettlement
    <3> QED
      BY <2>2, <2>3, <2>5, <3>3, <3>4, <3>5, MovesBy
  <2>7. CASE /\ t = [s EXCEPT !.provider_claw_released = @ + amount]
             /\ Moved(provider_reward, provider_reward', Providers, p, 0, -amount, amount)
             /\ UNCHANGED user_reward
    <3>1. /\ UserTermsMove(r, u, 0, 0, 0)
          /\ ProviderTermsMove(r, p, 0, -amount, amount)
      BY <2>1, <2>2, <2>7, ReleaseTerms
    <3>2. Moved(user_reward, user_reward', Users, u, 0, 0, 0)
      BY <2>4, <2>7
    <3>3. UserMoves(r, u, 0, 0, 0)
      BY <3>1, <3>2 DEF UserMoves
    <3>4. ProviderMoves(r, p, 0, i, amount)
      BY <2>5, <2>7, <3>1 DEF ProviderMoves
    <3>5. SameParties(r, u, p)
      BY <2>1, <2>2, <2>7 DEF SameParties, ReceiptSettlement
    <3> QED
      BY <2>2, <2>3, <2>5, <3>3, <3>4, <3>5, MovesBy
  <2> QED
    BY <1>6, <2>1, <2>3, <2>6, <2>7, ReleaseRewards
<1>7. ASSUME NEW c \in Challenges, NEW r \in Receipts, NEW w \in Challengers,
             RecordChallengeBond(c, r, w)
      PROVE  Goal
  BY <1>2, <1>7 DEF RecordChallengeBond
<1>8. ASSUME NEW c \in Challenges, NEW r \in Receipts, Resolvable(c, r), BurnBond(c, r),
             UNCHANGED <<now, config, allowance>>
      PROVE  Goal
  BY <1>2, <1>8 DEF BurnBond
<1>9. ASSUME NEW p \in Providers, RegisterProvider(p)
      PROVE  Goal
  BY <1>2, <1>9 DEF RegisterProvider
<1>10. ASSUME NEW p \in Providers, NEW destination \in Holders, ExitProvider(p, destination)
       PROVE  Goal
  BY <1>2, <1>10 DEF ExitProvider
<1>11. ASSUME NEW u \in Users, ClaimUserClaw(u)
       PROVE  Goal
  BY <1>11 DEF RewardClaimed, ClaimUserClaw
<1>12. ASSUME NEW p \in Providers, ClaimProviderClaw(p)
       PROVE  Goal
  BY <1>12 DEF RewardClaimed, ClaimProviderClaw
<1>13. ASSUME NEW params \in ParamChoices, InitializeMasterpool(params) \/ UpdateConfig(params)
       PROVE  Goal
  BY <1>2, <1>13 DEF InitializeMasterpool, UpdateConfig
<1>14. ASSUME MintGenesisSupply
       PROVE  Goal
  BY <1>2, <1>14 DEF MintGenesisSupply
<1>15. ASSUME NEW flags \in PauseChoices, SetPauseFlags(flags)
       PROVE  Goal
  BY <1>2, <1>15 DEF SetPauseFlags
<1>16. ASSUME NEW u \in Users, NEW amount \in Allowances, Approve(u, amount)
       PROVE  Goal
  BY <1>2, <1>16 DEF Approve
<1>17. ASSUME MasterpoolTick \/ UNCHANGED mvars
       PROVE  Goal
  BY <1>2, <1>17 DEF MasterpoolTick, mvars, masterpool_vars
<1>18. ReleaseAmounts \subseteq Nat
  BY MasterpoolAssumption
<1> HIDE DEF Goal
<1>19. ASSUME DirectStep
       PROVE  Goal
  BY <1>6, <1>9, <1>10, <1>11, <1>12, <1>13, <1>14, <1>15, <1>16, <1>18, <1>19 DEF DirectStep
<1>20. ASSUME AttestationCall
       PROVE  Goal
  <2>1. ASSUME \E r \in Receipts, u \in Users, p \in Providers, total \in Charges :
                 RecordMiningFromReceipt(r, u, p, total)
        PROVE  Goal
    BY <1>3, <2>1
  <2>2. ASSUME \E r \in Receipts, status \in ReceiptStatuses : SettleFinalizedReceipt(r, status)
        PROVE  Goal
    BY <1>4, <2>2
  <2>3. ASSUME \E c \in Challenges, r \in Receipts, w \in Challengers :
                 RecordChallengeBond(c, r, w)
        PROVE  Goal
    BY <1>7, <2>3
  <2>4. ASSUME \E c \in Challenges, r \in Receipts, code \in ResolutionCodes :
                 ResolveChallengeEconomics(c, r, code)
        PROVE  Goal
    BY <1>5, <1>8, <2>4 DEF ResolveChallengeEconomics
  <2> QED
    BY <1>20, <2>1, <2>2, <2>3, <2>4 DEF AttestationCall
<1>21. Goal
  BY <1>17, <1>19, <1>20 DEF Next
<1> QED
  BY <1>21 DEF Goal

\* So the accounts still agree with the receipts.
LEMMA RewardsStep ==
  ASSUME TypeInv, ReleasedWithinVested, UsersAgree, ProvidersAgree, [Next]_mvars
  PROVE  UsersAgree' /\ ProvidersAgree'
<1>1. TypeInv' /\ ReleasedWithinVested'
  BY StepTypeInv, WithinStep
<1>2. CASE UNCHANGED <<settlement, user_reward, provider_reward>>
  BY <1>2, RewardsKept
<1>3. ASSUME NEW r \in Receipts, ReceiptMoves(r)
      PROVE  UsersAgree' /\ ProvidersAgree'
  <2>1. PICK u \in Users, p \in Providers :
           /\ \E pend, lock \in Int, rel \in Nat : UserMoves(r, u, pend, lock, rel)
           /\ \E pend, lock \in Int, rel \in Nat : ProviderMoves(r, p, pend, lock, rel)
    BY <1>3 DEF ReceiptMoves
  <2>2. Changed(settlement, settlement', Receipts, r)
    BY <1>3 DEF ReceiptMoves
  <2>3. UsersAgree'
    BY <1>1, <2>1, <2>2, UsersMove DEF UserMoves
  <2>4. ProvidersAgree'
    BY <1>1, <2>1, <2>2, ProvidersMove DEF ProviderMoves
  <2> QED
    BY <2>3, <2>4
<1>4. CASE RewardClaimed
  BY <1>4, ClaimsAgree DEF RewardClaimed
<1> QED
  BY <1>2, <1>3, <1>4, StepMoves

\* No reward account holds anything at first.
LEMMA RewardsInit == MasterpoolInit => UsersAgree /\ ProvidersAgree
<1> SUFFICES ASSUME MasterpoolInit
             PROVE  UsersAgree /\ ProvidersAgree
  OBVIOUS
<1>1. /\ \A r \in Receipts : settlement[r] = None
      /\ \A u \in Users : user_reward[u] = NoRewards
      /\ \A p \in Providers : provider_reward[p] = NoRewards
  BY DEF MasterpoolInit
<1>2. \A x : /\ UserPending(x) = 0 /\ UserLocked(x) = 0 /\ UserReleased(x) = 0
             /\ ProviderPending(x) = 0 /\ ProviderLocked(x) = 0 /\ ProviderReleased(x) = 0
  BY <1>1, TotalZero DEF UserPending, UserLocked, UserReleased, ProviderPending,
     ProviderLocked, ProviderReleased, Recorded, FinalizedSettled, HasStatus, OfUser, OfProvider
<1> QED
  BY <1>1, <1>2 DEF UsersAgree, ProvidersAgree, NoRewards

\* What is pending, locked and released of every account is the sum over its
\* receipts, for any number of users, providers and receipts: no order of
\* settling, reverting and releasing lets one receipt draw on another's rewards.
THEOREM RewardLedgersAlwaysAgree == Spec => []RewardLedgersAgree
<1>1. MasterpoolInit => UsersAgree /\ ProvidersAgree
  BY RewardsInit
<1>2. TypeInv /\ ReleasedWithinVested /\ UsersAgree /\ ProvidersAgree /\ [Next]_mvars
        => UsersAgree' /\ ProvidersAgree'
  BY RewardsStep
<1>3. UsersAgree /\ ProvidersAgree => RewardLedgersAgree
  BY DEF UsersAgree, ProvidersAgree, RewardLedgersAgree
<1> QED
  BY <1>1, <1>2, <1>3, TypeInvAlways, NeverReleasedEarly, PTL DEF Spec

-----------------------------------------------------------------------------
(* Every CLAW is accounted for *)

\* What the resolution of bond c burned, and what it charged the provider.
BurnedOf(c) ==
    IF HasStatus(bond[c], "Burned") THEN bond[c].bond_amount
    ELSE IF HasStatus(bond[c], "Returned") THEN bond[c].burn_amount ELSE 0

ChargedOf(c) == IF HasStatus(bond[c], "Returned") THEN bond[c].slash_claw_amount_snapshot ELSE 0

BurnedOfEach == [c \in Challenges |-> BurnedOf(c)]
ChargedOfEach == [c \in Challenges |-> ChargedOf(c)]

\* A slash is split into the challenger's reward and the burn without a remainder.
SlashesSplit ==
    \A c \in Challenges : bond[c] # None =>
        bond[c].challenger_reward_amount + bond[c].burn_amount = bond[c].slash_claw_amount_snapshot

SupplyKept == claw_supply = Total(Holders, InitialClaw) + Minted - Burned

\* What left the reward vault and was neither claimed nor slashed: nothing, until
\* the faucet is filled.  No instruction of the masterpool alone changes it.
VaultShort == Minted - Claimed - AllSlashed - vault.reward

KeepsVault == VaultShort' = VaultShort

ClawInv == SlashesSplit /\ SupplyKept

NoneElsewhere == ClawElsewhere = 0 /\ VaultShort = 0

UserClaims == [u \in Users |-> user_reward[u].claimed]
ProviderClaims == [p \in Providers |-> provider_reward[p].claimed]

\* The amounts the accounting adds and subtracts are natural numbers.
LEMMA ClawTermsType ==
  ASSUME TypeInv
  PROVE  /\ IsFiniteSet(Challenges) /\ IsFiniteSet(Users) /\ IsFiniteSet(Providers)
         /\ BurnedOfEach \in [Challenges -> Nat] /\ ChargedOfEach \in [Challenges -> Nat]
         /\ UserClaims \in [Users -> Nat] /\ ProviderClaims \in [Providers -> Nat]
         /\ Burned \in Nat /\ AllSlashed \in Nat /\ Claimed \in Nat /\ Minted \in Nat
         /\ Claimed = Total(Users, UserClaims) + Total(Providers, ProviderClaims)
         /\ Total(Users, UserClaims) \in Nat /\ Total(Providers, ProviderClaims) \in Nat
         /\ Total(Holders, InitialClaw) \in Nat
         /\ claw_supply \in Nat /\ vault.reward \in Nat
<1>1. IsFiniteSet(Challenges) /\ IsFiniteSet(Holders)
  BY MasterpoolAssumption
<1>2. IsFiniteSet(Users) /\ IsFiniteSet(Providers)
  BY <1>1, HoldersType, FS_Subset
<1>3. BurnedOfEach \in [Challenges -> Nat] /\ ChargedOfEach \in [Challenges -> Nat]
  BY WidthFacts DEF BurnedOfEach, BurnedOf, ChargedOfEach, ChargedOf, HasStatus, TypeInv,
     TypeOK, ChallengeBondRecord
<1>4. UserClaims \in [Users -> Nat] /\ ProviderClaims \in [Providers -> Nat]
  BY WidthFacts DEF UserClaims, ProviderClaims, TypeInv, TypeOK, RewardAccount
<1>5. Burned = Total(Challenges, BurnedOfEach) /\ AllSlashed = Total(Challenges, ChargedOfEach)
  BY DEF Burned, BurnedOfEach, BurnedOf, AllSlashed, ChargedOfEach, ChargedOf
<1>6. Burned \in Nat /\ AllSlashed \in Nat
  BY <1>1, <1>3, <1>5, TotalType
<1>7. Total(Users, UserClaims) \in Nat /\ Total(Providers, ProviderClaims) \in Nat
  BY <1>2, <1>4, TotalType
<1>8. Claimed = Total(Users, UserClaims) + Total(Providers, ProviderClaims)
  BY DEF Claimed, UserClaims, ProviderClaims
<1>9. Minted \in Nat
  BY MasterpoolAssumption DEF Minted
<1>10. Total(Holders, InitialClaw) \in Nat
  BY <1>1, MasterpoolAssumption, TotalType
<1>11. claw_supply \in Nat /\ vault.reward \in Nat
  BY WidthFacts DEF TypeInv, TypeOK, Vaults
<1> QED
  BY <1>1, <1>2, <1>3, <1>4, <1>6, <1>7, <1>8, <1>9, <1>10, <1>11

\* When one bond changes, the sums change by what it was and is worth.
LEMMA BondSumsChange ==
  ASSUME TypeInv, TypeInv', NEW c \in Challenges, Changed(bond, bond', Challenges, c)
  PROVE  /\ Burned' = Burned + BurnedOf(c)' - BurnedOf(c)
         /\ AllSlashed' = AllSlashed + ChargedOf(c)' - ChargedOf(c)
<1> DEFINE burned == BurnedOfEach'
           charged == ChargedOfEach'
<1>1. /\ IsFiniteSet(Challenges)
      /\ BurnedOfEach \in [Challenges -> Nat] /\ ChargedOfEach \in [Challenges -> Nat]
  BY ClawTermsType
<1>2. burned \in [Challenges -> Nat] /\ charged \in [Challenges -> Nat]
  BY WidthFacts DEF BurnedOfEach, BurnedOf, ChargedOfEach, ChargedOf, HasStatus, TypeInv,
     TypeOK, ChallengeBondRecord
<1>3. /\ Burned = Total(Challenges, BurnedOfEach) /\ AllSlashed = Total(Challenges, ChargedOfEach)
      /\ Burned' = Total(Challenges, burned) /\ AllSlashed' = Total(Challenges, charged)
  BY DEF Burned, BurnedOfEach, BurnedOf, AllSlashed, ChargedOfEach, ChargedOf
<1>4. \A d \in Challenges \ {c} : burned[d] = BurnedOfEach[d] /\ charged[d] = ChargedOfEach[d]
  BY DEF BurnedOfEach, BurnedOf, ChargedOfEach, ChargedOf, HasStatus, Changed
<1>5. /\ burned[c] = BurnedOf(c)' /\ BurnedOfEach[c] = BurnedOf(c)
      /\ charged[c] = ChargedOf(c)' /\ ChargedOfEach[c] = ChargedOf(c)
  BY DEF BurnedOfEach, ChargedOfEach
<1> HIDE DEF burned, charged
<1>6. Total(Challenges, burned) = Total(Challenges, BurnedOfEach) + burned[c] - BurnedOfEach[c]
  BY <1>1, <1>2, <1>4, TotalChange
<1>7. Total(Challenges, charged)
        = Total(Challenges, ChargedOfEach) + charged[c] - ChargedOfEach[c]
  BY <1>1, <1>2, <1>4, TotalChange
<1> QED
  BY <1>3, <1>5, <1>6, <1>7

\* Sums that a step leaves alone.
LEMMA ClawSumsStay ==
  /\ UNCHANGED bond => Burned' = Burned /\ AllSlashed' = AllSlashed /\ SlashesSplit' = SlashesSplit
  /\ UNCHANGED config => Minted' = Minted
BY DEF Burned, AllSlashed, SlashesSplit, HasStatus, Minted

\* A step that claims nothing leaves the claims as they are.
LEMMA ClaimsStay ==
  ASSUME \A u \in Users : user_reward'[u].claimed = user_reward[u].claimed,
         \A p \in Providers : provider_reward'[p].claimed = provider_reward[p].claimed
  PROVE  Claimed' = Claimed
BY DEF Claimed

\* A reward account that was moved claims what it claimed before.
LEMMA MovedClaims ==
  ASSUME NEW S, NEW old, NEW new, NEW x \in S, NEW pend, NEW lock, NEW rel,
         Moved(old, new, S, x, pend, lock, rel)
  PROVE  \A y \in S : new[y].claimed = old[y].claimed
BY DEF Moved, Changed

\* claim_released_claw takes out of the reward vault what it adds to the claims.
LEMMA UserClaimTerms ==
  ASSUME TypeInv, TypeInv', NEW u \in Users, ClaimUserClaw(u)
  PROVE  Claimed' - Claimed = vault.reward - vault'.reward
<1> DEFINE n == user_reward[u].released - user_reward[u].claimed
           f == UserClaims
           g == UserClaims'
           rest == ProviderClaims
<1>1. /\ user_reward[u] \in RewardAccount /\ n > 0
      /\ vault' = [vault EXCEPT !.reward = @ - n]
      /\ user_reward' = [user_reward EXCEPT ![u].claimed = @ + n]
      /\ UNCHANGED provider_reward
  BY DEF ClaimUserClaw, TypeInv, TypeOK
<1>2. user_reward[u].released \in Nat /\ user_reward[u].claimed \in Nat /\ n \in Nat
  BY <1>1, WidthFacts DEF RewardAccount
<1>3. vault.reward \in Nat /\ vault'.reward = vault.reward - n
  BY <1>1 DEF TypeInv, TypeOK, Vaults
<1>4. /\ IsFiniteSet(Users) /\ f \in [Users -> Nat]
      /\ Claimed = Total(Users, f) + Total(Providers, rest)
      /\ Total(Users, f) \in Nat /\ Total(Providers, rest) \in Nat
  BY ClawTermsType
<1>5. g \in [Users -> Nat]
  BY WidthFacts DEF UserClaims, TypeInv, TypeOK, RewardAccount
<1>6. g[u] = f[u] + n /\ \A v \in Users \ {u} : g[v] = f[v]
  <2>1. user_reward \in [Users -> RewardAccount]
    BY DEF TypeInv, TypeOK
  <2>2. /\ user_reward'[u].claimed = user_reward[u].claimed + n
        /\ \A v \in Users \ {u} : user_reward'[v] = user_reward[v]
    BY <1>1, <2>1 DEF RewardAccount
  <2> QED
    BY <2>2 DEF UserClaims
<1>7. Claimed' = Total(Users, g) + Total(Providers, rest)
  BY <1>1 DEF Claimed, UserClaims, ProviderClaims
<1> HIDE DEF n, f, g, rest
<1>8. Total(Users, g) = Total(Users, f) + n
  BY <1>2, <1>4, <1>5, <1>6, TotalAdd
<1> QED
  BY <1>2, <1>3, <1>4, <1>7, <1>8

LEMMA ProviderClaimTerms ==
  ASSUME TypeInv, TypeInv', NEW p \in Providers, ClaimProviderClaw(p)
  PROVE  Claimed' - Claimed = vault.reward - vault'.reward
<1> DEFINE n == provider_reward[p].released - provider_reward[p].claimed
           f == ProviderClaims
           g == ProviderClaims'
           rest == UserClaims
<1>1. /\ provider_reward[p] \in RewardAccount /\ n > 0
      /\ vault' = [vault EXCEPT !.reward = @ - n]
      /\ provider_reward' = [provider_reward EXCEPT ![p].claimed = @ + n]
      /\ UNCHANGED user_reward
  BY DEF ClaimProviderClaw, TypeInv, TypeOK
<1>2. provider_reward[p].released \in Nat /\ provider_reward[p].claimed \in Nat /\ n \in Nat
  BY <1>1, WidthFacts DEF RewardAccount
<1>3. vault.reward \in Nat /\ vault'.reward = vault.reward - n
  BY <1>1 DEF TypeInv, TypeOK, Vaults
<1>4. /\ IsFiniteSet(Providers) /\ f \in [Providers -> Nat]
      /\ Claimed = Total(Users, rest) + Total(Providers, f)
      /\ Total(Users, rest) \in Nat /\ Total(Providers, f) \in Nat
  BY ClawTermsType
<1>5. g \in [Providers -> Nat]
  BY WidthFacts DEF ProviderClaims, TypeInv, TypeOK, RewardAccount
<1>6. g[p] = f[p] + n /\ \A q \in Providers \ {p} : g[q] = f[q]
  <2>1. provider_reward \in [Providers -> RewardAccount]
    BY DEF TypeInv, TypeOK
  <2>2. /\ provider_reward'[p].claimed = provider_reward[p].claimed + n
        /\ \A q \in Providers \ {p} : provider_reward'[q] = provider_reward[q]
    BY <1>1, <2>1 DEF RewardAccount
  <2> QED
    BY <2>2 DEF ProviderClaims
<1>7. Claimed' = Total(Users, rest) + Total(Providers, g)
  BY <1>1 DEF Claimed, UserClaims, ProviderClaims
<1> HIDE DEF n, f, g, rest
<1>8. Total(Providers, g) = Total(Providers, f) + n
  BY <1>2, <1>4, <1>5, <1>6, TotalAdd
<1> QED
  BY <1>2, <1>3, <1>4, <1>7, <1>8

\* Instructions that change no bond, mint nothing, and claim what they pay out.
LEMMA ClawStays ==
  ASSUME TypeInv, TypeInv', ClawInv, UNCHANGED <<bond, claw_supply>>, Minted' = Minted,
         Claimed' - Claimed = vault.reward - vault'.reward
  PROVE  ClawInv' /\ KeepsVault
<1>1. /\ Burned \in Nat /\ AllSlashed \in Nat /\ Claimed \in Nat /\ Minted \in Nat
      /\ vault.reward \in Nat
  BY ClawTermsType
<1>2. Claimed' \in Nat /\ vault'.reward \in Nat
  <2>1. vault'.reward \in Nat
    BY DEF TypeInv, TypeOK, Vaults
  <2>2. (IsFiniteSet(Users) /\ IsFiniteSet(Providers))
    BY ClawTermsType
  <2>3. UserClaims' \in [Users -> Nat] /\ ProviderClaims' \in [Providers -> Nat]
    BY WidthFacts DEF UserClaims, ProviderClaims, TypeInv, TypeOK, RewardAccount
  <2>4. PICK f \in [Users -> Nat], g \in [Providers -> Nat] :
           f = UserClaims' /\ g = ProviderClaims'
    BY <2>3
  <2>5. Total(Users, f) \in Nat /\ Total(Providers, g) \in Nat
    BY <2>2, TotalType
  <2>6. Claimed' = Total(Users, f) + Total(Providers, g)
    BY <2>4 DEF Claimed, UserClaims, ProviderClaims
  <2> QED
    BY <2>1, <2>5, <2>6
<1>3. Burned' = Burned /\ AllSlashed' = AllSlashed /\ SlashesSplit'
  BY ClawSumsStay DEF ClawInv
<1>4. SupplyKept'
  BY <1>3 DEF SupplyKept, ClawInv
<1>5. KeepsVault
  BY <1>1, <1>2, <1>3 DEF KeepsVault, VaultShort
<1> QED
  BY <1>3, <1>4, <1>5 DEF ClawInv

\* Instructions that leave every CLAW where it is.
LEMMA ClawUntouched ==
  ASSUME TypeInv, TypeInv', ClawInv, UNCHANGED <<bond, claw_supply>>, Minted' = Minted,
         vault'.reward = vault.reward,
         \A u \in Users : user_reward'[u].claimed = user_reward[u].claimed,
         \A p \in Providers : provider_reward'[p].claimed = provider_reward[p].claimed
  PROVE  ClawInv' /\ KeepsVault
<1>1. Claimed' = Claimed /\ Claimed \in Nat /\ vault.reward \in Nat
  BY ClaimsStay, ClawTermsType
<1>2. Claimed' - Claimed = vault.reward - vault'.reward
  BY <1>1
<1> QED
  BY <1>2, ClawStays

\* Genesis adds the same amount to the supply and to the reward vault.
LEMMA MintKeepsClaw ==
  ASSUME TypeInv, TypeInv', ClawInv, MintGenesisSupply
  PROVE  ClawInv' /\ KeepsVault
<1>1. /\ config # None /\ ~config.genesis_minted /\ config'.genesis_minted /\ config' # None
      /\ vault'.reward = vault.reward + GENESIS_TOTAL_SUPPLY
      /\ claw_supply' = claw_supply + GENESIS_TOTAL_SUPPLY
      /\ UNCHANGED <<bond, user_reward, provider_reward>>
  <2>1. config \in GlobalConfig /\ config' = [config EXCEPT !.genesis_minted = TRUE]
    BY DEF MintGenesisSupply, TypeInv, TypeOK
  <2>2. config'.genesis_minted /\ config' # None
    BY <2>1, NoneAssumption DEF GlobalConfig
  <2> QED
    BY <2>1, <2>2 DEF MintGenesisSupply, TypeInv, TypeOK, Vaults
<1>2. Minted = 0 /\ Minted' = GENESIS_TOTAL_SUPPLY /\ GENESIS_TOTAL_SUPPLY \in Nat
  BY <1>1, MasterpoolAssumption DEF Minted
<1>3. Burned' = Burned /\ AllSlashed' = AllSlashed /\ SlashesSplit'
  BY <1>1, ClawSumsStay DEF ClawInv
<1>4. Claimed' = Claimed
  BY <1>1, ClaimsStay
<1>5. /\ Burned \in Nat /\ AllSlashed \in Nat /\ Claimed \in Nat
      /\ Total(Holders, InitialClaw) \in Nat /\ vault.reward \in Nat
  BY ClawTermsType
<1>6. SupplyKept'
  <2>1. claw_supply = Total(Holders, InitialClaw) + Minted - Burned
    BY DEF ClawInv, SupplyKept
  <2> QED
    BY <1>1, <1>2, <1>3, <1>5, <2>1 DEF SupplyKept
<1>7. KeepsVault
  BY <1>1, <1>2, <1>3, <1>4, <1>5 DEF KeepsVault, VaultShort
<1> QED
  BY <1>3, <1>6, <1>7 DEF ClawInv

\* What the change of one bond does to the accounting.
LEMMA BondMoved ==
  ASSUME TypeInv, TypeInv', ClawInv, NEW c \in Challenges, Changed(bond, bond', Challenges, c),
         bond'[c].challenger_reward_amount + bond'[c].burn_amount
           = bond'[c].slash_claw_amount_snapshot,
         UNCHANGED config,
         \A u \in Users : user_reward'[u].claimed = user_reward[u].claimed,
         \A p \in Providers : provider_reward'[p].claimed = provider_reward[p].claimed,
         NEW burned \in Nat, BurnedOf(c) = 0, BurnedOf(c)' = burned,
         NEW charged \in Nat, ChargedOf(c) = 0, ChargedOf(c)' = charged,
         claw_supply' = claw_supply - burned, vault'.reward = vault.reward - charged
  PROVE  ClawInv' /\ KeepsVault
<1>1. Minted' = Minted
  BY ClawSumsStay
<1>2. Claimed' = Claimed
  BY ClaimsStay
<1>3. Burned' = Burned + BurnedOf(c)' - BurnedOf(c)
      /\ AllSlashed' = AllSlashed + ChargedOf(c)' - ChargedOf(c)
  BY BondSumsChange
<1>4. /\ Burned \in Nat /\ AllSlashed \in Nat /\ Claimed \in Nat /\ Minted \in Nat
      /\ Total(Holders, InitialClaw) \in Nat /\ vault.reward \in Nat
  BY ClawTermsType
<1>5. Burned' = Burned + burned /\ AllSlashed' = AllSlashed + charged
  BY <1>3, <1>4
<1>6. SlashesSplit'
  BY DEF ClawInv, SlashesSplit, Changed
<1>7. SupplyKept'
  <2>1. claw_supply = Total(Holders, InitialClaw) + Minted - Burned
    BY DEF ClawInv, SupplyKept
  <2> QED
    BY <1>1, <1>4, <1>5, <2>1 DEF SupplyKept
<1>8. KeepsVault
  BY <1>1, <1>2, <1>4, <1>5 DEF KeepsVault, VaultShort
<1> QED
  BY <1>6, <1>7, <1>8 DEF ClawInv

\* A bond that is posted is neither burned nor charged.
LEMMA PostKeepsClaw ==
  ASSUME TypeInv, ClawInv, NEW c \in Challenges, NEW r \in Receipts, NEW w \in Challengers,
         RecordChallengeBond(c, r, w)
  PROVE  ClawInv' /\ KeepsVault
<1>1. /\ TypeInv' /\ bond[c] = None /\ bond'[c].status = "Locked"
      /\ Changed(bond, bond', Challenges, c)
  BY BondEffect
<1>2. bond'[c].challenger_reward_amount + bond'[c].burn_amount
        = bond'[c].slash_claw_amount_snapshot
  BY BondWritten
<1>3. vault'.reward = vault.reward
  BY BondFields
<1>4. UNCHANGED <<config, user_reward, provider_reward, claw_supply>>
  BY DEF RecordChallengeBond
<1>5. BurnedOf(c) = 0 /\ BurnedOf(c)' = 0 /\ ChargedOf(c) = 0 /\ ChargedOf(c)' = 0
  BY <1>1 DEF BurnedOf, ChargedOf, HasStatus
<1>6. claw_supply' = claw_supply - 0 /\ vault'.reward = vault.reward - 0
  BY <1>3, <1>4, ClawTermsType
<1> QED
  BY <1>1, <1>2, <1>4, <1>5, <1>6, BondMoved

\* A rejected challenge burns its bond.
LEMMA BurnKeepsClaw ==
  ASSUME TypeInv, ClawInv, NEW c \in Challenges, NEW r \in Receipts, Resolvable(c, r),
         BurnBond(c, r), UNCHANGED <<now, config, allowance>>
  PROVE  ClawInv' /\ KeepsVault
<1>1. /\ TypeInv' /\ BondLocked(c) /\ bond[c] \in ChallengeBondRecord
      /\ bond'[c] \in ChallengeBondRecord
      /\ bond'[c] = [bond[c] EXCEPT !.status = "Burned"]
      /\ Changed(bond, bond', Challenges, c)
  BY BurnEffect
<1>2. bond'[c].challenger_reward_amount + bond'[c].burn_amount
        = bond'[c].slash_claw_amount_snapshot
  BY <1>1 DEF ClawInv, SlashesSplit, BondLocked, HasStatus, ChallengeBondRecord
<1>3. vault'.reward = vault.reward
  BY BurnFields
<1>4. /\ UNCHANGED <<config, user_reward, provider_reward>>
      /\ claw_supply' = claw_supply - bond[c].bond_amount
  BY DEF BurnBond, Terms
<1>5. bond[c].bond_amount \in Nat
  BY <1>1, WidthFacts DEF ChallengeBondRecord
<1>6. /\ BurnedOf(c) = 0 /\ ChargedOf(c) = 0
      /\ BurnedOf(c)' = bond[c].bond_amount /\ ChargedOf(c)' = 0
  <2>1. /\ bond[c].status = "Locked" /\ bond'[c].status = "Burned" /\ bond'[c] # None
        /\ bond'[c].bond_amount = bond[c].bond_amount
    BY <1>1, NoneAssumption DEF BondLocked, HasStatus, ChallengeBondRecord
  <2> QED
    BY <2>1 DEF BurnedOf, ChargedOf, HasStatus
<1>7. vault'.reward = vault.reward - 0
  BY <1>3, ClawTermsType
<1> QED
  BY <1>1, <1>2, <1>4, <1>5, <1>6, <1>7, BondMoved

\* An upheld challenge takes the slash out of the reward vault: a part of it is
\* burned and the rest goes to the challenger.
LEMMA RevertKeepsClaw ==
  ASSUME TypeInv, ClawInv, NEW c \in Challenges, NEW r \in Receipts, Resolvable(c, r),
         RevertReceipt(c, r), UNCHANGED <<now, config, allowance>>
  PROVE  ClawInv' /\ KeepsVault
<1>1. /\ TypeInv' /\ BondLocked(c) /\ bond[c] \in ChallengeBondRecord
      /\ bond'[c] \in ChallengeBondRecord
      /\ bond'[c] = [bond[c] EXCEPT !.status = "Returned"]
      /\ Changed(bond, bond', Challenges, c)
      /\ settlement[r] \in ReceiptSettlement
  BY RevertEffect
<1>2. /\ bond[c].challenger_reward_amount + bond[c].burn_amount
           = bond[c].slash_claw_amount_snapshot
      /\ bond'[c].challenger_reward_amount + bond'[c].burn_amount
           = bond'[c].slash_claw_amount_snapshot
  BY <1>1 DEF ClawInv, SlashesSplit, BondLocked, HasStatus, ChallengeBondRecord
<1>3. vault'.reward = vault.reward - bond[c].slash_claw_amount_snapshot
  BY <1>2, RevertFields
<1>4. claw_supply' = claw_supply - bond[c].burn_amount
  BY DEF RevertReceipt, Terms
<1>5. bond[c].burn_amount \in Nat /\ bond[c].slash_claw_amount_snapshot \in Nat
  BY <1>1, WidthFacts DEF ChallengeBondRecord
<1>6. /\ BurnedOf(c) = 0 /\ ChargedOf(c) = 0
      /\ BurnedOf(c)' = bond[c].burn_amount
      /\ ChargedOf(c)' = bond[c].slash_claw_amount_snapshot
  <2>1. /\ bond[c].status = "Locked" /\ bond'[c].status = "Returned" /\ bond'[c] # None
        /\ bond'[c].burn_amount = bond[c].burn_amount
        /\ bond'[c].slash_claw_amount_snapshot = bond[c].slash_claw_amount_snapshot
    BY <1>1, NoneAssumption DEF BondLocked, HasStatus, ChallengeBondRecord
  <2> QED
    BY <2>1 DEF BurnedOf, ChargedOf, HasStatus
<1>7. /\ \A u \in Users : user_reward'[u].claimed = user_reward[u].claimed
      /\ \A p \in Providers : provider_reward'[p].claimed = provider_reward[p].claimed
  <2>1. PICK s, u, p, m, n :
               /\ s = settlement[r] /\ u = s.payer_user /\ p = s.provider_wallet
               /\ m = s.claw_to_user /\ n = s.claw_to_provider_locked
    OBVIOUS
  <2>2. u \in Users /\ p \in Providers /\ m \in Nat /\ n \in Nat
    BY <1>1, <2>1, WidthFacts DEF ReceiptSettlement
  <2>3. /\ Moved(user_reward, user_reward', Users, u, -m, 0, 0)
        /\ Moved(provider_reward, provider_reward', Providers, p, -n, 0, 0)
    BY <2>1, <2>2, RevertRewards
  <2> QED
    BY <2>2, <2>3, MovedClaims
<1>8. UNCHANGED config
  OBVIOUS
<1> QED
  BY <1>1, <1>2, <1>3, <1>4, <1>5, <1>6, <1>7, <1>8, BondMoved

\* Recording, settling and releasing move rewards from one column to the next.
LEMMA ReceiptsKeepClaw ==
  ASSUME TypeInv, TypeInv', ClawInv, NEW r \in Receipts,
         \/ \E u \in Users, p \in Providers, total \in Charges :
               RecordMiningFromReceipt(r, u, p, total)
         \/ \E status \in ReceiptStatuses : SettleFinalizedReceipt(r, status)
         \/ \E target \in ReleaseTargets, amount \in ReleaseAmounts :
               MaterializeRewardRelease(r, target, amount)
  PROVE  ClawInv' /\ KeepsVault
<1> DEFINE Claims == /\ \A u \in Users : user_reward'[u].claimed = user_reward[u].claimed
                     /\ \A p \in Providers :
                          provider_reward'[p].claimed = provider_reward[p].claimed
           Keeps == /\ UNCHANGED <<config, bond, claw_supply>>
                    /\ vault'.reward = vault.reward
<1>1. vault \in Vaults
  BY DEF TypeInv, TypeOK
<1>2. ASSUME NEW u \in Users, NEW p \in Providers, NEW total \in Charges,
             RecordMiningFromReceipt(r, u, p, total)
      PROVE  Claims /\ Keeps
  <2>1. PICK s : s = settlement'[r]
    OBVIOUS
  <2>2. /\ Moved(user_reward, user_reward', Users, u, s.claw_to_user, 0, 0)
        /\ Moved(provider_reward, provider_reward', Providers, p,
                 s.claw_to_provider_locked, 0, 0)
    BY <1>2, <2>1, RecordRewards
  <2>3. Keeps
    BY <1>1, <1>2 DEF RecordMiningFromReceipt, Vaults
  <2> QED
    BY <2>2, <2>3, MovedClaims
<1>3. ASSUME NEW status, SettleFinalizedReceipt(r, status)
      PROVE  Claims /\ Keeps
  <2>1. PICK s, u, p, m, n :
               /\ s = settlement[r] /\ u = s.payer_user /\ p = s.provider_wallet
               /\ m = s.claw_to_user /\ n = s.claw_to_provider_locked
    OBVIOUS
  <2>2. settlement[r] \in ReceiptSettlement
    BY <1>3, SettleEffect
  <2>3. u \in Users /\ p \in Providers /\ m \in Nat /\ n \in Nat
    BY <2>1, <2>2, WidthFacts DEF ReceiptSettlement
  <2>4. /\ Moved(user_reward, user_reward', Users, u, -m, m, 0)
        /\ Moved(provider_reward, provider_reward', Providers, p, -n, n, 0)
    BY <1>3, <2>1, <2>3, SettleRewards
  <2>5. Keeps
    BY <1>1, <1>3 DEF SettleFinalizedReceipt, Vaults
  <2> QED
    BY <2>3, <2>4, <2>5, MovedClaims
<1>4. ASSUME NEW target, NEW amount \in Nat, MaterializeRewardRelease(r, target, amount)
      PROVE  Claims /\ Keeps
  <2>1. PICK s, u, p : s = settlement[r] /\ u = s.payer_user /\ p = s.provider_wallet
    OBVIOUS
  <2>2. settlement[r] \in ReceiptSettlement
    BY <1>4, ReleaseEffect
  <2>3. u \in Users /\ p \in Providers
    BY <2>1, <2>2 DEF ReceiptSettlement
  <2>4. \/ Moved(user_reward, user_reward', Users, u, 0, -amount, amount)
           /\ UNCHANGED provider_reward
        \/ Moved(provider_reward, provider_reward', Providers, p, 0, -amount, amount)
           /\ UNCHANGED user_reward
    BY <1>4, <2>1, <2>3, ReleaseRewards
  <2>5. Claims
    BY <2>3, <2>4, MovedClaims
  <2>6. Keeps
    BY <1>4 DEF MaterializeRewardRelease, tokens
  <2> QED
    BY <2>5, <2>6
<1>5. ReleaseAmounts \subseteq Nat
  BY MasterpoolAssumption
<1>6. Claims /\ Keeps
  <2> HIDE DEF Claims, Keeps
  <2> QED
    BY <1>2, <1>3, <1>4, <1>5
<1>7. Minted' = Minted
  BY <1>6, ClawSumsStay
<1> QED
  BY <1>6, <1>7, ClawUntouched

\* Every step keeps the accounting.
LEMMA ClawStep ==
  ASSUME TypeInv, ClawInv, [Next]_mvars
  PROVE  ClawInv' /\ KeepsVault
<1> DEFINE Goal == ClawInv' /\ KeepsVault
<1>0. TypeInv'
  BY StepTypeInv
<1>1. ASSUME UNCHANGED <<bond, claw_supply, user_reward, provider_reward>>,
             vault'.reward = vault.reward, Minted' = Minted
      PROVE  Goal
  BY <1>0, <1>1, ClawUntouched
<1>2. ASSUME NEW params \in ParamChoices, InitializeMasterpool(params) \/ UpdateConfig(params)
      PROVE  Goal
  <2>1. UNCHANGED <<bond, claw_supply, user_reward, provider_reward, vault>>
    BY <1>2 DEF InitializeMasterpool, UpdateConfig, tokens
  <2>2. Minted' = Minted
    <3>1. CASE InitializeMasterpool(params)
      BY <3>1 DEF InitializeMasterpool, Minted
    <3>2. CASE UpdateConfig(params)
      <4>1. config \in GlobalConfig /\ config' = [config EXCEPT !.params = params]
        BY <3>2 DEF UpdateConfig, TypeInv, TypeOK
      <4>2. config'.genesis_minted = config.genesis_minted /\ config' # None
        BY <4>1, NoneAssumption, MasterpoolAssumption DEF GlobalConfig
      <4> QED
        BY <4>1, <4>2, NoneAssumption DEF Minted
    <3> QED
      BY <1>2, <3>1, <3>2
  <2> QED
    BY <1>1, <2>1, <2>2
<1>3. ASSUME MintGenesisSupply
      PROVE  Goal
  BY <1>0, <1>3, MintKeepsClaw
<1>4. ASSUME NEW flags \in PauseChoices, SetPauseFlags(flags)
      PROVE  Goal
  <2>1. UNCHANGED <<bond, claw_supply, user_reward, provider_reward, vault>>
    BY <1>4 DEF SetPauseFlags, tokens
  <2>2. /\ config \in GlobalConfig /\ config' = [config EXCEPT !.paused = flags]
    BY <1>4 DEF SetPauseFlags, TypeInv, TypeOK
  <2>3. /\ config'.genesis_minted = config.genesis_minted /\ config' # None
    BY <2>2, <1>0, <1>4, NoneAssumption, MasterpoolAssumption DEF GlobalConfig
  <2>4. Minted' = Minted
    BY <2>2, <2>3, NoneAssumption DEF Minted
  <2> QED
    BY <1>1, <2>1, <2>4
<1>5. ASSUME NEW p \in Providers, RegisterProvider(p)
      PROVE  Goal
  <2>1. UNCHANGED <<config, bond, claw_supply, user_reward, provider_reward>>
        /\ vault'.reward = vault.reward
    BY <1>5 DEF RegisterProvider, TypeInv, TypeOK, Vaults
  <2> QED
    BY <1>1, <2>1, ClawSumsStay
<1>6. ASSUME NEW p \in Providers, NEW destination \in Holders, ExitProvider(p, destination)
      PROVE  Goal
  <2>1. UNCHANGED <<config, bond, claw_supply, user_reward, provider_reward>>
        /\ vault'.reward = vault.reward
    BY <1>6 DEF ExitProvider, TypeInv, TypeOK, Vaults
  <2> QED
    BY <1>1, <2>1, ClawSumsStay
<1>7. ASSUME NEW u \in Users, ClaimUserClaw(u)
      PROVE  Goal
  <2>1. Claimed' - Claimed = vault.reward - vault'.reward
    BY <1>0, <1>7, UserClaimTerms
  <2>2. UNCHANGED <<config, bond, claw_supply>>
    BY <1>7 DEF ClaimUserClaw
  <2> QED
    BY <1>0, <2>1, <2>2, ClawSumsStay, ClawStays
<1>8. ASSUME NEW p \in Providers, ClaimProviderClaw(p)
      PROVE  Goal
  <2>1. Claimed' - Claimed = vault.reward - vault'.reward
    BY <1>0, <1>8, ProviderClaimTerms
  <2>2. UNCHANGED <<config, bond, claw_supply>>
    BY <1>8 DEF ClaimProviderClaw
  <2> QED
    BY <1>0, <2>1, <2>2, ClawSumsStay, ClawStays
<1>9. ASSUME NEW u \in Users, NEW amount \in Allowances, Approve(u, amount)
      PROVE  Goal
  <2>1. UNCHANGED <<config, bond, claw_supply, user_reward, provider_reward, vault>>
    BY <1>9 DEF Approve
  <2> QED
    BY <1>1, <2>1, ClawSumsStay
<1>10. ASSUME MasterpoolTick \/ UNCHANGED mvars
       PROVE  Goal
  <2>1. UNCHANGED <<config, bond, claw_supply, user_reward, provider_reward, vault>>
    BY <1>10 DEF MasterpoolTick, mvars, masterpool_vars, tokens
  <2> QED
    BY <1>1, <2>1, ClawSumsStay
<1>11. ASSUME NEW r \in Receipts, NEW target \in ReleaseTargets, NEW amount \in ReleaseAmounts,
              MaterializeRewardRelease(r, target, amount)
       PROVE  Goal
  BY <1>0, <1>11, ReceiptsKeepClaw
<1>12. ASSUME NEW r \in Receipts, NEW u \in Users, NEW p \in Providers, NEW total \in Charges,
              RecordMiningFromReceipt(r, u, p, total)
       PROVE  Goal
  BY <1>0, <1>12, ReceiptsKeepClaw
<1>13. ASSUME NEW r \in Receipts, NEW status \in ReceiptStatuses, SettleFinalizedReceipt(r, status)
       PROVE  Goal
  BY <1>0, <1>13, ReceiptsKeepClaw
<1>14. ASSUME NEW c \in Challenges, NEW r \in Receipts, NEW w \in Challengers,
              RecordChallengeBond(c, r, w)
       PROVE  Goal
  BY <1>14, PostKeepsClaw
<1>15. ASSUME NEW c \in Challenges, NEW r \in Receipts, NEW code,
              ResolveChallengeEconomics(c, r, code)
       PROVE  Goal
  <2>1. Resolvable(c, r) /\ UNCHANGED <<now, config, allowance>>
        /\ (BurnBond(c, r) \/ RevertReceipt(c, r))
    BY <1>15 DEF ResolveChallengeEconomics
  <2> QED
    BY <2>1, BurnKeepsClaw, RevertKeepsClaw
<1> HIDE DEF Goal
<1>16. ASSUME DirectStep
       PROVE  Goal
  BY <1>2, <1>3, <1>4, <1>5, <1>6, <1>7, <1>8, <1>9, <1>11, <1>16 DEF DirectStep
<1>17. ASSUME AttestationCall
       PROVE  Goal
  BY <1>12, <1>13, <1>14, <1>15, <1>17 DEF AttestationCall
<1>18. Goal
  BY <1>10, <1>16, <1>17 DEF Next
<1> QED
  BY <1>18 DEF Goal

\* Nothing is minted, claimed or burned at first.
LEMMA ClawInit == MasterpoolInit => ClawInv /\ NoneElsewhere
<1> SUFFICES ASSUME MasterpoolInit
             PROVE  ClawInv /\ NoneElsewhere
  OBVIOUS
<1>1. /\ \A c \in Challenges : bond[c] = None
      /\ \A u \in Users : user_reward[u].claimed = 0
      /\ \A p \in Providers : provider_reward[p].claimed = 0
      /\ config = None /\ claw_supply = Total(Holders, InitialClaw) /\ vault.reward = 0
  BY DEF MasterpoolInit, NoRewards
<1>2. Burned = 0 /\ AllSlashed = 0
  BY <1>1, TotalZero DEF Burned, AllSlashed, HasStatus
<1>3. Total(Users, UserClaims) = 0 /\ Total(Providers, ProviderClaims) = 0
  BY <1>1, TotalZero DEF UserClaims, ProviderClaims
<1>4. Claimed = 0 /\ Minted = 0
  BY <1>1, <1>3 DEF Claimed, Minted, UserClaims, ProviderClaims
<1>5. Total(Holders, InitialClaw) \in Nat
  BY MasterpoolAssumption, TotalType
<1>6. ClawElsewhere = 0
  BY <1>5 DEF MasterpoolInit, ClawElsewhere
<1> QED
  BY <1>1, <1>2, <1>4, <1>5, <1>6 DEF ClawInv, SlashesSplit, SupplyKept, VaultShort, NoneElsewhere

\* Every CLAW is accounted for, in every instance: the supply is what was minted
\* less the bonds and slashes burned, wallets and vaults hold all of it, and the
\* reward vault has lost exactly what was claimed and slashed.
THEOREM ClawAlwaysAccounted == Spec => []ClawAccounted
<1>1. MasterpoolInit => ClawInv /\ NoneElsewhere
  BY ClawInit
<1>2. TypeInv /\ ClawInv /\ NoneElsewhere /\ [Next]_mvars => ClawInv' /\ NoneElsewhere'
  BY StepTypeInv, ClawStep DEF KeepsClaw, KeepsVault, NoneElsewhere
<1>3. TypeInv /\ ClawInv /\ NoneElsewhere => ClawAccounted
  <2> SUFFICES ASSUME TypeInv, ClawInv, NoneElsewhere PROVE ClawAccounted
    OBVIOUS
  <2>1. /\ Claimed \in Nat /\ AllSlashed \in Nat /\ Minted \in Nat
        /\ claw_supply \in Nat /\ vault.reward \in Nat
    BY ClawTermsType
  <2>2. Total(Holders, claw) \in Nat /\ vault.challenge_bond \in Nat
    BY MasterpoolAssumption, TotalType DEF TypeInv, TypeOK, Vaults
  <2> QED
    BY <2>1, <2>2 DEF ClawElsewhere, VaultShort, NoneElsewhere, ClawInv, SupplyKept, ClawAccounted
<1> QED
  BY <1>1, <1>2, <1>3, TypeInvAlways, PTL DEF Spec

-----------------------------------------------------------------------------
(* The reward vault covers what is owed *)

\* All an account was ever promised on receipts that stand: what is claimed of it
\* is still counted as released.
Holdings(S, accounts) ==
    [x \in S |-> accounts[x].pending + accounts[x].locked + accounts[x].released]

\* What a receipt books for its two parties.
UserBooked(r) ==
    IF settlement[r] # None /\ ~ChallengedReverted(r) THEN settlement[r].claw_to_user ELSE 0
ProviderBooked(r) ==
    IF settlement[r] # None /\ ~ChallengedReverted(r)
    THEN settlement[r].claw_to_provider_locked ELSE 0

UserBookings == [r \in Receipts |-> UserBooked(r)]
ProviderBookings == [r \in Receipts |-> ProviderBooked(r)]

\* The reward accounts together were promised what the receipts book.
BookedInv ==
    /\ Total(Users, Holdings(Users, user_reward)) = BookedToUsers
    /\ Total(Providers, Holdings(Providers, provider_reward)) = BookedToProviders

\* Holdings and bookings are natural numbers.
LEMMA HoldingsType ==
  ASSUME NEW S, NEW accounts \in [S -> RewardAccount]
  PROVE  Holdings(S, accounts) \in [S -> Nat]
<1>1. \A x \in S : accounts[x] \in RewardAccount
  OBVIOUS
<1> QED
  BY <1>1, WidthFacts DEF Holdings, RewardAccount

LEMMA BookingsType ==
  ASSUME TypeInv
  PROVE  UserBookings \in [Receipts -> Nat] /\ ProviderBookings \in [Receipts -> Nat]
<1>1. \A r \in Receipts : settlement[r] # None => settlement[r] \in ReceiptSettlement
  BY DEF TypeInv, TypeOK
<1> QED
  BY <1>1, WidthFacts DEF UserBookings, ProviderBookings, UserBooked, ProviderBooked,
     ReceiptSettlement

\* When one account moves, the holdings move by the same amounts.
LEMMA HoldingsMove ==
  ASSUME NEW S, IsFiniteSet(S), NEW x \in S,
         NEW old \in [S -> RewardAccount], NEW new \in [S -> RewardAccount],
         NEW pend \in Int, NEW lock \in Int, NEW rel \in Int,
         Moved(old, new, S, x, pend, lock, rel)
  PROVE  Total(S, Holdings(S, new)) = Total(S, Holdings(S, old)) + pend + lock + rel
<1>1. PICK f \in [S -> Nat], g \in [S -> Nat] :
         f = Holdings(S, old) /\ g = Holdings(S, new)
  BY HoldingsType
<1>2. \A y \in S \ {x} : g[y] = f[y]
  BY <1>1 DEF Holdings, Moved, Changed
<1>3. old[x] \in RewardAccount
  OBVIOUS
<1>4. old[x].pending \in Nat /\ old[x].locked \in Nat /\ old[x].released \in Nat
  BY <1>3, WidthFacts DEF RewardAccount
<1>5. g[x] = f[x] + pend + lock + rel
  <2>1. f[x] = old[x].pending + old[x].locked + old[x].released
    BY <1>1 DEF Holdings
  <2>2. g[x] = new[x].pending + new[x].locked + new[x].released
    BY <1>1 DEF Holdings
  <2> QED
    BY <1>4, <2>1, <2>2 DEF Moved
<1>6. Total(S, g) = Total(S, f) + g[x] - f[x] /\ Total(S, f) \in Nat
  BY <1>2, TotalChange, TotalType
<1>7. f[x] \in Nat
  OBVIOUS
<1> QED
  BY <1>1, <1>5, <1>6, <1>7

\* What a receipt books is what it contributes to the accounts of its parties.
BookedAsCounted == \A r \in Receipts : \A u \in Users, p \in Providers :
    (settlement[r] # None => OfUser(r, u) /\ OfProvider(r, p)) =>
      /\ UserBooked(r) = UPend(r, u) + ULock(r, u) + URel(r, u)
      /\ ProviderBooked(r) = PPend(r, p) + PLock(r, p) + PRel(r, p)

LEMMA CountedTwice == TypeInv /\ ReleasedWithinVested => BookedAsCounted
<1> SUFFICES ASSUME TypeInv, ReleasedWithinVested, NEW r \in Receipts,
                    NEW u \in Users, NEW p \in Providers,
                    settlement[r] # None => OfUser(r, u) /\ OfProvider(r, p)
             PROVE  /\ UserBooked(r) = UPend(r, u) + ULock(r, u) + URel(r, u)
                    /\ ProviderBooked(r) = PPend(r, p) + PLock(r, p) + PRel(r, p)
  BY DEF BookedAsCounted
<1>1. CASE settlement[r] = None
  BY <1>1 DEF UserBooked, ProviderBooked, UPend, ULock, URel, PPend, PLock, PRel, Recorded,
              FinalizedSettled, HasStatus, OfUser, OfProvider
<1>2. CASE settlement[r] # None
  <2>1. settlement[r] \in ReceiptSettlement
    BY <1>2 DEF TypeInv, TypeOK
  <2>2. /\ settlement[r].claw_to_user \in Nat /\ settlement[r].user_claw_released \in Nat
        /\ settlement[r].claw_to_provider_locked \in Nat
        /\ settlement[r].provider_claw_released \in Nat
        /\ settlement[r].status \in {"Recorded", "FinalizedSettled", "ChallengedReverted"}
    BY <2>1, WidthFacts DEF ReceiptSettlement
  <2>3. ~FinalizedSettled(r) => /\ settlement[r].user_claw_released = 0
                               /\ settlement[r].provider_claw_released = 0
    BY <1>2 DEF ReleasedWithinVested
  <2>4. OfUser(r, u) /\ OfProvider(r, p)
    BY <1>2
  <2>5. UserBooked(r) = UPend(r, u) + ULock(r, u) + URel(r, u)
    BY <1>2, <2>2, <2>3, <2>4 DEF UserBooked, UPend, ULock, URel, Recorded, FinalizedSettled,
       ChallengedReverted, HasStatus
  <2>6. ProviderBooked(r) = PPend(r, p) + PLock(r, p) + PRel(r, p)
    BY <1>2, <2>2, <2>3, <2>4 DEF ProviderBooked, PPend, PLock, PRel, Recorded,
       FinalizedSettled, ChallengedReverted, HasStatus
  <2> QED
    BY <2>5, <2>6
<1> QED
  BY <1>1, <1>2

\* Hence what the receipts book moves as the accounts do.
LEMMA BookingsMove ==
  ASSUME TypeInv, TypeInv', ReleasedWithinVested, ReleasedWithinVested', NEW r \in Receipts,
         Changed(settlement, settlement', Receipts, r),
         NEW u \in Users, NEW p \in Providers, SameParties(r, u, p),
         NEW a \in Int, NEW b \in Int, NEW c \in Int, UserTermsMove(r, u, a, b, c),
         NEW d \in Int, NEW e \in Int, NEW f \in Int, ProviderTermsMove(r, p, d, e, f)
  PROVE  /\ BookedToUsers' = BookedToUsers + a + b + c
         /\ BookedToProviders' = BookedToProviders + d + e + f
<1>1. BookedAsCounted /\ BookedAsCounted'
  <2>1. TypeInv' /\ ReleasedWithinVested' => BookedAsCounted'
    BY CountedTwice, PTL
  <2> QED
    BY <2>1, CountedTwice
<1>2. /\ settlement[r] # None => OfUser(r, u) /\ OfProvider(r, p)
      /\ OfUser(r, u)' /\ OfProvider(r, p)'
  BY NoneAssumption DEF SameParties, OfUser, OfProvider
<1>3. /\ UserBooked(r) = UPend(r, u) + ULock(r, u) + URel(r, u)
      /\ ProviderBooked(r) = PPend(r, p) + PLock(r, p) + PRel(r, p)
  BY <1>1, <1>2 DEF BookedAsCounted
<1>4. /\ UserBooked(r)' = UPend(r, u)' + ULock(r, u)' + URel(r, u)'
      /\ ProviderBooked(r)' = PPend(r, p)' + PLock(r, p)' + PRel(r, p)'
  BY <1>1, <1>2 DEF BookedAsCounted
<1>5. /\ UPend(r, u)' = UPend(r, u) + a /\ ULock(r, u)' = ULock(r, u) + b
      /\ URel(r, u)' = URel(r, u) + c
  BY DEF UserTermsMove
<1>6. /\ PPend(r, p)' = PPend(r, p) + d /\ PLock(r, p)' = PLock(r, p) + e
      /\ PRel(r, p)' = PRel(r, p) + f
  BY DEF ProviderTermsMove
<1>7. /\ UPend(r, u) \in Nat /\ ULock(r, u) \in Nat /\ URel(r, u) \in Nat
      /\ PPend(r, p) \in Nat /\ PLock(r, p) \in Nat /\ PRel(r, p) \in Nat
  BY ContributionsType
<1>8. /\ UserBooked(r)' = UserBooked(r) + a + b + c
      /\ ProviderBooked(r)' = ProviderBooked(r) + d + e + f
      /\ UserBooked(r) \in Nat /\ ProviderBooked(r) \in Nat
  BY <1>3, <1>4, <1>5, <1>6, <1>7
<1>9. /\ BookedToUsers = Total(Receipts, UserBookings)
      /\ BookedToProviders = Total(Receipts, ProviderBookings)
      /\ BookedToUsers' = Total(Receipts, UserBookings')
      /\ BookedToProviders' = Total(Receipts, ProviderBookings')
  BY DEF BookedToUsers, BookedToProviders, UserBookings, ProviderBookings, UserBooked,
         ProviderBooked
<1>10. PICK f1 \in [Receipts -> Nat], g1 \in [Receipts -> Nat], f2 \in [Receipts -> Nat],
            g2 \in [Receipts -> Nat] :
         f1 = UserBookings /\ g1 = UserBookings' /\ f2 = ProviderBookings /\ g2 = ProviderBookings'
  <2>1. UserBookings' \in [Receipts -> Nat] /\ ProviderBookings' \in [Receipts -> Nat]
    <3>1. \A q \in Receipts : settlement'[q] # None => settlement'[q] \in ReceiptSettlement
      BY DEF TypeInv, TypeOK
    <3> QED
      BY <3>1, WidthFacts DEF UserBookings, ProviderBookings, UserBooked, ProviderBooked,
         ReceiptSettlement
  <2> QED
    BY <2>1, BookingsType
<1>11. \A q \in Receipts \ {r} : g1[q] = f1[q] /\ g2[q] = f2[q]
  BY <1>10 DEF UserBookings, ProviderBookings, UserBooked, ProviderBooked, ChallengedReverted,
               HasStatus, Changed
<1>12. /\ f1[r] = UserBooked(r) /\ g1[r] = UserBooked(r)'
       /\ f2[r] = ProviderBooked(r) /\ g2[r] = ProviderBooked(r)'
  BY <1>10 DEF UserBookings, ProviderBookings
<1>13. /\ Total(Receipts, g1) = Total(Receipts, f1) + g1[r] - f1[r]
       /\ Total(Receipts, f1) \in Nat
  BY <1>11, SumMoves
<1>14. /\ Total(Receipts, g2) = Total(Receipts, f2) + g2[r] - f2[r]
       /\ Total(Receipts, f2) \in Nat
  BY <1>11, SumMoves
<1> QED
  BY <1>8, <1>9, <1>10, <1>12, <1>13, <1>14

\* A claim moves nothing that was promised, and no receipt.
LEMMA ClaimsBook ==
  ASSUME TypeInv, TypeInv', BookedInv, RewardClaimed
  PROVE  BookedInv'
<1>1. BookedToUsers' = BookedToUsers /\ BookedToProviders' = BookedToProviders
  BY DEF RewardClaimed, BookedToUsers, BookedToProviders, ChallengedReverted, HasStatus
<1>2. /\ \A u \in Users : /\ user_reward'[u].pending = user_reward[u].pending
                         /\ user_reward'[u].locked = user_reward[u].locked
                         /\ user_reward'[u].released = user_reward[u].released
      /\ \A p \in Providers : /\ provider_reward'[p].pending = provider_reward[p].pending
                             /\ provider_reward'[p].locked = provider_reward[p].locked
                             /\ provider_reward'[p].released = provider_reward[p].released
  <2>0. /\ user_reward \in [Users -> RewardAccount]
        /\ provider_reward \in [Providers -> RewardAccount]
    BY DEF TypeInv, TypeOK
  <2>1. ASSUME NEW x \in Users, ClaimUserClaw(x)
        PROVE  <1>2!:
    BY <2>0, <2>1 DEF ClaimUserClaw, RewardAccount
  <2>2. ASSUME NEW x \in Providers, ClaimProviderClaw(x)
        PROVE  <1>2!:
    BY <2>0, <2>2 DEF ClaimProviderClaw, RewardAccount
  <2> QED
    BY <2>1, <2>2 DEF RewardClaimed
<1>3. /\ Holdings(Users, user_reward') = Holdings(Users, user_reward)
      /\ Holdings(Providers, provider_reward') = Holdings(Providers, provider_reward)
  BY <1>2 DEF Holdings
<1> QED
  BY <1>1, <1>3 DEF BookedInv

\* Every step promises what it books.
LEMMA BookedStep ==
  ASSUME TypeInv, ReleasedWithinVested, BookedInv, [Next]_mvars
  PROVE  BookedInv'
<1>1. TypeInv' /\ ReleasedWithinVested'
  BY StepTypeInv, WithinStep
<1>2. CASE UNCHANGED <<settlement, user_reward, provider_reward>>
  BY <1>2 DEF BookedInv, BookedToUsers, BookedToProviders, ChallengedReverted, HasStatus
<1>3. ASSUME NEW r \in Receipts, ReceiptMoves(r)
      PROVE  BookedInv'
  <2>1. PICK u \in Users, p \in Providers :
           /\ SameParties(r, u, p)
           /\ \E pend, lock \in Int, rel \in Nat : UserMoves(r, u, pend, lock, rel)
           /\ \E pend, lock \in Int, rel \in Nat : ProviderMoves(r, p, pend, lock, rel)
    BY <1>3 DEF ReceiptMoves
  <2>2. PICK a \in Int, b \in Int, c \in Nat : UserMoves(r, u, a, b, c)
    BY <2>1
  <2>3. PICK d \in Int, e \in Int, f \in Nat : ProviderMoves(r, p, d, e, f)
    BY <2>1
  <2>4. /\ BookedToUsers' = BookedToUsers + a + b + c
        /\ BookedToProviders' = BookedToProviders + d + e + f
    <3>1. UserTermsMove(r, u, a, b, c) /\ ProviderTermsMove(r, p, d, e, f)
      BY <2>2, <2>3 DEF UserMoves, ProviderMoves
    <3>2. Changed(settlement, settlement', Receipts, r)
      BY <1>3 DEF ReceiptMoves
    <3> QED
      BY <1>1, <2>1, <3>1, <3>2, BookingsMove
  <2>5. /\ user_reward \in [Users -> RewardAccount] /\ user_reward' \in [Users -> RewardAccount]
        /\ provider_reward \in [Providers -> RewardAccount]
        /\ provider_reward' \in [Providers -> RewardAccount]
        /\ IsFiniteSet(Users) /\ IsFiniteSet(Providers)
    BY <1>1, ClawTermsType DEF TypeInv, TypeOK
  <2>6. Total(Users, Holdings(Users, user_reward'))
          = Total(Users, Holdings(Users, user_reward)) + a + b + c
    BY <2>2, <2>5, HoldingsMove DEF UserMoves
  <2>7. Total(Providers, Holdings(Providers, provider_reward'))
          = Total(Providers, Holdings(Providers, provider_reward)) + d + e + f
    BY <2>3, <2>5, HoldingsMove DEF ProviderMoves
  <2> QED
    BY <2>4, <2>6, <2>7 DEF BookedInv
<1>4. CASE RewardClaimed
  BY <1>1, <1>4, ClaimsBook
<1> QED
  BY <1>2, <1>3, <1>4, StepMoves

\* Nothing is promised or booked at first.
LEMMA BookedInit == MasterpoolInit => BookedInv
<1> SUFFICES ASSUME MasterpoolInit
             PROVE  BookedInv
  OBVIOUS
<1>1. /\ \A r \in Receipts : settlement[r] = None
      /\ \A u \in Users : user_reward[u] = NoRewards
      /\ \A p \in Providers : provider_reward[p] = NoRewards
  BY DEF MasterpoolInit
<1>2. BookedToUsers = 0 /\ BookedToProviders = 0
  BY <1>1, TotalZero DEF BookedToUsers, BookedToProviders
<1>3. /\ Total(Users, Holdings(Users, user_reward)) = 0
      /\ Total(Providers, Holdings(Providers, provider_reward)) = 0
  BY <1>1, TotalZero DEF Holdings, NoRewards
<1> QED
  BY <1>2, <1>3 DEF BookedInv

\* What is owed is what was promised less what was claimed.
LEMMA OwedIsBooked ==
  ASSUME TypeInv, UsersAgree, ProvidersAgree, BookedInv
  PROVE  /\ Owed \in Nat /\ BookedRewards \in Nat
         /\ BookedRewards = Owed + Claimed
         /\ \A u \in Users : user_reward[u].released - user_reward[u].claimed <= Owed
         /\ \A p \in Providers : provider_reward[p].released - provider_reward[p].claimed <= Owed
<1> DEFINE uo == [u \in Users |-> OwedTo(user_reward[u])]
           po == [p \in Providers |-> OwedTo(provider_reward[p])]
<1>1. /\ IsFiniteSet(Users) /\ IsFiniteSet(Providers)
      /\ UserClaims \in [Users -> Nat] /\ ProviderClaims \in [Providers -> Nat]
      /\ Claimed = Total(Users, UserClaims) + Total(Providers, ProviderClaims)
  BY ClawTermsType
<1>2. /\ user_reward \in [Users -> RewardAccount]
      /\ provider_reward \in [Providers -> RewardAccount]
  BY DEF TypeInv, TypeOK
<1>3. /\ Holdings(Users, user_reward) \in [Users -> Nat]
      /\ Holdings(Providers, provider_reward) \in [Providers -> Nat]
  BY <1>2, HoldingsType
<1>4. \A u \in Users :
        /\ OwedTo(user_reward[u]) \in Nat
        /\ user_reward[u].released - user_reward[u].claimed <= OwedTo(user_reward[u])
        /\ Holdings(Users, user_reward)[u] = OwedTo(user_reward[u]) + UserClaims[u]
  <2> SUFFICES ASSUME NEW u \in Users
               PROVE  /\ OwedTo(user_reward[u]) \in Nat
                      /\ user_reward[u].released - user_reward[u].claimed <= OwedTo(user_reward[u])
                      /\ Holdings(Users, user_reward)[u]
                           = OwedTo(user_reward[u]) + UserClaims[u]
    OBVIOUS
  <2>1. user_reward[u] \in RewardAccount
    BY <1>2
  <2>2. /\ user_reward[u].pending \in Nat /\ user_reward[u].locked \in Nat
        /\ user_reward[u].released \in Nat /\ user_reward[u].claimed \in Nat
        /\ user_reward[u].claimed <= user_reward[u].released
    BY <2>1, WidthFacts DEF RewardAccount, UsersAgree
  <2> QED
    BY <2>2 DEF OwedTo, Holdings, UserClaims
<1>5. \A p \in Providers :
        /\ OwedTo(provider_reward[p]) \in Nat
        /\ provider_reward[p].released - provider_reward[p].claimed <= OwedTo(provider_reward[p])
        /\ Holdings(Providers, provider_reward)[p]
             = OwedTo(provider_reward[p]) + ProviderClaims[p]
  <2> SUFFICES ASSUME NEW p \in Providers
               PROVE  /\ OwedTo(provider_reward[p]) \in Nat
                      /\ provider_reward[p].released - provider_reward[p].claimed
                           <= OwedTo(provider_reward[p])
                      /\ Holdings(Providers, provider_reward)[p]
                           = OwedTo(provider_reward[p]) + ProviderClaims[p]
    OBVIOUS
  <2>1. provider_reward[p] \in RewardAccount
    BY <1>2
  <2>2. /\ provider_reward[p].pending \in Nat /\ provider_reward[p].locked \in Nat
        /\ provider_reward[p].released \in Nat /\ provider_reward[p].claimed \in Nat
        /\ provider_reward[p].claimed <= provider_reward[p].released
    BY <2>1, WidthFacts DEF RewardAccount, ProvidersAgree
  <2> QED
    BY <2>2 DEF OwedTo, Holdings, ProviderClaims
<1>6. uo \in [Users -> Nat] /\ po \in [Providers -> Nat]
  BY <1>4, <1>5
<1>7. Owed = Total(Users, uo) + Total(Providers, po)
  BY DEF Owed
<1>8. Total(Users, Holdings(Users, user_reward)) = Total(Users, uo) + Total(Users, UserClaims)
  BY <1>1, <1>3, <1>4, <1>6, TotalPlus
<1>9. Total(Providers, Holdings(Providers, provider_reward))
        = Total(Providers, po) + Total(Providers, ProviderClaims)
  BY <1>1, <1>3, <1>5, <1>6, TotalPlus
<1>10. /\ Total(Users, uo) \in Nat /\ Total(Providers, po) \in Nat
       /\ Total(Users, UserClaims) \in Nat /\ Total(Providers, ProviderClaims) \in Nat
  BY <1>1, <1>6, TotalType
<1>11. /\ \A u \in Users : OwedTo(user_reward[u]) <= Total(Users, uo)
       /\ \A p \in Providers : OwedTo(provider_reward[p]) <= Total(Providers, po)
  <2>1. /\ \A u \in Users : uo[u] <= Total(Users, uo)
        /\ \A p \in Providers : po[p] <= Total(Providers, po)
    <3> HIDE DEF uo, po
    <3> QED
      BY <1>1, <1>6, TotalBounds
  <2> QED
    BY <2>1
<1> HIDE DEF uo, po
<1>12. ASSUME NEW u \in Users
       PROVE  user_reward[u].released - user_reward[u].claimed <= Owed
  <2>1. user_reward[u] \in RewardAccount
    BY <1>2
  <2>2. user_reward[u].released - user_reward[u].claimed \in Int
    BY <2>1, WidthFacts DEF RewardAccount
  <2> QED
    BY <1>4, <1>7, <1>10, <1>11, <2>2
<1>13. ASSUME NEW p \in Providers
       PROVE  provider_reward[p].released - provider_reward[p].claimed <= Owed
  <2>1. provider_reward[p] \in RewardAccount
    BY <1>2
  <2>2. provider_reward[p].released - provider_reward[p].claimed \in Int
    BY <2>1, WidthFacts DEF RewardAccount
  <2> QED
    BY <1>5, <1>7, <1>10, <1>11, <2>2
<1>14. BookedRewards = Owed + Claimed /\ Owed \in Nat /\ BookedRewards \in Nat
  BY <1>1, <1>7, <1>8, <1>9, <1>10 DEF BookedRewards, BookedInv
<1> QED
  BY <1>12, <1>13, <1>14

\* One account of each kind never holds more than is booked to all of its kind.
LEMMA BookedBounds ==
  ASSUME TypeInv, BookedInv, NEW u \in Users, NEW p \in Providers
  PROVE  /\ BookedToUsers \in Nat /\ BookedToProviders \in Nat
         /\ user_reward[u].pending \in Nat /\ user_reward[u].locked \in Nat
         /\ user_reward[u].released \in Nat
         /\ user_reward[u].pending + user_reward[u].locked + user_reward[u].released
              <= BookedToUsers
         /\ provider_reward[p].pending \in Nat /\ provider_reward[p].locked \in Nat
         /\ provider_reward[p].released \in Nat
         /\ provider_reward[p].pending + provider_reward[p].locked + provider_reward[p].released
              <= BookedToProviders
<1>1. /\ user_reward \in [Users -> RewardAccount]
      /\ provider_reward \in [Providers -> RewardAccount]
      /\ IsFiniteSet(Users) /\ IsFiniteSet(Providers)
  BY ClawTermsType DEF TypeInv, TypeOK
<1>2. PICK f \in [Users -> Nat], g \in [Providers -> Nat] :
         f = Holdings(Users, user_reward) /\ g = Holdings(Providers, provider_reward)
  BY <1>1, HoldingsType
<1>3. Total(Users, f) = BookedToUsers /\ Total(Providers, g) = BookedToProviders
  BY <1>2 DEF BookedInv
<1>4. Total(Users, f) \in Nat /\ Total(Providers, g) \in Nat
  BY <1>1, TotalType
<1>5. f[u] <= Total(Users, f) /\ g[p] <= Total(Providers, g)
  BY <1>1, TotalBounds
<1>6. /\ f[u] = user_reward[u].pending + user_reward[u].locked + user_reward[u].released
      /\ g[p] = provider_reward[p].pending + provider_reward[p].locked
                  + provider_reward[p].released
  BY <1>2 DEF Holdings
<1>7. user_reward[u] \in RewardAccount /\ provider_reward[p] \in RewardAccount
  BY <1>1
<1>8. /\ user_reward[u].pending \in Nat /\ user_reward[u].locked \in Nat
      /\ user_reward[u].released \in Nat
      /\ provider_reward[p].pending \in Nat /\ provider_reward[p].locked \in Nat
      /\ provider_reward[p].released \in Nat
  BY <1>7, WidthFacts DEF RewardAccount
<1> QED
  BY <1>3, <1>4, <1>5, <1>6, <1>8

\* While all rewards booked fit in a u64, the locked totals take every receipt
\* whose rewards are pending.
LEMMA LockedWithin ==
  ASSUME TypeInv, BookedInv, BookedRewards <= MAX_U64, NEW r \in Receipts, Recorded(r), Covered(r)
  PROVE  LockedFits(settlement[r])
<1>1. PICK s : s = settlement[r]
  OBVIOUS
<1>2. PICK u \in Users, p \in Providers : u = s.payer_user /\ p = s.provider_wallet
  BY <1>1, SettlementFacts, NoneAssumption DEF Recorded, HasStatus
<1>3. s.claw_to_user \in Nat /\ s.claw_to_provider_locked \in Nat /\ MAX_U64 \in Nat
  BY <1>1, SettlementFacts, WidthFacts, Phase1MathAssumption DEF Recorded, HasStatus
<1>4. /\ s.claw_to_user <= user_reward[u].pending
      /\ s.claw_to_provider_locked <= provider_reward[p].pending
  <2>1. /\ user_reward[u].pending >= s.claw_to_user
        /\ provider_reward[p].pending >= s.claw_to_provider_locked
    BY <1>1, <1>2 DEF Covered
  <2>2. user_reward[u].pending \in Nat /\ provider_reward[p].pending \in Nat
    BY BookedBounds
  <2> QED
    BY <1>3, <2>1, <2>2
<1>5. /\ user_reward[u].locked + s.claw_to_user \in 0..MAX_U64
      /\ provider_reward[p].locked + s.claw_to_provider_locked \in 0..MAX_U64
  BY <1>3, <1>4, BookedBounds DEF BookedRewards
<1> QED
  BY <1>1, <1>2, <1>5 DEF LockedFits, FitsU64, U64

\* What has vested of one receipt is there to release, and the released totals take
\* it while all rewards booked fit in a u64.
LEMMA UserReleaseWithin ==
  ASSUME TypeInv, ReleasedWithinVested, UsersAgree, BookedInv,
         NEW r \in Receipts, FinalizedSettled(r), NEW amount \in Nat,
         NEW s, s = settlement[r], NEW u, u = s.payer_user,
         amount <= Releasable(s.claw_to_user, s.user_claw_released,
                              s.reward_lock_started_at, now, s.lock_days_snapshot)
  PROVE  /\ user_reward[u].locked >= amount
         /\ BookedRewards <= MAX_U64 => FitsU64(user_reward[u].released + amount)
<1>1. /\ s \in ReceiptSettlement /\ u \in Users /\ s.provider_wallet \in Providers
      /\ OfUser(r, u) /\ now \in Nat
  <2>1. settlement[r] # None
    BY NoneAssumption DEF FinalizedSettled, HasStatus
  <2> QED
    BY <2>1, SettlementFacts DEF OfUser, TypeInv, TypeOK
<1>2. /\ s.claw_to_user \in Nat /\ s.user_claw_released \in Nat
      /\ s.reward_lock_started_at \in Nat /\ s.lock_days_snapshot \in Nat \ {0}
  BY <1>1, WidthFacts DEF ReceiptSettlement
<1>3. amount <= s.claw_to_user - s.user_claw_released
  <2>1. PICK v \in 0..s.claw_to_user :
          v = Vested(s.claw_to_user, s.reward_lock_started_at, now, s.lock_days_snapshot)
    <3>1. now <= now
      BY <1>1
    <3> QED
      BY <1>1, <1>2, <3>1, VestedGrows
  <2> QED
    BY <1>2, <2>1 DEF Releasable
<1>4. ULock(r, u) = s.claw_to_user - s.user_claw_released
  BY <1>1 DEF ULock
<1>5. PICK f \in [Receipts -> Nat] : f = [x \in Receipts |-> ULock(x, u)]
  BY ContributionsType
<1>6. user_reward[u].locked = Total(Receipts, f) /\ Total(Receipts, f) \in Nat
  BY <1>1, <1>5, MasterpoolAssumption, TotalType DEF UsersAgree, UserLocked, ULock
<1>7. f[r] <= Total(Receipts, f) /\ f[r] = ULock(r, u)
  BY <1>5, MasterpoolAssumption, TotalBounds
<1>8. user_reward[u].locked >= amount
  BY <1>2, <1>3, <1>4, <1>6, <1>7
<1>9. ASSUME BookedRewards <= MAX_U64
      PROVE  user_reward[u].released + amount \in 0..MAX_U64
  <2>1. MAX_U64 \in Nat
    BY Phase1MathAssumption
  <2>2. /\ BookedToUsers \in Nat /\ BookedToProviders \in Nat
        /\ user_reward[u].pending \in Nat /\ user_reward[u].locked \in Nat
        /\ user_reward[u].released \in Nat
        /\ user_reward[u].pending + user_reward[u].locked + user_reward[u].released
             <= BookedToUsers
    BY <1>1, BookedBounds
  <2> QED
    BY <1>8, <1>9, <2>1, <2>2 DEF BookedRewards
<1> QED
  BY <1>8, <1>9 DEF FitsU64, U64

LEMMA ProviderReleaseWithin ==
  ASSUME TypeInv, ReleasedWithinVested, ProvidersAgree, BookedInv,
         NEW r \in Receipts, FinalizedSettled(r), NEW amount \in Nat,
         NEW s, s = settlement[r], NEW p, p = s.provider_wallet,
         amount <= Releasable(s.claw_to_provider_locked, s.provider_claw_released,
                              s.reward_lock_started_at, now, s.lock_days_snapshot)
  PROVE  /\ provider_reward[p].locked >= amount
         /\ BookedRewards <= MAX_U64 => FitsU64(provider_reward[p].released + amount)
<1>1. /\ s \in ReceiptSettlement /\ p \in Providers /\ s.payer_user \in Users
      /\ OfProvider(r, p) /\ now \in Nat
  <2>1. settlement[r] # None
    BY NoneAssumption DEF FinalizedSettled, HasStatus
  <2> QED
    BY <2>1, SettlementFacts DEF OfProvider, TypeInv, TypeOK
<1>2. /\ s.claw_to_provider_locked \in Nat /\ s.provider_claw_released \in Nat
      /\ s.reward_lock_started_at \in Nat /\ s.lock_days_snapshot \in Nat \ {0}
  BY <1>1, WidthFacts DEF ReceiptSettlement
<1>3. amount <= s.claw_to_provider_locked - s.provider_claw_released
  <2>1. PICK v \in 0..s.claw_to_provider_locked :
          v = Vested(s.claw_to_provider_locked, s.reward_lock_started_at, now,
                     s.lock_days_snapshot)
    <3>1. now <= now
      BY <1>1
    <3> QED
      BY <1>1, <1>2, <3>1, VestedGrows
  <2> QED
    BY <1>2, <2>1 DEF Releasable
<1>4. PLock(r, p) = s.claw_to_provider_locked - s.provider_claw_released
  BY <1>1 DEF PLock
<1>5. PICK f \in [Receipts -> Nat] : f = [x \in Receipts |-> PLock(x, p)]
  BY ContributionsType
<1>6. provider_reward[p].locked = Total(Receipts, f) /\ Total(Receipts, f) \in Nat
  BY <1>1, <1>5, MasterpoolAssumption, TotalType DEF ProvidersAgree, ProviderLocked, PLock
<1>7. f[r] <= Total(Receipts, f) /\ f[r] = PLock(r, p)
  BY <1>5, MasterpoolAssumption, TotalBounds
<1>8. provider_reward[p].locked >= amount
  BY <1>2, <1>3, <1>4, <1>6, <1>7
<1>9. ASSUME BookedRewards <= MAX_U64
      PROVE  provider_reward[p].released + amount \in 0..MAX_U64
  <2>1. MAX_U64 \in Nat
    BY Phase1MathAssumption
  <2>2. /\ BookedToUsers \in Nat /\ BookedToProviders \in Nat
        /\ provider_reward[p].pending \in Nat /\ provider_reward[p].locked \in Nat
        /\ provider_reward[p].released \in Nat
        /\ provider_reward[p].pending + provider_reward[p].locked + provider_reward[p].released
             <= BookedToProviders
    BY <1>1, BookedBounds
  <2> QED
    BY <1>8, <1>9, <2>1, <2>2 DEF BookedRewards
<1> QED
  BY <1>8, <1>9 DEF FitsU64, U64

\* The parameters in force admit no charge whose own rewards do not fit.
LEMMA NewRewardsFit ==
  ASSUME TypeInv, NEW r \in Receipts, NEW u \in Users, NEW p \in Providers, NEW total,
         Recordable(r, total), NEW s, s = NewSettlement(u, p, total)
  PROVE  FitsU64(s.claw_to_user + s.claw_to_provider_total)
<1>1. PICK params : params = config.params
  OBVIOUS
<1>2. params \in Phase1ConfigParams /\ ValidParams(params)
  BY <1>1 DEF TypeInv, TypeOK, GlobalConfig, Recordable, Running
<1>3. SplitsWithin(params) /\ ValidParamBounds(params)
  BY <1>2, ValidSplits DEF SplitsWithin, ValidParams
<1>4. total \in 0..MAX_RECEIPT_USDC_ATOMIC
  BY Phase1MathAssumption DEF Recordable
<1>5. AmountsFit(params, total)
  BY <1>2, <1>3, <1>4, BoundsAreExact
<1>6. PICK earned : earned = ClawAmount(total, params.exchange_rate_claw_per_usdc_e6)
  OBVIOUS
<1>7. PICK to_user : to_user = BpsAmount(earned, params.user_claw_share_bps)
  OBVIOUS
<1>8. FitsU64(to_user + (earned - to_user))
  BY <1>5, <1>6, <1>7 DEF AmountsFit
<1>9. s.claw_to_user = to_user /\ s.claw_to_provider_total = earned - to_user
  BY <1>1, <1>6, <1>7 DEF NewSettlement
<1> QED
  BY <1>8, <1>9

\* Everything promised by a settlement that stands is in one of the reward accounts,
\* however it was moved between pending, locked, released and claimed since.
RewardsBooked == BookedRewards = Owed + Claimed

\* What the vault must hold for every claim, and for all of them one after the other.
ClaimsCovered ==
    /\ Owed <= vault.reward
    /\ \A u \in Users : user_reward[u].released - user_reward[u].claimed <= vault.reward
    /\ \A p \in Providers :
         provider_reward[p].released - provider_reward[p].claimed <= vault.reward

\* It does while what was booked and slashed, and what the faucet was given, fit in
\* what was minted.
LEMMA OwedCovered ==
  ASSUME TypeInv, UsersAgree, ProvidersAgree, BookedInv,
         BookedRewards + AllSlashed + VaultShort <= Minted
  PROVE  ClaimsCovered
<1>1. /\ Owed \in Nat /\ BookedRewards = Owed + Claimed
      /\ \A u \in Users : user_reward[u].released - user_reward[u].claimed <= Owed
      /\ \A p \in Providers : provider_reward[p].released - provider_reward[p].claimed <= Owed
  BY OwedIsBooked
<1>2. AllSlashed \in Nat /\ Claimed \in Nat /\ Minted \in Nat /\ vault.reward \in Nat
  BY ClawTermsType
<1>3. Owed <= vault.reward
  BY <1>1, <1>2 DEF VaultShort
<1>4. /\ \A u \in Users : user_reward[u].released - user_reward[u].claimed \in Int
      /\ \A p \in Providers : provider_reward[p].released - provider_reward[p].claimed \in Int
  <2>1. /\ \A u \in Users : user_reward[u] \in RewardAccount
        /\ \A p \in Providers : provider_reward[p] \in RewardAccount
    BY DEF TypeInv, TypeOK
  <2>2. \A account \in RewardAccount : account.released - account.claimed \in Int
    BY WidthFacts DEF RewardAccount
  <2> QED
    BY <2>1, <2>2
<1> QED
  BY <1>1, <1>2, <1>3, <1>4 DEF ClaimsCovered

\* The reward accounts together were promised exactly what the receipts book.
THEOREM BookedInvAlways == Spec => []BookedInv
BY BookedInit, BookedStep, TypeInvAlways, NeverReleasedEarly, PTL DEF Spec

\* Every CLAW a standing receipt promised is owed by one account or was claimed by it,
\* for every instance and any order of settling, reverting, releasing and claiming.
THEOREM RewardsAlwaysBooked == Spec => []RewardsBooked
<1>1. TypeInv /\ RewardLedgersAgree /\ BookedInv => RewardsBooked
  BY OwedIsBooked DEF RewardLedgersAgree, UsersAgree, ProvidersAgree, RewardsBooked
<1> QED
  BY <1>1, TypeInvAlways, RewardLedgersAlwaysAgree, BookedInvAlways, PTL

\* For every instance: the one reward vault, which no instruction compares with what
\* is owed, covers it as long as rewards and slashes fit in what genesis minted.
THEOREM RewardsAlwaysCovered == Spec => []RewardsCovered
<1>1. TypeInv /\ RewardLedgersAgree /\ BookedInv /\ ClawAccounted => RewardsCovered
  <2> SUFFICES ASSUME TypeInv, RewardLedgersAgree, BookedInv, ClawAccounted,
                      BookedRewards + AllSlashed <= Minted
               PROVE  Owed <= vault.reward
    BY DEF RewardsCovered
  <2>1. UsersAgree /\ ProvidersAgree
    BY DEF RewardLedgersAgree, UsersAgree, ProvidersAgree
  <2>2. /\ AllSlashed \in Nat /\ Claimed \in Nat /\ Minted \in Nat
        /\ vault.reward \in Nat /\ BookedRewards \in Nat
    BY <2>1, ClawTermsType, OwedIsBooked
  <2>3. VaultShort = 0
    BY <2>2 DEF VaultShort, ClawAccounted
  <2>4. BookedRewards + AllSlashed + VaultShort <= Minted
    BY <2>2, <2>3
  <2> QED
    BY <2>1, <2>4, OwedCovered DEF ClaimsCovered
<1> QED
  BY <1>1, TypeInvAlways, RewardLedgersAlwaysAgree, BookedInvAlways, ClawAlwaysAccounted, PTL
===============================================================================
