------------------------- MODULE SignatureCheckProofs -------------------------
(***************************************************************************)
(* What submit_receipt takes for signed was signed, for any keys,          *)
(* messages and transactions: the header it accepts leaves the ed25519     *)
(* program no other instruction to read the key or the message from.       *)
(***************************************************************************)
EXTENDS SignatureCheck, TLAPS

\* A transaction is a sequence of instructions, so the last one is one of them.
TransactionTyped == transaction \in Seq(Instructions)

\* The header check makes both programs read the same words: a header that is
\* accepted points at the instruction itself, wherever it stands.
LEMMA SameWordsRead ==
  ASSUME NEW t \in Seq(Instructions), NEW i \in DOMAIN t,
         HeaderAccepted(t[i].header), Ed25519Verifies(t, i)
  PROVE  <<WordAt(t, i, t[i].header.key_offset),
           WordAt(t, i, t[i].header.message_offset), HashSize>> \in Signed
BY DEF HeaderAccepted, Ed25519Verifies, At, HashSize

\* What an accepted transaction proves of the pair it is accepted for.
LEMMA PrecedingInstructionSigned ==
  ASSUME NEW t \in Seq(Instructions), NEW signer, NEW message,
         TransactionRuns(t), PrecedingInstructionSigns(t, signer, message)
  PROVE  <<signer, message, HashSize>> \in Signed
<1>1. Len(t) \in DOMAIN t
  BY DEF PrecedingInstructionSigns
<1>2. Ed25519Verifies(t, Len(t)) /\ HeaderAccepted(t[Len(t)].header)
  BY <1>1 DEF TransactionRuns, PrecedingInstructionSigns
<1> QED
  BY <1>1, <1>2, SameWordsRead DEF PrecedingInstructionSigns

\* submit_receipt never takes a receipt hash for signed that the registered key
\* did not sign, whatever instructions a sender puts before it.
THEOREM SignatureAcceptedWasSigned == SignatureSpec => []AcceptedWasSigned
<1>1. SignatureInit => TransactionTyped /\ AcceptedWasSigned
  BY DEF SignatureInit, NoTransaction, TransactionTyped, AcceptedWasSigned
<1>2. TransactionTyped /\ AcceptedWasSigned /\ [SignatureNext]_svars
        => TransactionTyped' /\ AcceptedWasSigned'
  <2> SUFFICES ASSUME TransactionTyped, AcceptedWasSigned, [SignatureNext]_svars
               PROVE  TransactionTyped' /\ AcceptedWasSigned'
    OBVIOUS
  <2>1. ASSUME NEW instruction \in Instructions, Compose(instruction)
        PROVE  TransactionTyped' /\ AcceptedWasSigned'
    BY <2>1 DEF Compose, TransactionTyped, AcceptedWasSigned
  <2>2. ASSUME NEW signer \in Keys, NEW message \in Messages, SubmitReceipt(signer, message)
        PROVE  TransactionTyped' /\ AcceptedWasSigned'
    <3>1. <<signer, message, HashSize>> \in Signed
      BY <2>2, PrecedingInstructionSigned DEF SubmitReceipt, TransactionTyped
    <3> QED
      BY <2>2, <3>1 DEF SubmitReceipt, NoTransaction, TransactionTyped, AcceptedWasSigned
  <2>3. CASE Fail
    BY <2>3 DEF Fail, NoTransaction, TransactionTyped, AcceptedWasSigned
  <2>4. CASE UNCHANGED svars
    BY <2>4 DEF svars, TransactionTyped, AcceptedWasSigned
  <2> QED
    BY <2>1, <2>2, <2>3, <2>4 DEF SignatureNext
<1> QED
  BY <1>1, <1>2, PTL DEF SignatureSpec
=============================================================================
