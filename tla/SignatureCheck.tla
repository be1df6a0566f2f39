---------------------------- MODULE SignatureCheck ----------------------------
(***************************************************************************)
(* How submit_receipt learns that a registered key signed a receipt.  It   *)
(* verifies no signature: the ed25519 program, an instruction of the same  *)
(* transaction, does, and submit_receipt reads that instruction's data to  *)
(* find out which key and message it verified.  The two must read the same *)
(* bytes.                                                                  *)
(*                                                                         *)
(* Instruction data is a header, of which every field is kept, and the     *)
(* words found at its offsets: keys and messages.  A signature is the      *)
(* triple of the key, the message and the number of its bytes signed.      *)
(***************************************************************************)
EXTENDS Integers, Sequences

CONSTANTS
    Keys,
    Messages,    \* 32-byte words: receipt hashes (SignedMessage of Attestation)
    Signed,      \* <<key, message, size>>: the signatures that exist
    Headers,     \* headers a transaction may carry
    Words,       \* contents of instruction data: sequences of keys and messages
    Programs     \* programs whose instructions may precede submit_receipt

U16Max == 65535    \* "this instruction" in a header
HashSize == 32

ASSUME SignatureAssumption ==
    /\ Signed \subseteq Keys \X Messages \X Nat
    /\ Words \subseteq Seq(Keys \cup Messages)
    /\ Headers \subseteq [count : Nat, signature_index : Nat, key_index : Nat,
                          message_index : Nat, key_offset : Nat, message_offset : Nat,
                          message_size : Nat]

VARIABLES
    transaction,   \* the instructions before submit_receipt
    accepted       \* what submit_receipt took for signed: <<key, message>> pairs

svars == <<transaction, accepted>>

-----------------------------------------------------------------------------

\* The word a header's offset points at, in the data of instruction i.
WordAt(t, i, offset) == IF offset \in DOMAIN t[i].words THEN t[i].words[offset] ELSE "nothing"

\* An index of a header names an instruction of the transaction, from 0.
At(i, index) == IF index = U16Max THEN i ELSE index + 1

\* The ed25519 program, outside the repository: it reads key and message where
\* the header says, in other instructions too, and fails the whole transaction
\* unless each of the counted signatures verifies.
Ed25519Verifies(t, i) ==
    LET h == t[i].header IN
    h.count > 0 =>
        /\ At(i, h.key_index) \in DOMAIN t /\ At(i, h.message_index) \in DOMAIN t
        /\ <<WordAt(t, At(i, h.key_index), h.key_offset),
             WordAt(t, At(i, h.message_index), h.message_offset), h.message_size>> \in Signed

TransactionRuns(t) ==
    \A i \in DOMAIN t : t[i].program = "ed25519" => Ed25519Verifies(t, i)

\* Slip: the three indexes are skipped.
HeaderWithoutIndexes(h) ==
    /\ h.count = 1
    /\ h.message_size = HashSize

\* One signature, and everything in this instruction's own data.
HeaderAccepted(h) ==
    /\ h.count = 1
    /\ h.signature_index = U16Max
    /\ h.key_index = U16Max
    /\ h.message_index = U16Max
    /\ h.message_size = HashSize

\* verify_preceding_ed25519_instruction
PrecedingInstructionSigns(t, signer, message) ==
    LET i == Len(t) IN
    /\ i > 0
    /\ t[i].program = "ed25519"
    /\ HeaderAccepted(t[i].header)
    /\ WordAt(t, i, t[i].header.key_offset) = signer
    /\ WordAt(t, i, t[i].header.message_offset) = message

-----------------------------------------------------------------------------

Instructions == [program : Programs, header : Headers, words : Words]

NoTransaction == << >>

SignatureInit == transaction = NoTransaction /\ accepted = {}

\* A sender may put any instructions before submit_receipt.
Compose(instruction) ==
    /\ Len(transaction) < 2
    /\ transaction' = Append(transaction, instruction)
    /\ UNCHANGED accepted

SubmitReceipt(signer, message) ==
    /\ TransactionRuns(transaction)
    /\ PrecedingInstructionSigns(transaction, signer, message)
    /\ accepted' = accepted \cup {<<signer, message>>}
    /\ transaction' = NoTransaction

\* A transaction in which an instruction fails leaves nothing behind.
Fail == transaction # NoTransaction /\ transaction' = NoTransaction /\ UNCHANGED accepted

SignatureNext ==
    \/ \E instruction \in Instructions : Compose(instruction)
    \/ \E signer \in Keys, message \in Messages : SubmitReceipt(signer, message)
    \/ Fail

SignatureSpec == SignatureInit /\ [][SignatureNext]_svars

\* What submit_receipt takes for signed was signed, by that key, over exactly the
\* 32 bytes of that receipt hash: the bytes the program compares are the bytes the
\* ed25519 program verified.  Attestation's use of signed messages rests on it.
AcceptedWasSigned ==
    \A pair \in accepted : <<pair[1], pair[2], HashSize>> \in Signed
=============================================================================
