---------------------------- MODULE PaymentVote ----------------------------
(***************************************************************************)
(* The signature layout of MasternodePaymentVote (src/unnamed/part_000,    *)
(* package masternode, file lines 486-605).  ECDSA itself is abstracted:   *)
(* the signature of a hash is a fixed pair (r, s) of the curve's scalars   *)
(* (EcdsaSig), and ecdsa.Verify accepts exactly that pair.  What is        *)
(* modelled is the code's own work: Sign serialises r and s as two         *)
(* big-endian byte strings padded to keyBytes each, Verify cuts a byte     *)
(* string at KeySize and reads the two halves back as big.Ints.  A byte    *)
(* string is a sequence of 0..255.                                        *)
(***************************************************************************)
EXTENDS Integers, Sequences, SequencesExt

CONSTANTS
  CurveBits,  \* bit sizes of the curves a key may be on
  Hashes,     \* vote hashes (short byte strings)
  EcdsaSig    \* [bits, hash] -> the <<r, s>> ecdsa.Sign returns

(* big.Int.Bytes(): the minimal big-endian bytes of n, empty for zero.    *)
RECURSIVE BigBytes(_)
BigBytes(n) == IF n = 0 THEN <<>> ELSE Append(BigBytes(n \div 256), n % 256)

(* big.Int.SetBytes(b): b read as a big-endian unsigned integer.           *)
SetBytes(b) == FoldLeft(LAMBDA acc, x : acc * 256 + x, 0, b)

(* keyBytes: curveBits / 8, plus one for a partial byte.                   *)
KeyBytes(bits) == bits \div 8 + (IF bits % 8 > 0 THEN 1 ELSE 0)

(* copy(padded[k-len(b):], b) into a zeroed k-byte array.                 *)
PadLeft(b, k) == [i \in 1..(k - Len(b)) |-> 0] \o b

(* Mutant: r and s appended without padding.                              *)
SignOutputNoPad(r, s, bits) == BigBytes(r) \o BigBytes(s)

(* Sign: the 2*keyBytes output rBytesPadded ++ sBytesPadded.               *)
SignOutput(r, s, bits) ==
  PadLeft(BigBytes(r), KeyBytes(bits)) \o PadLeft(BigBytes(s), KeyBytes(bits))

Sign(hash, bits) ==
  SignOutput(EcdsaSig[bits, hash][1], EcdsaSig[bits, hash][2], bits)

(* The pair a byte string cut at k reads back as: b[:k] and b[k:].         *)
SplitAt(b, k) == <<SetBytes(SubSeq(b, 1, k)), SetBytes(SubSeq(b, k + 1, Len(b)))>>

(* NewMasternodePaymentVote leaves KeySize at 0.                           *)
NewKeySize == 0

(* Verify(sighash, signature, key): r and s are cut from sighash, not     *)
(* from signature, at m.KeySize; ecdsa.Verify rejects r or s of zero and   *)
(* accepts only the pair Sign produced for the hash.                      *)
Verify(sighash, signature, keySize, bits) ==
  LET rs == SplitAt(sighash, keySize)
  IN rs[1] > 0 /\ rs[2] > 0 /\ rs = EcdsaSig[bits, sighash]

-----------------------------------------------------------------------------
(* Payment votes as a node handles them: votes are created, signed with a *)
(* key on one of the curves, and any signature seen may be checked against *)
(* any vote.                                                              *)

VARIABLES
  votes,     \* votes created: [hash, keySize]
  sigs,      \* signatures Sign returned: [hash, bits, sig]
  verdicts   \* Verify results: [hash, signedFor, bits, ok]

vars == <<votes, sigs, verdicts>>

Init ==
  /\ votes = {}
  /\ sigs = {}
  /\ verdicts = {}

(* NewMasternodePaymentVote, with the vote's Hash().                       *)
NewVote(h) ==
  /\ votes' = votes \cup {[hash |-> h, keySize |-> NewKeySize]}
  /\ UNCHANGED <<sigs, verdicts>>

SignVote(v, bits) ==
  /\ sigs' = sigs \cup {[hash |-> v.hash, bits |-> bits, sig |-> Sign(v.hash, bits)]}
  /\ UNCHANGED <<votes, verdicts>>

(* Verify(v.Hash(), signature, public key of the signing curve).          *)
VerifyVote(v, s) ==
  /\ verdicts' = verdicts \cup
       {[hash |-> v.hash, signedFor |-> s.hash, bits |-> s.bits,
         ok |-> Verify(v.hash, s.sig, v.keySize, s.bits)]}
  /\ UNCHANGED <<votes, sigs>>

Next ==
  \/ \E h \in Hashes : NewVote(h)
  \/ \E v \in votes, bits \in CurveBits : SignVote(v, bits)
  \/ \E v \in votes, s \in sigs : VerifyVote(v, s)

Spec == Init /\ [][Next]_vars

-----------------------------------------------------------------------------
(* Every signature Sign returned can be read back: cut at keyBytes it      *)
(* yields the r and s ecdsa.Sign produced, also when r or s is short and   *)
(* needs padding (one signature in 256) and when the curve size is not a  *)
(* whole number of bytes.                                                 *)
SignatureSplitsBack ==
  \A s \in sigs : SplitAt(s.sig, KeyBytes(s.bits)) = EcdsaSig[s.bits, s.hash]

(* A vote checked against a signature Sign made for that vote's hash      *)
(* passes Verify, as the SigningMethod contract the two methods implement *)
(* requires.                                                              *)
VerifyAcceptsSigned ==
  \A d \in verdicts : d.signedFor = d.hash => d.ok

=============================================================================
