--------------------------- MODULE FletcherChecksum ---------------------------
(***************************************************************************)
(* The class FletcherChecksum (FletcherChecksum.hpp), which the trigger    *)
(* and tracker decoders use on the words of a payload: two sums of machine *)
(* words, of which some bits are kept.  The widths are constants; the      *)
(* build has words of 32 bits, fields of 12 and keeps 5 low bits.          *)
(***************************************************************************)
EXTENDS Integers, Sequences, SequencesExt

CONSTANTS
  WordBits,     \* bits of a word, where sums wrap
  FieldBits,    \* bits of each half of the checksum
  KeptBits      \* bits of the upper half taken from above the lower half

ASSUME WidthsAssumption ==
  /\ WordBits \in Nat /\ FieldBits \in Nat /\ KeptBits \in 0..FieldBits
  /\ 2 * FieldBits <= WordBits

(* 2^n, as a function that proofs can follow from n to n + 1. *)
PowerOf2[n \in Nat] == IF n = 0 THEN 1 ELSE 2 * PowerOf2[n - 1]

WordModulus  == PowerOf2[WordBits]
ContentRange == PowerOf2[2 * FieldBits]      \* MASK_DATA, MASK_CRC: the bits below the frame
FieldRange   == PowerOf2[FieldBits]

(* AddData, and the body of the loop in ReturnFletcherChecksum. *)
AddData(sums, word) ==
  LET checksumL == (sums.L + word) % WordModulus
  IN  [L |-> checksumL, H |-> (sums.H + checksumL) % WordModulus]

(* The uppermost bits of one sum and some in its middle, the lowest of the *)
(* other.                                                                  *)
ComputeFletcherChecksum(checksumH, checksumL) ==
  LET top    == checksumH \div PowerOf2[WordBits - (FieldBits - KeptBits)]
      middle == (checksumH \div FieldRange) % PowerOf2[KeptBits]
  IN  (top * PowerOf2[KeptBits] + middle) * FieldRange + (checksumL % FieldRange)

(* The checksum of the first count words.  The sums are bound as members   *)
(* of sets of one, so that TLC evaluates each once.                        *)
ChecksumOfFirst(words, count) ==
  LET sums[n \in 0..count] ==
        IF n = 0 THEN {[L |-> 0, H |-> 0]}
        ELSE {AddData(s, words[n]) : s \in sums[n - 1]}
  IN  CHOOSE c \in {ComputeFletcherChecksum(s.H, s.L) : s \in sums[count]} : TRUE

(* Defect: one word more is left out. *)
ReturnFletcherChecksumShort(words) ==
  IF Len(words) <= 2 THEN 0 ELSE ChecksumOfFirst(words, Len(words) - 2)

(* The last word is left out: it should be the checksum. *)
ReturnFletcherChecksum(words) ==
  IF Len(words) <= 1 THEN 0 ELSE ChecksumOfFirst(words, Len(words) - 1)

===============================================================================
