------------------------------- MODULE Bitstream -------------------------------
(***************************************************************************)
(* The class Bitstream of TrackerDataFragment.hpp/.icc: a vector of words  *)
(* of which the low UsedBitsPerWord bits carry module data, seen through a *)
(* buffer of BufferBits bits from which the decoder removes bits at the    *)
(* front.  The decoder chooses how many; DecodeModuleData removes 1, 3, 4, *)
(* 11, 13, 19 or 28.                                                       *)
(*                                                                         *)
(* Which values the bits have plays no part here, so a bit is the set of   *)
(* the positions of the data that were or'ed into it: {} is a zero that    *)
(* was shifted in, {k} the k-th bit of the data, and a larger set would be *)
(* two bits of data on top of each other.  Position 1 of a word is its     *)
(* most significant bit.                                                   *)
(***************************************************************************)
EXTENDS Integers, Sequences, FiniteSetsExt

CONSTANTS
  BufferBits,        \* bits of m_currentBuffer and of a word, 32
  UsedBitsPerWord,   \* m_usedBitsPerWord, 24
  UIntModulus,       \* unsigned int arithmetic is modulo this, 2^32 in the build
  WordCounts,        \* lengths of the vector the stream is constructed with
  Removals           \* the arguments of RemoveBits

ASSUME BitsAssumption ==
  /\ BufferBits \in Nat /\ UsedBitsPerWord \in Nat
  /\ 0 < UsedBitsPerWord /\ UsedBitsPerWord <= BufferBits
  /\ BufferBits - UsedBitsPerWord <= UsedBitsPerWord
  /\ UIntModulus \in Nat /\ UIntModulus > 2 * BufferBits
  /\ WordCounts \subseteq Nat
  /\ Removals \subseteq 1..(BufferBits - 1)

VARIABLES
  m_currentBuffer,
  m_bitstreamData,        \* the words not used up yet
  m_bitsUsedOfNextWord,
  m_bitsAvailable,
  total,                  \* history: bits of data the stream was constructed with
  removed                 \* history: bits removed so far

vars == <<m_currentBuffer, m_bitstreamData, m_bitsUsedOfNextWord, m_bitsAvailable,
          total, removed>>

Word == [1..BufferBits -> SUBSET Nat]

ShiftLeft(w, n)  == [i \in 1..BufferBits |-> IF i + n <= BufferBits THEN w[i + n] ELSE {}]
ShiftRight(w, n) == [i \in 1..BufferBits |-> IF i > n THEN w[i - n] ELSE {}]
Or(v, w)         == [i \in 1..BufferBits |-> v[i] \cup w[i]]

(* The loop that makes the mask of n bits.  A wider mask would do no harm: *)
(* the bits above the low n of what is masked are in the buffer already.   *)
LowBitsOneFewer(w, n) ==     \* Defect: the loop makes one bit fewer.
  [i \in 1..BufferBits |-> IF i > BufferBits - n + 1 THEN w[i] ELSE {}]
LowBits(w, n)    == [i \in 1..BufferBits |-> IF i > BufferBits - n THEN w[i] ELSE {}]

Zero == [i \in 1..BufferBits |-> {}]

(* The k-th word of the data: its unused high bits are masked away before. *)
DataWord(k) ==
  LET high == BufferBits - UsedBitsPerWord
  IN  [i \in 1..BufferBits |->
         IF i > high THEN {(k - 1) * UsedBitsPerWord + i - high} ELSE {}]

Spare == BufferBits - UsedBitsPerWord

(* The members after construction with a vector of that many words. *)
Constructed(count) ==
  LET data == [k \in 1..count |-> DataWord(k)]
  IN  [m_bitstreamData |-> IF data = <<>> THEN <<>> ELSE Tail(data),
       m_currentBuffer |->
         CASE count = 0 -> Zero
           [] count = 1 -> ShiftLeft(data[1], Spare)
           [] OTHER     -> Or(ShiftLeft(data[1], Spare),
                              ShiftRight(data[2], UsedBitsPerWord - Spare)),
       m_bitsUsedOfNextWord |-> IF count > 1 THEN Spare ELSE 0,
       m_bitsAvailable |-> CASE count = 0 -> 0
                             [] count = 1 -> Spare
                             [] OTHER     -> BufferBits]

Init ==
  \E count \in WordCounts :
    LET c == Constructed(count)
    IN  /\ m_currentBuffer = c.m_currentBuffer
        /\ m_bitstreamData = c.m_bitstreamData
        /\ m_bitsUsedOfNextWord = c.m_bitsUsedOfNextWord
        /\ m_bitsAvailable = c.m_bitsAvailable
        /\ total = count * UsedBitsPerWord
        /\ removed = 0

BelowZero(n) == n                               \* Defect: the test is missing.

(* m_bitsAvailable is signed and kept from falling below zero. *)
NotBelowZero(n) == IF n < 0 THEN 0 ELSE n

(* All words are in the buffer. *)
AlwaysExhausted == TRUE          \* Defect: the test is missing.
Exhausted == m_bitstreamData = <<>>

(* RemoveBits(n) when all words are in the buffer. *)
RemoveFromBuffer(n) ==
  /\ Exhausted
  /\ m_currentBuffer' = ShiftLeft(m_currentBuffer, n)
  /\ m_bitsAvailable' = NotBelowZero(m_bitsAvailable - n)
  /\ removed' = removed + n
  /\ UNCHANGED <<m_bitstreamData, m_bitsUsedOfNextWord, total>>

(* RemoveBits(n) when the next word has n bits left. *)
RemoveWithinWord(n) ==
  LET used == m_bitsUsedOfNextWord + n
  IN  /\ ~Exhausted
      /\ UsedBitsPerWord - m_bitsUsedOfNextWord >= n
      /\ m_currentBuffer' =
           Or(ShiftLeft(m_currentBuffer, n),
              LowBits(ShiftRight(Head(m_bitstreamData), UsedBitsPerWord - used), n))
      /\ IF used = UsedBitsPerWord
         THEN m_bitstreamData' = Tail(m_bitstreamData) /\ m_bitsUsedOfNextWord' = 0
         ELSE m_bitstreamData' = m_bitstreamData /\ m_bitsUsedOfNextWord' = used
      /\ removed' = removed + n
      /\ UNCHANGED <<m_bitsAvailable, total>>

(* RemoveBits(n) when it needs bits of the words after the next one: what  *)
(* is left of the next word, then as many whole words as the loop copies,  *)
(* then the front of the word after those, if there is one.  When the      *)
(* words run out, m_bitsAvailable is reduced by an unsigned difference in  *)
(* which m_bitsUsedOfNextWord has been reset to zero already.              *)
RemoveAcrossWords(n) ==
  LET missing == m_bitsUsedOfNextWord + n - UsedBitsPerWord
      later   == Tail(m_bitstreamData)
      whole   == Min({(missing - 1) \div UsedBitsPerWord, Len(later)})
      front   == Or(ShiftLeft(m_currentBuffer, n),
                    LowBits(ShiftLeft(Head(m_bitstreamData), missing), n))
      copied  == [i \in 1..BufferBits |->
                    front[i] \cup UNION {ShiftLeft(later[k], missing - k * UsedBitsPerWord)[i] :
                                           k \in 1..whole}]
      rest    == SubSeq(later, whole + 1, Len(later))
      needed  == missing - whole * UsedBitsPerWord
  IN  /\ ~Exhausted
      /\ UsedBitsPerWord - m_bitsUsedOfNextWord < n
      /\ m_bitstreamData' = rest
      /\ IF rest = <<>>
         THEN /\ m_currentBuffer' = copied
              /\ m_bitsUsedOfNextWord' = 0
              /\ m_bitsAvailable' =
                   NotBelowZero(m_bitsAvailable - ((n - UsedBitsPerWord) % UIntModulus))
         ELSE /\ m_currentBuffer' = Or(copied, ShiftRight(Head(rest), UsedBitsPerWord - needed))
              /\ m_bitsUsedOfNextWord' = needed
              /\ UNCHANGED m_bitsAvailable
      /\ removed' = removed + n
      /\ UNCHANGED total

RemoveBits(n) == RemoveFromBuffer(n) \/ RemoveWithinWord(n) \/ RemoveAcrossWords(n)

(* The decoder may go on past the end, in the loop over the hits of a      *)
(* packet; the bound stops it one buffer later.                            *)
Next == \E n \in Removals : removed < total + BufferBits /\ RemoveBits(n)

Spec == Init /\ [][Next]_vars

(* The loop of DecodeModuleData: it removes bits while BitsAvailable().    *)
BitsAvailable == m_bitsAvailable > 0

-------------------------------------------------------------------------------
(* Bits of data not removed yet. *)
Remaining == IF removed < total THEN total - removed ELSE 0

(* Data lie in the low bits of the words, at most one word is used in part *)
(* and the two counters stay in their ranges.                              *)
TypeOK ==
  /\ m_currentBuffer \in [1..BufferBits -> SUBSET (1..total)]
  /\ \A k \in DOMAIN m_bitstreamData : m_bitstreamData[k] \in [1..BufferBits -> SUBSET (1..total)]
  /\ m_bitsUsedOfNextWord \in 0..UsedBitsPerWord
  /\ m_bitsAvailable \in 0..BufferBits

(* GetWord32() is the next BufferBits bits of the data, in order, none     *)
(* twice, none missing, and zeros behind the last: whatever removals lead  *)
(* across whatever word boundaries.                                        *)
WindowIsNextBits ==
  \A i \in 1..BufferBits :
    m_currentBuffer[i] = IF removed + i <= total THEN {removed + i} ELSE {}

(* While words are left, the buffer is full of data and is counted full,   *)
(* so the loop cannot end before the last word is in the buffer.           *)
FullWhileWordsLeft ==
  m_bitstreamData # <<>> => m_bitsAvailable = BufferBits /\ Remaining >= BufferBits

(* The decoder's loop, which removes bits while there are some. *)
LoopSpec == Init /\ [][BitsAvailable /\ Next]_vars

(* No bit of data is given up: BitsAvailable() holds while there are any   *)
(* (RemoveBits returns early only when there is "no more data").           *)
NoDataGivenUp == Remaining > 0 => BitsAvailable

===============================================================================
