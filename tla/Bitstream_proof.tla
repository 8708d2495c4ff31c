---------------------------- MODULE Bitstream_proof ----------------------------
(***************************************************************************)
(* Proofs about Bitstream for all widths of buffer and words, all lengths  *)
(* of the data and all removals the assumptions admit: the buffer is the   *)
(* next bits of the data, and it is full while words are left.             *)
(***************************************************************************)
EXTENDS Bitstream, TLAPS

(* The data bits from position + 1 to the last one, as a buffer shows them. *)
Window(position, last) ==
  [i \in 1..BufferBits |-> IF position + i <= last THEN {position + i} ELSE {}]

(* A word of the vector, whose first data bit comes after base others. *)
WordAt(base) ==
  [i \in 1..BufferBits |-> IF i > Spare THEN {base + i - Spare} ELSE {}]

(* count words that follow each other, the first of them after base bits. *)
WordsFrom(base, count) ==
  [k \in 1..count |-> WordAt(base + (k - 1) * UsedBitsPerWord)]

(* The data bits in the words before the next one. *)
Done == total - Len(m_bitstreamData) * UsedBitsPerWord

(* The words left are the last words of the data. *)
WordsLeft ==
  /\ m_bitstreamData = WordsFrom(Done, Len(m_bitstreamData))
  /\ Len(m_bitstreamData) \in Nat
  /\ Done \in Nat

(* While words are left, the end of the buffer is where the next word has  *)
(* been used up to; else the buffer reaches to the end of the data.        *)
Filled ==
  IF m_bitstreamData = <<>>
  THEN total <= removed + BufferBits
  ELSE m_bitsAvailable = BufferBits /\ removed + BufferBits = Done + m_bitsUsedOfNextWord

(* The inductive invariant. *)
IInv ==
  /\ total \in Nat /\ removed \in Nat
  /\ m_bitsUsedOfNextWord \in 0..UsedBitsPerWord
  /\ m_bitsAvailable \in 0..BufferBits
  /\ WordsLeft
  /\ Filled
  /\ m_currentBuffer = Window(removed, total)

-------------------------------------------------------------------------------
(* Products of a number of words and their width. *)

LEMMA OneMore ==
  ASSUME NEW k \in Int, NEW n \in Int
  PROVE  /\ (k + 1) * n = k * n + n
         /\ (k - 1) * n = k * n - n
OBVIOUS

LEMMA AtMost ==
  ASSUME NEW k \in Nat, NEW l \in Nat, NEW n \in Nat, k <= l
  PROVE  k * n <= l * n
OBVIOUS

LEMMA ProductNat ==
  ASSUME NEW k \in Nat, NEW n \in Nat
  PROVE  k * n \in Nat
OBVIOUS

LEMMA Widths ==
  /\ BufferBits \in Nat /\ UsedBitsPerWord \in Nat /\ Spare \in Nat
  /\ 0 < UsedBitsPerWord /\ UsedBitsPerWord + Spare = BufferBits
  /\ Spare <= UsedBitsPerWord
BY BitsAssumption DEF Spare

-------------------------------------------------------------------------------
(* The words left. *)

LEMMA WordsFromIsSeq ==
  ASSUME NEW base \in Nat, NEW count \in Nat
  PROVE  /\ WordsFrom(base, count) \in Seq(Word)
         /\ Len(WordsFrom(base, count)) = count
         /\ \A k \in 1..count :
              WordsFrom(base, count)[k] = WordAt(base + (k - 1) * UsedBitsPerWord)
         /\ WordsFrom(base, count) = <<>> <=> count = 0
<1>1. ASSUME NEW k \in 1..count
      PROVE  WordAt(base + (k - 1) * UsedBitsPerWord) \in Word
  <2>1. (k - 1) * UsedBitsPerWord \in Nat
    BY Widths, ProductNat
  <2> QED
    BY <2>1, Widths DEF WordAt, Word
<1> QED
  BY <1>1 DEF WordsFrom

LEMMA HeadTailOfWords ==
  ASSUME NEW base \in Nat, NEW count \in Nat, count > 0
  PROVE  /\ Head(WordsFrom(base, count)) = WordAt(base)
         /\ Tail(WordsFrom(base, count)) = WordsFrom(base + UsedBitsPerWord, count - 1)
<1> DEFINE words == WordsFrom(base, count)
           later == WordsFrom(base + UsedBitsPerWord, count - 1)
<1>1. /\ words \in Seq(Word) /\ Len(words) = count
      /\ \A k \in 1..count : words[k] = WordAt(base + (k - 1) * UsedBitsPerWord)
  BY WordsFromIsSeq
<1>2. /\ later \in Seq(Word) /\ Len(later) = count - 1
      /\ \A k \in 1..(count - 1) :
           later[k] = WordAt(base + UsedBitsPerWord + (k - 1) * UsedBitsPerWord)
  <2>1. base + UsedBitsPerWord \in Nat /\ count - 1 \in Nat
    BY Widths
  <2> QED
    BY <2>1, WordsFromIsSeq
<1>3. Head(words) = WordAt(base)
  BY <1>1, Widths
<1>4. ASSUME NEW k \in 1..(count - 1)
      PROVE  later[k] = words[k + 1]
  <2>1. base + UsedBitsPerWord + (k - 1) * UsedBitsPerWord = base + k * UsedBitsPerWord
    BY OneMore, Widths
  <2> QED
    BY <1>1, <1>2, <2>1
<1>5. Tail(words) = later
  <2> HIDE DEF words, later
  <2> QED BY <1>1, <1>2, <1>4
<1> QED
  BY <1>3, <1>5

LEMMA RestOfWords ==
  ASSUME NEW base \in Nat, NEW count \in Nat
  PROVE  /\ SubSeq(WordsFrom(base, count), 1, count) = WordsFrom(base, count)
         /\ count > 0 => SubSeq(WordsFrom(base, count), 2, count) = Tail(WordsFrom(base, count))
<1> DEFINE words == WordsFrom(base, count)
<1>1. words \in Seq(Word) /\ Len(words) = count
  BY WordsFromIsSeq
<1> HIDE DEF words
<1> QED
  BY <1>1 DEF words

-------------------------------------------------------------------------------
(* What the three ways to remove n bits leave in the buffer. *)

(* No words left: zeros come in behind the data. *)
LEMMA ShiftedWindow ==
  ASSUME NEW position \in Nat, NEW last \in Nat, NEW n \in Removals,
         last <= position + BufferBits
  PROVE  ShiftLeft(Window(position, last), n) = Window(position + n, last)
<1>1. n \in Nat
  BY BitsAssumption
<1>2. ASSUME NEW i \in 1..BufferBits
      PROVE  ShiftLeft(Window(position, last), n)[i] = Window(position + n, last)[i]
  <2>1. CASE i + n <= BufferBits
    <3>1. i + n \in 1..BufferBits /\ position + (i + n) = position + n + i
      BY <1>1, <2>1, Widths
    <3> QED
      BY <2>1, <3>1 DEF ShiftLeft, Window
  <2>2. CASE ~(i + n <= BufferBits)
    <3>1. ~(position + n + i <= last)
      BY <1>1, <2>2, Widths
    <3> QED
      BY <2>2, <3>1 DEF ShiftLeft, Window
  <2> QED
    BY <2>1, <2>2
<1> QED
  BY <1>2 DEF ShiftLeft, Window

(* n bits of the next word come in. *)
LEMMA WithinWord ==
  ASSUME NEW position \in Nat, NEW last \in Nat, NEW n \in Removals,
         NEW base \in Nat, NEW used \in 0..UsedBitsPerWord,
         position + BufferBits = base + used,
         used + n <= UsedBitsPerWord,
         base + UsedBitsPerWord <= last
  PROVE  Or(ShiftLeft(Window(position, last), n),
            LowBits(ShiftRight(WordAt(base), UsedBitsPerWord - (used + n)), n))
           = Window(position + n, last)
BY Widths, BitsAssumption DEF Or, ShiftLeft, LowBits, ShiftRight, WordAt, Window

(* What is left of the next word comes in. *)
LEMMA EndOfWord ==
  ASSUME NEW position \in Nat, NEW last \in Nat, NEW n \in Removals,
         NEW base \in Nat, NEW used \in 0..UsedBitsPerWord,
         position + BufferBits = base + used,
         used + n > UsedBitsPerWord,
         base + UsedBitsPerWord <= last
  PROVE  Or(ShiftLeft(Window(position, last), n),
            LowBits(ShiftLeft(WordAt(base), used + n - UsedBitsPerWord), n))
           = Window(position + n, base + UsedBitsPerWord)
BY Widths, BitsAssumption DEF Or, ShiftLeft, LowBits, WordAt, Window

(* A whole word comes in. *)
LEMMA WholeWord ==
  ASSUME NEW position \in Nat, NEW base \in Nat, NEW missing \in Nat,
         position + BufferBits = base + missing,
         missing > UsedBitsPerWord, missing < BufferBits
  PROVE  Or(Window(position, base),
            ShiftLeft(WordAt(base), missing - UsedBitsPerWord))
           = Window(position, base + UsedBitsPerWord)
BY Widths, BitsAssumption DEF Or, ShiftLeft, WordAt, Window

(* The front of a word comes in. *)
LEMMA FrontOfWord ==
  ASSUME NEW position \in Nat, NEW last \in Nat, NEW base \in Nat,
         NEW needed \in 1..UsedBitsPerWord,
         position + BufferBits = base + needed,
         base + UsedBitsPerWord <= last
  PROVE  Or(Window(position, base), ShiftRight(WordAt(base), UsedBitsPerWord - needed))
           = Window(position, last)
BY Widths, BitsAssumption DEF Or, ShiftRight, WordAt, Window

-------------------------------------------------------------------------------
(* The invariant. *)

LEMMA DataWords ==
  ASSUME NEW count \in Nat
  PROVE  [k \in 1..count |-> DataWord(k)] = WordsFrom(0, count)
<1>1. ASSUME NEW k \in 1..count
      PROVE  DataWord(k) = WordAt(0 + (k - 1) * UsedBitsPerWord)
  <2>1. /\ (k - 1) * UsedBitsPerWord \in Nat
        /\ 0 + (k - 1) * UsedBitsPerWord = (k - 1) * UsedBitsPerWord
    BY ProductNat, Widths
  <2> QED
    BY <2>1 DEF DataWord, WordAt, Spare
<1> QED
  BY <1>1 DEF WordsFrom

LEMMA InvInit == Init => IInv
<1> SUFFICES ASSUME NEW count \in WordCounts,
                    m_currentBuffer = Constructed(count).m_currentBuffer,
                    m_bitstreamData = Constructed(count).m_bitstreamData,
                    m_bitsUsedOfNextWord = Constructed(count).m_bitsUsedOfNextWord,
                    m_bitsAvailable = Constructed(count).m_bitsAvailable,
                    total = count * UsedBitsPerWord,
                    removed = 0
             PROVE  IInv
  BY DEF Init
<1> DEFINE data == WordsFrom(0, count)
<1>1. count \in Nat /\ total \in Nat
  BY BitsAssumption, ProductNat, Widths
<1>2. [k \in 1..count |-> DataWord(k)] = data
  BY <1>1, DataWords
<1>3. /\ data \in Seq(Word) /\ Len(data) = count
      /\ \A k \in 1..count : data[k] = WordAt(0 + (k - 1) * UsedBitsPerWord)
      /\ data = <<>> <=> count = 0
  BY <1>1, WordsFromIsSeq
<1>4. m_bitstreamData = IF data = <<>> THEN <<>> ELSE Tail(data)
  BY <1>2 DEF Constructed
<1>5. CASE count = 0
  <2>1. /\ m_bitstreamData = <<>> /\ m_currentBuffer = Zero
        /\ m_bitsUsedOfNextWord = 0 /\ m_bitsAvailable = 0 /\ total = 0
    BY <1>3, <1>4, <1>5, Widths DEF Constructed
  <2>2. Zero = Window(0, 0)
    BY Widths DEF Zero, Window
  <2>3. Len(<<>>) = 0 /\ Done = 0 /\ <<>> = WordsFrom(0, 0)
    BY <2>1, WordsFromIsSeq, Widths DEF Done
  <2> QED
    BY <2>1, <2>2, <2>3, Widths DEF IInv, WordsLeft, Filled
<1>6. CASE count = 1
  <2>1. /\ m_bitstreamData = Tail(data) /\ m_currentBuffer = ShiftLeft(data[1], Spare)
        /\ m_bitsUsedOfNextWord = 0 /\ m_bitsAvailable = Spare /\ total = UsedBitsPerWord
    BY <1>2, <1>3, <1>4, <1>6, Widths DEF Constructed
  <2>2. /\ Tail(data) = WordsFrom(UsedBitsPerWord, 0) /\ data[1] = WordAt(0)
    <3>1. Tail(data) = WordsFrom(0 + UsedBitsPerWord, count - 1)
      BY <1>1, <1>6, HeadTailOfWords
    <3>2. 0 + UsedBitsPerWord = UsedBitsPerWord /\ count - 1 = 0
          /\ 0 + (1 - 1) * UsedBitsPerWord = 0
      BY <1>6, Widths
    <3> QED
      BY <1>3, <1>6, <3>1, <3>2
  <2>3. ShiftLeft(WordAt(0), Spare) = Window(0, UsedBitsPerWord)
    BY Widths DEF ShiftLeft, WordAt, Window
  <2>4. /\ m_bitstreamData = <<>> /\ Len(m_bitstreamData) = 0
        /\ m_bitstreamData = WordsFrom(UsedBitsPerWord, 0)
    BY <2>1, <2>2, WordsFromIsSeq, Widths
  <2>5. Done = UsedBitsPerWord
    <3>1. Len(m_bitstreamData) * UsedBitsPerWord = 0
      BY <2>4, Widths
    <3>2. total = UsedBitsPerWord
      BY <2>1
    <3> QED
      BY <3>1, <3>2, Widths DEF Done
  <2>6. m_currentBuffer = Window(0, UsedBitsPerWord)
    BY <2>1, <2>2, <2>3
  <2> QED
    <3>1. WordsLeft
      BY <2>4, <2>5, Widths DEF WordsLeft
    <3>2. Filled
      BY <2>1, <2>4, Widths DEF Filled
    <3> QED
      BY <2>1, <2>6, <3>1, <3>2, Widths DEF IInv
<1>7. CASE count > 1
  <2>1. /\ m_bitstreamData = Tail(data)
        /\ m_currentBuffer = Or(ShiftLeft(data[1], Spare),
                                ShiftRight(data[2], UsedBitsPerWord - Spare))
        /\ m_bitsUsedOfNextWord = Spare /\ m_bitsAvailable = BufferBits
    <3>1. data # <<>> /\ count # 0 /\ count # 1
      BY <1>1, <1>3, <1>7
    <3> HIDE DEF data
    <3> QED
      BY <1>2, <1>4, <1>7, <3>1 DEF Constructed
  <2>2. data[1] = WordAt(0) /\ data[2] = WordAt(UsedBitsPerWord)
    BY <1>3, <1>7, Widths
  <2>3. total >= UsedBitsPerWord + UsedBitsPerWord
        /\ total - (count - 1) * UsedBitsPerWord = UsedBitsPerWord
    BY <1>1, <1>7, AtMost, OneMore, Widths
  <2>4. Or(ShiftLeft(WordAt(0), Spare), ShiftRight(WordAt(UsedBitsPerWord), UsedBitsPerWord - Spare))
          = Window(0, total)
    BY <1>1, <2>3, Widths DEF Or, ShiftLeft, ShiftRight, WordAt, Window
  <2>5. Tail(data) = WordsFrom(UsedBitsPerWord, count - 1) /\ count - 1 \in Nat
    BY <1>1, <1>7, HeadTailOfWords, Widths
  <2>6. /\ Len(Tail(data)) = count - 1 /\ Tail(data) # <<>>
    <3>1. UsedBitsPerWord \in Nat /\ count - 1 # 0
      BY <1>1, <1>7, Widths
    <3> QED
      BY <2>5, <3>1, WordsFromIsSeq
  <2>7. Done = UsedBitsPerWord
    BY <2>1, <2>3, <2>6 DEF Done
  <2> QED
    BY <1>1, <2>1, <2>2, <2>4, <2>5, <2>6, <2>7, Widths DEF IInv, WordsLeft, Filled
<1> QED
  BY <1>1, <1>5, <1>6, <1>7

(* The invariant after a step that leaves no words, and one that leaves some. *)
LEMMA Exhaustion ==
  ASSUME total' \in Nat, removed' \in Nat, m_bitsUsedOfNextWord' \in 0..UsedBitsPerWord,
         m_bitsAvailable' \in 0..BufferBits, m_bitstreamData' = <<>>,
         total' <= removed' + BufferBits, m_currentBuffer' = Window(removed', total')
  PROVE  IInv'
<1>1. Len(<<>>) = 0 /\ 0 * UsedBitsPerWord = 0 /\ <<>> = WordsFrom(total', 0)
  BY WordsFromIsSeq, Widths
<1>2. Done' = total'
  BY <1>1 DEF Done
<1> QED
  BY <1>1, <1>2 DEF IInv, WordsLeft, Filled

LEMMA WithWords ==
  ASSUME total' \in Nat, removed' \in Nat, m_bitsUsedOfNextWord' \in 0..UsedBitsPerWord,
         m_bitsAvailable' = BufferBits,
         NEW base \in Nat, NEW count \in Nat, count > 0,
         m_bitstreamData' = WordsFrom(base, count),
         total' = base + count * UsedBitsPerWord,
         removed' + BufferBits = base + m_bitsUsedOfNextWord',
         m_currentBuffer' = Window(removed', total')
  PROVE  IInv'
<1>1. Len(m_bitstreamData') = count /\ m_bitstreamData' # <<>>
  BY WordsFromIsSeq
<1>2. Done' = base
  <2>1. count * UsedBitsPerWord \in Nat
    BY ProductNat, Widths
  <2> QED
    BY <1>1, <2>1 DEF Done
<1> QED
  BY <1>1, <1>2, Widths DEF IInv, WordsLeft, Filled

LEMMA FromBufferNext ==
  ASSUME IInv, NEW n \in Removals, RemoveFromBuffer(n)
  PROVE  IInv'
<1> USE DEF IInv
<1>1. n \in Nat
  BY BitsAssumption
<1>2. /\ m_bitstreamData = <<>> /\ m_bitstreamData' = <<>> /\ total' = total
      /\ removed' = removed + n /\ m_bitsUsedOfNextWord' = m_bitsUsedOfNextWord
      /\ total <= removed + BufferBits
  BY DEF RemoveFromBuffer, Exhausted, Filled
<1>3. m_currentBuffer' = Window(removed', total')
  BY <1>2, ShiftedWindow DEF RemoveFromBuffer
<1>4. m_bitsAvailable' \in 0..BufferBits
  BY <1>1, Widths DEF RemoveFromBuffer, NotBelowZero
<1>5. total' \in Nat /\ removed' \in Nat /\ total' <= removed' + BufferBits
  BY <1>1, <1>2, Widths
<1> QED
  BY <1>2, <1>3, <1>4, <1>5, Exhaustion

(* What is known when words are left. *)
LEMMA Words ==
  ASSUME IInv, ~Exhausted
  PROVE  /\ Len(m_bitstreamData) \in Nat /\ Len(m_bitstreamData) > 0
         /\ m_bitstreamData = WordsFrom(Done, Len(m_bitstreamData))
         /\ Done \in Nat
         /\ Head(m_bitstreamData) = WordAt(Done)
         /\ Tail(m_bitstreamData) = WordsFrom(Done + UsedBitsPerWord, Len(m_bitstreamData) - 1)
         /\ total = Done + Len(m_bitstreamData) * UsedBitsPerWord
         /\ total = Done + UsedBitsPerWord + (Len(m_bitstreamData) - 1) * UsedBitsPerWord
         /\ Done + UsedBitsPerWord <= total
         /\ m_bitsAvailable = BufferBits
         /\ removed + BufferBits = Done + m_bitsUsedOfNextWord
<1> DEFINE count == Len(m_bitstreamData)
<1>1. /\ count \in Nat /\ Done \in Nat /\ m_bitstreamData = WordsFrom(Done, count)
      /\ m_bitstreamData # <<>>
      /\ m_bitsAvailable = BufferBits /\ removed + BufferBits = Done + m_bitsUsedOfNextWord
  BY DEF IInv, WordsLeft, Filled, Exhausted
<1>2. count > 0
  BY <1>1, WordsFromIsSeq
<1>3. total = Done + count * UsedBitsPerWord
  <2>1. count * UsedBitsPerWord \in Nat
    BY <1>1, ProductNat, Widths
  <2> QED
    BY <2>1 DEF Done, IInv
<1>4. total = Done + UsedBitsPerWord + (count - 1) * UsedBitsPerWord
      /\ Done + UsedBitsPerWord <= total
  <2>1. count - 1 \in Nat /\ (count - 1) * UsedBitsPerWord \in Nat
    BY <1>1, <1>2, ProductNat, Widths
  <2>2. (count - 1) * UsedBitsPerWord = count * UsedBitsPerWord - UsedBitsPerWord
    BY <1>1, OneMore, Widths
  <2> QED
    BY <1>1, <1>3, <2>1, <2>2, Widths
<1>5. /\ Head(m_bitstreamData) = WordAt(Done)
      /\ Tail(m_bitstreamData) = WordsFrom(Done + UsedBitsPerWord, count - 1)
  <2> HIDE DEF count
  <2>1. /\ Head(WordsFrom(Done, count)) = WordAt(Done)
        /\ Tail(WordsFrom(Done, count)) = WordsFrom(Done + UsedBitsPerWord, count - 1)
    BY <1>1, <1>2, HeadTailOfWords
  <2> QED
    BY <1>1, <2>1
<1> QED
  BY <1>1, <1>2, <1>3, <1>4, <1>5

LEMMA WithinWordNext ==
  ASSUME IInv, NEW n \in Removals, RemoveWithinWord(n)
  PROVE  IInv'
<1> DEFINE count == Len(m_bitstreamData)
           used  == m_bitsUsedOfNextWord
<1>1. ~Exhausted
  BY DEF RemoveWithinWord
<1>2. /\ count \in Nat /\ count > 0 /\ Done \in Nat
      /\ m_bitstreamData = WordsFrom(Done, count)
      /\ Head(m_bitstreamData) = WordAt(Done)
      /\ Tail(m_bitstreamData) = WordsFrom(Done + UsedBitsPerWord, count - 1)
      /\ total = Done + count * UsedBitsPerWord
      /\ total = Done + UsedBitsPerWord + (count - 1) * UsedBitsPerWord
      /\ Done + UsedBitsPerWord <= total
      /\ m_bitsAvailable = BufferBits
      /\ removed + BufferBits = Done + used
  BY <1>1, Words
<1> HIDE DEF count
<1>3. /\ n \in Nat /\ n > 0 /\ total \in Nat /\ removed \in Nat /\ used \in 0..UsedBitsPerWord
      /\ used + n <= UsedBitsPerWord
      /\ total' = total /\ removed' = removed + n /\ m_bitsAvailable' = BufferBits
  BY <1>2, BitsAssumption, Widths DEF RemoveWithinWord, IInv
<1>4. m_currentBuffer' = Window(removed', total')
  <2>1. m_currentBuffer' = Or(ShiftLeft(Window(removed, total), n),
                              LowBits(ShiftRight(WordAt(Done), UsedBitsPerWord - (used + n)), n))
    BY <1>2 DEF RemoveWithinWord, IInv
  <2> QED
    BY <1>2, <1>3, <2>1, WithinWord
<1>5. CASE used + n = UsedBitsPerWord
  <2>1. /\ m_bitstreamData' = WordsFrom(Done + UsedBitsPerWord, count - 1)
        /\ m_bitsUsedOfNextWord' = 0
    BY <1>2, <1>5 DEF RemoveWithinWord
  <2>2. /\ Done + UsedBitsPerWord \in Nat /\ count - 1 \in Nat
        /\ removed' \in Nat /\ removed' + BufferBits = Done + UsedBitsPerWord + 0
    BY <1>2, <1>3, <1>5, Widths
  <2>3. CASE count = 1
    <3>1. m_bitstreamData' = <<>>
      BY <2>1, <2>2, <2>3, WordsFromIsSeq
    <3>2. total' <= removed' + BufferBits
      BY <1>2, <1>3, <2>2, <2>3, Widths
    <3> QED
      BY <1>3, <1>4, <2>1, <2>2, <3>1, <3>2, Exhaustion, Widths
  <2>4. CASE count > 1
    BY <1>2, <1>3, <1>4, <2>1, <2>2, <2>4, WithWords, Widths
  <2> QED
    BY <1>2, <2>3, <2>4
<1>6. CASE used + n # UsedBitsPerWord
  <2>1. /\ m_bitstreamData' = WordsFrom(Done, count)
        /\ m_bitsUsedOfNextWord' = used + n
    BY <1>2, <1>6 DEF RemoveWithinWord
  <2>2. removed' \in Nat /\ removed' + BufferBits = Done + (used + n)
    BY <1>2, <1>3, Widths
  <2> QED
    BY <1>2, <1>3, <1>4, <2>1, <2>2, WithWords, Widths
<1> QED
  BY <1>5, <1>6

(* The loop of RemoveBits copies at most one whole word. *)
LEMMA WholeWords ==
  ASSUME NEW missing \in 1..(BufferBits - 1), NEW later \in Nat
  PROVE  Min({(missing - 1) \div UsedBitsPerWord, later}) =
           IF missing > UsedBitsPerWord /\ later > 0 THEN 1 ELSE 0
<1> DEFINE fit == (missing - 1) \div UsedBitsPerWord
           least == IF missing > UsedBitsPerWord /\ later > 0 THEN 1 ELSE 0
<1>1. fit = IF missing > UsedBitsPerWord THEN 1 ELSE 0
  <2>1. missing - 1 \in 0..(2 * UsedBitsPerWord - 1)
    BY Widths
  <2>2. CASE missing > UsedBitsPerWord
    <3>1. missing - 1 = UsedBitsPerWord * 1 + (missing - 1 - UsedBitsPerWord)
      BY Widths
    <3> QED
      BY <2>1, <2>2, <3>1, Widths
  <2>3. CASE missing <= UsedBitsPerWord
    BY <2>1, <2>3, Widths
  <2> QED
    BY <2>2, <2>3, Widths
<1>2. least \in {fit, later} /\ \A m \in {fit, later} : least <= m
  BY <1>1
<1>3. \A m \in {fit, later} : (\A l \in {fit, later} : m <= l) => m = least
  BY <1>1, <1>2
<1> QED
  BY <1>2, <1>3 DEF Min

LEMMA AcrossWordsNext ==
  ASSUME IInv, NEW n \in Removals, RemoveAcrossWords(n)
  PROVE  IInv'
<1> DEFINE count   == Len(m_bitstreamData)
           used    == m_bitsUsedOfNextWord
           missing == used + n - UsedBitsPerWord
           later   == Tail(m_bitstreamData)
           whole   == Min({(missing - 1) \div UsedBitsPerWord, Len(later)})
           front   == Or(ShiftLeft(m_currentBuffer, n),
                         LowBits(ShiftLeft(Head(m_bitstreamData), missing), n))
           copied  == [i \in 1..BufferBits |->
                         front[i] \cup
                           UNION {ShiftLeft(later[k], missing - k * UsedBitsPerWord)[i] :
                                    k \in 1..whole}]
           rest    == SubSeq(later, whole + 1, Len(later))
           needed  == missing - whole * UsedBitsPerWord
           base    == Done + UsedBitsPerWord
<1>1. ~Exhausted
  BY DEF RemoveAcrossWords
<1>2. /\ count \in Nat /\ count > 0 /\ Done \in Nat
      /\ m_bitstreamData = WordsFrom(Done, count)
      /\ Head(m_bitstreamData) = WordAt(Done)
      /\ Tail(m_bitstreamData) = WordsFrom(Done + UsedBitsPerWord, count - 1)
      /\ total = Done + count * UsedBitsPerWord
      /\ total = Done + UsedBitsPerWord + (count - 1) * UsedBitsPerWord
      /\ Done + UsedBitsPerWord <= total
      /\ m_bitsAvailable = BufferBits
      /\ removed + BufferBits = Done + used
  BY <1>1, Words
<1> HIDE DEF count
<1>3. /\ n \in Nat /\ n < BufferBits /\ total \in Nat /\ removed \in Nat
      /\ used \in 0..UsedBitsPerWord
  BY BitsAssumption, Widths DEF IInv
<1>4. UsedBitsPerWord - used < n /\ total' = total /\ removed' = removed + n
  BY DEF RemoveAcrossWords
<1>5. /\ missing \in 1..(BufferBits - 1) /\ base \in Nat /\ removed' \in Nat
      /\ used + n > UsedBitsPerWord
      /\ removed' + BufferBits = base + missing
  BY <1>2, <1>3, <1>4, Widths
<1>6. /\ m_bitstreamData' = rest
      /\ IF rest = <<>>
         THEN /\ m_currentBuffer' = copied
              /\ m_bitsUsedOfNextWord' = 0
              /\ m_bitsAvailable' =
                   NotBelowZero(m_bitsAvailable - ((n - UsedBitsPerWord) % UIntModulus))
         ELSE /\ m_currentBuffer' = Or(copied, ShiftRight(Head(rest), UsedBitsPerWord - needed))
              /\ m_bitsUsedOfNextWord' = needed
              /\ m_bitsAvailable' = m_bitsAvailable
  BY Zenon DEF RemoveAcrossWords
<1>7. front = Window(removed', base)
  <2>1. front = Or(ShiftLeft(Window(removed, total), n), LowBits(ShiftLeft(WordAt(Done), missing), n))
    BY <1>2 DEF IInv
  <2> QED
    BY <1>2, <1>3, <1>4, <1>5, <2>1, EndOfWord
<1>8. /\ later = WordsFrom(base, count - 1) /\ count - 1 \in Nat /\ Len(later) = count - 1
  BY <1>2, <1>5, WordsFromIsSeq
<1>9. whole = IF missing > UsedBitsPerWord /\ count - 1 > 0 THEN 1 ELSE 0
  BY <1>5, <1>8, WholeWords
<1> HIDE DEF whole, front, later, rest, copied, needed, missing, base
<1>10. ASSUME NEW end \in Nat, NEW left \in Nat,
               copied = Window(removed', end),
               rest = WordsFrom(end, left),
               total = end + left * UsedBitsPerWord,
               removed' + BufferBits = end + needed,
               IF left = 0 THEN needed \in Nat ELSE needed \in 1..UsedBitsPerWord
       PROVE  IInv'
  <2>1. CASE left = 0
    <3>1. rest = <<>> /\ total = end
      BY <1>10, <2>1, WordsFromIsSeq, Widths
    <3>2. /\ m_bitstreamData' = <<>> /\ m_currentBuffer' = Window(removed', total')
          /\ m_bitsUsedOfNextWord' = 0
          /\ m_bitsAvailable' =
               NotBelowZero(BufferBits - ((n - UsedBitsPerWord) % UIntModulus))
      BY <1>2, <1>4, <1>6, <1>10, <3>1
    <3>3. (n - UsedBitsPerWord) % UIntModulus \in Nat
      BY <1>3, BitsAssumption
    <3>4. m_bitsAvailable' \in 0..BufferBits
      BY <3>2, <3>3, Widths DEF NotBelowZero
    <3>5. total' <= removed' + BufferBits
      BY <1>4, <1>5, <1>10, <2>1, <3>1, Widths
    <3> QED
      BY <1>3, <1>4, <1>5, <3>2, <3>4, <3>5, Exhaustion, Widths
  <2>2. CASE left > 0
    <3>1. rest # <<>> /\ Head(rest) = WordAt(end)
      <4>1. WordsFrom(end, left) # <<>> /\ Head(WordsFrom(end, left)) = WordAt(end)
        BY <2>2, WordsFromIsSeq, HeadTailOfWords
      <4> QED
        BY <1>10, <4>1
    <3>2. /\ m_bitstreamData' = WordsFrom(end, left)
          /\ m_currentBuffer' =
               Or(Window(removed', end), ShiftRight(WordAt(end), UsedBitsPerWord - needed))
          /\ m_bitsUsedOfNextWord' = needed /\ m_bitsAvailable' = BufferBits
      BY <1>2, <1>6, <1>10, <3>1
    <3>3. needed \in 1..UsedBitsPerWord /\ end + UsedBitsPerWord <= total
      <4>1. 1 * UsedBitsPerWord <= left * UsedBitsPerWord /\ left * UsedBitsPerWord \in Nat
        BY <2>2, AtMost, ProductNat, Widths
      <4> QED
        BY <1>10, <2>2, <4>1, Widths
    <3>4. m_currentBuffer' = Window(removed', total')
      BY <1>3, <1>4, <1>5, <1>10, <3>2, <3>3, FrontOfWord
    <3>5. needed \in 0..UsedBitsPerWord
      BY <3>3
    <3> QED
      BY <1>3, <1>4, <1>5, <1>10, <2>2, <3>2, <3>4, <3>5, WithWords
  <2> QED
    BY <2>1, <2>2
<1>11. CASE missing > UsedBitsPerWord /\ count > 1
  <2>1. whole = 1 /\ needed = missing - UsedBitsPerWord
    BY <1>2, <1>5, <1>9, <1>11, Widths DEF needed
  <2>2. later[1] = WordAt(base)
    <3>1. base + (1 - 1) * UsedBitsPerWord = base /\ 1 \in 1..(count - 1)
      BY <1>2, <1>5, <1>11, Widths
    <3>2. WordsFrom(base, count - 1)[1] = WordAt(base + (1 - 1) * UsedBitsPerWord)
      BY <1>5, <1>8, <3>1, WordsFromIsSeq
    <3> QED
      BY <1>8, <3>1, <3>2
  <2>3. copied = Or(front, ShiftLeft(later[1], missing - UsedBitsPerWord))
    <3>1. missing - 1 * UsedBitsPerWord = missing - UsedBitsPerWord
      BY <1>5, Widths
    <3>2. 1..whole = {1}
      BY <2>1
    <3>3. copied = [i \in 1..BufferBits |->
                      front[i] \cup ShiftLeft(later[1], missing - 1 * UsedBitsPerWord)[i]]
      BY <3>2 DEF copied
    <3> QED
      BY <3>1, <3>3 DEF Or
  <2>4. copied = Window(removed', base + UsedBitsPerWord)
    <3>1. /\ missing \in Nat /\ missing > UsedBitsPerWord /\ missing < BufferBits
          /\ base \in Nat /\ removed' \in Nat /\ removed' + BufferBits = base + missing
      <4>1. missing \in 1..(BufferBits - 1) /\ missing > UsedBitsPerWord
        BY <1>5, <1>11
      <4>2. missing \in Nat /\ missing < BufferBits
        BY <4>1, Widths
      <4> QED
        BY <1>5, <4>1, <4>2
    <3> QED
      BY <1>7, <2>2, <2>3, <3>1, WholeWord
  <2>5. rest = WordsFrom(base + UsedBitsPerWord, count - 2)
    <3>1. rest = SubSeq(WordsFrom(base, count - 1), 2, count - 1)
      BY <1>8, <2>1 DEF rest
    <3>2. count - 1 - 1 = count - 2 /\ count - 1 > 0
      BY <1>2, <1>11
    <3> QED
      BY <1>5, <1>8, <3>1, <3>2, RestOfWords, HeadTailOfWords, ZenonT(30)
  <2>6. /\ base + UsedBitsPerWord \in Nat /\ count - 2 \in Nat
        /\ removed' + BufferBits = base + UsedBitsPerWord + needed
        /\ needed \in 1..UsedBitsPerWord
    <3>1. /\ missing \in 1..(BufferBits - 1) /\ base \in Nat /\ removed' \in Nat
          /\ removed' + BufferBits = base + missing
      BY <1>5
    <3>2. count \in Nat /\ count > 1 /\ missing > UsedBitsPerWord
      BY <1>2, <1>11
    <3>3. base + UsedBitsPerWord \in Nat
      BY <3>1, Widths
    <3>4. count - 2 \in Nat
      BY <3>2
    <3>5. needed \in 1..UsedBitsPerWord
      BY <2>1, <3>1, <3>2, Widths
    <3>6. removed' + BufferBits = base + UsedBitsPerWord + needed
      <4>1. base + missing = base + UsedBitsPerWord + (missing - UsedBitsPerWord)
        BY <3>1, Widths
      <4> QED
        BY <2>1, <3>1, <4>1
    <3> QED
      BY <3>3, <3>4, <3>5, <3>6
  <2>7. total = base + UsedBitsPerWord + (count - 2) * UsedBitsPerWord
    <3>1. (count - 2) * UsedBitsPerWord = (count - 1) * UsedBitsPerWord - UsedBitsPerWord
      <4>1. count - 2 = (count - 1) - 1
        BY <1>2
      <4> QED
        BY <1>8, <4>1, OneMore, Widths
    <3>2. (count - 1) * UsedBitsPerWord \in Nat
      BY <1>8, ProductNat, Widths
    <3> QED
      BY <1>2, <1>5, <3>1, <3>2, Widths DEF base
  <2> QED
    BY <1>10, <2>4, <2>5, <2>6, <2>7
<1>12. CASE ~(missing > UsedBitsPerWord /\ count > 1)
  <2>1. whole = 0 /\ needed = missing
    <3>1. whole = 0
      BY <1>2, <1>9, <1>12
    <3> QED
      BY <1>5, <3>1, Widths DEF needed
  <2>2. copied = front
    <3>1. 1..whole = {}
      BY <2>1
    <3>2. copied = [i \in 1..BufferBits |-> front[i]]
      BY <3>1 DEF copied
    <3> QED
      BY <1>7, <3>2 DEF Window
  <2>3. rest = WordsFrom(base, count - 1)
    <3>1. rest = SubSeq(WordsFrom(base, count - 1), 1, count - 1)
      BY <1>8, <2>1 DEF rest
    <3> QED
      BY <1>5, <1>8, <3>1, RestOfWords
  <2>4. total = base + (count - 1) * UsedBitsPerWord
    BY <1>2 DEF base
  <2>5. IF count - 1 = 0 THEN needed \in Nat ELSE needed \in 1..UsedBitsPerWord
    BY <1>2, <1>5, <1>12, <2>1, Widths
  <2> QED
    BY <1>5, <1>7, <1>8, <1>10, <2>1, <2>2, <2>3, <2>4, <2>5
<1> QED
  BY <1>11, <1>12

LEMMA InvNext == IInv /\ [Next]_vars => IInv'
<1> SUFFICES ASSUME IInv, [Next]_vars
             PROVE  IInv'
  OBVIOUS
<1>1. CASE Next
  BY <1>1, FromBufferNext, WithinWordNext, AcrossWordsNext DEF Next, RemoveBits
<1>2. CASE UNCHANGED vars
  BY <1>2 DEF vars, IInv, WordsLeft, Filled, Done
<1> QED
  BY <1>1, <1>2

LEMMA Invariant == Spec => []IInv
BY InvInit, InvNext, PTL DEF Spec

(* RemoveBits: whatever removals lead across whatever word boundaries, the *)
(* buffer is the next bits of the data in order, none twice, none missing. *)
THEOREM WindowCorrect == Spec => []WindowIsNextBits
<1>1. IInv => WindowIsNextBits
  BY DEF IInv, WindowIsNextBits, Window
<1> QED
  BY <1>1, Invariant, PTL

(* RemoveBits: while words are left the buffer is full and is counted      *)
(* full, so BitsAvailable() does not end the loop of the decoder before.   *)
THEOREM FullCorrect == Spec => []FullWhileWordsLeft
<1>1. ASSUME IInv, m_bitstreamData # <<>>
      PROVE  m_bitsAvailable = BufferBits /\ Remaining >= BufferBits
  <2>1. /\ Done + UsedBitsPerWord <= total /\ Done \in Nat
        /\ m_bitsAvailable = BufferBits
        /\ removed + BufferBits = Done + m_bitsUsedOfNextWord
    BY <1>1, Words DEF Exhausted
  <2> QED
    BY <1>1, <2>1, Widths DEF IInv, Remaining
<1>2. IInv => FullWhileWordsLeft
  BY <1>1 DEF FullWhileWordsLeft
<1> QED
  BY <1>2, Invariant, PTL

(* The members of Bitstream keep their ranges, and no word holds a bit     *)
(* that is not of the data.                                                *)
THEOREM TypeCorrect == Spec => []TypeOK
<1>1. ASSUME IInv
      PROVE  TypeOK
  <2>1. m_currentBuffer \in [1..BufferBits -> SUBSET (1..total)]
    BY <1>1, Widths DEF IInv, Window
  <2>2. ASSUME NEW k \in DOMAIN m_bitstreamData
        PROVE  m_bitstreamData[k] \in [1..BufferBits -> SUBSET (1..total)]
    <3> DEFINE before == (k - 1) * UsedBitsPerWord
    <3>1. /\ k \in 1..Len(m_bitstreamData) /\ Len(m_bitstreamData) \in Nat /\ Done \in Nat
          /\ m_bitstreamData[k] = WordAt(Done + before)
      BY <1>1, <2>2 DEF IInv, WordsLeft, WordsFrom
    <3>2. Exhausted => Len(m_bitstreamData) = 0
      BY DEF Exhausted
    <3>3. total = Done + Len(m_bitstreamData) * UsedBitsPerWord
      BY <1>1, <3>1, <3>2, Words
    <3>4. before \in Nat /\ before + UsedBitsPerWord <= Len(m_bitstreamData) * UsedBitsPerWord
      <4>1. before = k * UsedBitsPerWord - UsedBitsPerWord /\ before \in Nat
        BY <3>1, OneMore, ProductNat, Widths
      <4>2. k * UsedBitsPerWord <= Len(m_bitstreamData) * UsedBitsPerWord
        BY <3>1, AtMost, Widths
      <4>3. k * UsedBitsPerWord \in Nat /\ Len(m_bitstreamData) * UsedBitsPerWord \in Nat
        BY <3>1, ProductNat, Widths
      <4> QED
        BY <4>1, <4>2, <4>3, Widths
    <3>5. Done + before + UsedBitsPerWord <= total
      <4>1. Len(m_bitstreamData) * UsedBitsPerWord \in Nat
        BY <3>1, ProductNat, Widths
      <4> QED
        BY <3>1, <3>3, <3>4, <4>1, Widths
    <3> HIDE DEF before
    <3>6. ASSUME NEW i \in 1..BufferBits, i > Spare
          PROVE  Done + before + i - Spare \in 1..total
      BY <1>1, <3>1, <3>4, <3>5, <3>6, Widths DEF IInv
    <3> QED
      BY <3>1, <3>6 DEF WordAt
  <2> QED
    BY <1>1, <2>1, <2>2 DEF TypeOK, IInv
<1> QED
  BY <1>1, Invariant, PTL

===============================================================================
