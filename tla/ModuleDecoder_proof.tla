-------------------------- MODULE ModuleDecoder_proof --------------------------
(***************************************************************************)
(* Proofs about ModuleDecoder: for whatever bits the two lines of a module *)
(* carry, its type invariant, and that the second line takes nothing back  *)
(* of what the first brought; and for lines of packets as modules send     *)
(* them, that every hit arrives and errors do but for the last of a line,  *)
(* and what becomes of the hits of led when headers were damaged.          *)
(***************************************************************************)
EXTENDS ModuleDecoder, Recursion, SequenceTheorems

-------------------------------------------------------------------------------
(* Numbers made of bits. *)

(* Field, of the bits it takes. *)
NumberOf(bits) == FoldLeft(LAMBDA n, bit : 2 * n + bit, 0, bits)

IsNumbering(s, bits) ==
  /\ s \in [0..Len(bits) -> Nat]
  /\ s[0] = 0
  /\ \A n \in 1..Len(bits) : s[n] = 2 * s[n - 1] + bits[n]
  /\ NumberOf(bits) = s[Len(bits)]

LEMMA NumberingExists ==
  ASSUME NEW bits \in Seq({0, 1})
  PROVE  \E s : IsNumbering(s, bits)
<1> DEFINE N == Len(bits)
           D == Nat
           step == [n \in 1..N |-> [t \in D |-> 2 * t + bits[n]]]
           iter[T \in SUBSET DOMAIN bits] ==
             IF T = {} THEN 0
             ELSE LET x == Max(T) IN 2 * iter[T \ {x}] + bits[x]
           P(g) == g = [T \in SUBSET DOMAIN bits |->
                          IF T = {} THEN 0
                          ELSE LET x == Max(T) IN 2 * g[T \ {x}] + bits[x]]
<1>1. NumberOf(bits) = iter[DOMAIN bits]
  BY Zenon DEF NumberOf, FoldLeft, MapThenFoldSet
<1>2. iter = CHOOSE g : P(g)
  BY Zenon DEF iter
<1> HIDE DEF iter
<1>3. N \in Nat /\ DOMAIN bits = 1..N
  OBVIOUS
<1>4. ASSUME NEW n \in 1..N, NEW t \in D
      PROVE  2 * t + bits[n] \in D
  <2>1. bits[n] \in {0, 1}
    OBVIOUS
  <2> QED
    BY <2>1
<1>5. step \in [1..N -> [D -> D]]
  <2> HIDE DEF N, D
  <2> QED
    BY <1>4
<1>6. 0 \in D
  OBVIOUS
<1>7. PICK g \in [SUBSET (1..N) -> D] : IsSequenceFold(N, 0, step, g)
  <2> HIDE DEF N, D, step
  <2> QED
    BY <1>3, <1>5, <1>6, SequenceFoldExists
<1>8. P(g)
  <2>1. ASSUME NEW T \in SUBSET (1..N)
        PROVE  g[T] = IF T = {} THEN 0
                      ELSE LET x == Max(T) IN 2 * g[T \ {x}] + bits[x]
    <3> HIDE DEF N, D
    <3>1. g[T] = IF T = {} THEN 0 ELSE step[Largest(T)][g[T \ {Largest(T)}]]
      <4> HIDE DEF step
      <4> QED
        BY <1>7 DEF IsSequenceFold
    <3>2. CASE T = {}
      BY <3>1, <3>2
    <3>3. CASE T # {}
      <4>1. Max(T) = Largest(T) /\ Max(T) \in T
        BY <1>3, <3>3, MaxOfFirst
      <4>2. g[T \ {Max(T)}] \in D /\ Max(T) \in 1..N
        BY <1>7, <4>1
      <4>3. step[Max(T)][g[T \ {Max(T)}]] = 2 * g[T \ {Max(T)}] + bits[Max(T)]
        BY <4>2
      <4> HIDE DEF step
      <4> QED
        BY <3>1, <3>3, <4>1, <4>3
    <3> QED
      BY <3>2, <3>3
  <2> HIDE DEF N, D, step
  <2> QED
    BY <1>3, <1>7, <2>1
<1>9. P(iter)
  <2> HIDE DEF P
  <2> QED
    BY <1>2, <1>8, Zenon
<1> DEFINE s == [n \in 0..N |-> iter[1..n]]
<1>10. iter[1..0] = 0
  <2>1. 1..0 = {}
    OBVIOUS
  <2> QED
    BY <1>9, <2>1
<1>11. ASSUME NEW n \in 1..N
       PROVE  iter[1..n] = 2 * iter[1..(n - 1)] + bits[n]
  <2>1. Max(1..n) = n /\ 1..n # {} /\ (1..n) \ {n} = 1..(n - 1) /\ 1..n \in SUBSET DOMAIN bits
    BY <1>3, MaxOfFirst
  <2>2. \A T \in SUBSET DOMAIN bits :
          T # {} => iter[T] = 2 * iter[T \ {Max(T)}] + bits[Max(T)]
    BY <1>9
  <2> HIDE DEF N, P
  <2>3. iter[1..n] = 2 * iter[(1..n) \ {n}] + bits[n]
    BY <2>1, <2>2
  <2> QED
    BY <2>1, <2>3
<1> DEFINE S == {n \in 0..N : iter[1..n] \in D}
<1>12. 0..N \subseteq S
  <2>1. 0 \in S
    BY <1>3, <1>6, <1>10
  <2>2. ASSUME NEW n \in 0..(N - 1), n \in S
        PROVE  n + 1 \in S
    <3>1. n + 1 \in 1..N /\ (n + 1) - 1 = n
      BY <1>3
    <3>2. iter[1..(n + 1)] = 2 * iter[1..n] + bits[n + 1]
      BY <1>11, <3>1
    <3>3. iter[1..n] \in D
      BY <2>2
    <3> HIDE DEF D
    <3> QED
      BY <1>4, <3>1, <3>2, <3>3
  <2> HIDE DEF S, N
  <2> QED
    BY <1>3, <2>1, <2>2, UpTo
<1>13. IsNumbering(s, bits)
  <2> HIDE DEF P
  <2>1. s \in [0..N -> D]
    BY <1>12
  <2>2. s[0] = 0 /\ s[N] = NumberOf(bits)
    BY <1>1, <1>3, <1>10
  <2>3. ASSUME NEW n \in 1..N
        PROVE  s[n] = 2 * s[n - 1] + bits[n]
    BY <1>3, <1>11
  <2> HIDE DEF s
  <2> QED
    BY <2>1, <2>2, <2>3 DEF IsNumbering
<1> QED
  BY <1>13, Zenon

LEMMA NumberOfBits ==
  ASSUME NEW bits \in Seq({0, 1})
  PROVE  NumberOf(bits) \in Nat /\ (Len(bits) = 3 => NumberOf(bits) \in 0..7)
<1>1. PICK s : IsNumbering(s, bits)
  BY NumberingExists
<1>2. s[Len(bits)] \in Nat
  BY <1>1 DEF IsNumbering
<1>3. ASSUME Len(bits) = 3
      PROVE  s[3] \in 0..7
  <2>1. bits[1] \in {0, 1} /\ bits[2] \in {0, 1} /\ bits[3] \in {0, 1}
    <3>1. \A n \in 1..Len(bits) : bits[n] \in {0, 1}
      OBVIOUS
    <3>2. 1 \in 1..Len(bits) /\ 2 \in 1..Len(bits) /\ 3 \in 1..Len(bits)
      BY <1>3
    <3> QED
      BY <3>1, <3>2
  <2>2. /\ s[0] = 0
        /\ s[1] = 2 * s[1 - 1] + bits[1]
        /\ s[2] = 2 * s[2 - 1] + bits[2]
        /\ s[3] = 2 * s[3 - 1] + bits[3]
    BY <1>1, <1>3 DEF IsNumbering
  <2>3. s[1] = bits[1] /\ s[2] = 2 * s[1] + bits[2] /\ s[3] = 2 * s[2] + bits[3]
    BY <2>1, <2>2
  <2> QED
    BY <2>1, <2>3
<1> QED
  BY <1>1, <1>2, <1>3 DEF IsNumbering

LEMMA FieldType ==
  ASSUME NEW line, NEW buffer, NEW from \in 1..32, NEW to \in 1..32
  PROVE  /\ Field(WindowOn(line, buffer), from, to) \in Nat
         /\ to = from + 2 => Field(WindowOn(line, buffer), from, to) \in 0..7
<1> DEFINE word == WindowOn(line, buffer)
<1>1. word \in [1..32 -> {0, 1}]
  BY DEF WindowOn
<1> HIDE DEF word
<1>2. /\ SubSeq(word, from, to) \in Seq({0, 1})
      /\ Len(SubSeq(word, from, to)) = IF from <= to THEN to - from + 1 ELSE 0
  <2>1. \A k \in from..to : word[k] \in {0, 1}
    BY <1>1
  <2> QED
    BY <2>1, SubSeqProperties
<1>3. Field(word, from, to) = NumberOf(SubSeq(word, from, to))
  BY Zenon DEF Field, NumberOf
<1>4. to = from + 2 => Len(SubSeq(word, from, to)) = 3
  BY <1>2
<1> QED
  BY <1>2, <1>3, <1>4, NumberOfBits DEF word

-------------------------------------------------------------------------------
(* The event that is filled. *)

Hits   == (0..255) \X (0..7)
ErrorNumbers == 0..7

SCTEvents ==
  {e \in [l1id : Nat, bcid : Nat, complete : BOOLEAN, missingData : BOOLEAN,
          bcidMismatch : BOOLEAN, hasError : BOOLEAN,
          hits : [KnownChips -> Seq(Hits)], errors : [KnownChips -> Seq(ErrorNumbers)]] :
     \A c \in KnownChips : e.errors[c] # <<>> => e.hasError}

(* What e has is in f too. *)
KeptIn(e, f) ==
  /\ f.l1id = e.l1id /\ f.bcid = e.bcid
  /\ \A c \in KnownChips : IsPrefix(e.hits[c], f.hits[c]) /\ IsPrefix(e.errors[c], f.errors[c])

LEMMA PrefixOfItself ==
  ASSUME NEW S, NEW s \in Seq(S)
  PROVE  IsPrefix(s, s)
BY DEF IsPrefix

LEMMA PrefixOfAppended ==
  ASSUME NEW S, NEW s \in Seq(S), NEW x \in S
  PROVE  IsPrefix(s, Append(s, x))
<1>1. /\ Append(s, x) \in Seq(S) /\ Len(Append(s, x)) = Len(s) + 1
      /\ \A k \in 1..Len(s) : Append(s, x)[k] = s[k]
  OBVIOUS
<1> DEFINE n == Len(s)
           t == Append(s, x)
<1>2. n \in Nat /\ s = [k \in 1..n |-> s[k]]
  OBVIOUS
<1> HIDE DEF t
<1>3. \A k \in 1..n : t[k] \in S
  BY <1>1 DEF t
<1>4. SubSeq(t, 1, n) = s
  <2>1. /\ SubSeq(t, 1, n) \in Seq(S)
        /\ Len(SubSeq(t, 1, n)) = n
        /\ \A k \in 1..n : SubSeq(t, 1, n)[k] = t[k]
    BY <1>1, <1>2, <1>3, SubSeqProperties DEF t
  <2> HIDE DEF n
  <2> QED
    BY <1>1, <1>2, <2>1 DEF t
<1>5. SubSeq(s, 1, n) = s
  BY <1>2
<1> QED
  BY <1>1, <1>4, <1>5 DEF IsPrefix, t

LEMMA NewEventType ==
  ASSUME NEW l1id \in Nat, NEW bcid \in Nat
  PROVE  NewEvent(l1id, bcid) \in SCTEvents
BY DEF NewEvent, SCTEvents

LEMMA WithoutChipKeeps ==
  ASSUME NEW e \in SCTEvents
  PROVE  WithoutChip(e) \in SCTEvents /\ KeptIn(e, WithoutChip(e))
<1>1. WithoutChip(e) \in SCTEvents
  BY DEF WithoutChip, SCTEvents
<1>2. /\ WithoutChip(e).l1id = e.l1id /\ WithoutChip(e).bcid = e.bcid
      /\ WithoutChip(e).hits = e.hits /\ WithoutChip(e).errors = e.errors
  BY DEF WithoutChip, SCTEvents
<1>3. \A c \in KnownChips : e.hits[c] \in Seq(Hits) /\ e.errors[c] \in Seq(ErrorNumbers)
  BY DEF SCTEvents
<1> QED
  BY <1>1, <1>2, <1>3, PrefixOfItself DEF KeptIn

LEMMA WithErrorKeeps ==
  ASSUME NEW e \in SCTEvents, NEW c, NEW err \in ErrorNumbers
  PROVE  WithError(e, c, err) \in SCTEvents /\ KeptIn(e, WithError(e, c, err))
<1>1. CASE c \notin KnownChips
  BY <1>1, WithoutChipKeeps DEF WithError
<1>2. CASE c \in KnownChips
  <2> DEFINE f == [e EXCEPT !.hasError = TRUE, !.errors[c] = Append(@, err)]
  <2>1. WithError(e, c, err) = f
    BY <1>2 DEF WithError
  <2>2. /\ \A d \in KnownChips : e.hits[d] \in Seq(Hits) /\ e.errors[d] \in Seq(ErrorNumbers)
        /\ e.hits \in [KnownChips -> Seq(Hits)] /\ e.errors \in [KnownChips -> Seq(ErrorNumbers)]
    BY DEF SCTEvents
  <2>3. /\ f.l1id = e.l1id /\ f.bcid = e.bcid /\ f.hits = e.hits /\ f.hasError
        /\ f.errors = [e.errors EXCEPT ![c] = Append(@, err)]
    BY DEF SCTEvents
  <2>4. f \in SCTEvents
    <3>1. Append(e.errors[c], err) \in Seq(ErrorNumbers)
      BY <1>2, <2>2
    <3>2. [e.errors EXCEPT ![c] = Append(@, err)] \in [KnownChips -> Seq(ErrorNumbers)]
      BY <2>2, <3>1
    <3>3. f \in [l1id : Nat, bcid : Nat, complete : BOOLEAN, missingData : BOOLEAN,
                 bcidMismatch : BOOLEAN, hasError : BOOLEAN,
                 hits : [KnownChips -> Seq(Hits)], errors : [KnownChips -> Seq(ErrorNumbers)]]
      BY <3>2 DEF SCTEvents
    <3> QED
      BY <2>3, <3>3 DEF SCTEvents
  <2>5. \A d \in KnownChips : f.errors[d] = IF d = c THEN Append(e.errors[d], err) ELSE e.errors[d]
    BY <2>2, <2>3
  <2> HIDE DEF f
  <2>6. KeptIn(e, f)
    <3>1. \A d \in KnownChips : IsPrefix(e.hits[d], f.hits[d])
      BY <2>2, <2>3, PrefixOfItself
    <3>2. \A d \in KnownChips : IsPrefix(e.errors[d], f.errors[d])
      BY <2>2, <2>5, PrefixOfItself, PrefixOfAppended
    <3> QED
      BY <2>3, <3>1, <3>2 DEF KeptIn
  <2> QED
    BY <2>1, <2>4, <2>6
<1> QED
  BY <1>1, <1>2

LEMMA WithHitKeeps ==
  ASSUME NEW e \in SCTEvents, NEW c, NEW strip \in Nat, NEW pattern \in 0..7
  PROVE  WithHit(e, c, strip, pattern) \in SCTEvents /\ KeptIn(e, WithHit(e, c, strip, pattern))
<1>1. CASE c \notin KnownChips
  BY <1>1, WithoutChipKeeps DEF WithHit
<1>2. CASE c \in KnownChips
  <2> DEFINE hit == <<strip % 256, pattern>>
             f == [e EXCEPT !.hits[c] = Append(@, hit)]
  <2>1. WithHit(e, c, strip, pattern) = f
    BY <1>2 DEF WithHit
  <2>2. hit \in Hits
    BY DEF Hits
  <2> HIDE DEF hit
  <2>3. /\ \A d \in KnownChips : e.hits[d] \in Seq(Hits) /\ e.errors[d] \in Seq(ErrorNumbers)
        /\ e.hits \in [KnownChips -> Seq(Hits)] /\ e.errors \in [KnownChips -> Seq(ErrorNumbers)]
    BY DEF SCTEvents
  <2>4. /\ f.l1id = e.l1id /\ f.bcid = e.bcid /\ f.errors = e.errors /\ f.hasError = e.hasError
        /\ f.hits = [e.hits EXCEPT ![c] = Append(@, hit)]
    BY DEF SCTEvents
  <2>5. f \in SCTEvents
    <3>1. Append(e.hits[c], hit) \in Seq(Hits)
      BY <1>2, <2>2, <2>3
    <3>2. [e.hits EXCEPT ![c] = Append(@, hit)] \in [KnownChips -> Seq(Hits)]
      BY <2>3, <3>1
    <3>3. f \in [l1id : Nat, bcid : Nat, complete : BOOLEAN, missingData : BOOLEAN,
                 bcidMismatch : BOOLEAN, hasError : BOOLEAN,
                 hits : [KnownChips -> Seq(Hits)], errors : [KnownChips -> Seq(ErrorNumbers)]]
      BY <3>2 DEF SCTEvents
    <3> QED
      BY <2>4, <3>3 DEF SCTEvents
  <2>6. \A d \in KnownChips : f.hits[d] = IF d = c THEN Append(e.hits[d], hit) ELSE e.hits[d]
    BY <2>3, <2>4
  <2> HIDE DEF f
  <2>7. KeptIn(e, f)
    <3>1. \A d \in KnownChips : IsPrefix(e.errors[d], f.errors[d])
      BY <2>3, <2>4, PrefixOfItself
    <3>2. \A d \in KnownChips : IsPrefix(e.hits[d], f.hits[d])
      BY <2>2, <2>3, <2>6, PrefixOfItself, PrefixOfAppended
    <3> QED
      BY <2>4, <3>1, <3>2 DEF KeptIn
  <2> QED
    BY <2>1, <2>5, <2>7
<1> QED
  BY <1>1, <1>2

-------------------------------------------------------------------------------
(* The inductive invariant. *)

Control ==
  /\ LED \in {0, 1}
  /\ pc \in {"side", "packet", "firstHit", "hit", "align", "done"}
  /\ praeambleFound \in BOOLEAN /\ first \in BOOLEAN
  /\ praeambleFound => sctEvent # {} /\ ~first
  /\ pc \in {"firstHit", "hit", "align"} => praeambleFound

Filled == sctEvent = {} \/ \E e \in SCTEvents : sctEvent = {e}

IInv ==
  /\ Control
  /\ Filled
  /\ chip \in Nat /\ channel \in Nat
  /\ m_bitsAvailable \in 0..32

LEMMA InvInit == Init => IInv
BY DEF Init, IInv, Control, Filled

LEMMA BitsRemoved ==
  ASSUME m_bitsAvailable \in 0..32, NEW n \in Nat, Stream!RemoveBits(n)
  PROVE  m_bitsAvailable' \in 0..32
<1>1. ASSUME NEW k \in Nat
      PROVE  Stream!NotBelowZero(m_bitsAvailable - k) \in 0..32
  BY DEF Stream!NotBelowZero
<1>2. (n - 24) % UIntModulus \in Nat
  BY UIntAssumption
<1>3. PICK k \in Nat : k = (n - 24) % UIntModulus
  BY <1>2
<1>4. Stream!NotBelowZero(m_bitsAvailable - k) \in 0..32
  BY <1>1
<1>5. CASE Stream!RemoveFromBuffer(n)
  BY <1>1, <1>5 DEF Stream!RemoveFromBuffer
<1>6. CASE Stream!RemoveWithinWord(n)
  BY <1>6 DEF Stream!RemoveWithinWord
<1>7. CASE Stream!RemoveAcrossWords(n)
  BY <1>3, <1>4, <1>7 DEF Stream!RemoveAcrossWords
<1> QED
  BY <1>5, <1>6, <1>7 DEF Stream!RemoveBits

(* What a step does to the event: nothing, or it begins one, or it adds    *)
(* to the one there is.                                                    *)
Added ==
  \/ sctEvent' = sctEvent
  \/ /\ LED = 1 => sctEvent = {}
     /\ \E e \in SCTEvents : sctEvent' = {e}
  \/ \E e, f \in SCTEvents : sctEvent = {e} /\ sctEvent' = {f} /\ KeptIn(e, f)

LEMMA AddedFilled == Filled /\ Added => Filled'
BY DEF Filled, Added

LEMMA InvNext == IInv /\ [Next]_vars => IInv' /\ Added
<1> SUFFICES ASSUME IInv, [Next]_vars
             PROVE  IInv' /\ Added
  OBVIOUS
<1> USE DEF Control
<1>1. /\ Control /\ Filled /\ chip \in Nat /\ channel \in Nat /\ m_bitsAvailable \in 0..32
  BY DEF IInv
<1>2. \A from, to \in 1..32 : Field(GetWord32, from, to) \in Nat
                              /\ (to = from + 2 => Field(GetWord32, from, to) \in 0..7)
  BY FieldType DEF GetWord32
<1>3. \A from, to \in 1..32 : Field(HeaderWord, from, to) \in Nat
  <2>1. HeaderWord \in {GetWord32, OtherWord32}
    BY DEF HeaderWord
  <2>2. \A from, to \in 1..32 : Field(OtherWord32, from, to) \in Nat
    BY FieldType DEF OtherWord32, FirstWord
  <2> QED
    BY <1>2, <2>1, <2>2
<1> DEFINE Goal == /\ Control' /\ Added
                   /\ chip' \in Nat /\ channel' \in Nat /\ m_bitsAvailable' \in 0..32
<1> SUFFICES Goal
  <2>1. Goal => Filled'
    BY <1>1, AddedFilled
  <2> QED
    BY <2>1 DEF IInv
<1>4. CASE StartSide
  <2>1. Stream!Constructed(Len(data[LED]) \div 24).m_bitsAvailable \in 0..32
    BY DEF Stream!Constructed, Stream!Spare
  <2>2. sctEvent' = sctEvent /\ (chip' = chip /\ channel' = channel)
    BY <1>4 DEF StartSide
  <2>3. m_bitsAvailable' \in 0..32
    BY <1>4, <2>1, Zenon DEF StartSide
  <2>4. Control'
    BY <1>1, <1>4 DEF StartSide, LocalsOfSide
  <2> QED
    BY <1>1, <2>2, <2>3, <2>4 DEF Added
<1>5. CASE LeaveSide
  <2>1. UNCHANGED <<m_bitsAvailable, praeambleFound, first, chip, channel, sctEvent>>
    BY <1>5 DEF LeaveSide, bitstream
  <2>2. Control'
    BY <1>1, <1>5, <2>1 DEF LeaveSide
  <2> QED
    BY <1>1, <2>1, <2>2 DEF Added
<1>6. CASE ModuleHeader
  <2>1. m_bitsAvailable' \in 0..32
    BY <1>1, <1>6, BitsRemoved DEF ModuleHeader
  <2>2. PICK e \in SCTEvents : e = NewEvent(Field(HeaderWord, 7, 10), Field(HeaderWord, 11, 18))
    <3>1. /\ Field(HeaderWord, 7, 10) \in Nat
          /\ Field(HeaderWord, 11, 18) \in Nat
      BY <1>3
    <3> QED
      BY <3>1, NewEventType
  <2>3. sctEvent' = IF BeginsEvent THEN {e} ELSE sctEvent
    BY <1>6, <2>2 DEF ModuleHeader
  <2>4. Added
    BY <1>1, <2>3 DEF Added, BeginsEvent
  <2>5. sctEvent' # {}
    BY <2>3 DEF BeginsEvent
  <2>6. /\ LED' = LED /\ pc' = pc /\ praeambleFound' = TRUE /\ first' = FALSE
        /\ chip' = chip /\ channel' = channel
    BY <1>6 DEF ModuleHeader
  <2> QED
    BY <1>1, <2>1, <2>4, <2>5, <2>6
<1>7. CASE NoPraeamble
  <2>1. m_bitsAvailable' \in 0..32
    BY <1>1, <1>7, BitsRemoved DEF NoPraeamble
  <2> QED
    BY <1>1, <1>7, <2>1 DEF NoPraeamble, Added
<1>8. CASE ErrorPacket
  <2>1. m_bitsAvailable' \in 0..32
    BY <1>1, <1>8, BitsRemoved DEF ErrorPacket
  <2>2. PICK c \in Nat, err \in ErrorNumbers :
          c = Field(GetWord32, 4, 7) /\ err = Field(GetWord32, 8, 10)
    BY <1>2 DEF ErrorNumbers
  <2>3. sctEvent' = {WithError(e, c, err) : e \in sctEvent}
    BY <1>8, <2>2 DEF ErrorPacket
  <2>4. Added /\ (sctEvent # {} => sctEvent' # {})
    <3>1. CASE sctEvent = {}
      BY <2>3, <3>1 DEF Added
    <3>2. CASE sctEvent # {}
      <4>1. PICK e \in SCTEvents : sctEvent = {e}
        BY <1>1, <3>2 DEF Filled
      <4>2. sctEvent' = {WithError(e, c, err)}
        BY <2>3, <4>1
      <4> QED
        BY <4>1, <4>2, WithErrorKeeps DEF Added
    <3> QED
      BY <3>1, <3>2
  <2>5. UNCHANGED <<LED, pc, praeambleFound, first, chip, channel>>
    BY <1>8 DEF ErrorPacket
  <2> QED
    BY <1>1, <2>1, <2>4, <2>5
<1>9. CASE ConfigPacket
  <2>1. m_bitsAvailable' \in 0..32
    BY <1>1, <1>9, BitsRemoved DEF ConfigPacket
  <2> QED
    BY <1>1, <1>9, <2>1 DEF ConfigPacket, Added
<1>10. CASE NoDataPacket
  <2>1. m_bitsAvailable' \in 0..32
    BY <1>1, <1>10, BitsRemoved DEF NoDataPacket
  <2> QED
    BY <1>1, <1>10, <2>1 DEF NoDataPacket, Added
<1>11. CASE DataPacket
  <2>1. m_bitsAvailable' \in 0..32
    BY <1>1, <1>11, BitsRemoved DEF DataPacket
  <2>2. PICK c \in Nat : c = Field(GetWord32, 7, 13)
    BY <1>2
  <2>3. chip' \in Nat
    BY <1>2, <1>11 DEF DataPacket
  <2>4. Repaired(c) \in Nat
    BY DEF Repaired
  <2>5. channel' \in {c, Repaired(c)}
    BY <1>11, <2>2 DEF DataPacket
  <2>6. /\ UNCHANGED <<LED, praeambleFound, first, sctEvent>>
        /\ pc' = "firstHit" /\ praeambleFound
    BY <1>11 DEF DataPacket, InEvent
  <2> QED
    BY <1>1, <2>1, <2>3, <2>4, <2>5, <2>6 DEF Added
<1>12. CASE Hit
  <2>1. m_bitsAvailable' \in 0..32
    BY <1>1, <1>12, BitsRemoved DEF Hit
  <2>2. PICK pattern \in 0..7 : pattern = Field(GetWord32, 2, 4)
    BY <1>2
  <2>3. sctEvent' = {WithHit(e, chip, channel, pattern) : e \in sctEvent}
    BY <1>12, <2>2 DEF Hit
  <2>4. Added /\ (sctEvent # {} => sctEvent' # {})
    <3>1. CASE sctEvent = {}
      BY <2>3, <3>1 DEF Added
    <3>2. CASE sctEvent # {}
      <4>1. PICK e \in SCTEvents : sctEvent = {e}
        BY <1>1, <3>2 DEF Filled
      <4>2. sctEvent' = {WithHit(e, chip, channel, pattern)}
        BY <2>3, <4>1
      <4> QED
        BY <1>1, <4>1, <4>2, WithHitKeeps DEF Added
    <3> QED
      BY <3>1, <3>2
  <2>5. /\ UNCHANGED <<LED, praeambleFound, first, chip>> /\ pc' = "hit"
        /\ praeambleFound /\ channel' \in {channel, channel + 1}
    BY <1>1, <1>12 DEF Hit, MoreHits
  <2> QED
    BY <1>1, <2>1, <2>4, <2>5
<1>13. CASE HitsEnd
  BY <1>1, <1>13 DEF HitsEnd, Added, bitstream
<1>14. CASE UnableToDecode
  BY <1>1, <1>14 DEF UnableToDecode, Unknown, InEvent, Added, bitstream
<1>15. CASE Align
  <2>1. m_bitsAvailable' \in 0..32
    BY <1>1, <1>15, BitsRemoved DEF Align
  <2> QED
    BY <1>1, <1>15, <2>1 DEF Align, Added
<1>16. CASE EndAlign
  BY <1>1, <1>16 DEF EndAlign, Added, bitstream
<1>17. CASE SkipZeros
  <2>1. m_bitsAvailable' \in 0..32
    BY <1>1, <1>17, BitsRemoved DEF SkipZeros
  <2> QED
    BY <1>1, <1>17, <2>1 DEF SkipZeros, Added
<1>18. CASE UNCHANGED vars
  BY <1>1, <1>18 DEF vars, bitstream, Added
<1> HIDE DEF Control
<1>19. NoBitsAvailable \/ Trailer => LeaveSide
  BY DEF NoBitsAvailable, Trailer
<1> QED
  BY <1>4, <1>5, <1>6, <1>7, <1>8, <1>9, <1>10, <1>11, <1>12, <1>13, <1>14, <1>15, <1>16,
     <1>17, <1>18, <1>19 DEF Next

LEMMA Invariant == Spec => []IInv
<1>1. Init => IInv
  BY InvInit
<1>2. IInv /\ [Next]_vars => IInv'
  BY InvNext
<1> QED
  BY <1>1, <1>2, PTL DEF Spec

(* Whatever bits arrive, there is an event whenever one is filled, no      *)
(* strip is wider than a byte, and the count of bits stays in its range.   *)
THEOREM TypeCorrect == Spec => []TypeOK
<1>1. IInv => TypeOK
  <2> SUFFICES ASSUME IInv
               PROVE  TypeOK
    OBVIOUS
  <2>1. Cardinality(sctEvent) <= 1
    <3>1. CASE sctEvent = {}
      BY <3>1, FS_EmptySet
    <3>2. CASE sctEvent # {}
      <4>1. PICK e : sctEvent = {e}
        BY <3>2 DEF IInv, Filled
      <4>2. Cardinality(sctEvent) = 1
        BY <4>1, FS_Singleton
      <4> QED
        BY <4>2
    <3> QED
      BY <3>1, <3>2
  <2>2. \A e \in sctEvent : e \in SCTEvents
    BY DEF IInv, Filled
  <2>3. ASSUME NEW e \in sctEvent, NEW c \in KnownChips
        PROVE  /\ Range(e.hits[c]) \subseteq (0..255) \X (0..7)
               /\ Range(e.errors[c]) \subseteq 0..7
               /\ e.errors[c] # <<>> => e.hasError
    <3>1. e.hits[c] \in Seq(Hits) /\ e.errors[c] \in Seq(ErrorNumbers)
          /\ (e.errors[c] # <<>> => e.hasError)
      BY <2>2 DEF SCTEvents
    <3>2. \A S : \A s \in Seq(S) : Range(s) \subseteq S
      BY DEF Range
    <3> QED
      BY <3>1, <3>2 DEF Hits, ErrorNumbers
  <2> QED
    BY <2>1, <2>3 DEF IInv, Control, TypeOK
<1> QED
  BY <1>1, Invariant, PTL

(* Whatever arrives on ledx, nothing that led brought is lost, and the     *)
(* event keeps its identity.                                               *)
THEOREM LedIsKept == Spec => LedKept
<1>1. ASSUME IInv, [Next]_vars
      PROVE  LED = 1 =>
               \A e \in sctEvent : \E f \in sctEvent' :
                 /\ f.l1id = e.l1id /\ f.bcid = e.bcid
                 /\ \A c \in KnownChips : IsPrefix(e.hits[c], f.hits[c]) /\ IsPrefix(e.errors[c], f.errors[c])
  <2>1. Added
    BY <1>1, InvNext
  <2>2. ASSUME LED = 1, NEW e \in sctEvent
        PROVE  \E f \in sctEvent' : KeptIn(e, f)
    <3>1. e \in SCTEvents
      BY <1>1 DEF IInv, Filled
    <3>2. CASE sctEvent' = sctEvent
      <4>1. KeptIn(e, e)
        BY <3>1, PrefixOfItself DEF KeptIn, SCTEvents
      <4> QED
        BY <3>2, <4>1
    <3>3. CASE sctEvent' # sctEvent
      BY <2>1, <2>2, <3>3 DEF Added
    <3> QED
      BY <3>2, <3>3
  <2> QED
    BY <2>2 DEF KeptIn
<1> QED
  BY <1>1, Invariant, PTL DEF Spec, LedKept

-------------------------------------------------------------------------------
Bit == {0, 1}

(* A number and its digits. *)

LEMMA DigitsAre ==
  ASSUME NEW n \in Nat, NEW w \in 1..8
  PROVE  /\ Digits(n, w) \in Seq(Bit) /\ Len(Digits(n, w)) = w
         /\ \A i \in 1..w : Digits(n, w)[i] = (n \div BitValues[w - i + 1]) % 2
<1>1. ASSUME NEW i \in 1..w
      PROVE  (n \div BitValues[w - i + 1]) % 2 \in Bit
  <2>1. w - i + 1 \in 1..8
    OBVIOUS
  <2>2. \A k \in 1..8 : BitValues[k] \in Nat \ {0}
    BY DEF BitValues
  <2>3. PICK d \in Nat \ {0} : d = BitValues[w - i + 1]
    BY <2>1, <2>2
  <2>4. n \div d \in Nat
    OBVIOUS
  <2> QED
    BY <2>3, <2>4 DEF Bit
<1> QED
  BY <1>1 DEF Digits

LEMMA Halved ==
  ASSUME NEW n \in Nat, NEW q, q = n \div 2, NEW b, b = n % 2
  PROVE  q \in Nat /\ b \in Bit /\ n = 2 * q + b
<1>1. PICK r \in Nat, c \in 0..1 : r = n \div 2 /\ c = n % 2
  OBVIOUS
<1>2. n = 2 * r + c
  BY <1>1
<1> QED
  BY <1>1, <1>2 DEF Bit

LEMMA Quotients ==
  ASSUME NEW n \in Nat
  PROVE  \E q \in [1..8 -> Nat], r \in [1..8 -> Bit] :
           /\ \A k \in 1..8 : q[k] = n \div BitValues[k] /\ r[k] = (n \div BitValues[k]) % 2
           /\ \A k \in 1..7 : q[k] = 2 * q[k + 1] + r[k]
           /\ q[1] = n
<1> DEFINE q == [k \in 1..8 |-> n \div BitValues[k]]
           r == [k \in 1..8 |-> (n \div BitValues[k]) % 2]
<1>1. q \in [1..8 -> Nat] /\ r \in [1..8 -> Bit]
  <2>1. ASSUME NEW k \in 1..8
        PROVE  n \div BitValues[k] \in Nat /\ (n \div BitValues[k]) % 2 \in Bit
    <3>1. PICK d \in Nat \ {0} : d = BitValues[k]
      BY DEF BitValues
    <3>2. n \div d \in Nat
      OBVIOUS
    <3> QED
      BY <3>1, <3>2 DEF Bit
  <2> QED
    BY <2>1
<1>2. /\ q[1] = n \div 1 /\ q[2] = n \div 2 /\ q[3] = n \div 4 /\ q[4] = n \div 8
      /\ q[5] = n \div 16 /\ q[6] = n \div 32 /\ q[7] = n \div 64 /\ q[8] = n \div 128
  BY DEF BitValues
<1>3. \A k \in 1..8 : q[k] = n \div BitValues[k] /\ r[k] = (n \div BitValues[k]) % 2
  OBVIOUS
<1> HIDE DEF q, r
<1>4. ASSUME NEW k \in 1..7
      PROVE  q[k + 1] = q[k] \div 2
  <2>1. CASE k = 1
    BY <1>2, <2>1
  <2>2. CASE k = 2
    BY <1>2, <2>2
  <2>3. CASE k = 3
    BY <1>2, <2>3
  <2>4. CASE k = 4
    BY <1>2, <2>4
  <2>5. CASE k = 5
    BY <1>2, <2>5
  <2>6. CASE k = 6
    BY <1>2, <2>6
  <2>7. CASE k = 7
    BY <1>2, <2>7
  <2> QED
    BY <2>1, <2>2, <2>3, <2>4, <2>5, <2>6, <2>7
<1>5. ASSUME NEW k \in 1..7
      PROVE  q[k] = 2 * q[k + 1] + r[k]
  <2>1. q[k] \in Nat /\ q[k + 1] = q[k] \div 2 /\ k \in 1..8
    BY <1>1, <1>4
  <2>2. r[k] = q[k] % 2
    BY <1>3, <2>1
  <2>3. PICK m \in Nat : m = q[k]
    BY <2>1
  <2>4. PICK h \in Nat, c \in Bit : h = q[k + 1] /\ c = r[k]
    BY <1>1, <2>1
  <2>5. m = 2 * h + c
    BY <2>1, <2>2, <2>3, <2>4, Halved, ZenonT(120)
  <2> QED
    BY <2>3, <2>4, <2>5
<1>6. q[1] = n
  BY <1>2
<1> QED
  BY <1>1, <1>3, <1>5, <1>6

LEMMA NumberOfDigits ==
  ASSUME NEW w \in 1..7, NEW n \in Nat, n < BitValues[w + 1]
  PROVE  NumberOf(Digits(n, w)) = n
<1>1. PICK bits : bits = Digits(n, w)
  OBVIOUS
<1>2. /\ bits \in Seq(Bit) /\ Len(bits) = w
      /\ \A i \in 1..w : bits[i] = (n \div BitValues[w - i + 1]) % 2
  <2>1. w \in 1..8
    OBVIOUS
  <2> QED
    BY <1>1, <2>1, DigitsAre
<1>3. PICK s : IsNumbering(s, bits)
  BY <1>2, NumberingExists DEF Bit
<1>4. s[0] = 0 /\ \A i \in 1..w : s[i] = 2 * s[i - 1] + bits[i]
  BY <1>2, <1>3 DEF IsNumbering
<1>5. PICK q \in [1..8 -> Nat], r \in [1..8 -> Bit] :
        /\ \A k \in 1..8 : q[k] = n \div BitValues[k] /\ r[k] = (n \div BitValues[k]) % 2
        /\ \A k \in 1..7 : q[k] = 2 * q[k + 1] + r[k]
        /\ q[1] = n
  BY Quotients
<1> DEFINE S == {i \in 0..w : s[i] = q[w - i + 1]}
<1>6. 0 \in S
  <2>1. PICK d \in Nat \ {0} : d = BitValues[w + 1]
    BY DEF BitValues
  <2>2. n \div d = 0
    BY <2>1
  <2>3. w + 1 \in 1..8 /\ w - 0 + 1 = w + 1
    OBVIOUS
  <2>4. q[w + 1] = 0
    BY <1>5, <2>1, <2>2, <2>3
  <2> QED
    BY <1>4, <2>3, <2>4
<1>7. ASSUME NEW i \in 0..(w - 1), i \in S
      PROVE  i + 1 \in S
  <2>1. PICK k \in 1..7 : k = w - i
    OBVIOUS
  <2>2. i + 1 \in 1..w /\ (i + 1) - 1 = i /\ w - (i + 1) + 1 = k /\ w - i + 1 = k + 1 /\ k \in 1..8
    BY <2>1
  <2>3. bits[i + 1] = r[k]
    BY <1>2, <1>5, <2>2
  <2>4. s[i + 1] = 2 * s[i] + bits[i + 1]
    BY <1>4, <2>2
  <2>5. s[i] = q[k + 1]
    BY <1>7, <2>2
  <2>6. s[i + 1] = q[k]
    <3>1. q[k] = 2 * q[k + 1] + r[k]
      BY <1>5
    <3> QED
      BY <2>3, <2>4, <2>5, <3>1
  <2> QED
    BY <2>2, <2>6
<1>8. w \in S
  <2> HIDE DEF S
  <2>1. 0..w \subseteq S
    BY <1>6, <1>7, UpTo
  <2> QED
    BY <2>1
<1>9. s[w] = n
  BY <1>5, <1>8
<1> QED
  BY <1>1, <1>2, <1>3, <1>9 DEF IsNumbering

(* A field that holds a number is read as the number. *)
LEMMA FieldIs ==
  ASSUME NEW word \in [1..32 -> Bit], NEW w \in 1..7, NEW n \in Nat, n < BitValues[w + 1],
         NEW from \in 1..32, from + w - 1 <= 32,
         \A i \in 1..w : word[from + i - 1] = Digits(n, w)[i]
  PROVE  Field(word, from, from + w - 1) = n
<1> DEFINE to == from + w - 1
<1>1. /\ SubSeq(word, from, to) \in Seq(Bit) /\ Len(SubSeq(word, from, to)) = w
      /\ \A i \in 1..w : SubSeq(word, from, to)[i] = word[from + i - 1]
  <2>1. \A i \in from..to : word[i] \in Bit
    OBVIOUS
  <2>2. /\ SubSeq(word, from, to) \in Seq(Bit)
        /\ Len(SubSeq(word, from, to)) = IF from <= to THEN to - from + 1 ELSE 0
        /\ \A i \in 1..(to - from + 1) : SubSeq(word, from, to)[i] = word[from + i - 1]
    BY <2>1, SubSeqProperties
  <2>3. from + w - 1 - from + 1 = w /\ from <= to
    OBVIOUS
  <2> QED
    BY <2>2, <2>3
<1>2. /\ Digits(n, w) \in Seq(Bit) /\ Len(Digits(n, w)) = w
  <2>1. w \in 1..8
    OBVIOUS
  <2> QED
    BY <2>1, DigitsAre
<1>3. SubSeq(word, from, to) = Digits(n, w)
  <2>1. \A i \in 1..w : SubSeq(word, from, to)[i] = Digits(n, w)[i]
    BY <1>1
  <2> HIDE DEF to
  <2> QED
    BY <1>1, <1>2, <2>1, SeqEqual
<1>4. Field(word, from, to) = NumberOf(SubSeq(word, from, to))
  BY Zenon DEF Field, NumberOf
<1> HIDE DEF to
<1>5. Field(word, from, to) = n
  BY <1>3, <1>4, NumberOfDigits
<1> QED
  BY <1>5 DEF to

-------------------------------------------------------------------------------
(* The bits of each kind of packet. *)

IsPacket(p) ==
  /\ p \in SendablePackets
  /\ p.kind = "data" => p.hits # <<>> /\ p.channel + Len(p.hits) <= 256

IsBits(s, n) == s \in Seq(Bit) /\ Len(s) = n

Joined(u, s, t) == u = s \o t

(* The n bits of t follow the first m of u. *)
Follows(u, m, t, n) == \A k \in 1..n : u[m + k] = t[k]

LEMMA TwoParts ==
  ASSUME NEW m \in Nat, NEW n \in Nat, NEW s, IsBits(s, m), NEW t, IsBits(t, n),
         NEW u, Joined(u, s, t)
  PROVE  IsBits(u, m + n) /\ Follows(u, 0, s, m) /\ Follows(u, m, t, n)
<1>1. u \in Seq(Bit)
  BY ConcatProperties DEF IsBits, Joined
<1>2. /\ Len(u) = Len(s) + Len(t)
      /\ \A k \in 1..Len(s) : u[k] = s[k]
      /\ \A k \in 1..Len(t) : u[Len(s) + k] = t[k]
  <2>1. s \in Seq(Bit) /\ t \in Seq(Bit) /\ u = s \o t
    BY DEF IsBits, Joined
  <2> QED
    BY <2>1, Concatenated
<1> QED
  BY <1>1, <1>2 DEF IsBits, Follows

LEMMA KindsOfPackets ==
  ASSUME NEW p, IsPacket(p)
  PROVE  /\ p.kind \in {"header", "data", "error", "config", "nodata", "trailer"}
         /\ p.kind = "header" => p.l1id \in 0..15 /\ p.bcid \in 0..255
         /\ p.kind = "data" =>
              /\ p.chip \in 0..15 /\ p.channel \in 0..127
              /\ p.hits \in Seq(0..7) /\ p.hits # <<>> /\ p.channel + Len(p.hits) <= 256
         /\ p.kind = "error" => p.chip \in 0..15 /\ p.err \in 0..7
         /\ p.kind = "config" => p.chip \in 0..15 /\ p.conf1 \in 0..255 /\ p.conf2 \in 0..255
<1>1. CASE p \in [kind : {"header"}, l1id : 0..15, bcid : 0..255]
  BY <1>1
<1>2. CASE p \in [kind : {"data"}, chip : 0..15, channel : 0..127, hits : Seq(0..7)]
  BY <1>2 DEF IsPacket
<1>3. CASE p \in [kind : {"error"}, chip : 0..15, err : 0..7]
  BY <1>3
<1>4. CASE p \in [kind : {"config"}, chip : 0..15, conf1 : 0..255, conf2 : 0..255]
  BY <1>4
<1>5. CASE p \in [kind : {"nodata", "trailer"}]
  BY <1>5
<1> QED
  BY <1>1, <1>2, <1>3, <1>4, <1>5, ZenonT(30) DEF IsPacket, SendablePackets

LEMMA NoDataBits ==
  ASSUME NEW p, p.kind = "nodata", NEW b, b = PacketBits(p)
  PROVE  IsBits(b, 3) /\ b[1] = 0 /\ b[2] = 0 /\ b[3] = 1
BY DEF PacketBits, Bit, IsBits

LEMMA TrailerIs ==
  ASSUME NEW p, p.kind = "trailer", NEW b, b = PacketBits(p)
  PROVE  /\ IsBits(b, 16) /\ b[1] = 1 /\ \A i \in 2..16 : b[i] = 0
         /\ b = TrailerBits
BY DEF PacketBits, Bit, TrailerBits, IsBits

LEMMA SmallDigits ==
  ASSUME NEW n \in Nat
  PROVE  /\ IsBits(Digits(n, 3), 3) /\ IsBits(Digits(n, 4), 4)
         /\ IsBits(Digits(n, 7), 7) /\ IsBits(Digits(n, 8), 8)
<1>1. 3 \in 1..8 /\ 4 \in 1..8 /\ 7 \in 1..8 /\ 8 \in 1..8
  OBVIOUS
<1> QED
  BY <1>1, DigitsAre DEF IsBits

LEMMA SmallSequences ==
  /\ IsBits(<<1>>, 1) /\ IsBits(<<0, 1>>, 2) /\ IsBits(<<0, 0, 0>>, 3) /\ IsBits(<<0, 0, 1>>, 3)
  /\ IsBits(<<1, 1, 1>>, 3) /\ IsBits(<<1,1,1,0,1,0>>, 6)
BY DEF Bit, IsBits

LEMMA HeaderBits ==
  ASSUME NEW p, IsPacket(p), p.kind = "header", NEW b, b = PacketBits(p)
  PROVE  /\ IsBits(b, 19)
         /\ b[1] = 1 /\ b[2] = 1 /\ b[3] = 1 /\ b[4] = 0 /\ b[5] = 1 /\ b[6] = 0
         /\ b[19] = 1
<1>1. p.l1id \in 0..15 /\ p.bcid \in 0..255
  BY KindsOfPackets
<1>2. PICK l1id \in Nat, bcid \in Nat : l1id = p.l1id /\ bcid = p.bcid
  BY <1>1
<1>3. PICK s1, s2, s3 :
        /\ s1 = <<1,1,1,0,1,0>>
        /\ Joined(s2, s1, Digits(l1id, 4)) /\ Joined(s3, s2, Digits(bcid, 8))
        /\ s3 = <<1,1,1,0,1,0>> \o Digits(l1id, 4) \o Digits(bcid, 8)
  BY DEF Joined
<1>4. Joined(b, s3, <<1>>)
  BY <1>2, <1>3 DEF PacketBits, Joined
<1>5. IsBits(s1, 6)
  BY <1>3, SmallSequences
<1>6. IsBits(s2, 6 + 4) /\ Follows(s2, 0, s1, 6)
  BY <1>3, <1>5, SmallDigits, TwoParts
<1>7. IsBits(s3, 10 + 8) /\ Follows(s3, 0, s2, 10)
  BY <1>3, <1>6, SmallDigits, TwoParts
<1>8. IsBits(b, 18 + 1) /\ Follows(b, 0, s3, 18) /\ Follows(b, 18, <<1>>, 1)
  BY <1>4, <1>7, SmallSequences, TwoParts
<1>9. b[19] = 1
  BY <1>8 DEF Follows
<1>10. \A k \in 1..6 : b[k] = s1[k]
  BY <1>6, <1>7, <1>8 DEF Follows
<1> QED
  BY <1>3, <1>8, <1>9, <1>10

LEMMA ErrorBits ==
  ASSUME NEW p, IsPacket(p), p.kind = "error", NEW b, b = PacketBits(p)
  PROVE  /\ IsBits(b, 11)
         /\ b[1] = 0 /\ b[2] = 0 /\ b[3] = 0 /\ b[11] = 1
         /\ Follows(b, 3, Digits(p.chip, 4), 4) /\ Follows(b, 7, Digits(p.err, 3), 3)
<1>1. p.chip \in 0..15 /\ p.err \in 0..7
  BY KindsOfPackets
<1>2. PICK chips, errs, s1, s2, s3 :
        /\ chips = Digits(p.chip, 4) /\ errs = Digits(p.err, 3)
        /\ s1 = <<0, 0, 0>>
        /\ Joined(s2, s1, chips) /\ Joined(s3, s2, errs)
        /\ s3 = <<0, 0, 0>> \o Digits(p.chip, 4) \o Digits(p.err, 3)
  BY DEF Joined
<1>3. Joined(b, s3, <<1>>)
  BY <1>2 DEF PacketBits, Joined
<1>4. IsBits(s1, 3) /\ IsBits(chips, 4) /\ IsBits(errs, 3)
  BY <1>1, <1>2, SmallSequences, SmallDigits
<1>5. IsBits(s2, 3 + 4) /\ Follows(s2, 0, s1, 3) /\ Follows(s2, 3, chips, 4)
  BY <1>2, <1>4, TwoParts
<1>6. IsBits(s3, 7 + 3) /\ Follows(s3, 0, s2, 7) /\ Follows(s3, 7, errs, 3)
  BY <1>2, <1>4, <1>5, TwoParts
<1>7. IsBits(b, 10 + 1) /\ Follows(b, 0, s3, 10) /\ Follows(b, 10, <<1>>, 1)
  BY <1>3, <1>6, SmallSequences, TwoParts
<1>8. b[11] = 1
  BY <1>7 DEF Follows
<1>9. \A k \in 1..3 : b[k] = s1[k]
  BY <1>5, <1>6, <1>7 DEF Follows
<1>10. Follows(b, 3, chips, 4)
  BY <1>5, <1>6, <1>7 DEF Follows
<1>11. Follows(b, 7, errs, 3)
  BY <1>6, <1>7 DEF Follows
<1> QED
  BY <1>2, <1>7, <1>8, <1>9, <1>10, <1>11

LEMMA ConfigBits ==
  ASSUME NEW p, IsPacket(p), p.kind = "config", p.conf1 < 128, NEW b, b = PacketBits(p)
  PROVE  /\ IsBits(b, 28)
         /\ b[1] = 0 /\ b[2] = 0 /\ b[3] = 0
         /\ b[8] = 1 /\ b[9] = 1 /\ b[10] = 1 /\ b[11] = 0 /\ b[19] = 1 /\ b[28] = 1
<1>1. p.chip \in Nat /\ p.conf1 \in 0..127 /\ p.conf2 \in Nat /\ p.conf1 \in Nat
  <2>1. p.chip \in 0..15 /\ p.conf1 \in 0..255 /\ p.conf2 \in 0..255
    BY KindsOfPackets
  <2> QED
    BY <2>1
<1>2. PICK chips, conf1, conf2, s1, s2, s3, s4, s5, s6, ones, one :
        /\ chips = Digits(p.chip, 4) /\ conf1 = Digits(p.conf1, 8) /\ conf2 = Digits(p.conf2, 8)
        /\ s1 = <<0, 0, 0>> /\ ones = <<1, 1, 1>> /\ one = <<1>>
        /\ Joined(s2, s1, chips) /\ Joined(s3, s2, ones) /\ Joined(s4, s3, conf1)
        /\ Joined(s5, s4, one) /\ Joined(s6, s5, conf2)
        /\ s6 = <<0, 0, 0>> \o Digits(p.chip, 4) \o <<1, 1, 1>> \o Digits(p.conf1, 8)
                  \o <<1>> \o Digits(p.conf2, 8)
  BY DEF Joined
<1>3. Joined(b, s6, one)
  BY <1>2 DEF PacketBits, Joined
<1>4. /\ IsBits(s1, 3) /\ IsBits(chips, 4) /\ IsBits(ones, 3) /\ IsBits(conf1, 8)
      /\ IsBits(one, 1) /\ IsBits(conf2, 8)
  BY <1>1, <1>2, SmallSequences, SmallDigits
<1>5. IsBits(s2, 3 + 4) /\ Follows(s2, 0, s1, 3)
  BY <1>2, <1>4, TwoParts
<1>6. IsBits(s3, 7 + 3) /\ Follows(s3, 0, s2, 7) /\ Follows(s3, 7, ones, 3)
  BY <1>2, <1>4, <1>5, TwoParts
<1>7. IsBits(s4, 10 + 8) /\ Follows(s4, 0, s3, 10) /\ Follows(s4, 10, conf1, 8)
  BY <1>2, <1>4, <1>6, TwoParts
<1>8. IsBits(s5, 18 + 1) /\ Follows(s5, 0, s4, 18) /\ Follows(s5, 18, one, 1)
  BY <1>2, <1>4, <1>7, TwoParts
<1>9. IsBits(s6, 19 + 8) /\ Follows(s6, 0, s5, 19)
  BY <1>2, <1>4, <1>8, TwoParts
<1>10. IsBits(b, 27 + 1) /\ Follows(b, 0, s6, 27) /\ Follows(b, 27, one, 1)
  BY <1>3, <1>4, <1>9, TwoParts
<1>11. conf1[1] = 0
  <2>1. 8 \in 1..8 /\ 1 \in 1..8 /\ p.conf1 \in Nat
    BY <1>1
  <2>2. conf1[1] = (p.conf1 \div BitValues[8 - 1 + 1]) % 2
    BY <1>2, <2>1, DigitsAre
  <2>3. BitValues[8 - 1 + 1] = 128
    BY DEF BitValues
  <2>4. p.conf1 \div 128 = 0
    BY <1>1
  <2> QED
    BY <2>2, <2>3, <2>4
<1>12. \A k \in 1..3 : b[k] = s1[k]
  BY <1>5, <1>6, <1>7, <1>8, <1>9, <1>10 DEF Follows
<1>13. \A k \in 1..3 : b[7 + k] = ones[k]
  BY <1>6, <1>7, <1>8, <1>9, <1>10 DEF Follows
<1>14. b[10 + 1] = conf1[1]
  BY <1>7, <1>8, <1>9, <1>10 DEF Follows
<1>15. b[18 + 1] = one[1]
  BY <1>8, <1>9, <1>10 DEF Follows
<1>16. b[27 + 1] = one[1]
  BY <1>10 DEF Follows
<1>17. b[8] = 1 /\ b[9] = 1 /\ b[10] = 1
  BY <1>2, <1>13
<1> QED
  BY <1>2, <1>10, <1>11, <1>12, <1>14, <1>15, <1>16, <1>17

LEMMA HitIs ==
  ASSUME NEW pattern \in Nat, NEW b, b = HitBits(pattern)
  PROVE  IsBits(b, 4) /\ b[1] = 1 /\ Follows(b, 1, Digits(pattern, 3), 3)
<1>1. PICK one, digits :
        one = <<1>> /\ digits = Digits(pattern, 3) /\ Joined(b, one, digits)
  BY DEF HitBits, Joined
<1>2. IsBits(one, 1) /\ IsBits(digits, 3)
  BY <1>1, SmallSequences, SmallDigits
<1>3. IsBits(b, 1 + 3) /\ Follows(b, 0, one, 1) /\ Follows(b, 1, digits, 3)
  BY <1>1, <1>2, TwoParts
<1>4. b[0 + 1] = one[1]
  BY <1>3 DEF Follows
<1> QED
  BY <1>1, <1>3, <1>4

LEMMA HitsAre ==
  ASSUME NEW hits \in Seq(0..7), NEW b, b = FlattenSeq([i \in DOMAIN hits |-> HitBits(hits[i])])
  PROVE  /\ IsBits(b, 4 * Len(hits))
         /\ \A j \in 1..Len(hits) :
              b[4 * j - 3] = 1 /\ Follows(b, 4 * j - 3, Digits(hits[j], 3), 3)
<1>1. PICK N \in Nat, each \in {[i \in DOMAIN hits |-> HitBits(hits[i])]} :
        N = Len(hits) /\ each = [i \in 1..N |-> HitBits(hits[i])]
  <2>1. Len(hits) \in Nat
    OBVIOUS
  <2> QED
    BY <2>1
<1>2. DOMAIN hits = 1..N /\ \A i \in 1..N : hits[i] \in 0..7
  BY <1>1
<1>3. ASSUME NEW i \in 1..N
      PROVE  /\ IsBits(each[i], 4) /\ each[i][1] = 1
             /\ Follows(each[i], 1, Digits(hits[i], 3), 3)
  <2>1. PICK pattern \in Nat : pattern = hits[i] /\ each[i] = HitBits(pattern)
    BY <1>1, <1>2
  <2> QED
    BY <2>1, HitIs
<1>4. AreSeqs(each, N, Bit)
  BY <1>3 DEF AreSeqs, IsBits
<1>5. PICK flat : /\ IsFlattening(flat, each, N, Bit)
                  /\ \A n \in 0..N : FlattenSeq([i \in 1..n |-> each[i]]) = flat[n]
  BY <1>4, FirstFlattened
<1>6. b = flat[N]
  <2>1. [i \in 1..N |-> each[i]] = [i \in DOMAIN hits |-> HitBits(hits[i])]
    BY <1>1, <1>2
  <2> QED
    BY <1>5, <2>1
<1>7. Placed(flat, each, N)
  BY <1>4, <1>5, InFlattening
<1> DEFINE S == {n \in 0..N : Len(flat[n]) = 4 * n}
<1>8. 0 \in S
  BY <1>5 DEF IsFlattening
<1>9. ASSUME NEW n \in 0..(N - 1), n \in S
      PROVE  n + 1 \in S
  <2>1. n + 1 \in 1..N /\ (n + 1) - 1 = n
    OBVIOUS
  <2>2. Len(flat[n + 1]) = Len(flat[n]) + Len(each[n + 1])
    BY <1>7, <2>1 DEF Placed
  <2>3. Len(each[n + 1]) = 4
    BY <1>3, <2>1 DEF IsBits
  <2>4. Len(flat[n + 1]) = 4 * n + 4
    BY <1>9, <2>2, <2>3
  <2> QED
    BY <2>1, <2>4
<1>10. \A n \in 0..N : Len(flat[n]) = 4 * n
  <2>1. 0..N \subseteq S
    <3> HIDE DEF S
    <3> QED
      BY <1>8, <1>9, UpTo
  <2> QED
    BY <2>1
<1>11. IsBits(b, 4 * N)
  BY <1>5, <1>6, <1>10 DEF IsBits, IsFlattening
<1>12. ASSUME NEW j \in 1..N
       PROVE  b[4 * j - 3] = 1 /\ Follows(b, 4 * j - 3, Digits(hits[j], 3), 3)
  <2>1. j - 1 \in 0..N /\ Len(flat[j - 1]) = 4 * (j - 1) /\ Len(each[j]) = 4
    BY <1>3, <1>10 DEF IsBits
  <2>2. \A k \in 1..4 : b[4 * (j - 1) + k] = each[j][k]
    BY <1>6, <1>7, <2>1, ZenonT(120) DEF Placed
  <2>3. b[4 * (j - 1) + 1] = 1
    BY <1>3, <2>2
  <2>4. ASSUME NEW k \in 1..3
        PROVE  b[4 * (j - 1) + (1 + k)] = Digits(hits[j], 3)[k]
    <3>1. 1 + k \in 1..4
      OBVIOUS
    <3>2. each[j][1 + k] = Digits(hits[j], 3)[k]
      BY <1>3 DEF Follows
    <3> QED
      BY <2>2, <3>1, <3>2
  <2>5. /\ 4 * (j - 1) + 1 = 4 * j - 3
        /\ \A k \in 1..3 : 4 * (j - 1) + (1 + k) = (4 * j - 3) + k
    OBVIOUS
  <2> QED
    BY <2>3, <2>4, <2>5 DEF Follows
<1> QED
  BY <1>1, <1>11, <1>12

LEMMA DataBits ==
  ASSUME NEW p, IsPacket(p), p.kind = "data", NEW b, b = PacketBits(p)
  PROVE  /\ IsBits(b, 13 + 4 * Len(p.hits)) /\ Len(p.hits) \in Nat /\ Len(p.hits) >= 1
         /\ b[1] = 0 /\ b[2] = 1
         /\ Follows(b, 2, Digits(p.chip, 4), 4) /\ Follows(b, 6, Digits(p.channel, 7), 7)
         /\ \A j \in 1..Len(p.hits) :
              /\ b[13 + 4 * j - 3] = 1
              /\ Follows(b, 13 + 4 * j - 3, Digits(p.hits[j], 3), 3)
<1>1. p.chip \in Nat /\ p.channel \in Nat /\ p.hits \in Seq(0..7) /\ p.hits # <<>>
  <2>1. p.chip \in 0..15 /\ p.channel \in 0..127
    BY KindsOfPackets
  <2>2. p.hits \in Seq(0..7) /\ p.hits # <<>>
    BY KindsOfPackets
  <2>3. p.chip \in Nat /\ p.channel \in Nat
    BY <2>1
  <2> QED
    BY <2>2, <2>3, Zenon
<1>2. Len(p.hits) \in Nat /\ Len(p.hits) >= 1
  BY <1>1
<1> DEFINE chips == Digits(p.chip, 4)
           channels == Digits(p.channel, 7)
           hits == FlattenSeq([i \in DOMAIN p.hits |-> HitBits(p.hits[i])])
           s1 == <<0, 1>>
           s2 == s1 \o chips
           s3 == s2 \o channels
<1>3. PICK N \in Nat : N = Len(p.hits)
  BY <1>2
<1>4. Joined(s2, s1, chips) /\ Joined(s3, s2, channels) /\ Joined(b, s3, hits)
  BY DEF PacketBits, Joined
<1>5. IsBits(s1, 2) /\ IsBits(chips, 4) /\ IsBits(channels, 7)
  BY <1>1, SmallSequences, SmallDigits
<1>6. /\ IsBits(hits, 4 * N)
      /\ \A j \in 1..N :
           hits[4 * j - 3] = 1 /\ Follows(hits, 4 * j - 3, Digits(p.hits[j], 3), 3)
  BY <1>1, <1>3, HitsAre
<1>7. s1[1] = 0 /\ s1[2] = 1
  OBVIOUS
<1> HIDE DEF chips, channels, hits, s1, s2, s3
<1>8. /\ IsBits(s2, 2 + 4) /\ Follows(s2, 0, s1, 2) /\ Follows(s2, 2, chips, 4)
      /\ IsBits(s3, 6 + 7) /\ Follows(s3, 0, s2, 6) /\ Follows(s3, 6, channels, 7)
  <2>1. IsBits(s2, 2 + 4) /\ Follows(s2, 0, s1, 2) /\ Follows(s2, 2, chips, 4)
    BY <1>4, <1>5, TwoParts
  <2>2. IsBits(s3, 6 + 7) /\ Follows(s3, 0, s2, 6) /\ Follows(s3, 6, channels, 7)
    BY <1>4, <1>5, <2>1, TwoParts
  <2> QED
    BY <2>1, <2>2
<1>9. PICK M \in Nat : M = 4 * N
  OBVIOUS
<1>10. IsBits(b, 13 + M) /\ Follows(b, 0, s3, 13) /\ Follows(b, 13, hits, M)
  BY <1>4, <1>6, <1>8, <1>9, TwoParts
<1>11. \A k \in 1..2 : b[k] = s1[k]
  BY <1>8, <1>10 DEF Follows
<1>12. Follows(b, 2, chips, 4)
  BY <1>8, <1>10 DEF Follows
<1>13. Follows(b, 6, channels, 7)
  BY <1>8, <1>10 DEF Follows
<1>14. ASSUME NEW j \in 1..N
       PROVE  b[13 + 4 * j - 3] = 1 /\ Follows(b, 13 + 4 * j - 3, Digits(p.hits[j], 3), 3)
  <2>1. \A k \in 0..3 : (4 * j - 3) + k \in 1..M
    BY <1>9
  <2>2. \A k \in 0..3 : b[13 + ((4 * j - 3) + k)] = hits[(4 * j - 3) + k]
    BY <1>10, <2>1 DEF Follows
  <2>3. \A k \in 0..3 : 13 + ((4 * j - 3) + k) = (13 + 4 * j - 3) + k
    OBVIOUS
  <2>4. b[13 + 4 * j - 3] = hits[4 * j - 3]
    BY <2>2, <2>3
  <2>5. \A k \in 1..3 : b[(13 + 4 * j - 3) + k] = hits[(4 * j - 3) + k]
    BY <2>2, <2>3
  <2>6. \A k \in 1..3 : hits[(4 * j - 3) + k] = Digits(p.hits[j], 3)[k]
    BY <1>6 DEF Follows
  <2> QED
    BY <1>6, <2>4, <2>5, <2>6 DEF Follows
<1>15. b[1] = 0 /\ b[2] = 1
  BY <1>7, <1>11
<1> QED
  BY <1>2, <1>3, <1>9, <1>10, <1>12, <1>13, <1>14, <1>15 DEF chips, channels

-------------------------------------------------------------------------------
(* Packets in the window. *)

Cut(s, word, from, to) == s = SubSeq(word, from, to)

LEMMA TagIs ==
  ASSUME NEW word \in [1..32 -> Bit], NEW a \in Nat, NEW n \in Nat, a + n <= 32, n > 0,
         NEW s, Cut(s, word, a + 1, a + n), NEW t, IsBits(t, n)
  PROVE  s = t <=> Follows(word, a, t, n)
<1>1. PICK from \in Int, to \in Int : from = a + 1 /\ to = a + n
  OBVIOUS
<1>2. from <= to /\ to - from + 1 = n /\ s = SubSeq(word, from, to)
  BY <1>1 DEF Cut
<1>3. s \in Seq(Bit) /\ Len(s) = n /\ \A i \in 1..n : s[i] = word[a + i]
  <2>1. \A i \in from..to : word[i] \in Bit
    <3>1. \A i \in from..to : i \in 1..32
      BY <1>1
    <3> QED
      BY <3>1
  <2>2. /\ SubSeq(word, from, to) \in Seq(Bit)
        /\ Len(SubSeq(word, from, to)) = IF from <= to THEN to - from + 1 ELSE 0
        /\ \A i \in 1..(to - from + 1) : SubSeq(word, from, to)[i] = word[from + i - 1]
    BY <2>1, SubSeqProperties
  <2>3. \A i \in 1..n : from + i - 1 = a + i
    BY <1>1
  <2> QED
    BY <1>2, <2>2, <2>3
<1>4. t \in Seq(Bit) /\ Len(t) = n
  BY DEF IsBits
<1>5. s = t <=> \A i \in 1..n : s[i] = t[i]
  BY <1>3, <1>4, SeqEqual
<1> QED
  BY <1>3, <1>5 DEF Follows

LEMMA Tags ==
  ASSUME NEW word \in [1..32 -> Bit]
  PROVE  /\ IsHeader(word) <=> /\ word[1] = 1 /\ word[2] = 1 /\ word[3] = 1
                               /\ word[4] = 0 /\ word[5] = 1 /\ word[6] = 0 /\ word[19] = 1
         /\ IsError(word)  <=> word[1] = 0 /\ word[2] = 0 /\ word[3] = 0 /\ word[11] = 1
         /\ IsConfig(word) <=> /\ word[1] = 0 /\ word[2] = 0 /\ word[3] = 0
                               /\ word[8] = 1 /\ word[9] = 1 /\ word[10] = 1
                               /\ word[19] = 1 /\ word[28] = 1
         /\ IsData(word)   <=> word[1] = 0 /\ word[2] = 1
         /\ IsNoData(word) <=> word[1] = 0 /\ word[2] = 0 /\ word[3] = 1
         /\ IsTrailer(word) <=> word[1] = 1 /\ \A i \in 2..16 : word[i] = 0
<1>1. SubSeq(word, 1, 6) = <<1,1,1,0,1,0>> <=>
        /\ word[1] = 1 /\ word[2] = 1 /\ word[3] = 1
        /\ word[4] = 0 /\ word[5] = 1 /\ word[6] = 0
  <2>1. PICK t : t = <<1,1,1,0,1,0>> /\ IsBits(t, 6)
    BY SmallSequences
  <2>2. PICK s : Cut(s, word, 0 + 1, 0 + 6)
    BY DEF Cut
  <2>3. s = t <=> Follows(word, 0, t, 6)
    BY <2>1, <2>2, TagIs
  <2>4. Follows(word, 0, t, 6) <=> \A k \in 1..6 : word[k] = t[k]
    BY DEF Follows
  <2>5. (\A i \in 1..6 : word[i] = t[i]) <=>
          /\ word[1] = 1 /\ word[2] = 1 /\ word[3] = 1
          /\ word[4] = 0 /\ word[5] = 1 /\ word[6] = 0
    BY <2>1
  <2> QED
    BY <2>1, <2>2, <2>4, <2>5, <2>3 DEF Cut
<1>2. SubSeq(word, 1, 2) = <<0, 1>> <=> word[1] = 0 /\ word[2] = 1
  <2>1. PICK t : t = <<0, 1>> /\ IsBits(t, 2)
    BY SmallSequences
  <2>2. PICK s : Cut(s, word, 0 + 1, 0 + 2)
    BY DEF Cut
  <2>3. s = t <=> Follows(word, 0, t, 2)
    BY <2>1, <2>2, TagIs
  <2>4. Follows(word, 0, t, 2) <=> word[1] = 0 /\ word[2] = 1
    BY <2>1 DEF Follows
  <2> QED
    BY <2>1, <2>2, <2>4, <2>3 DEF Cut
<1>3. SubSeq(word, 1, 16) = TrailerBits <=> word[1] = 1 /\ \A i \in 2..16 : word[i] = 0
  <2>1. PICK t : t = TrailerBits
    OBVIOUS
  <2>2. IsBits(t, 16)
    BY <2>1 DEF TrailerBits, Bit, IsBits
  <2>3. \A i \in 1..16 : t[i] = IF i = 1 THEN 1 ELSE 0
    BY <2>1 DEF TrailerBits
  <2>4. PICK s : Cut(s, word, 0 + 1, 0 + 16)
    BY DEF Cut
  <2>5. s = t <=> Follows(word, 0, t, 16)
    BY <2>2, <2>4, TagIs
  <2>6. Follows(word, 0, t, 16) <=> \A k \in 1..16 : word[k] = t[k]
    BY DEF Follows
  <2>7. (\A i \in 1..16 : word[i] = t[i]) <=> word[1] = 1 /\ \A i \in 2..16 : word[i] = 0
    BY <2>3
  <2> QED
    BY <2>1, <2>5, <2>6, <2>7, <2>4 DEF Cut
<1>4. /\ SubSeq(word, 1, 3) = <<0, 0, 0>> <=> word[1] = 0 /\ word[2] = 0 /\ word[3] = 0
      /\ SubSeq(word, 1, 3) = <<0, 0, 1>> <=> word[1] = 0 /\ word[2] = 0 /\ word[3] = 1
      /\ SubSeq(word, 8, 10) = <<1, 1, 1>> <=> word[8] = 1 /\ word[9] = 1 /\ word[10] = 1
  <2>1. PICK s, t : Cut(s, word, 0 + 1, 0 + 3) /\ Cut(t, word, 7 + 1, 7 + 3)
    BY DEF Cut
  <2>2. s = <<0, 0, 0>> <=> Follows(word, 0, <<0, 0, 0>>, 3)
    BY <2>1, TagIs, SmallSequences
  <2>3. s = <<0, 0, 1>> <=> Follows(word, 0, <<0, 0, 1>>, 3)
    BY <2>1, TagIs, SmallSequences
  <2>4. t = <<1, 1, 1>> <=> Follows(word, 7, <<1, 1, 1>>, 3)
    BY <2>1, TagIs, SmallSequences
  <2>5. Follows(word, 0, <<0, 0, 0>>, 3) <=> word[1] = 0 /\ word[2] = 0 /\ word[3] = 0
    BY DEF Follows
  <2>6. Follows(word, 0, <<0, 0, 1>>, 3) <=> word[1] = 0 /\ word[2] = 0 /\ word[3] = 1
    BY DEF Follows
  <2>7. Follows(word, 7, <<1, 1, 1>>, 3) <=> word[8] = 1 /\ word[9] = 1 /\ word[10] = 1
    BY DEF Follows
  <2> QED
    BY <2>1, <2>2, <2>3, <2>4, <2>5, <2>6, <2>7 DEF Cut
<1> QED
  BY <1>1, <1>2, <1>3, <1>4 DEF IsHeader, IsError, IsConfig, IsData, IsNoData, IsTrailer

(* A word that begins with the bits of a packet, as far as it reaches. *)
Begins(word, p) ==
  \A k \in 1..Len(PacketBits(p)) : k <= 32 => word[k] = PacketBits(p)[k]

(* A packet of a line as modules send it, behind the header. *)
IsBodyPacket(p) ==
  IsPacket(p) /\ p.kind # "header" /\ (p.kind = "config" => p.conf1 < 128)

LEMMA Recognized ==
  ASSUME NEW p, IsBodyPacket(p), NEW word \in [1..32 -> Bit], Begins(word, p)
  PROVE  /\ ~IsHeader(word)
         /\ IsError(word)   <=> p.kind = "error"
         /\ ~IsError(word) => (IsConfig(word) <=> p.kind = "config")
         /\ IsData(word)    <=> p.kind = "data"
         /\ IsNoData(word)  <=> p.kind = "nodata"
         /\ IsTrailer(word) <=> p.kind = "trailer"
<1> DEFINE b == PacketBits(p)
<1>1. IsPacket(p) /\ p.kind \in {"data", "error", "config", "nodata", "trailer"}
  BY KindsOfPackets DEF IsBodyPacket
<1>2. CASE p.kind = "data"
  <2>1. Len(b) >= 13 /\ Len(b) \in Nat /\ b[1] = 0 /\ b[2] = 1
    <3>1. IsBits(b, 13 + 4 * Len(p.hits)) /\ Len(p.hits) \in Nat /\ b[1] = 0 /\ b[2] = 1
      BY <1>1, <1>2, DataBits
    <3>2. PICK N \in Nat : N = Len(p.hits)
      BY <3>1
    <3>3. Len(b) = 13 + 4 * N
      BY <3>1, <3>2 DEF IsBits
    <3>4. 13 + 4 * N >= 13 /\ 13 + 4 * N \in Nat
      OBVIOUS
    <3> HIDE DEF b
    <3> QED
      BY <3>1, <3>3, <3>4
  <2>2. word[1] = 0 /\ word[2] = 1
    <3>1. PICK N \in Nat : N = Len(b) /\ N >= 13
      BY <2>1
    <3>2. \A k \in 1..N : k <= 32 => word[k] = b[k]
      BY <3>1, Zenon DEF Begins
    <3>3. word[1] = b[1] /\ word[2] = b[2]
      <4> HIDE DEF b
      <4>1. N >= 13
        BY <3>1, Zenon
      <4> QED
        BY <3>2, <4>1
    <3> QED
      BY <2>1, <3>3, Zenon
  <2> QED
    BY <1>2, <2>2, Tags
<1>3. CASE p.kind = "error"
  <2>1. Len(b) = 11 /\ b[1] = 0 /\ b[2] = 0 /\ b[3] = 0 /\ b[11] = 1
    BY <1>1, <1>3, ErrorBits DEF IsBits
  <2>2. word[1] = 0 /\ word[2] = 0 /\ word[3] = 0 /\ word[11] = 1
    BY <2>1 DEF Begins
  <2> QED
    BY <1>3, <2>2, Tags
<1>4. CASE p.kind = "config"
  <2>1. /\ Len(b) = 28 /\ b[1] = 0 /\ b[2] = 0 /\ b[3] = 0
        /\ b[8] = 1 /\ b[9] = 1 /\ b[10] = 1 /\ b[11] = 0 /\ b[19] = 1 /\ b[28] = 1
    BY <1>1, <1>4, ConfigBits, SMTT(30) DEF IsBits, IsBodyPacket
  <2>2. /\ word[1] = 0 /\ word[2] = 0 /\ word[3] = 0 /\ word[8] = 1 /\ word[9] = 1
        /\ word[10] = 1 /\ word[11] = 0 /\ word[19] = 1 /\ word[28] = 1
    BY <2>1 DEF Begins
  <2> QED
    BY <1>4, <2>2, Tags
<1>5. CASE p.kind = "nodata"
  <2>1. Len(b) = 3 /\ b[1] = 0 /\ b[2] = 0 /\ b[3] = 1
    BY <1>1, <1>5, NoDataBits DEF IsBits
  <2>2. word[1] = 0 /\ word[2] = 0 /\ word[3] = 1
    BY <2>1 DEF Begins
  <2> QED
    BY <1>5, <2>2, Tags
<1>6. CASE p.kind = "trailer"
  <2>1. Len(b) = 16 /\ b[1] = 1 /\ \A i \in 2..16 : b[i] = 0
    BY <1>1, <1>6, TrailerIs DEF IsBits
  <2>2. word[1] = 1 /\ \A i \in 2..16 : word[i] = 0
    BY <2>1 DEF Begins
  <2> QED
    BY <1>6, <2>2, Tags
<1> QED
  BY <1>1, <1>2, <1>3, <1>4, <1>5, <1>6

(* No such packet, and so nothing that a hit is followed by, begins with   *)
(* the zeros of a trailer.                                                 *)
LEMMA SomeOne ==
  ASSUME NEW p, IsBodyPacket(p)
  PROVE  Len(PacketBits(p)) \in Nat /\ \E k \in 1..11 : k <= Len(PacketBits(p)) /\ PacketBits(p)[k] = 1
<1> DEFINE b == PacketBits(p)
<1>1. IsPacket(p) /\ p.kind \in {"data", "error", "config", "nodata", "trailer"}
  BY KindsOfPackets DEF IsBodyPacket
<1>2. CASE p.kind = "data"
  <2>1. IsBits(b, 13 + 4 * Len(p.hits)) /\ Len(p.hits) \in Nat /\ b[2] = 1
    BY <1>1, <1>2, DataBits
  <2>2. Len(b) \in Nat /\ 2 <= Len(b)
    BY <2>1 DEF IsBits
  <2> QED
    BY <2>1, <2>2
<1>3. CASE p.kind = "error"
  BY <1>1, <1>3, ErrorBits DEF IsBits
<1>4. CASE p.kind = "config"
  <2>1. Len(b) = 28 /\ b[8] = 1
    BY <1>1, <1>4, ConfigBits DEF IsBits, IsBodyPacket
  <2> QED
    BY <2>1
<1>5. CASE p.kind = "nodata"
  BY <1>1, <1>5, NoDataBits DEF IsBits
<1>6. CASE p.kind = "trailer"
  <2>1. Len(b) = 16 /\ b[1] = 1
    BY <1>1, <1>6, TrailerIs DEF IsBits
  <2> QED
    BY <2>1
<1> QED
  BY <1>1, <1>2, <1>3, <1>4, <1>5, <1>6

-------------------------------------------------------------------------------
(* The bits of a line. *)

GoodPacket(p) == IsPacket(p) /\ (p.kind = "config" => p.conf1 < 128)

GoodLine(s) == s \in Seq(SendablePackets) /\ \A i \in 1..Len(s) : GoodPacket(s[i])

Size(p) == Len(PacketBits(p))

Start(s, n) == Len(BitsOf(s, n))

LEMMA SizeIs ==
  ASSUME NEW p, GoodPacket(p)
  PROVE  /\ PacketBits(p) \in Seq(Bit) /\ Size(p) \in Nat
         /\ p.kind = "header" => Size(p) = 19
         /\ p.kind = "data" => Len(p.hits) \in Nat /\ Len(p.hits) >= 1 /\ Size(p) = 13 + 4 * Len(p.hits)
         /\ p.kind = "error" => Size(p) = 11
         /\ p.kind = "config" => Size(p) = 28
         /\ p.kind = "nodata" => Size(p) = 3
         /\ p.kind = "trailer" => Size(p) = 16
<1>1. IsPacket(p) /\ p.kind \in {"header", "data", "error", "config", "nodata", "trailer"}
  BY KindsOfPackets DEF GoodPacket
<1>2. CASE p.kind = "header"
  BY <1>1, <1>2, HeaderBits DEF IsBits, Size
<1>3. CASE p.kind = "data"
  <2>1. /\ IsBits(PacketBits(p), 13 + 4 * Len(p.hits)) /\ Len(p.hits) \in Nat /\ Len(p.hits) >= 1
    BY <1>1, <1>3, DataBits
  <2>2. PICK N : N = Len(p.hits) /\ N \in Nat
    BY <2>1, Zenon
  <2>3. N \in Nat /\ 13 + 4 * N \in Nat
    BY <2>2
  <2>4. PacketBits(p) \in Seq(Bit) /\ Size(p) = 13 + 4 * Len(p.hits)
    BY <2>1, Zenon DEF IsBits, Size
  <2>5. Size(p) \in Nat
    BY <2>2, <2>3, <2>4, Zenon
  <2> QED
    BY <1>3, <2>1, <2>4, <2>5
<1>4. CASE p.kind = "error"
  BY <1>1, <1>4, ErrorBits DEF IsBits, Size
<1>5. CASE p.kind = "config"
  BY <1>1, <1>5, ConfigBits DEF IsBits, Size, GoodPacket
<1>6. CASE p.kind = "nodata"
  BY <1>1, <1>6, NoDataBits DEF IsBits, Size
<1>7. CASE p.kind = "trailer"
  BY <1>1, <1>7, TrailerIs DEF IsBits, Size
<1> QED
  BY <1>1, <1>2, <1>3, <1>4, <1>5, <1>6, <1>7

(* The parts of a sequence of bits: where each of its first n packets      *)
(* begins, and that it is there.                                           *)
LEMMA PacketsPlaced ==
  ASSUME NEW s, GoodLine(s), NEW N \in Nat, N = Len(s)
  PROVE  /\ BitsOf(s, N) \in Seq(Bit)
         /\ Start(s, 0) = 0
         /\ \A n \in 0..N : Start(s, n) \in Nat /\ Start(s, n) <= Start(s, N)
         /\ \A n \in 1..N : Start(s, n) = Start(s, n - 1) + Size(s[n])
         /\ \A n \in 1..N : \A k \in 1..Size(s[n]) :
              BitsOf(s, N)[Start(s, n - 1) + k] = PacketBits(s[n])[k]
<1>1. PICK each : each = [i \in 1..N |-> PacketBits(s[i])]
  OBVIOUS
<1>2. \A i \in 1..N : each[i] = PacketBits(s[i]) /\ GoodPacket(s[i])
  BY <1>1 DEF GoodLine
<1>3. AreSeqs(each, N, Bit) /\ \A i \in 1..N : Len(each[i]) = Size(s[i])
  BY <1>2, SizeIs DEF AreSeqs, Size
<1>4. PICK flat : /\ IsFlattening(flat, each, N, Bit)
                  /\ \A n \in 0..N : FlattenSeq([i \in 1..n |-> each[i]]) = flat[n]
  BY <1>3, FirstFlattened
<1>5. ASSUME NEW n \in 0..N
      PROVE  BitsOf(s, n) = flat[n]
  <2>1. [i \in 1..n |-> each[i]] = [i \in 1..n |-> PacketBits(s[i])]
    <3>1. \A i \in 1..n : i \in 1..N
      OBVIOUS
    <3> QED
      BY <1>2, <3>1
  <2> QED
    BY <1>4, <2>1, Zenon DEF BitsOf
<1>6. Placed(flat, each, N)
  BY <1>3, <1>4, InFlattening
<1>7. \A n \in 0..N : Start(s, n) = Len(flat[n])
  BY <1>5, Zenon DEF Start
<1>8. N \in 0..N /\ 0 \in 0..N /\ \A n \in 1..N : n \in 0..N /\ n - 1 \in 0..N
  OBVIOUS
<1>9. BitsOf(s, N) \in Seq(Bit) /\ BitsOf(s, N) = flat[N]
  BY <1>4, <1>5, <1>8 DEF IsFlattening
<1>10. Start(s, 0) = 0
  <2>1. flat[0] = <<>>
    BY <1>4 DEF IsFlattening
  <2> QED
    BY <1>7, <1>8, <2>1
<1>11. \A n \in 0..N : Start(s, n) \in Nat /\ Start(s, n) <= Start(s, N)
  BY <1>6, <1>7, <1>8 DEF Placed
<1>12. \A n \in 1..N : Start(s, n) = Start(s, n - 1) + Size(s[n])
  BY <1>3, <1>6, <1>7, <1>8 DEF Placed
<1>13. ASSUME NEW n \in 1..N, NEW k \in 1..Size(s[n])
       PROVE  BitsOf(s, N)[Start(s, n - 1) + k] = PacketBits(s[n])[k]
  <2>1. k \in 1..Len(each[n])
    BY <1>3, Zenon
  <2>2. flat[N][Len(flat[n - 1]) + k] = each[n][k]
    BY <1>6, <2>1, Zenon DEF Placed
  <2>3. Start(s, n - 1) = Len(flat[n - 1])
    BY <1>7, <1>8
  <2> QED
    BY <1>2, <1>9, <2>2, <2>3, Zenon
<1> QED
  BY <1>9, <1>10, <1>11, <1>12, <1>13

LEMMA LineBitsAre ==
  ASSUME NEW s, GoodLine(s), NEW N \in Nat, N = Len(s)
  PROVE  /\ LineBits(s) \in Seq(Bit) /\ Len(LineBits(s)) \in Nat
         /\ Len(LineBits(s)) % 24 = 0 /\ Start(s, N) <= Len(LineBits(s))
         /\ (N = 0 => LineBits(s) = <<>>)
         /\ \A n \in 1..N : \A k \in 1..Size(s[n]) :
              LineBits(s)[Start(s, n - 1) + k] = PacketBits(s[n])[k]
<1>1. PICK bits : bits = BitsOf(s, N) /\ bits \in Seq(Bit)
  BY PacketsPlaced
<1>2. PICK len \in Nat : len = Len(bits) /\ len = Start(s, N)
  BY <1>1 DEF Start
<1>3. PICK r \in 0..23 : r = (-len) % 24
  OBVIOUS
<1>4. (len + r) % 24 = 0
  BY <1>3
<1>5. PICK zeros : zeros = [i \in 1..r |-> 0]
  OBVIOUS
<1>6. IsBits(zeros, r)
  BY <1>5 DEF IsBits, Bit
<1>7. Joined(LineBits(s), bits, zeros)
  BY <1>1, <1>2, <1>3, <1>5, Zenon DEF LineBits, Joined
<1>8. IsBits(bits, len)
  BY <1>1, <1>2 DEF IsBits
<1>9. IsBits(LineBits(s), len + r) /\ Follows(LineBits(s), 0, bits, len)
  BY <1>6, <1>7, <1>8, TwoParts
<1>10. LineBits(s) \in Seq(Bit) /\ Len(LineBits(s)) = len + r
  BY <1>9 DEF IsBits
<1>11. \A i \in 1..len : LineBits(s)[i] = bits[i]
  BY <1>9 DEF Follows
<1>12. ASSUME N = 0
       PROVE  LineBits(s) = <<>>
  <2>1. len = 0
    BY <1>2, <1>12, PacketsPlaced
  <2>2. r = 0
    BY <1>3, <2>1
  <2> QED
    BY <1>10, <2>1, <2>2
<1>13. ASSUME NEW n \in 1..N, NEW k \in 1..Size(s[n])
       PROVE  LineBits(s)[Start(s, n - 1) + k] = PacketBits(s[n])[k]
  <2>1. bits[Start(s, n - 1) + k] = PacketBits(s[n])[k]
    BY <1>1, PacketsPlaced, ZenonT(30)
  <2>2. PICK a \in Nat : a = Start(s, n - 1)
    <3>1. n - 1 \in 0..N
      OBVIOUS
    <3> QED
      BY <3>1, PacketsPlaced
  <2>3. Start(s, n) = a + Size(s[n]) /\ Start(s, n) <= len
    <3>1. n \in 0..N
      OBVIOUS
    <3> QED
      BY <1>2, <2>2, <3>1, PacketsPlaced, ZenonT(30)
  <2>4. Size(s[n]) \in Nat
    <3>1. GoodPacket(s[n])
      BY DEF GoodLine
    <3> QED
      BY <3>1, SizeIs
  <2>5. a + k \in 1..len
    BY <2>2, <2>3, <2>4
  <2> QED
    BY <1>11, <2>1, <2>2, <2>5
<1> QED
  BY <1>2, <1>3, <1>4, <1>10, <1>12, <1>13

-------------------------------------------------------------------------------
(* The bits that arrive. *)

Sent == input \in Inputs /\ data = [line \in {0, 1} |-> Arrived(input, line)]

Count(line) == Len(Packets(line))
Before(line, n) == Start(Packets(line), n)

DataAt(line, k) == IF k \in 1..Len(data[line]) THEN data[line][k] ELSE 0
WordFrom(line, position) == [i \in 1..32 |-> DataAt(line, position + i)]

LEMMA GoodLines ==
  ASSUME Sent, HeadersDamaged, NEW line \in {0, 1}
  PROVE  /\ GoodLine(Packets(line)) /\ Count(line) \in Nat
         /\ Packets(line) = <<>> \/ Proper(line)
<1>1. Packets(line) = <<>> \/ Proper(line)
  BY DEF HeadersDamaged
<1>2. PICK s : s = Packets(line) /\ s \in Seq(SendablePackets)
  <2>1. Packets(line) \in Seq(SendablePackets)
    BY InputsAssumption, Zenon DEF Sent, Packets
  <2> QED
    BY <2>1
<1>3. PICK N \in Nat : N = Len(s)
  BY <1>2
<1>4. \A i \in 1..N : IsPacket(s[i])
  <2>1. \A i \in DOMAIN s : s[i].kind = "data" => s[i].hits # <<>> /\ s[i].channel + Len(s[i].hits) <= 256
    BY InputsAssumption, <1>2, ZenonT(60) DEF Sent, Packets
  <2>2. \A i \in 1..N : s[i] \in SendablePackets /\ i \in DOMAIN s
    BY <1>2, <1>3
  <2> QED
    BY <2>1, <2>2, Zenon DEF IsPacket
<1>5. ASSUME NEW i \in 1..N, s[i].kind = "config"
      PROVE  s[i].conf1 < 128
  <2>1. s # <<>> /\ i \in DOMAIN s
    BY <1>2, <1>3
  <2> QED
    BY <1>1, <1>2, <1>5, <2>1, Zenon DEF Proper
<1> QED
  BY <1>1, <1>2, <1>4, <1>5, <1>3, Zenon DEF GoodLine, GoodPacket, Count

(* What of the packets arrives as it was sent. *)
AsSent(line, s, N) ==
  \A n \in 1..N : \A k \in 1..Size(s[n]) :
    Start(s, n - 1) + k >= 20 \/ input.flips = {} =>
      DataAt(line, Start(s, n - 1) + k) = PacketBits(s[n])[k]

LEMMA DataOfLine ==
  ASSUME Sent, HeadersDamaged, NEW line \in {0, 1}, NEW N \in Nat, N = Count(line),
         NEW s, s = Packets(line)
  PROVE  /\ data[line] \in Seq(Bit) /\ Len(data[line]) \in Nat
         /\ Len(data[line]) % 24 = 0 /\ Start(s, N) <= Len(data[line])
         /\ (N = 0 => Len(data[line]) = 0)
         /\ AsSent(line, s, N)
<1>1. GoodLine(s) /\ N = Len(s)
  BY GoodLines DEF Count
<1>2. PICK bits : bits = LineBits(s) /\ bits \in Seq(Bit)
  BY <1>1, LineBitsAre
<1>3. PICK L \in Nat : bits = LineBits(s) /\ bits \in Seq(Bit) /\ L = Len(bits)
  BY <1>2
<1>4. /\ L % 24 = 0 /\ Start(s, N) <= L /\ (N = 0 => L = 0)
      /\ \A n \in 1..N : \A k \in 1..Size(s[n]) : bits[Start(s, n - 1) + k] = PacketBits(s[n])[k]
  <2>1. L % 24 = 0 /\ Start(s, N) <= L
    BY <1>1, <1>3, LineBitsAre
  <2>2. N = 0 => bits = <<>>
    BY <1>1, <1>3, LineBitsAre
  <2>3. \A n \in 1..N : \A k \in 1..Size(s[n]) : bits[Start(s, n - 1) + k] = PacketBits(s[n])[k]
    BY <1>1, <1>3, LineBitsAre
  <2> QED
    BY <1>3, <2>1, <2>2, <2>3
<1>5. data[line] = [i \in 1..L |-> IF <<line, i>> \in input.flips THEN 1 - bits[i] ELSE bits[i]]
  <2>1. DOMAIN bits = 1..L
    BY <1>3
  <2> QED
    BY <1>3, <2>1, Zenon DEF Sent, Arrived, Packets
<1>6. \A i \in 1..L : bits[i] \in {0, 1}
  BY <1>3 DEF Bit
<1>7. data[line] \in Seq(Bit) /\ Len(data[line]) = L
  BY <1>5, <1>6 DEF Bit
<1>8. ASSUME NEW i \in 1..L, i >= 20 \/ input.flips = {}
      PROVE  DataAt(line, i) = bits[i]
  <2>1. <<line, i>> \notin input.flips
    <3>1. ASSUME <<line, i>> \in input.flips
          PROVE  FALSE
      <4>1. <<line, i>>[2] <= 19
        BY <3>1, Zenon DEF HeadersDamaged
      <4> QED
        BY <1>8, <3>1, <4>1
    <3> QED
      BY <3>1
  <2> QED
    BY <1>5, <1>7, <2>1 DEF DataAt
<1>9. ASSUME NEW n \in 1..N, NEW k \in 1..Size(s[n]),
             Start(s, n - 1) + k >= 20 \/ input.flips = {}
      PROVE  DataAt(line, Start(s, n - 1) + k) = PacketBits(s[n])[k]
  <2>1. PICK a \in Nat : a = Start(s, n - 1)
    <3>1. n - 1 \in 0..N
      OBVIOUS
    <3> QED
      BY <1>1, <3>1, PacketsPlaced
  <2>2. Start(s, n) = a + Size(s[n]) /\ Start(s, n) <= L
    <3>1. Start(s, n) = a + Size(s[n])
      BY <1>1, <2>1, PacketsPlaced
    <3>2. n \in 0..N
      OBVIOUS
    <3>3. Start(s, n) \in Nat /\ Start(s, n) <= Start(s, N)
      BY <1>1, <3>2, PacketsPlaced
    <3>4. N \in 0..N
      OBVIOUS
    <3>5. Start(s, N) \in Nat
      BY <1>1, <3>4, PacketsPlaced
    <3> QED
      BY <1>4, <3>1, <3>3, <3>5
  <2>3. PICK z \in Nat : z = Size(s[n])
    <3>1. GoodPacket(s[n])
      BY <1>1 DEF GoodLine
    <3> QED
      BY <3>1, SizeIs
  <2>4. a + k \in 1..L
    BY <2>2, <2>3
  <2> QED
    BY <1>4, <1>8, <1>9, <2>1, <2>4
<1>10. AsSent(line, s, N)
  BY <1>9 DEF AsSent
<1> QED
  BY <1>4, <1>7, <1>10

(* Packets follow each other. *)
LEMMA Later ==
  ASSUME NEW s, GoodLine(s), NEW N \in Nat, N = Len(s), NEW a \in 0..N, NEW b \in a..N
  PROVE  Start(s, a) \in Nat /\ Start(s, b) \in Nat /\ Start(s, a) <= Start(s, b)
<1>1. \A n \in 0..N : Start(s, n) \in Nat
  BY PacketsPlaced
<1>2. \A n \in 1..N : Start(s, n) = Start(s, n - 1) + Size(s[n]) /\ Size(s[n]) \in Nat
  <2>1. \A n \in 1..N : Size(s[n]) \in Nat
    <3>1. \A n \in 1..N : GoodPacket(s[n])
      BY DEF GoodLine
    <3> QED
      BY <3>1, SizeIs
  <2> QED
    BY <2>1, PacketsPlaced
<1> DEFINE S == {d \in 0..(N - a) : Start(s, a) <= Start(s, a + d)}
<1>3. 0 \in S
  BY <1>1
<1>4. ASSUME NEW d \in 0..((N - a) - 1), d \in S
      PROVE  d + 1 \in S
  <2>1. PICK n \in 1..N : n = a + (d + 1)
    OBVIOUS
  <2>2. n - 1 = a + d /\ a + d \in 0..N
    BY <2>1
  <2>3. Start(s, n) = Start(s, a + d) + Size(s[n]) /\ Size(s[n]) \in Nat
    BY <1>2, <2>2
  <2>4. Start(s, a) <= Start(s, a + d)
    BY <1>4
  <2>5. Start(s, a) <= Start(s, n)
    BY <1>1, <2>2, <2>3, <2>4
  <2> QED
    BY <2>1, <2>5
<1>5. 0..(N - a) \subseteq S
  <2> HIDE DEF S
  <2>1. N - a \in Nat
    OBVIOUS
  <2> QED
    BY <1>3, <1>4, <2>1, UpTo
<1>6. b - a \in 0..(N - a) /\ a + (b - a) = b
  OBVIOUS
<1>7. Start(s, a) <= Start(s, b)
  <2>1. b - a \in S
    BY <1>5, <1>6
  <2>2. Start(s, a) <= Start(s, a + (b - a))
    BY <2>1
  <2> QED
    BY <1>6, <2>2
<1>8. a \in 0..N /\ b \in 0..N
  OBVIOUS
<1> HIDE DEF S
<1> QED
  BY <1>1, <1>7, <1>8

(* The packets behind the header arrive as they are. *)
Body(line, n) ==
  LET p == Packets(line)[n + 1]
  IN  /\ IsBodyPacket(p) /\ GoodPacket(p)
      /\ p.kind = "trailer" <=> n = Count(line) - 1
      /\ Before(line, n) \in Nat /\ Before(line, n) >= 19
      /\ Before(line, n + 1) = Before(line, n) + Size(p)
      /\ \A k \in 1..Size(p) : DataAt(line, Before(line, n) + k) = PacketBits(p)[k]

LEMMA BodyOfLine ==
  ASSUME Sent, HeadersDamaged, NEW line \in {0, 1}, Proper(line), NEW n \in 1..(Count(line) - 1)
  PROVE  Body(line, n)
<1>1. PICK s : s = Packets(line) /\ GoodLine(s)
  BY GoodLines
<1>2. PICK N \in Nat : N = Len(s) /\ N = Count(line)
  BY <1>1, GoodLines DEF Count
<1>3. n \in 1..(N - 1) /\ n + 1 \in 1..N /\ 1 \in 1..N /\ n \in 1..N
  BY <1>2
<1>4. \A i \in 1..N : /\ s[i].kind = "header" <=> i = 1
                      /\ s[i].kind = "trailer" <=> i = N
                      /\ s[i].kind = "config" => s[i].conf1 < 128
                      /\ GoodPacket(s[i]) /\ IsPacket(s[i])
  <2>1. DOMAIN s = 1..N
    <3>1. s \in Seq(SendablePackets)
      BY <1>1, Zenon DEF GoodLine
    <3>2. N = Len(s)
      BY <1>2
    <3> QED
      BY <3>1, <3>2
  <2>2. \A i \in 1..N : /\ s[i].kind = "header" <=> i = 1
                        /\ s[i].kind = "trailer" <=> i = N
                        /\ s[i].kind = "config" => s[i].conf1 < 128
    BY <1>1, <1>2, <2>1, Zenon DEF Proper
  <2>3. \A i \in 1..N : GoodPacket(s[i]) /\ IsPacket(s[i])
    BY <1>1, <1>2, Zenon DEF GoodLine, GoodPacket
  <2> QED
    BY <2>2, <2>3
<1>5. IsBodyPacket(s[n + 1]) /\ (s[n + 1].kind = "trailer" <=> n = N - 1)
  BY <1>3, <1>4 DEF IsBodyPacket
<1>6. Start(s, 1) = 19
  <2>1. Start(s, 1) = Start(s, 1 - 1) + Size(s[1])
    BY <1>1, <1>2, <1>3, PacketsPlaced
  <2>2. Start(s, 0) = 0
    BY <1>1, <1>2, PacketsPlaced
  <2>3. Size(s[1]) = 19
    BY <1>3, <1>4, SizeIs
  <2> QED
    BY <2>1, <2>2, <2>3
<1>7. PICK a \in Nat : a = Start(s, n) /\ a >= 19
  <2>1. 1 \in 0..N /\ n \in 1..N
    BY <1>3
  <2>2. Start(s, n) \in Nat /\ Start(s, 1) <= Start(s, n)
    BY <1>1, <1>2, <2>1, Later
  <2> QED
    BY <1>6, <2>2
<1>8. (n + 1) - 1 = n
  OBVIOUS
<1>9. Start(s, n + 1) = Start(s, n) + Size(s[n + 1])
  BY <1>1, <1>2, <1>3, <1>8, PacketsPlaced, ZenonT(30)
<1>10. ASSUME NEW k \in 1..Size(s[n + 1])
       PROVE  DataAt(line, Start(s, n) + k) = PacketBits(s[n + 1])[k]
  <2>1. Start(s, n) + k >= 20
    BY <1>3, <1>4, <1>7, SizeIs
  <2>2. AsSent(line, s, N)
    BY <1>1, <1>2, DataOfLine
  <2>3. PICK m : m = n + 1 /\ m \in 1..N /\ m - 1 = n
    BY <1>3, <1>8
  <2>4. k \in 1..Size(s[m])
    BY <2>3
  <2>5. Start(s, m - 1) + k >= 20
    BY <2>1, <2>3
  <2>6. DataAt(line, Start(s, m - 1) + k) = PacketBits(s[m])[k]
    BY <2>2, <2>3, <2>4, <2>5, Zenon DEF AsSent
  <2> QED
    BY <2>3, <2>6
<1> QED
  BY <1>1, <1>2, <1>3, <1>4, <1>5, <1>7, <1>9, <1>10, Zenon DEF Body, Before

-------------------------------------------------------------------------------
(* Windows on the data that arrive. *)

(* The next 32 bits, and zeros behind the last. *)
Shows(buffer, line, position) ==
  buffer = [i \in 1..32 |-> IF position + i <= Len(data[line]) THEN {position + i} ELSE {}]

LEMMA WindowShows ==
  ASSUME Sent, HeadersDamaged, NEW line \in {0, 1}, NEW r \in Nat,
         NEW buffer, Shows(buffer, line, r)
  PROVE  WindowOn(line, buffer) = WordFrom(line, r) /\ WordFrom(line, r) \in [1..32 -> Bit]
<1>1. PICK L \in Nat : L = Len(data[line])
  BY DataOfLine, GoodLines
<1>2. data[line] \in Seq(Bit)
  BY DataOfLine, GoodLines
<1>3. \A k \in 1..L : data[line][k] \in Bit
  BY <1>1, <1>2
<1>4. ASSUME NEW i \in 1..32
      PROVE  /\ (IF \E k \in buffer[i] : data[line][k] = 1 THEN 1 ELSE 0) = DataAt(line, r + i)
             /\ DataAt(line, r + i) \in Bit
  <2>1. CASE r + i <= L
    <3>1. buffer[i] = {r + i} /\ r + i \in 1..L
      BY <1>1, <2>1 DEF Shows
    <3>2. data[line][r + i] \in {0, 1}
      BY <1>3, <3>1 DEF Bit
    <3> QED
      BY <1>1, <3>1, <3>2 DEF DataAt, Bit
  <2>2. CASE ~(r + i <= L)
    <3>1. buffer[i] = {} /\ r + i \notin 1..L
      BY <1>1, <2>2 DEF Shows
    <3> QED
      BY <1>1, <3>1 DEF DataAt, Bit
  <2> QED
    BY <2>1, <2>2
<1>5. WindowOn(line, buffer) = WordFrom(line, r)
  BY <1>4 DEF WindowOn, WordFrom
<1>6. WordFrom(line, r) \in [1..32 -> Bit]
  BY <1>4 DEF WordFrom
<1> QED
  BY <1>5, <1>6

LEMMA ConstructedShows ==
  ASSUME NEW count \in Nat, NEW i \in 1..32
  PROVE  Stream!Constructed(count).m_currentBuffer[i] = IF i <= count * 24 THEN {i} ELSE {}
<1>1. \A k \in 1..2 : Stream!DataWord(k) =
        [j \in 1..32 |-> IF j > 8 THEN {(k - 1) * 24 + j - 8} ELSE {}]
  BY DEF Stream!DataWord
<1> DEFINE words == [k \in 1..count |-> Stream!DataWord(k)]
           one == Stream!ShiftLeft(words[1], 8)
           two == Stream!ShiftRight(words[2], 16)
<1>2. Stream!Constructed(count).m_currentBuffer =
        CASE count = 0 -> Stream!Zero
          [] count = 1 -> one
          [] OTHER     -> Stream!Or(one, two)
  BY DEF Stream!Constructed, Stream!Spare
<1>3. CASE count = 0
  BY <1>2, <1>3 DEF Stream!Zero
<1>4. count = 1 => Stream!Constructed(count).m_currentBuffer = one
  <2> HIDE DEF one, two
  <2> QED
    BY <1>2
<1>5. count >= 2 => Stream!Constructed(count).m_currentBuffer = Stream!Or(one, two)
  <2> HIDE DEF one, two
  <2> QED
    BY <1>2
<1>6. ASSUME count >= 1
      PROVE  one = [j \in 1..32 |-> IF j <= 24 THEN {j} ELSE {}]
  <2>1. words[1] = [j \in 1..32 |-> IF j > 8 THEN {(1 - 1) * 24 + j - 8} ELSE {}]
    BY <1>1, <1>6
  <2>2. ASSUME NEW j \in 1..32
        PROVE  (IF j + 8 <= 32 THEN words[1][j + 8] ELSE {}) = IF j <= 24 THEN {j} ELSE {}
    <3> HIDE DEF words
    <3>1. PICK word : word = words[1] /\ word = [k \in 1..32 |-> IF k > 8 THEN {(1 - 1) * 24 + k - 8} ELSE {}]
      BY <2>1
    <3> QED
      BY <3>1
  <2> HIDE DEF words
  <2> QED
    BY <2>2 DEF Stream!ShiftLeft
<1>7. ASSUME count >= 2
      PROVE  two = [j \in 1..32 |-> IF j > 24 THEN {j} ELSE {}]
  <2>1. words[2] = [j \in 1..32 |-> IF j > 8 THEN {(2 - 1) * 24 + j - 8} ELSE {}]
    BY <1>1, <1>7
  <2>2. ASSUME NEW j \in 1..32
        PROVE  (IF j > 16 THEN words[2][j - 16] ELSE {}) = IF j > 24 THEN {j} ELSE {}
    <3> HIDE DEF words
    <3>1. PICK word : word = words[2] /\ word = [k \in 1..32 |-> IF k > 8 THEN {(2 - 1) * 24 + k - 8} ELSE {}]
      BY <2>1
    <3> QED
      BY <3>1
  <2> HIDE DEF words
  <2> QED
    BY <2>2 DEF Stream!ShiftRight
<1> HIDE DEF one, two
<1>8. CASE count = 1
  <2>1. count >= 1
    BY <1>8
  <2>2. one = [j \in 1..32 |-> IF j <= 24 THEN {j} ELSE {}]
    BY <1>6, <2>1, Zenon
  <2>3. PICK buffer : buffer = Stream!Constructed(count).m_currentBuffer /\ buffer = one
    BY <1>8, <1>4, Zenon
  <2>4. buffer[i] = IF i <= 24 THEN {i} ELSE {}
    BY <2>2, <2>3
  <2>5. i <= count * 24 <=> i <= 24
    BY <1>8
  <2> QED
    BY <2>3, <2>4, <2>5, Zenon
<1>9. CASE count >= 2
  <2>1. Stream!Constructed(count).m_currentBuffer = [j \in 1..32 |-> one[j] \cup two[j]]
    BY <1>9, <1>5 DEF Stream!Or
  <2>2. /\ one[i] = IF i <= 24 THEN {i} ELSE {}
        /\ two[i] = IF i > 24 THEN {i} ELSE {}
    <3>1. count >= 1
      BY <1>9
    <3>2. one = [j \in 1..32 |-> IF j <= 24 THEN {j} ELSE {}]
      BY <1>6, <3>1, Zenon
    <3>3. two = [j \in 1..32 |-> IF j > 24 THEN {j} ELSE {}]
      BY <1>7, <1>9, Zenon
    <3>4. one[i] = IF i <= 24 THEN {i} ELSE {}
      BY <3>2
    <3>5. two[i] = IF i > 24 THEN {i} ELSE {}
      BY <3>3
    <3> QED
      BY <3>4, <3>5, Zenon
  <2>3. Stream!Constructed(count).m_currentBuffer[i] = one[i] \cup two[i]
    BY <2>1
  <2>4. i <= count * 24
    BY <1>9
  <2>5. one[i] \cup two[i] = {i}
    BY <2>2
  <2> QED
    BY <2>3, <2>4, <2>5
<1> QED
  BY <1>3, <1>8, <1>9

(* The first word of a line shows its first 32 bits. *)
LEMMA FirstWordIs ==
  ASSUME Sent, HeadersDamaged, NEW line \in {0, 1}
  PROVE  /\ FirstWord(line) = WordFrom(line, 0) /\ FirstWord(line) \in [1..32 -> Bit]
         /\ \E count \in Nat : count = Len(data[line]) \div 24 /\ count * 24 = Len(data[line])
<1>1. PICK L \in Nat : L = Len(data[line]) /\ L % 24 = 0
  BY DataOfLine, GoodLines
<1>2. PICK count \in Nat : count = L \div 24 /\ count * 24 = L
  <2>1. PICK q \in Nat, r \in 0..23 : q = L \div 24 /\ r = L % 24
    OBVIOUS
  <2>2. L = 24 * q + r
    BY <2>1
  <2>3. L % 24 = 0
    BY <1>1
  <2>4. r = 0
    BY <2>1, <2>3
  <2>5. q * 24 = L
    BY <2>2, <2>4
  <2> QED
    BY <2>1, <2>5
<1>3. PICK buffer : buffer = Stream!Constructed(count).m_currentBuffer
  OBVIOUS
<1>4. Shows([i \in 1..32 |-> buffer[i]], line, 0)
  <2>1. ASSUME NEW i \in 1..32
        PROVE  buffer[i] = IF 0 + i <= L THEN {0 + i} ELSE {}
    <3>1. buffer[i] = IF i <= count * 24 THEN {i} ELSE {}
      BY <1>3, ConstructedShows
    <3> QED
      BY <1>2, <3>1
  <2> QED
    BY <1>1, <2>1 DEF Shows
<1>5. WindowOn(line, buffer) = WindowOn(line, [i \in 1..32 |-> buffer[i]])
  BY DEF WindowOn
<1> QED
  <2>1. FirstWord(line) = WindowOn(line, buffer)
    BY <1>1, <1>2, <1>3, Zenon DEF FirstWord
  <2>2. /\ WindowOn(line, [i \in 1..32 |-> buffer[i]]) = WordFrom(line, 0)
        /\ WordFrom(line, 0) \in [1..32 -> Bit]
    BY <1>4, WindowShows
  <2>3. \E c \in Nat : c = Len(data[line]) \div 24 /\ c * 24 = Len(data[line])
    BY <1>1, <1>2, Zenon
  <2> QED
    BY <1>5, <2>1, <2>2, <2>3, Zenon

-------------------------------------------------------------------------------
(* Headers. *)

(* The decoder finds a header in the first word it looks at: on led, that  *)
(* is what the first word of ledx says.                                    *)
Heard(line) == IsHeader(FirstWord(1)) \/ (line = 1 /\ IsHeader(FirstWord(0)))

(* Only headers are damaged, and nothing is mistaken for one.              *)
Sound == HeadersDamaged /\ \A line \in {0, 1} : Heard(line) \/ ~HeaderWithin(line)

(* The header of the event. *)
Identity == IF IsHeader(FirstWord(1)) THEN FirstWord(1) ELSE FirstWord(0)

SameIdentity(v, w) ==
  /\ IsHeader(v) <=> IsHeader(w)
  /\ Field(v, 7, 10) = Field(w, 7, 10) /\ Field(v, 11, 18) = Field(w, 11, 18)

LEMMA CutEqual ==
  ASSUME NEW v \in [1..32 -> Bit], NEW w \in [1..32 -> Bit], NEW from \in 1..32, NEW to \in from..32,
         \A k \in from..to : v[k] = w[k]
  PROVE  SubSeq(v, from, to) = SubSeq(w, from, to)
<1>1. \A u \in [1..32 -> Bit] :
        /\ SubSeq(u, from, to) \in Seq(Bit) /\ Len(SubSeq(u, from, to)) = to - from + 1
        /\ \A i \in 1..(to - from + 1) : SubSeq(u, from, to)[i] = u[from + i - 1]
  <2> TAKE u \in [1..32 -> Bit]
  <2>1. \A i \in from..to : u[i] \in Bit
    OBVIOUS
  <2>2. /\ SubSeq(u, from, to) \in Seq(Bit)
        /\ Len(SubSeq(u, from, to)) = IF from <= to THEN to - from + 1 ELSE 0
        /\ \A i \in 1..(to - from + 1) : SubSeq(u, from, to)[i] = u[from + i - 1]
    BY <2>1, SubSeqProperties
  <2> QED
    BY <2>2
<1>2. PICK s, t : s = SubSeq(v, from, to) /\ t = SubSeq(w, from, to)
  OBVIOUS
<1>3. s \in Seq(Bit) /\ t \in Seq(Bit) /\ Len(s) = Len(t)
  BY <1>1, <1>2
<1>4. \A i \in 1..(to - from + 1) : from + i - 1 \in from..to
  OBVIOUS
<1>5. \A i \in 1..Len(s) : s[i] = t[i]
  BY <1>1, <1>2, <1>4
<1> QED
  BY <1>2, <1>3, <1>5, SeqEqual

LEMMA SameHeader ==
  ASSUME NEW v \in [1..32 -> Bit], NEW w \in [1..32 -> Bit], SubSeq(v, 1, 19) = SubSeq(w, 1, 19)
  PROVE  SameIdentity(v, w)
<1>1. \A k \in 1..19 : v[k] = w[k]
  <2>1. \A u \in [1..32 -> Bit] : \A i \in 1..19 : SubSeq(u, 1, 19)[i] = u[i]
    <3> TAKE u \in [1..32 -> Bit]
    <3>1. \A i \in 1..19 : u[i] \in Bit
      OBVIOUS
    <3>2. \A i \in 1..(19 - 1 + 1) : SubSeq(u, 1, 19)[i] = u[1 + i - 1]
      BY <3>1, SubSeqProperties
    <3> QED
      BY <3>2
  <2> QED
    BY <2>1
<1>2. SubSeq(v, 7, 10) = SubSeq(w, 7, 10)
  <2>1. 7 \in 1..32 /\ 10 \in 7..32 /\ \A k \in 7..10 : v[k] = w[k]
    BY <1>1
  <2> QED
    BY <2>1, CutEqual, Zenon
<1>3. SubSeq(v, 11, 18) = SubSeq(w, 11, 18)
  <2>1. 11 \in 1..32 /\ 18 \in 11..32 /\ \A k \in 11..18 : v[k] = w[k]
    BY <1>1
  <2> QED
    BY <2>1, CutEqual, Zenon
<1>4. IsHeader(v) <=> IsHeader(w)
  BY <1>1, Tags
<1> QED
  BY <1>2, <1>3, <1>4, Zenon DEF SameIdentity, Field

LEMMA HeaderFound ==
  ASSUME Sent, HeadersDamaged, NEW line \in {0, 1}, NEW r \in Nat, r > 0,
         IsHeader(WordFrom(line, r))
  PROVE  HeaderWithin(line)
<1>1. PICK L \in Nat : L = Len(data[line])
  BY DataOfLine, GoodLines
<1>2. data[line] \in Seq(Bit)
  BY DataOfLine, GoodLines
<1>3. \A k \in 1..L : data[line][k] \in Bit
  BY <1>1, <1>2
<1>4. PICK word \in [1..32 -> Bit] : word = WordFrom(line, r)
  <2>1. PICK buffer : Shows(buffer, line, r)
    BY DEF Shows
  <2> QED
    BY <2>1, WindowShows
<1>5. /\ word[1] = 1 /\ word[2] = 1 /\ word[3] = 1
      /\ word[4] = 0 /\ word[5] = 1 /\ word[6] = 0 /\ word[19] = 1
  BY <1>4, Tags
<1>6. \A k \in 1..32 : word[k] = IF r + k \in 1..L THEN data[line][r + k] ELSE 0
  BY <1>1, <1>4 DEF WordFrom, DataAt
<1>7. r + 19 <= L
  BY <1>5, <1>6
<1>8. PICK p \in 2..(L - 18) : p = r + 1
  BY <1>7
<1>9. PICK s : s = SubSeq(data[line], p, p + 18)
  OBVIOUS
<1>10. s \in Seq(Bit) /\ Len(s) = 19 /\ \A k \in 1..19 : s[k] = word[k] /\ s[k] \in Bit
  <2>1. \A k \in 1..L : data[line][k] \in Bit
    BY <1>3
  <2>2. \A k \in p..(p + 18) : data[line][k] \in Bit
    <3>1. \A k \in p..(p + 18) : k \in 1..L
      BY <1>8
    <3> QED
      BY <2>1, <3>1
  <2>3. /\ s \in Seq(Bit)
        /\ Len(s) = IF p <= p + 18 THEN (p + 18) - p + 1 ELSE 0
        /\ \A k \in 1..((p + 18) - p + 1) : s[k] = data[line][p + k - 1]
    BY <1>9, <2>2, SubSeqProperties
  <2>4. Len(s) = 19 /\ (p + 18) - p + 1 = 19
    BY <2>3
  <2>5. ASSUME NEW k \in 1..19
        PROVE  s[k] = word[k] /\ s[k] \in Bit
    <3>1. p + k - 1 = r + k /\ r + k \in 1..L
      BY <1>7, <1>8
    <3>2. s[k] = data[line][r + k]
      BY <2>3, <2>4, <3>1
    <3>3. word[k] = data[line][r + k]
      BY <1>6, <3>1
    <3> QED
      BY <2>1, <3>1, <3>2, <3>3
  <2> QED
    BY <2>3, <2>4, <2>5
<1>11. \A k \in 1..6 : s[k] = word[k] /\ s[k] \in Bit
  <2>1. \A k \in 1..6 : k \in 1..19
    OBVIOUS
  <2> QED
    BY <1>10, <2>1, Zenon
<1>12. SubSeq(s, 1, 6) = <<1,1,1,0,1,0>>
  <2>1. \A k \in 1..6 : s[k] \in Bit
    BY <1>11
  <2>2. /\ SubSeq(s, 1, 6) \in Seq(Bit)
        /\ Len(SubSeq(s, 1, 6)) = IF 1 <= 6 THEN 6 - 1 + 1 ELSE 0
        /\ \A k \in 1..(6 - 1 + 1) : SubSeq(s, 1, 6)[k] = s[1 + k - 1]
    BY <2>1, SubSeqProperties
  <2>3. \A k \in 1..6 : SubSeq(s, 1, 6)[k] = s[k]
    BY <2>2
  <2>4. PICK t, u : t = SubSeq(s, 1, 6) /\ u = <<1,1,1,0,1,0>> /\ IsBits(u, 6)
    BY SmallSequences
  <2>5. t \in Seq(Bit) /\ Len(t) = 6
    BY <2>2, <2>4
  <2>6. \A k \in 1..6 : t[k] = u[k]
    <3>1. u[1] = 1 /\ u[2] = 1 /\ u[3] = 1 /\ u[4] = 0 /\ u[5] = 1 /\ u[6] = 0
      BY <2>4
    <3>2. \A k \in 1..6 : t[k] = word[k]
      BY <1>11, <2>3, <2>4, Zenon
    <3> QED
      BY <1>5, <3>1, <3>2
  <2>7. u \in Seq(Bit) /\ Len(u) = 6
    BY <2>4 DEF IsBits
  <2> QED
    BY <2>4, <2>5, <2>6, <2>7, SeqEqual
<1>13. IsHeader(s)
  BY <1>5, <1>10, <1>12 DEF IsHeader
<1> QED
  BY <1>1, <1>8, <1>9, <1>13 DEF HeaderWithin

(* The word looked at for a header. *)
LEMMA HeaderWordIs ==
  ASSUME Sent, Sound, LED \in {0, 1}, NEW r \in Nat, Shows(m_currentBuffer, LED, r)
  PROVE  /\ GetWord32 = WordFrom(LED, r) /\ GetWord32 \in [1..32 -> Bit]
         /\ ~first => HeaderWord = GetWord32
         /\ first /\ r = 0 => /\ IsHeader(HeaderWord) <=> Heard(LED)
                              /\ Heard(LED) => SameIdentity(HeaderWord, Identity)
         /\ ~first /\ r > 0 /\ ~Heard(LED) => ~IsHeader(HeaderWord)
<1>1. HeadersDamaged
  BY DEF Sound
<1>2. GetWord32 = WordFrom(LED, r) /\ GetWord32 \in [1..32 -> Bit]
  BY <1>1, WindowShows DEF GetWord32
<1>3. ~first => HeaderWord = GetWord32
  BY DEF HeaderWord
<1>4. ASSUME ~first, r > 0, ~Heard(LED)
      PROVE  ~IsHeader(HeaderWord)
  BY <1>1, <1>2, <1>3, <1>4, HeaderFound DEF Sound
<1>5. /\ FirstWord(0) = WordFrom(0, 0) /\ FirstWord(1) = WordFrom(1, 0)
      /\ FirstWord(0) \in [1..32 -> Bit] /\ FirstWord(1) \in [1..32 -> Bit]
  BY <1>1, FirstWordIs
<1>6. ASSUME first, r = 0
      PROVE  /\ IsHeader(HeaderWord) <=> Heard(LED)
             /\ Heard(LED) => SameIdentity(HeaderWord, Identity)
  <2>1. GetWord32 = FirstWord(LED)
    BY <1>2, <1>5, <1>6
  <2>2. CASE LED = 1
    <3>1. OtherWord32 = FirstWord(0)
      BY <2>2 DEF OtherWord32
    <3>2. HeaderWord = Identity
      BY <1>6, <2>1, <2>2, <3>1, Zenon DEF HeaderWord, Identity
    <3> QED
      BY <2>2, <3>2 DEF Identity, Heard, SameIdentity
  <2>3. CASE LED = 0
    <3>1. OtherWord32 = FirstWord(1)
      BY <2>3 DEF OtherWord32
    <3>2. HeaderWord \in [1..32 -> Bit] /\ SubSeq(HeaderWord, 1, 19) = SubSeq(FirstWord(1), 1, 19)
      BY <1>2, <1>5, <1>6, <2>3, <3>1, Zenon DEF HeaderWord
    <3>3. SameIdentity(HeaderWord, FirstWord(1))
      BY <1>5, <3>2, SameHeader
    <3> QED
      BY <2>3, <3>3 DEF Identity, Heard, SameIdentity
  <2> QED
    BY <2>2, <2>3
<1> QED
  BY <1>2, <1>3, <1>4, <1>6

-------------------------------------------------------------------------------
(* What the windows show that the decoder looks at. *)

(* A window on what follows the first m bits of a packet. *)
Inside(word, p, m) ==
  /\ word \in [1..32 -> Bit]
  /\ \A i \in 1..32 : m + i <= Size(p) => word[i] = PacketBits(p)[m + i]

LEMMA InPacket ==
  ASSUME Sent, HeadersDamaged, NEW line \in {0, 1}, Proper(line), NEW n \in 1..(Count(line) - 1),
         NEW p, p = Packets(line)[n + 1], NEW a, a = Before(line, n), NEW m \in Nat
  PROVE  a \in Nat /\ Size(p) \in Nat /\ Inside(WordFrom(line, a + m), p, m)
<1>1. /\ a \in Nat /\ GoodPacket(p)
      /\ \A k \in 1..Size(p) : DataAt(line, a + k) = PacketBits(p)[k]
  BY BodyOfLine DEF Body
<1>2. PICK z \in Nat : z = Size(p)
  BY <1>1, SizeIs
<1>3. WordFrom(line, a + m) \in [1..32 -> Bit]
  <2>1. PICK buffer : Shows(buffer, line, a + m)
    BY DEF Shows
  <2>2. a + m \in Nat
    BY <1>1
  <2> QED
    BY <2>1, <2>2, WindowShows
<1>4. ASSUME NEW i \in 1..32, m + i <= z
      PROVE  WordFrom(line, a + m)[i] = PacketBits(p)[m + i]
  <2>1. m + i \in 1..z /\ (a + m) + i = a + (m + i)
    BY <1>1, <1>4
  <2>2. DataAt(line, a + (m + i)) = PacketBits(p)[m + i]
    BY <1>1, <1>2, <2>1
  <2>3. WordFrom(line, a + m)[i] = DataAt(line, (a + m) + i)
    BY DEF WordFrom
  <2> QED
    BY <2>1, <2>2, <2>3
<1> QED
  BY <1>1, <1>2, <1>3, <1>4 DEF Inside

LEMMA DataFields ==
  ASSUME NEW p, IsPacket(p), p.kind = "data"
  PROVE  p.chip \in 0..15 /\ p.channel \in 0..127 /\ p.hits \in Seq(0..7)
BY KindsOfPackets

(* A field of the window that lies in a part of the packet. *)
LEMMA FieldOf ==
  ASSUME NEW p, NEW b, b = PacketBits(p), NEW size \in Nat, size = Size(p),
         NEW word, NEW m \in Nat, Inside(word, p, m),
         NEW from \in 1..32, NEW to \in from..32, NEW w \in 1..7, to = from + w - 1,
         m + to <= size, NEW at, at = m + from - 1,
         NEW x \in Nat, x < BitValues[w + 1], Follows(b, at, Digits(x, w), w)
  PROVE  Field(word, from, to) = x
<1>1. word \in [1..32 -> Bit] /\ \A i \in 1..32 : m + i <= size => word[i] = b[m + i]
  BY DEF Inside
<1>2. ASSUME NEW i \in 1..w
      PROVE  word[from + i - 1] = Digits(x, w)[i]
  <2>1. PICK k \in 1..32 : k = from + i - 1 /\ m + k <= size /\ m + k = at + i
    OBVIOUS
  <2>2. word[k] = b[at + i]
    BY <1>1, <2>1
  <2>3. b[at + i] = Digits(x, w)[i]
    BY DEF Follows
  <2> QED
    BY <2>1, <2>2, <2>3
<1>3. from + w - 1 <= 32
  OBVIOUS
<1>4. Field(word, from, from + w - 1) = x
  BY <1>1, <1>2, <1>3, FieldIs
<1> QED
  BY <1>4

LEMMA Values ==
  BitValues[3 + 1] = 8 /\ BitValues[4 + 1] = 16 /\ BitValues[7 + 1] = 128
BY DEF BitValues

LEMMA PacketShown ==
  ASSUME Sent, HeadersDamaged, NEW line \in {0, 1}, Proper(line), NEW n \in 1..(Count(line) - 1),
         NEW p, p = Packets(line)[n + 1], NEW word, word = WordFrom(line, Before(line, n))
  PROVE  /\ word \in [1..32 -> Bit] /\ IsBodyPacket(p) /\ Begins(word, p)
         /\ p.kind = "error" => /\ Field(word, 4, 7) = p.chip /\ Field(word, 8, 10) = p.err
                                /\ p.chip \in 0..15 /\ p.err \in 0..7
         /\ p.kind = "data"  => Field(word, 3, 6) = p.chip /\ Field(word, 7, 13) = p.channel
<1>1. PICK a \in Nat : a = Before(line, n) /\ a + 0 = a
  BY InPacket
<1>2. IsBodyPacket(p) /\ IsPacket(p) /\ GoodPacket(p)
  BY BodyOfLine DEF Body, IsBodyPacket
<1>3. PICK size \in Nat : size = Size(p)
  BY <1>2, SizeIs
<1>4. PICK m \in Nat : m = 0 /\ Inside(word, p, m)
  <2>1. PICK m \in Nat : m = 0
    OBVIOUS
  <2>2. a + m = a
    BY <2>1
  <2>3. Inside(WordFrom(line, a + m), p, m)
    BY <1>1, InPacket
  <2> QED
    BY <1>1, <2>1, <2>2, <2>3, Zenon
<1>5. word \in [1..32 -> Bit] /\ \A i \in 1..32 : m + i <= size => word[i] = PacketBits(p)[m + i]
  BY <1>3, <1>4 DEF Inside
<1>6. Begins(word, p)
  <2>1. ASSUME NEW k \in 1..size, k <= 32
        PROVE  word[k] = PacketBits(p)[k]
    <3>1. k \in 1..32 /\ m + k = k
      BY <1>4, <2>1
    <3> QED
      BY <1>5, <2>1, <3>1
  <2> QED
    BY <1>3, <2>1 DEF Begins, Size
<1>7. ASSUME p.kind = "error"
      PROVE  /\ Field(word, 4, 7) = p.chip /\ Field(word, 8, 10) = p.err
             /\ p.chip \in 0..15 /\ p.err \in 0..7
  <2>1. PICK b : b = PacketBits(p)
    OBVIOUS
  <2>2. Follows(b, 3, Digits(p.chip, 4), 4) /\ Follows(b, 7, Digits(p.err, 3), 3)
    BY <1>2, <1>7, <2>1, ErrorBits
  <2>3. size = 11
    BY <1>2, <1>3, <1>7, SizeIs
  <2>4. PICK c \in 0..15, err \in 0..7 : c = p.chip /\ err = p.err
    BY <1>2, <1>7, KindsOfPackets, ZenonT(120)
  <2>5. Field(word, 4, 7) = c
    <3>1. /\ 4 \in 1..32 /\ 7 \in 4..32 /\ 4 \in 1..7 /\ 7 = 4 + 4 - 1
          /\ m + 7 <= size /\ 3 = m + 4 - 1
          /\ c \in Nat /\ c < BitValues[4 + 1]
      BY <1>4, <2>3, Values
    <3>2. Follows(b, 3, Digits(c, 4), 4)
      BY <2>2, <2>4
    <3> QED
      BY <1>3, <1>4, <2>1, <3>1, <3>2, FieldOf
  <2>6. Field(word, 8, 10) = err
    <3>1. /\ 8 \in 1..32 /\ 10 \in 8..32 /\ 3 \in 1..7 /\ 10 = 8 + 3 - 1
          /\ m + 10 <= size /\ 7 = m + 8 - 1
          /\ err \in Nat /\ err < BitValues[3 + 1]
      BY <1>4, <2>3, Values
    <3>2. Follows(b, 7, Digits(err, 3), 3)
      BY <2>2, <2>4
    <3> QED
      BY <1>3, <1>4, <2>1, <3>1, <3>2, FieldOf
  <2> QED
    BY <2>4, <2>5, <2>6
<1>8. ASSUME p.kind = "data"
      PROVE  Field(word, 3, 6) = p.chip /\ Field(word, 7, 13) = p.channel
  <2>1. PICK b : b = PacketBits(p)
    OBVIOUS
  <2>2. Follows(b, 2, Digits(p.chip, 4), 4) /\ Follows(b, 6, Digits(p.channel, 7), 7)
    BY <1>2, <1>8, <2>1, DataBits
  <2>3. size >= 13
    <3>1. PICK N \in Nat : N = Len(p.hits) /\ N >= 1 /\ Size(p) = 13 + 4 * N
      BY <1>2, <1>8, SizeIs
    <3> QED
      BY <1>3, <3>1
  <2>4. PICK c \in 0..15, ch \in 0..127 : c = p.chip /\ ch = p.channel
    <3>1. p.chip \in 0..15 /\ p.channel \in 0..127
      BY <1>2, <1>8, DataFields
    <3> QED
      BY <3>1, Zenon
  <2>5. Field(word, 3, 6) = c
    <3>1. /\ 3 \in 1..32 /\ 6 \in 3..32 /\ 4 \in 1..7 /\ 6 = 3 + 4 - 1
          /\ m + 6 <= size /\ 2 = m + 3 - 1
          /\ c \in Nat /\ c < BitValues[4 + 1]
      BY <1>4, <2>3, Values
    <3>2. Follows(b, 2, Digits(c, 4), 4)
      BY <2>2, <2>4
    <3> QED
      BY <1>3, <1>4, <2>1, <3>1, <3>2, FieldOf
  <2>6. Field(word, 7, 13) = ch
    <3>1. /\ 7 \in 1..32 /\ 13 \in 7..32 /\ 7 \in 1..7 /\ 13 = 7 + 7 - 1
          /\ m + 13 <= size /\ 6 = m + 7 - 1
          /\ ch \in Nat /\ ch < BitValues[7 + 1]
      BY <1>4, <2>3, Values
    <3>2. Follows(b, 6, Digits(ch, 7), 7)
      BY <2>2, <2>4
    <3> QED
      BY <1>3, <1>4, <2>1, <3>1, <3>2, FieldOf
  <2> QED
    BY <2>4, <2>5, <2>6
<1> QED
  BY <1>2, <1>6, <1>7, <1>8, <1>5

(* A pattern of hits has three bits. *)
LEMMA Patterns == \A x \in 0..7 : x \in Nat /\ x < 8
OBVIOUS

(* Four more bits end a packet. *)
LEMMA Regrouped ==
  ASSUME NEW a \in Nat, NEW m \in Nat, NEW i \in 1..11, NEW size, m + 4 = size
  PROVE  (a + m) + (4 + i) = (a + size) + i
OBVIOUS

(* The last hit ends at the end of the packet. *)
LEMMA LastEnds ==
  ASSUME NEW N \in Nat, NEW j \in Int, j + 1 = N, NEW m, m = 13 + 4 * j,
         NEW size, size = 13 + 4 * N
  PROVE  m + 4 = size
OBVIOUS

(* The hits of a data packet, and the end of them. *)
AtHit(line, n, p, j) ==
  LET word == WordFrom(line, Before(line, n) + (13 + 4 * j))
  IN  word[1] = 1 /\ Field(word, 2, 4) = p.hits[j + 1] /\ ~IsTrailer(word)

LEMMA HitShown ==
  ASSUME Sent, HeadersDamaged, NEW line \in {0, 1}, Proper(line), NEW n \in 1..(Count(line) - 1),
         NEW p, p = Packets(line)[n + 1], p.kind = "data",
         NEW N \in Nat, N = Len(p.hits), NEW j \in 0..(N - 1)
  PROVE  AtHit(line, n, p, j)
<1> SUFFICES ASSUME NEW word, word = WordFrom(line, Before(line, n) + (13 + 4 * j))
             PROVE  word[1] = 1 /\ Field(word, 2, 4) = p.hits[j + 1] /\ ~IsTrailer(word)
  BY DEF AtHit
<1>1. IsBodyPacket(p) /\ IsPacket(p) /\ GoodPacket(p)
  BY BodyOfLine DEF Body, IsBodyPacket
<1>2. PICK size \in Nat : size = Size(p) /\ size = 13 + 4 * N
  <2>1. Size(p) = 13 + 4 * N
    BY <1>1, SizeIs
  <2>2. 13 + 4 * N \in Nat
    OBVIOUS
  <2> QED
    BY <2>1, <2>2
<1>3. PICK m \in Nat : m = 13 + 4 * j /\ m + 4 <= size
  BY <1>2
<1>4. Inside(word, p, m)
  BY <1>3, InPacket
<1>5. PICK b : b = PacketBits(p)
  OBVIOUS
<1>6. PICK k \in 1..N : k = j + 1 /\ 13 + 4 * k - 3 = m + 1
  BY <1>3
<1>7. PICK pattern \in 0..7 : pattern = p.hits[k]
  <2>1. p.hits \in Seq(0..7)
    BY <1>1, KindsOfPackets, Zenon
  <2> QED
    BY <2>1
<1>8. b[m + 1] = 1 /\ Follows(b, m + 1, Digits(pattern, 3), 3)
  <2>1. /\ b[13 + 4 * k - 3] = 1
        /\ Follows(b, 13 + 4 * k - 3, Digits(p.hits[k], 3), 3)
    BY <1>1, <1>5, DataBits
  <2> QED
    BY <1>6, <1>7, <2>1, Zenon
<1>9. word \in [1..32 -> Bit] /\ \A i \in 1..32 : m + i <= size => word[i] = b[m + i]
  BY <1>2, <1>4, <1>5 DEF Inside
<1>10. word[1] = 1
  <2>1. 1 \in 1..32 /\ m + 1 <= size
    BY <1>3
  <2> QED
    BY <1>8, <1>9, <2>1, Zenon
<1>11. Field(word, 2, 4) = pattern
  <2>1. PICK at : at = m + 1 /\ at = m + 2 - 1
    OBVIOUS
  <2>2. /\ 2 \in 1..32 /\ 4 \in 2..32 /\ 3 \in 1..7 /\ 4 = 2 + 3 - 1
        /\ m + 4 <= size
        /\ pattern \in Nat /\ pattern < BitValues[3 + 1]
    <3>1. 2 \in 1..32 /\ 4 \in 2..32 /\ 3 \in 1..7 /\ 4 = 2 + 3 - 1
      OBVIOUS
    <3>2. pattern \in Nat /\ pattern < 8
      BY Patterns
    <3>3. pattern < BitValues[3 + 1]
      BY <3>2, Values, Zenon
    <3> QED
      BY <1>3, <3>1, <3>2, <3>3, Zenon
  <2>3. Follows(b, at, Digits(pattern, 3), 3)
    BY <1>8, <2>1, Zenon
  <2>4. size = Size(p)
    BY <1>2
  <2> QED
    BY <1>4, <1>5, <2>1, <2>2, <2>3, <2>4, FieldOf
<1>12. n + 1 \in 1..(Count(line) - 1)
  <2>1. n # Count(line) - 1
    BY BodyOfLine DEF Body
  <2>2. Count(line) \in Nat
    BY GoodLines
  <2> QED
    BY <2>1, <2>2, SMTT(30)
<1>13. ASSUME IsTrailer(word)
       PROVE  FALSE
  <2>1. \A i \in 2..16 : word[i] = 0
    BY <1>9, <1>13, Tags
  <2>2. CASE j + 1 < N
    <3>1. PICK h \in 1..N : h = j + 2 /\ 13 + 4 * h - 3 = m + 5 /\ m + 5 <= size
      BY <1>2, <1>3, <2>2
    <3>2. b[13 + 4 * h - 3] = 1
      BY <1>1, <1>5, DataBits
    <3>3. word[5] = b[m + 5]
      BY <1>9, <3>1
    <3> QED
      BY <2>1, <3>1, <3>2, <3>3
  <2>3. CASE j + 1 = N
    <3>1. PICK q : q = Packets(line)[(n + 1) + 1] /\ IsBodyPacket(q) /\ GoodPacket(q)
      BY <1>12, BodyOfLine DEF Body
    <3>2. PICK a \in Nat : a = Before(line, n) /\ Before(line, n + 1) = a + size
      BY <1>2, BodyOfLine, ZenonT(30) DEF Body
    <3>3. \A i \in 1..Size(q) : DataAt(line, Before(line, n + 1) + i) = PacketBits(q)[i]
      BY <1>12, <3>1, BodyOfLine DEF Body
    <3>4. PICK i \in 1..11 : i \in 1..Size(q) /\ PacketBits(q)[i] = 1
      <4>1. PICK i \in 1..11 : i <= Len(PacketBits(q)) /\ PacketBits(q)[i] = 1
        BY <3>1, SomeOne, Zenon
      <4>2. PICK z \in Nat : z = Len(PacketBits(q))
        BY <3>1, SomeOne, Zenon
      <4>3. i \in 1..z
        BY <4>1, <4>2
      <4> QED
        BY <4>1, <4>2, <4>3, Zenon DEF Size
    <3>5. word[4 + i] = DataAt(line, (a + m) + (4 + i))
      <4>1. PICK e \in 1..32 : e = 4 + i
        OBVIOUS
      <4>2. word = WordFrom(line, a + m)
        BY <1>3, <3>2, Zenon
      <4>3. word[e] = DataAt(line, (a + m) + e)
        BY <4>2, Zenon DEF WordFrom
      <4> QED
        BY <4>1, <4>3, Zenon
    <3>6. (a + m) + (4 + i) = Before(line, n + 1) + i
      <4>1. m + 4 = size
        <5>1. N \in Nat /\ j \in Int /\ j + 1 = N
          BY <2>3
        <5>2. m = 13 + 4 * j /\ size = 13 + 4 * N
          BY <1>2, <1>3, Zenon
        <5> QED
          BY <5>1, <5>2, LastEnds, SMTT(30)
      <4>2. (a + m) + (4 + i) = (a + size) + i
        <5>1. a \in Nat /\ m \in Nat /\ i \in 1..11
          BY <3>2, <3>4
        <5> QED
          BY <4>1, <5>1, Regrouped
      <4> QED
        BY <3>2, <4>2
    <3>7. word[4 + i] = 1
      BY <3>3, <3>4, <3>5, <3>6, Zenon
    <3>8. 4 + i \in 2..16
      OBVIOUS
    <3>9. word[4 + i] = 0
      BY <2>1, <3>8, Zenon
    <3> QED
      BY <3>7, <3>9
  <2> QED
    BY <2>2, <2>3
<1> QED
  BY <1>6, <1>7, <1>10, <1>11, <1>13

LEMMA HitsOver ==
  ASSUME Sent, HeadersDamaged, NEW line \in {0, 1}, Proper(line), NEW n \in 1..(Count(line) - 1),
         NEW p, p = Packets(line)[n + 1], p.kind = "data",
         NEW N \in Nat, N = Len(p.hits)
  PROVE  /\ n + 1 \in 1..(Count(line) - 1)
         /\ Before(line, n) + (13 + 4 * N) = Before(line, n + 1)
         /\ LET word == WordFrom(line, Before(line, n + 1))
            IN  word[1] # 1 \/ IsTrailer(word)
<1>1. n + 1 \in 1..(Count(line) - 1)
  <2>1. n # Count(line) - 1
    BY BodyOfLine DEF Body
  <2>2. Count(line) \in Nat
    BY GoodLines
  <2> QED
    BY <2>1, <2>2
<1>2. Before(line, n) + (13 + 4 * N) = Before(line, n + 1)
  <2>1. GoodPacket(p) /\ Before(line, n + 1) = Before(line, n) + Size(p)
    BY BodyOfLine DEF Body
  <2>2. Size(p) = 13 + 4 * N
    BY <2>1, SizeIs
  <2> QED
    BY <2>1, <2>2
<1> DEFINE q == Packets(line)[(n + 1) + 1]
           word == WordFrom(line, Before(line, n + 1))
<1>3. IsBodyPacket(q) /\ Begins(word, q) /\ word \in [1..32 -> Bit]
  BY <1>1, PacketShown
<1> HIDE DEF q, word
<1>4. IsError(word) \/ IsConfig(word) \/ IsData(word) \/ IsNoData(word) \/ IsTrailer(word)
  <2>1. q.kind \in {"data", "error", "config", "nodata", "trailer"}
    BY <1>3, KindsOfPackets DEF IsBodyPacket
  <2>2. /\ IsError(word)   <=> q.kind = "error"
        /\ ~IsError(word) => (IsConfig(word) <=> q.kind = "config")
        /\ IsData(word)    <=> q.kind = "data"
        /\ IsNoData(word)  <=> q.kind = "nodata"
        /\ IsTrailer(word) <=> q.kind = "trailer"
    BY <1>3, Recognized, Zenon
  <2> QED
    BY <2>1, <2>2
<1>5. word[1] # 1 \/ IsTrailer(word)
  <2>1. word \in [1..32 -> Bit]
    BY <1>3
  <2>2. IsError(word) \/ IsConfig(word) \/ IsData(word) \/ IsNoData(word) => word[1] = 0
    BY <2>1, Tags
  <2> QED
    BY <1>4, <2>2
<1> QED
  BY <1>1, <1>2, <1>5 DEF word

(* No data packet begins in the last 32 bits of a line. *)
LEMMA NoDataLost ==
  ASSUME Sent, HeadersDamaged, NEW line \in {0, 1}, Proper(line), NEW n \in 1..(Count(line) - 1),
         Len(data[line]) <= Before(line, n) + 32, NEW i \in (n + 1)..Count(line)
  PROVE  Packets(line)[i].kind # "data"
<1> SUFFICES ASSUME Packets(line)[i].kind = "data"
             PROVE  FALSE
  OBVIOUS
<1>1. PICK N \in Nat, k \in Nat : N = Count(line) /\ k = i - 1
  BY GoodLines
<1>2. i # N
  <2>1. N - 1 \in 1..(N - 1) /\ (N - 1) + 1 = N
    BY <1>1
  <2>2. Packets(line)[(N - 1) + 1].kind = "trailer"
    BY <1>1, <2>1, BodyOfLine DEF Body
  <2> QED
    BY <2>1, <2>2
<1>3. k \in 1..(N - 1) /\ k + 1 = i /\ k >= n /\ N - 1 \in 1..(N - 1) /\ (N - 1) + 1 = N /\ i \in 0..(N - 1)
  BY <1>1, <1>2
<1>4. PICK s : s = Packets(line) /\ GoodLine(s) /\ N = Len(s)
  BY <1>1, GoodLines DEF Count
<1>5. PICK a \in Nat, d \in Nat, e \in Nat, f \in Nat, z \in Nat :
        /\ a = Start(s, n) /\ d = Start(s, k) /\ e = Start(s, i) /\ f = Start(s, N - 1) /\ z = Start(s, N)
        /\ a <= d /\ e <= f
  <2>1. n \in 0..N /\ k \in n..N /\ i \in 0..N /\ N - 1 \in i..N /\ N \in 0..N /\ N \in N..N
    BY <1>1, <1>3
  <2>2. Start(s, n) \in Nat /\ Start(s, k) \in Nat /\ Start(s, n) <= Start(s, k)
    BY <1>4, <2>1, Later
  <2>3. Start(s, i) \in Nat /\ Start(s, N - 1) \in Nat /\ Start(s, i) <= Start(s, N - 1)
    BY <1>4, <2>1, Later
  <2>4. Start(s, N) \in Nat
    BY <1>4, <2>1, Later
  <2> QED
    BY <2>2, <2>3, <2>4
<1>6. e >= d + 17
  <2>1. Body(line, k)
    BY <1>1, <1>3, BodyOfLine
  <2>2. GoodPacket(Packets(line)[i]) /\ e = d + Size(Packets(line)[i])
    BY <1>3, <1>4, <1>5, <2>1 DEF Body, Before
  <2>3. PICK M \in Nat : M = Len(Packets(line)[i].hits) /\ M >= 1 /\ Size(Packets(line)[i]) = 13 + 4 * M
    BY <2>2, SizeIs
  <2> QED
    BY <2>2, <2>3
<1>7. z = f + 16
  <2>1. Body(line, N - 1)
    BY <1>1, <1>3, BodyOfLine
  <2>2. /\ GoodPacket(Packets(line)[N]) /\ z = f + Size(Packets(line)[N])
        /\ Packets(line)[N].kind = "trailer"
    BY <1>1, <1>3, <1>4, <1>5, <2>1 DEF Body, Before
  <2> QED
    BY <2>2, SizeIs
<1>8. PICK L \in Nat : L = Len(data[line]) /\ z <= L
  BY <1>1, <1>4, <1>5, DataOfLine
<1>9. L <= a + 32
  BY <1>4, <1>5, <1>8 DEF Before
<1> QED
  BY <1>5, <1>6, <1>7, <1>8, <1>9, SMTT(60)

-------------------------------------------------------------------------------
(* What is sent in the first packets of a line. *)

LEMMA HitsInType ==
  ASSUME NEW p, GoodPacket(p), NEW c
  PROVE  /\ HitsIn(p, c) \in Seq(Hits) /\ ErrorsIn(p, c) \in Seq(ErrorNumbers)
         /\ p.kind # "data" => HitsIn(p, c) = <<>>
         /\ p.kind # "error" => ErrorsIn(p, c) = <<>>
<1>1. IsPacket(p)
  BY DEF GoodPacket
<1>2. CASE p.kind = "data" /\ p.chip = c
  <2>1. p.chip \in 0..15 /\ p.channel \in 0..127 /\ p.hits \in Seq(0..7)
    BY <1>1, <1>2, DataFields
  <2>2. PICK N \in Nat, ch \in 0..127 : N = Len(p.hits) /\ ch = p.channel
    BY <2>1
  <2>3. ch + N <= 256
    <3>1. p.channel + Len(p.hits) <= 256
      BY <1>1, <1>2 DEF IsPacket
    <3> QED
      BY <2>2, <3>1
  <2>4. DOMAIN p.hits = 1..N
    BY <2>1, <2>2
  <2>5. PICK t : t = [j \in 1..N |-> <<ch + j - 1, p.hits[j]>>]
    OBVIOUS
  <2>6. HitsIn(p, c) = t
    BY <1>2, <2>2, <2>4, <2>5, Zenon DEF HitsIn
  <2>7. ASSUME NEW j \in 1..N
        PROVE  <<ch + j - 1, p.hits[j]>> \in Hits
    <3>1. ch + j - 1 \in 0..255
      BY <2>3
    <3>2. p.hits[j] \in 0..7
      BY <2>1, <2>2
    <3> QED
      BY <3>1, <3>2, Zenon DEF Hits
  <2>8. t \in Seq(Hits)
    BY <2>5, <2>7
  <2>9. ErrorsIn(p, c) = <<>>
    BY <1>2 DEF ErrorsIn
  <2> QED
    BY <1>2, <2>6, <2>8, <2>9
<1>3. CASE p.kind = "error" /\ p.chip = c
  <2>1. p.err \in 0..7
    BY <1>1, <1>3, KindsOfPackets
  <2> QED
    BY <1>3, <2>1 DEF HitsIn, ErrorsIn, ErrorNumbers
<1> QED
  BY <1>2, <1>3 DEF HitsIn, ErrorsIn

(* whole[n] is what is sent to something in the first n packets. *)
GrowsBy(whole, each, N, D) ==
  /\ whole[0] = <<>>
  /\ \A n \in 0..N : whole[n] \in Seq(D)
  /\ \A n \in 1..N : whole[n] = whole[n - 1] \o each[n] /\ each[n] \in Seq(D)

LEMMA Grows ==
  ASSUME NEW N \in Nat, NEW D, NEW each, \A i \in 1..N : each[i] \in Seq(D)
  PROVE  GrowsBy([n \in 0..N |-> FlattenSeq([i \in 1..n |-> each[i]])], each, N, D)
<1> DEFINE whole == [n \in 0..N |-> FlattenSeq([i \in 1..n |-> each[i]])]
<1>1. AreSeqs(each, N, D)
  BY DEF AreSeqs
<1>2. PICK flat : /\ IsFlattening(flat, each, N, D)
                  /\ \A n \in 0..N : FlattenSeq([i \in 1..n |-> each[i]]) = flat[n]
  BY <1>1, FirstFlattened
<1>3. \A n \in 0..N : whole[n] = flat[n]
  BY <1>2
<1>4. 0 \in 0..N /\ \A n \in 1..N : n \in 0..N /\ n - 1 \in 0..N
  OBVIOUS
<1> HIDE DEF whole
<1> QED
  BY <1>2, <1>3, <1>4 DEF GrowsBy, IsFlattening

LEMMA FirstGrow ==
  ASSUME Sent, HeadersDamaged, NEW line \in {0, 1}, NEW N \in Nat, N = Count(line), NEW c
  PROVE  /\ HitsOfFirst(line, 0, c) = <<>> /\ ErrorsOfFirst(line, 0, c) = <<>>
         /\ \A n \in 0..N : /\ HitsOfFirst(line, n, c) \in Seq(Hits)
                            /\ ErrorsOfFirst(line, n, c) \in Seq(ErrorNumbers)
         /\ \A n \in 1..N :
              LET p == Packets(line)[n]
              IN  /\ GoodPacket(p)
                  /\ HitsOfFirst(line, n, c) = HitsOfFirst(line, n - 1, c) \o HitsIn(p, c)
                  /\ ErrorsOfFirst(line, n, c) = ErrorsOfFirst(line, n - 1, c) \o ErrorsIn(p, c)
<1>1. PICK s : s = Packets(line) /\ GoodLine(s) /\ N = Len(s)
  BY GoodLines DEF Count
<1>2. \A i \in 1..N : GoodPacket(s[i])
  BY <1>1 DEF GoodLine
<1>3. PICK hits, errors : /\ hits = [i \in 1..N |-> HitsIn(s[i], c)]
                          /\ errors = [i \in 1..N |-> ErrorsIn(s[i], c)]
  OBVIOUS
<1>4. \A i \in 1..N : hits[i] \in Seq(Hits) /\ errors[i] \in Seq(ErrorNumbers)
  BY <1>2, <1>3, HitsInType
<1>5. PICK h, e : /\ h = [n \in 0..N |-> FlattenSeq([i \in 1..n |-> hits[i]])]
                  /\ e = [n \in 0..N |-> FlattenSeq([i \in 1..n |-> errors[i]])]
  OBVIOUS
<1>6. GrowsBy(h, hits, N, Hits) /\ GrowsBy(e, errors, N, ErrorNumbers)
  <2>1. GrowsBy([n \in 0..N |-> FlattenSeq([i \in 1..n |-> hits[i]])], hits, N, Hits)
    BY <1>4, Grows
  <2>2. GrowsBy([n \in 0..N |-> FlattenSeq([i \in 1..n |-> errors[i]])], errors, N, ErrorNumbers)
    BY <1>4, Grows
  <2> QED
    BY <1>5, <2>1, <2>2, Zenon
<1>7. ASSUME NEW n \in 0..N
      PROVE  h[n] = HitsOfFirst(line, n, c) /\ e[n] = ErrorsOfFirst(line, n, c)
  <2>1. \A i \in 1..n : i \in 1..N
    OBVIOUS
  <2>2. [i \in 1..n |-> hits[i]] = [i \in 1..n |-> HitsIn(s[i], c)]
    BY <1>3, <2>1
  <2>3. [i \in 1..n |-> errors[i]] = [i \in 1..n |-> ErrorsIn(s[i], c)]
    BY <1>3, <2>1
  <2>4. h[n] = FlattenSeq([i \in 1..n |-> hits[i]]) /\ e[n] = FlattenSeq([i \in 1..n |-> errors[i]])
    BY <1>5
  <2> QED
    BY <1>1, <2>2, <2>3, <2>4, Zenon DEF HitsOfFirst, ErrorsOfFirst
<1>8. 0 \in 0..N /\ \A n \in 1..N : n \in 0..N /\ n - 1 \in 0..N
  OBVIOUS
<1>9. HitsOfFirst(line, 0, c) = <<>> /\ ErrorsOfFirst(line, 0, c) = <<>>
  BY <1>6, <1>7, <1>8, Zenon DEF GrowsBy
<1>10. \A n \in 0..N : /\ HitsOfFirst(line, n, c) \in Seq(Hits)
                       /\ ErrorsOfFirst(line, n, c) \in Seq(ErrorNumbers)
  BY <1>6, <1>7, Zenon DEF GrowsBy
<1>11. ASSUME NEW n \in 1..N
       PROVE  /\ HitsOfFirst(line, n, c) = HitsOfFirst(line, n - 1, c) \o HitsIn(s[n], c)
              /\ ErrorsOfFirst(line, n, c) = ErrorsOfFirst(line, n - 1, c) \o ErrorsIn(s[n], c)
  <2>1. hits[n] = HitsIn(s[n], c) /\ errors[n] = ErrorsIn(s[n], c)
    BY <1>3
  <2>2. h[n] = h[n - 1] \o hits[n] /\ e[n] = e[n - 1] \o errors[n]
    BY <1>6, Zenon DEF GrowsBy
  <2> QED
    BY <1>7, <1>8, <2>1, <2>2, Zenon
<1> QED
  BY <1>1, <1>2, <1>9, <1>10, <1>11, Zenon

-------------------------------------------------------------------------------
(* What is in the event.                                                   *)

(* Of n packets of led and m of ledx. *)
HitsTaken(n, m, c)   == HitsOfFirst(0, n, c) \o HitsOfFirst(1, m, c)
ErrorsTaken(n, m, c) == ErrorsOfFirst(0, n, c) \o ErrorsOfFirst(1, m, c)

(* Packets whose chip is unknown, which mark the event incomplete. *)
Drops(p) == p.kind \in {"data", "error"} /\ p.chip \notin KnownChips
Dropped(line, n) == \E i \in 1..n : Drops(Packets(line)[i])

(* The next packet of a line. *)
Own(line, n, m) == IF line = 0 THEN n ELSE m
NextOf(line, n, m) == Packets(line)[Own(line, n, m) + 1]

Moves(line, n, m, nn, mm) ==
  \/ line = 0 /\ m = 0 /\ mm = 0 /\ nn = n + 1
  \/ line = 1 /\ nn = n /\ mm = m + 1

Taken(n, m) == n \in 0..Count(0) /\ m \in 0..Count(1)

(* The first j hits of a data packet. *)
Piece(p, j, c) ==
  IF j # 0 /\ p.chip = c THEN [i \in 1..j |-> <<p.channel + i - 1, p.hits[i]>>] ELSE <<>>

(* What is in the event after n packets of led, m of ledx and j hits of    *)
(* the next packet of the line being decoded.                              *)
Has(e, n, m, line, j) ==
  /\ e.l1id = Field(Identity, 7, 10) /\ e.bcid = Field(Identity, 11, 18)
  /\ \A c \in KnownChips :
       /\ e.hits[c] = HitsTaken(n, m, c) \o Piece(NextOf(line, n, m), j, c)
       /\ e.errors[c] = ErrorsTaken(n, m, c)
  /\ e.missingData <=> \/ Dropped(0, n) \/ Dropped(1, m)
                       \/ j # 0 /\ NextOf(line, n, m).chip \notin KnownChips
  /\ e.complete <=> ~e.missingData

LEMMA ThreeParts ==
  ASSUME NEW S, NEW s \in Seq(S), NEW t \in Seq(S), NEW u \in Seq(S)
  PROVE  /\ s \o (t \o u) = (s \o t) \o u
         /\ (s \o u) \o <<>> = (s \o <<>>) \o u
         /\ s \o t \in Seq(S) /\ (s \o t) \o <<>> = s \o t
<1>1. s \o u \in Seq(S) /\ s \o t \in Seq(S)
  BY ConcatProperties
<1> QED
  BY <1>1, ConcatAssociative, ConcatEmptySeq

Grown(n, m, nn, mm, p, c) ==
  /\ HitsTaken(n, m, c) \in Seq(Hits) /\ ErrorsTaken(n, m, c) \in Seq(ErrorNumbers)
  /\ HitsTaken(nn, mm, c) = HitsTaken(n, m, c) \o HitsIn(p, c)
  /\ ErrorsTaken(nn, mm, c) = ErrorsTaken(n, m, c) \o ErrorsIn(p, c)

LEMMA TakenGrow ==
  ASSUME Sent, HeadersDamaged, NEW line \in {0, 1}, NEW n, NEW m, Taken(n, m),
         NEW nn, NEW mm, Moves(line, n, m, nn, mm), Taken(nn, mm),
         NEW p, p = NextOf(line, n, m), NEW c
  PROVE  GoodPacket(p) /\ Grown(n, m, nn, mm, p, c)
<1>1. PICK N \in Nat, M \in Nat : N = Count(0) /\ M = Count(1)
  BY GoodLines
<1>2. n \in 0..N /\ m \in 0..M /\ nn \in 0..N /\ mm \in 0..M
  BY <1>1 DEF Taken
<1>3. PICK h, k, e, f :
        /\ h = HitsOfFirst(0, n, c) /\ k = HitsOfFirst(1, m, c)
        /\ e = ErrorsOfFirst(0, n, c) /\ f = ErrorsOfFirst(1, m, c)
        /\ h \in Seq(Hits) /\ k \in Seq(Hits) /\ e \in Seq(ErrorNumbers) /\ f \in Seq(ErrorNumbers)
  <2>1. HitsOfFirst(0, n, c) \in Seq(Hits) /\ ErrorsOfFirst(0, n, c) \in Seq(ErrorNumbers)
    BY <1>1, <1>2, FirstGrow
  <2>2. HitsOfFirst(1, m, c) \in Seq(Hits) /\ ErrorsOfFirst(1, m, c) \in Seq(ErrorNumbers)
    BY <1>1, <1>2, FirstGrow
  <2> QED
    BY <2>1, <2>2
<1>4. HitsTaken(n, m, c) = h \o k /\ ErrorsTaken(n, m, c) = e \o f
  BY <1>3 DEF HitsTaken, ErrorsTaken
<1>5. GoodPacket(p) => HitsIn(p, c) \in Seq(Hits) /\ ErrorsIn(p, c) \in Seq(ErrorNumbers)
  BY HitsInType
<1>6. CASE line = 0
  <2>1. m = 0 /\ mm = 0 /\ nn = n + 1 /\ nn \in 1..N /\ nn - 1 = n
    BY <1>2, <1>6 DEF Moves
  <2>2. p = Packets(0)[nn]
    BY <1>6, <2>1 DEF NextOf, Own
  <2>3. /\ GoodPacket(p)
        /\ HitsOfFirst(0, nn, c) = h \o HitsIn(p, c)
        /\ ErrorsOfFirst(0, nn, c) = e \o ErrorsIn(p, c)
    <3>1. \A i \in 1..N :
            /\ GoodPacket(Packets(0)[i])
            /\ HitsOfFirst(0, i, c) = HitsOfFirst(0, i - 1, c) \o HitsIn(Packets(0)[i], c)
            /\ ErrorsOfFirst(0, i, c) = ErrorsOfFirst(0, i - 1, c) \o ErrorsIn(Packets(0)[i], c)
      BY <1>1, FirstGrow
    <3> QED
      BY <1>3, <2>1, <2>2, <3>1, Zenon
  <2>4. HitsOfFirst(1, 0, c) = <<>> /\ ErrorsOfFirst(1, 0, c) = <<>>
    BY <1>1, FirstGrow
  <2>5. k = <<>> /\ f = <<>>
    BY <1>3, <2>1, <2>4
  <2>6. /\ HitsTaken(nn, mm, c) = (h \o HitsIn(p, c)) \o <<>>
        /\ ErrorsTaken(nn, mm, c) = (e \o ErrorsIn(p, c)) \o <<>>
    BY <2>1, <2>3, <2>4, Zenon DEF HitsTaken, ErrorsTaken
  <2>7. /\ HitsTaken(n, m, c) \o HitsIn(p, c) = (h \o <<>>) \o HitsIn(p, c)
        /\ ErrorsTaken(n, m, c) \o ErrorsIn(p, c) = (e \o <<>>) \o ErrorsIn(p, c)
    BY <1>4, <2>5, Zenon
  <2>8. /\ (h \o HitsIn(p, c)) \o <<>> = (h \o <<>>) \o HitsIn(p, c)
        /\ (e \o ErrorsIn(p, c)) \o <<>> = (e \o <<>>) \o ErrorsIn(p, c)
    BY <1>3, <1>5, <2>3, ThreeParts
  <2>9. h \o k \in Seq(Hits) /\ e \o f \in Seq(ErrorNumbers)
    BY <1>3, ConcatProperties
  <2> QED
    BY <1>4, <2>3, <2>6, <2>7, <2>8, <2>9, Zenon DEF Grown
<1>7. CASE line = 1
  <2>1. nn = n /\ mm = m + 1 /\ mm \in 1..M /\ mm - 1 = m
    BY <1>2, <1>7 DEF Moves
  <2>2. p = Packets(1)[mm]
    BY <1>7, <2>1 DEF NextOf, Own
  <2>3. /\ GoodPacket(p)
        /\ HitsOfFirst(1, mm, c) = k \o HitsIn(p, c)
        /\ ErrorsOfFirst(1, mm, c) = f \o ErrorsIn(p, c)
    <3>1. \A i \in 1..M :
            /\ GoodPacket(Packets(1)[i])
            /\ HitsOfFirst(1, i, c) = HitsOfFirst(1, i - 1, c) \o HitsIn(Packets(1)[i], c)
            /\ ErrorsOfFirst(1, i, c) = ErrorsOfFirst(1, i - 1, c) \o ErrorsIn(Packets(1)[i], c)
      BY <1>1, FirstGrow
    <3> QED
      BY <1>3, <2>1, <2>2, <3>1, Zenon
  <2>4. /\ HitsTaken(nn, mm, c) = h \o (k \o HitsIn(p, c))
        /\ ErrorsTaken(nn, mm, c) = e \o (f \o ErrorsIn(p, c))
    BY <1>3, <2>1, <2>3, Zenon DEF HitsTaken, ErrorsTaken
  <2>5. /\ h \o (k \o HitsIn(p, c)) = (h \o k) \o HitsIn(p, c)
        /\ e \o (f \o ErrorsIn(p, c)) = (e \o f) \o ErrorsIn(p, c)
    <3>1. HitsIn(p, c) \in Seq(Hits) /\ ErrorsIn(p, c) \in Seq(ErrorNumbers)
      BY <1>5, <2>3, Zenon
    <3>2. h \o (k \o HitsIn(p, c)) = (h \o k) \o HitsIn(p, c)
      <4>1. h \in Seq(Hits) /\ k \in Seq(Hits) /\ HitsIn(p, c) \in Seq(Hits)
        BY <1>3, <3>1
      <4> QED
        BY <4>1, ThreeParts
    <3>3. e \o (f \o ErrorsIn(p, c)) = (e \o f) \o ErrorsIn(p, c)
      <4>1. e \in Seq(ErrorNumbers) /\ f \in Seq(ErrorNumbers) /\ ErrorsIn(p, c) \in Seq(ErrorNumbers)
        BY <1>3, <3>1
      <4> QED
        BY <4>1, ThreeParts
    <3> QED
      BY <3>2, <3>3
  <2>6. h \o k \in Seq(Hits) /\ e \o f \in Seq(ErrorNumbers)
    BY <1>3, ConcatProperties
  <2> QED
    BY <1>4, <2>3, <2>4, <2>5, <2>6, Zenon DEF Grown
<1> QED
  BY <1>6, <1>7

LEMMA DroppedGrow ==
  ASSUME Sent, HeadersDamaged, NEW line \in {0, 1}, NEW n, NEW m, Taken(n, m),
         NEW nn, NEW mm, Moves(line, n, m, nn, mm),
         NEW p, p = NextOf(line, n, m)
  PROVE  Dropped(0, nn) \/ Dropped(1, mm) <=> Dropped(0, n) \/ Dropped(1, m) \/ Drops(p)
<1>1. PICK N \in Nat, M \in Nat : N = Count(0) /\ M = Count(1)
  BY GoodLines
<1>2. n \in 0..N /\ m \in 0..M
  BY <1>1 DEF Taken
<1>3. ASSUME NEW l, NEW k \in Nat
      PROVE  Dropped(l, k + 1) <=> Dropped(l, k) \/ Drops(Packets(l)[k + 1])
  <2>1. 1..(k + 1) = (1..k) \cup {k + 1}
    OBVIOUS
  <2> QED
    BY <2>1 DEF Dropped
<1>4. ASSUME NEW l
      PROVE  ~Dropped(l, 0)
  BY DEF Dropped
<1>5. CASE line = 0
  <2>1. m = 0 /\ mm = 0 /\ nn = n + 1 /\ p = Packets(0)[n + 1]
    BY <1>5 DEF Moves, NextOf, Own
  <2> QED
    BY <1>2, <1>3, <1>4, <2>1
<1>6. CASE line = 1
  <2>1. nn = n /\ mm = m + 1 /\ p = Packets(1)[m + 1]
    BY <1>6 DEF Moves, NextOf, Own
  <2> QED
    BY <1>2, <1>3, <2>1
<1> QED
  BY <1>5, <1>6

(* A packet that adds nothing, or all hits of which have been added. *)
LEMMA NothingAdded ==
  ASSUME Sent, HeadersDamaged, NEW line \in {0, 1}, NEW n, NEW m, Taken(n, m),
         NEW nn, NEW mm, Moves(line, n, m, nn, mm), Taken(nn, mm),
         NEW p, p = NextOf(line, n, m), p.kind \notin {"data", "error"},
         NEW e, Has(e, n, m, line, 0)
  PROVE  Has(e, nn, mm, line, 0)
<1>1. ASSUME NEW c \in KnownChips
      PROVE  e.hits[c] = HitsTaken(nn, mm, c) \o <<>> /\ e.errors[c] = ErrorsTaken(nn, mm, c)
  <2>1. e.hits[c] = HitsTaken(n, m, c) \o <<>> /\ e.errors[c] = ErrorsTaken(n, m, c)
    BY DEF Has, Piece
  <2>2. HitsIn(p, c) = <<>> /\ ErrorsIn(p, c) = <<>>
    BY DEF HitsIn, ErrorsIn
  <2>3. PICK h, f : /\ h = HitsTaken(n, m, c) /\ f = ErrorsTaken(n, m, c)
                    /\ h \in Seq(Hits) /\ f \in Seq(ErrorNumbers)
                    /\ HitsTaken(nn, mm, c) = h \o <<>> /\ ErrorsTaken(nn, mm, c) = f \o <<>>
    <3>1. Grown(n, m, nn, mm, p, c)
      BY TakenGrow
    <3> QED
      BY <2>2, <3>1, Zenon DEF Grown
  <2>4. h \o <<>> = h /\ f \o <<>> = f /\ (h \o <<>>) \o <<>> = h \o <<>>
    BY <2>3, ConcatEmptySeq
  <2> QED
    BY <2>1, <2>3, <2>4, Zenon
<1>2. Dropped(0, nn) \/ Dropped(1, mm) <=> Dropped(0, n) \/ Dropped(1, m)
  BY DroppedGrow DEF Drops
<1>3. \A c \in KnownChips : Piece(NextOf(line, nn, mm), 0, c) = <<>>
  BY DEF Piece
<1> QED
  BY <1>1, <1>2, <1>3, Zenon DEF Has

LEMMA HitsAdded ==
  ASSUME Sent, HeadersDamaged, NEW line \in {0, 1}, NEW n, NEW m, Taken(n, m),
         NEW nn, NEW mm, Moves(line, n, m, nn, mm), Taken(nn, mm),
         NEW p, p = NextOf(line, n, m), p.kind = "data", NEW N \in Nat, N = Len(p.hits), N # 0,
         NEW e, Has(e, n, m, line, N)
  PROVE  Has(e, nn, mm, line, 0)
<1>1. ASSUME NEW c \in KnownChips
      PROVE  e.hits[c] = HitsTaken(nn, mm, c) \o <<>> /\ e.errors[c] = ErrorsTaken(nn, mm, c)
  <2>1. e.hits[c] = HitsTaken(n, m, c) \o Piece(p, N, c) /\ e.errors[c] = ErrorsTaken(n, m, c)
    BY DEF Has
  <2>2. GoodPacket(p)
    BY TakenGrow
  <2>3. Piece(p, N, c) = HitsIn(p, c)
    <3>1. p.hits \in Seq(0..7)
      BY <2>2, DataFields DEF GoodPacket
    <3>2. DOMAIN p.hits = 1..N
      BY <3>1
    <3> QED
      BY <3>2, Zenon DEF Piece, HitsIn
  <2>4. ErrorsIn(p, c) = <<>>
    BY DEF ErrorsIn
  <2>5. PICK h, f : /\ h = HitsTaken(nn, mm, c) /\ f = ErrorsTaken(n, m, c)
                    /\ f \in Seq(ErrorNumbers)
                    /\ HitsTaken(nn, mm, c) = HitsTaken(n, m, c) \o HitsIn(p, c)
                    /\ ErrorsTaken(nn, mm, c) = f \o <<>>
    <3>1. Grown(n, m, nn, mm, p, c)
      BY TakenGrow
    <3> QED
      BY <2>4, <3>1, Zenon DEF Grown
  <2>6. h \in Seq(Hits)
    <3>1. HitsIn(p, c) \in Seq(Hits) /\ HitsTaken(n, m, c) \in Seq(Hits)
      BY <2>2, HitsInType, TakenGrow DEF Grown
    <3> QED
      BY <2>5, <3>1, ConcatProperties
  <2>7. h \o <<>> = h /\ f \o <<>> = f
    BY <2>5, <2>6, ConcatEmptySeq
  <2> QED
    BY <2>1, <2>3, <2>5, <2>7, Zenon
<1>2. Dropped(0, nn) \/ Dropped(1, mm) <=> Dropped(0, n) \/ Dropped(1, m) \/ p.chip \notin KnownChips
  BY DroppedGrow DEF Drops
<1>3. \A c \in KnownChips : Piece(NextOf(line, nn, mm), 0, c) = <<>>
  BY DEF Piece
<1> QED
  BY <1>1, <1>2, <1>3, Zenon DEF Has

LEMMA ErrorAdded ==
  ASSUME Sent, HeadersDamaged, NEW line \in {0, 1}, NEW n, NEW m, Taken(n, m),
         NEW nn, NEW mm, Moves(line, n, m, nn, mm), Taken(nn, mm),
         NEW p, p = NextOf(line, n, m), p.kind = "error",
         NEW e \in SCTEvents, Has(e, n, m, line, 0)
  PROVE  Has(WithError(e, p.chip, p.err), nn, mm, line, 0)
<1> DEFINE f == WithError(e, p.chip, p.err)
<1>1. GoodPacket(p) /\ p.err \in ErrorNumbers
  <2>1. GoodPacket(p)
    BY TakenGrow
  <2> QED
    BY <2>1, KindsOfPackets DEF GoodPacket, ErrorNumbers
<1>2. /\ e.hits \in [KnownChips -> Seq(Hits)] /\ e.errors \in [KnownChips -> Seq(ErrorNumbers)]
      /\ e.missingData \in BOOLEAN /\ e.complete \in BOOLEAN
  BY DEF SCTEvents
<1>3. /\ f.l1id = e.l1id /\ f.bcid = e.bcid /\ f.hits = e.hits
      /\ p.chip \notin KnownChips => /\ f.errors = e.errors
                                     /\ f.missingData = TRUE /\ f.complete = FALSE
      /\ p.chip \in KnownChips =>
           /\ f.errors = [e.errors EXCEPT ![p.chip] = Append(@, p.err)]
           /\ f.missingData = e.missingData /\ f.complete = e.complete
  BY DEF WithError, WithoutChip, SCTEvents
<1> HIDE DEF f
<1>4. ASSUME NEW c \in KnownChips
      PROVE  f.hits[c] = HitsTaken(nn, mm, c) \o <<>> /\ f.errors[c] = ErrorsTaken(nn, mm, c)
  <2>1. e.hits[c] = HitsTaken(n, m, c) \o <<>> /\ e.errors[c] = ErrorsTaken(n, m, c)
    BY DEF Has, Piece
  <2>2. HitsIn(p, c) = <<>> /\ ErrorsIn(p, c) = IF p.chip = c THEN <<p.err>> ELSE <<>>
    BY DEF HitsIn, ErrorsIn
  <2>3. PICK h, t : /\ h = HitsTaken(n, m, c) /\ t = ErrorsTaken(n, m, c)
                    /\ h \in Seq(Hits) /\ t \in Seq(ErrorNumbers)
                    /\ HitsTaken(nn, mm, c) = h \o <<>>
                    /\ ErrorsTaken(nn, mm, c) = t \o ErrorsIn(p, c)
    <3>1. Grown(n, m, nn, mm, p, c)
      BY TakenGrow
    <3> QED
      BY <2>2, <3>1, Zenon DEF Grown
  <2>4. h \o <<>> = h /\ t \o <<>> = t /\ Append(t, p.err) = t \o <<p.err>>
    BY <1>1, <2>3, ConcatEmptySeq, AppendIsConcat, ZenonT(30)
  <2>5. f.errors[c] = IF p.chip = c THEN Append(t, p.err) ELSE t
    <3>1. e.errors[c] = t
      BY <2>1, <2>3
    <3>2. PICK g : g = e.errors /\ g \in [KnownChips -> Seq(ErrorNumbers)] /\ g[c] = t
      BY <1>2, <3>1
    <3>3. CASE p.chip \in KnownChips
      <4>1. f.errors = [g EXCEPT ![p.chip] = Append(g[p.chip], p.err)]
        BY <1>3, <3>2, <3>3
      <4> QED
        BY <3>2, <4>1
    <3>4. CASE p.chip \notin KnownChips
      <4>1. f.errors = g /\ p.chip # c
        BY <1>3, <3>2, <3>4
      <4> QED
        BY <3>2, <4>1
    <3> QED
      BY <3>3, <3>4
  <2>6. f.hits[c] = h
    BY <1>3, <2>1, <2>3, <2>4
  <2> QED
    BY <2>2, <2>3, <2>4, <2>5, <2>6
<1>5. Dropped(0, nn) \/ Dropped(1, mm) <=> Dropped(0, n) \/ Dropped(1, m) \/ p.chip \notin KnownChips
  BY DroppedGrow DEF Drops
<1>6. \A c \in KnownChips : Piece(NextOf(line, nn, mm), 0, c) = <<>>
  BY DEF Piece
<1>7. f.missingData <=> Dropped(0, nn) \/ Dropped(1, mm)
  BY <1>3, <1>5, Zenon DEF Has
<1>8. f.complete <=> ~f.missingData
  BY <1>3, Zenon DEF Has
<1>9. f.l1id = Field(Identity, 7, 10) /\ f.bcid = Field(Identity, 11, 18)
  BY <1>3, Zenon DEF Has
<1>10. Has(f, nn, mm, line, 0)
  BY <1>4, <1>6, <1>7, <1>8, <1>9, Zenon DEF Has
<1> QED
  BY <1>10 DEF f

LEMMA OneMoreHit ==
  ASSUME NEW p, GoodPacket(p), p.kind = "data", NEW N \in Nat, N = Len(p.hits),
         NEW j \in 0..(N - 1), NEW c, p.chip = c
  PROVE  /\ Piece(p, j, c) \in Seq(Hits)
         /\ <<p.channel + j, p.hits[j + 1]>> \in Hits
         /\ Piece(p, j + 1, c) = Append(Piece(p, j, c), <<p.channel + j, p.hits[j + 1]>>)
<1>1. p.chip \in 0..15 /\ p.channel \in 0..127 /\ p.hits \in Seq(0..7)
  BY DataFields DEF GoodPacket
<1>2. PICK ch \in 0..127 : ch = p.channel /\ ch + N <= 256
  <2>1. p.channel + Len(p.hits) <= 256
    BY DEF GoodPacket, IsPacket
  <2> QED
    BY <1>1, <2>1
<1> DEFINE full == [i \in 1..N |-> <<ch + i - 1, p.hits[i]>>]
<1>3. ASSUME NEW i \in 1..N
      PROVE  full[i] = <<ch + i - 1, p.hits[i]>> /\ full[i] \in Hits
  <2>1. ch + i - 1 \in 0..255
    <3>1. ch \in 0..127 /\ ch + N <= 256
      BY <1>2
    <3>2. \A a \in 0..127 : a + N <= 256 => a + i - 1 \in 0..255
      OBVIOUS
    <3> QED
      BY <3>1, <3>2, Zenon
  <2>2. p.hits[i] \in 0..7
    BY <1>1
  <2>3. <<ch + i - 1, p.hits[i]>> \in Hits
    BY <2>1, <2>2 DEF Hits
  <2>4. full[i] = <<ch + i - 1, p.hits[i]>>
    OBVIOUS
  <2> QED
    BY <2>3, <2>4, Zenon
<1>4. ASSUME NEW k \in 0..N
      PROVE  Piece(p, k, c) = [i \in 1..k |-> full[i]]
  <2>1. [i \in 1..k |-> full[i]] = [i \in 1..k |-> <<ch + i - 1, p.hits[i]>>]
    <3>1. \A i \in 1..k : i \in 1..N
      OBVIOUS
    <3> QED
      BY <1>3, <3>1, Zenon
  <2>2. CASE k # 0
    BY <1>2, <2>1, <2>2, Zenon DEF Piece
  <2>3. CASE k = 0
    <3>1. [i \in 1..k |-> full[i]] = <<>>
      BY <2>3
    <3> QED
      BY <2>3, <3>1 DEF Piece
  <2> QED
    BY <2>2, <2>3
<1> HIDE DEF full
<1>5. PICK s, t : s = [i \in 1..j |-> full[i]] /\ t = [i \in 1..(j + 1) |-> full[i]]
  OBVIOUS
<1>6. s \in Seq(Hits) /\ t \in Seq(Hits) /\ Len(s) = j /\ Len(t) = j + 1
  <2>1. \A i \in 1..(j + 1) : i \in 1..N
    OBVIOUS
  <2>2. \A i \in 1..j : i \in 1..N
    OBVIOUS
  <2>3. s \in Seq(Hits) /\ Len(s) = j
    <3>1. \A i \in 1..j : full[i] \in Hits
      BY <1>3, <2>2
    <3> QED
      BY <1>5, <3>1
  <2>4. t \in Seq(Hits) /\ Len(t) = j + 1
    <3>1. \A i \in 1..(j + 1) : full[i] \in Hits
      BY <1>3, <2>1
    <3>2. PICK b \in Nat : b = j + 1
      OBVIOUS
    <3> QED
      BY <1>5, <3>1, <3>2
  <2> QED
    BY <2>3, <2>4
<1>7. full[j + 1] = <<ch + j, p.hits[j + 1]>> /\ full[j + 1] \in Hits
  <2>1. j + 1 \in 1..N /\ ch + (j + 1) - 1 = ch + j
    OBVIOUS
  <2> QED
    BY <1>3, <2>1
<1>8. t = Append(s, full[j + 1])
  <2>1. PICK x \in Hits : x = full[j + 1]
    BY <1>7
  <2>2. /\ Append(s, x) \in Seq(Hits) /\ Len(Append(s, x)) = j + 1
        /\ \A i \in 1..j : Append(s, x)[i] = s[i]
        /\ Append(s, x)[j + 1] = x
    BY <1>6, AppendProperties
  <2>3. \A i \in 1..(j + 1) : Append(s, x)[i] = t[i]
    BY <1>5, <2>1, <2>2
  <2> QED
    BY <1>6, <2>1, <2>2, <2>3, SeqEqual
<1>9. j \in 0..N /\ j + 1 \in 0..N
  OBVIOUS
<1>10. Piece(p, j, c) = s /\ Piece(p, j + 1, c) = t
  BY <1>4, <1>5, <1>9, Zenon
<1> QED
  BY <1>2, <1>6, <1>7, <1>8, <1>10

LEMMA HitAdded ==
  ASSUME Sent, HeadersDamaged, NEW line \in {0, 1}, NEW n, NEW m, Taken(n, m),
         NEW nn, NEW mm, Moves(line, n, m, nn, mm), Taken(nn, mm),
         NEW p, p = NextOf(line, n, m), p.kind = "data",
         NEW N \in Nat, N = Len(p.hits), NEW j \in 0..(N - 1), NEW k, k = j + 1,
         NEW strip \in Nat, p.chip \in KnownChips => strip = p.channel + j,
         NEW e \in SCTEvents, Has(e, n, m, line, j)
  PROVE  Has(WithHit(e, p.chip, strip, p.hits[k]), n, m, line, k)
<1> DEFINE f == WithHit(e, p.chip, strip, p.hits[k])
<1>1. GoodPacket(p)
  BY TakenGrow
<1>2. /\ e.hits \in [KnownChips -> Seq(Hits)] /\ e.errors \in [KnownChips -> Seq(ErrorNumbers)]
      /\ e.missingData \in BOOLEAN /\ e.complete \in BOOLEAN
  BY DEF SCTEvents
<1>3. /\ f.l1id = e.l1id /\ f.bcid = e.bcid /\ f.errors = e.errors
      /\ p.chip \notin KnownChips => /\ f.hits = e.hits
                                     /\ f.missingData = TRUE /\ f.complete = FALSE
      /\ p.chip \in KnownChips =>
           /\ f.hits = [e.hits EXCEPT ![p.chip] = Append(@, <<strip % 256, p.hits[k]>>)]
           /\ f.missingData = e.missingData /\ f.complete = e.complete
  BY DEF WithHit, WithoutChip, SCTEvents
<1> HIDE DEF f
<1>4. p.chip \in KnownChips => strip % 256 = p.channel + j
  <2>1. p.channel \in 0..127
    BY <1>1, DataFields DEF GoodPacket
  <2>2. PICK ch \in 0..127 : ch = p.channel
    BY <2>1
  <2>3. ch + N <= 256
    BY <1>1, <2>2 DEF GoodPacket, IsPacket
  <2>4. (ch + j) % 256 = ch + j
    BY <2>3
  <2> QED
    BY <2>2, <2>4
<1>5. ASSUME NEW c \in KnownChips
      PROVE  f.hits[c] = HitsTaken(n, m, c) \o Piece(p, k, c) /\ f.errors[c] = ErrorsTaken(n, m, c)
  <2>1. e.hits[c] = HitsTaken(n, m, c) \o Piece(p, j, c) /\ e.errors[c] = ErrorsTaken(n, m, c)
    BY Zenon DEF Has
  <2>2. PICK h : h = HitsTaken(n, m, c) /\ h \in Seq(Hits)
    <3>1. Grown(n, m, nn, mm, p, c)
      BY TakenGrow
    <3> QED
      BY <3>1, Zenon DEF Grown
  <2>3. CASE p.chip = c
    <3>1. PICK x, s : /\ x = <<p.channel + j, p.hits[k]>> /\ s = Piece(p, j, c)
                      /\ x \in Hits /\ s \in Seq(Hits) /\ Piece(p, k, c) = Append(s, x)
      <4>1. /\ Piece(p, j, c) \in Seq(Hits)
            /\ <<p.channel + j, p.hits[k]>> \in Hits
            /\ Piece(p, k, c) = Append(Piece(p, j, c), <<p.channel + j, p.hits[k]>>)
        BY <1>1, <2>3, OneMoreHit
      <4> QED
        BY <4>1, Zenon
    <3>2. PICK g : g = e.hits /\ g \in [KnownChips -> Seq(Hits)] /\ g[c] = h \o s
      BY <1>2, <2>1, <2>2, <3>1
    <3>3. f.hits = [g EXCEPT ![c] = Append(g[c], x)]
      BY <1>3, <1>4, <2>3, <3>1, <3>2, ZenonT(30)
    <3>4. f.hits[c] = Append(h \o s, x)
      BY <3>2, <3>3
    <3>5. Append(h \o s, x) = h \o Append(s, x)
      <4>1. h \o s \in Seq(Hits) /\ <<x>> \in Seq(Hits)
        BY <2>2, <3>1, ConcatProperties
      <4>2. Append(h \o s, x) = (h \o s) \o <<x>> /\ Append(s, x) = s \o <<x>>
        BY <3>1, <4>1, AppendIsConcat, ZenonT(30)
      <4>3. (h \o s) \o <<x>> = h \o (s \o <<x>>)
        BY <2>2, <3>1, <4>1, ConcatAssociative, SMTT(30)
      <4> QED
        BY <4>2, <4>3, Zenon
    <3> QED
      BY <1>3, <2>1, <2>2, <3>1, <3>4, <3>5, ZenonT(60)
  <2>4. CASE p.chip # c
    <3>1. Piece(p, j, c) = <<>> /\ Piece(p, k, c) = <<>>
      BY <2>4 DEF Piece
    <3>2. f.hits[c] = e.hits[c]
      <4>1. PICK g : g = e.hits /\ g \in [KnownChips -> Seq(Hits)]
        BY <1>2
      <4>2. CASE p.chip \in KnownChips
        <5>1. f.hits = [g EXCEPT ![p.chip] = Append(g[p.chip], <<strip % 256, p.hits[k]>>)]
          BY <1>3, <4>1, <4>2
        <5> QED
          BY <2>4, <4>1, <5>1
      <4>3. CASE p.chip \notin KnownChips
        BY <1>3, <4>3
      <4> QED
        BY <4>2, <4>3
    <3>3. f.hits[c] = HitsTaken(n, m, c) \o Piece(p, k, c)
      <4>1. f.hits[c] = HitsTaken(n, m, c) \o <<>>
        BY <2>1, <3>1, <3>2
      <4> QED
        BY <3>1, <4>1
    <3>4. f.errors[c] = ErrorsTaken(n, m, c)
      BY <1>3, <2>1, Zenon
    <3> QED
      BY <3>3, <3>4
  <2> QED
    BY <2>3, <2>4
<1>6. k # 0
  OBVIOUS
<1>7. f.missingData <=> Dropped(0, n) \/ Dropped(1, m) \/ (k # 0 /\ p.chip \notin KnownChips)
  BY <1>3, <1>6, Zenon DEF Has
<1>8. f.complete <=> ~f.missingData
  BY <1>3, ZenonT(60) DEF Has
<1>9. f.l1id = Field(Identity, 7, 10) /\ f.bcid = Field(Identity, 11, 18)
  BY <1>3, ZenonT(60) DEF Has
<1>10. Has(f, n, m, line, k)
  BY <1>5, <1>7, <1>8, <1>9, Zenon DEF Has
<1> QED
  BY <1>10 DEF f

(* The event begins with a header. *)
LEMMA EventBegun ==
  ASSUME Sent, HeadersDamaged, NEW line \in {0, 1}, NEW n, NEW m, Taken(n, m), n = 0, m = 0,
         NEW nn, NEW mm, Moves(line, n, m, nn, mm), Taken(nn, mm),
         NEW p, p = NextOf(line, n, m), p.kind = "header",
         NEW word, SameIdentity(word, Identity)
  PROVE  Has(NewEvent(Field(word, 7, 10), Field(word, 11, 18)), nn, mm, line, 0)
<1> DEFINE e == NewEvent(Field(word, 7, 10), Field(word, 11, 18))
<1>1. /\ e.l1id = Field(Identity, 7, 10) /\ e.bcid = Field(Identity, 11, 18)
      /\ e.missingData = FALSE /\ e.complete = TRUE
      /\ \A c \in KnownChips : e.hits[c] = <<>> /\ e.errors[c] = <<>>
  BY DEF NewEvent, SameIdentity
<1> HIDE DEF e
<1>2. ASSUME NEW c \in KnownChips
      PROVE  HitsTaken(n, m, c) = <<>> /\ ErrorsTaken(n, m, c) = <<>>
  <2>1. /\ HitsOfFirst(0, 0, c) = <<>> /\ HitsOfFirst(1, 0, c) = <<>>
        /\ ErrorsOfFirst(0, 0, c) = <<>> /\ ErrorsOfFirst(1, 0, c) = <<>>
    BY FirstGrow, GoodLines
  <2>2. <<>> \o <<>> = <<>>
    OBVIOUS
  <2> QED
    BY <2>1, <2>2, Zenon DEF HitsTaken, ErrorsTaken
<1>3. ~Dropped(0, n) /\ ~Dropped(1, m)
  BY DEF Dropped
<1>4. \A c \in KnownChips : Piece(NextOf(line, n, m), 0, c) = <<>>
  BY DEF Piece
<1>5. <<>> \o <<>> = <<>>
  OBVIOUS
<1>6. Has(e, n, m, line, 0)
  BY <1>1, <1>2, <1>3, <1>4, <1>5, Zenon DEF Has
<1> QED
  BY <1>6, NothingAdded DEF e

-------------------------------------------------------------------------------
(* How far the decoder has come, in lines of which only headers are        *)
(* damaged.                                                                *)

(* n packets of a line have been taken when its decoding ends: all but the *)
(* trailer, or up to where 32 bits are left; none, if no header is heard.  *)
Ended(line, n) ==
  IF Heard(line) /\ Packets(line) # <<>>
  THEN /\ n \in 1..(Count(line) - 1)
       /\ n = Count(line) - 1 \/ Len(data[line]) <= Before(line, n) + 32
  ELSE n = 0

(* Looking for the first header. *)
Searching(line) ==
  /\ pc = "packet" /\ ~praeambleFound
  /\ IF first THEN removed = 0 ELSE removed > 0 /\ ~Heard(line)

(* After k packets, and j hits of the next. *)
InLine(line, k) == praeambleFound /\ Heard(line) /\ Proper(line) /\ k \in 1..(Count(line) - 1)

Between(line, k) == pc = "packet" /\ InLine(line, k) /\ removed = Before(line, k)

Among(line, k, j) ==
  LET p == Packets(line)[k + 1]
  IN  /\ pc \in {"firstHit", "hit"} /\ InLine(line, k)
      /\ p.kind = "data" /\ chip = p.chip /\ j \in 0..Len(p.hits)
      /\ pc = "firstHit" <=> j = 0
      /\ removed = Before(line, k) + (13 + 4 * j)
      /\ chip \in KnownChips => channel = p.channel + j

Place(line, k, j) ==
  \/ pc = "side" /\ k = 0 /\ j = 0
  \/ Searching(line) /\ k = 0 /\ j = 0
  \/ Between(line, k) /\ j = 0
  \/ Among(line, k, j)
  \/ pc = "done" /\ line = 1 /\ Ended(1, k) /\ j = 0

Contents(line, n, m, j) ==
  IF n = 0 /\ m = 0 THEN sctEvent = {} ELSE \E e \in sctEvent : Has(e, n, m, line, j)

(* n packets of led, m of ledx and j hits have been taken. *)
Stage(line, n, m, j) ==
  /\ LED = line
  /\ IF line = 0 THEN m = 0 ELSE Ended(0, n)
  /\ Place(line, Own(line, n, m), j)
  /\ Contents(line, n, m, j)

Progress == Sound => \E line \in {0, 1}, n, m, j \in Nat : Stage(line, n, m, j)

SP == INSTANCE Bitstream_proof
  WITH BufferBits <- 32, UsedBitsPerWord <- 24,
       WordCounts <- Nat, Removals <- {1, 3, 4, 11, 13, 19, 28}

(* The stream is one of the words of the line. *)
Streaming == pc \notin {"side", "done"} => SP!IInv /\ total = Len(data[LED])

Begun == pc = "packet" /\ first => (m_bitsAvailable > 0 <=> Len(data[LED]) # 0)

Kept(line) ==
  /\ Heard(line)' <=> Heard(line)
  /\ Proper(line)' <=> Proper(line)
  /\ Count(line)' = Count(line) /\ Packets(line)' = Packets(line)
  /\ \A k : Before(line, k)' = Before(line, k) /\ (Ended(line, k)' <=> Ended(line, k))

(* Nothing of this depends on how far the decoder has come. *)
LEMMA InputsKept ==
  ASSUME input' = input, data' = data
  PROVE  /\ Sound' <=> Sound
         /\ Sent' <=> Sent
         /\ \A line \in {0, 1} : Kept(line)
         /\ \A e, line, n, m, j : Has(e, n, m, line, j)' <=> Has(e, n, m, line, j)
<1>1. ASSUME NEW line
      PROVE  FirstWord(line)' = FirstWord(line) /\ Packets(line)' = Packets(line)
  BY DEF FirstWord, WindowOn, Packets
<1>2. ASSUME NEW line
      PROVE  /\ Heard(line)' <=> Heard(line)
             /\ Proper(line)' <=> Proper(line)
             /\ HeaderWithin(line)' <=> HeaderWithin(line)
             /\ Count(line)' = Count(line)
  BY <1>1 DEF Heard, Proper, HeaderWithin, Count
<1>3. HeadersDamaged' <=> HeadersDamaged
  BY <1>1, <1>2 DEF HeadersDamaged
<1>4. Sound' <=> Sound
  BY <1>2, <1>3 DEF Sound
<1>5. Sent' <=> Sent
  BY DEF Sent
<1>6. ASSUME NEW line, NEW k
      PROVE  Before(line, k)' = Before(line, k)
  BY <1>1 DEF Before
<1>7. ASSUME NEW line, NEW k
      PROVE  Ended(line, k)' <=> Ended(line, k)
  BY <1>1, <1>2, <1>6 DEF Ended
<1>8. Identity' = Identity
  BY <1>1 DEF Identity
<1>9. ASSUME NEW line, NEW n, NEW c
      PROVE  /\ HitsOfFirst(line, n, c)' = HitsOfFirst(line, n, c)
             /\ ErrorsOfFirst(line, n, c)' = ErrorsOfFirst(line, n, c)
  BY <1>1 DEF HitsOfFirst, ErrorsOfFirst
<1>10. ASSUME NEW n, NEW m, NEW c
       PROVE  HitsTaken(n, m, c)' = HitsTaken(n, m, c) /\ ErrorsTaken(n, m, c)' = ErrorsTaken(n, m, c)
  BY <1>9, Zenon DEF HitsTaken, ErrorsTaken
<1>11. ASSUME NEW line, NEW n
       PROVE  Dropped(line, n)' <=> Dropped(line, n)
  BY <1>1 DEF Dropped
<1>12. ASSUME NEW line, NEW n, NEW m
       PROVE  NextOf(line, n, m)' = NextOf(line, n, m)
  BY <1>1 DEF NextOf
<1>13. ASSUME NEW e, NEW line, NEW n, NEW m, NEW j
       PROVE  Has(e, n, m, line, j)' <=> Has(e, n, m, line, j)
  BY <1>8, <1>10, <1>11, <1>12 DEF Has
<1> QED
  BY <1>1, <1>2, <1>4, <1>5, <1>6, <1>7, <1>13 DEF Kept

-------------------------------------------------------------------------------
(* The stream that is decoded. *)

LEMMA SPAssumption == SP!BitsAssumption
BY UIntAssumption DEF SP!BitsAssumption

LEMMA StreamNext ==
  ASSUME SP!IInv, NEW n \in {1, 3, 4, 11, 13, 19, 28}, Stream!RemoveBits(n)
  PROVE  SP!IInv' /\ removed' = removed + n /\ total' = total
<1> USE DEF SP!Exhausted, Stream!Exhausted, SP!ShiftLeft, Stream!ShiftLeft,
            SP!NotBelowZero, Stream!NotBelowZero
<1>1. CASE Stream!RemoveFromBuffer(n)
  <2>1. SP!RemoveFromBuffer(n)
    BY <1>1 DEF SP!RemoveFromBuffer, Stream!RemoveFromBuffer
  <2> QED
    BY <1>1, <2>1, SPAssumption, SP!FromBufferNext DEF Stream!RemoveFromBuffer
<1> USE DEF SP!ShiftRight, Stream!ShiftRight, SP!Or, Stream!Or, SP!LowBits, Stream!LowBits
<1>2. CASE Stream!RemoveWithinWord(n)
  <2>1. SP!RemoveWithinWord(n)
    BY <1>2, Zenon DEF SP!RemoveWithinWord, Stream!RemoveWithinWord
  <2> QED
    BY <1>2, <2>1, SPAssumption, SP!WithinWordNext DEF Stream!RemoveWithinWord
<1>3. CASE Stream!RemoveAcrossWords(n)
  <2>1. SP!RemoveAcrossWords(n)
    BY <1>3, Zenon DEF SP!RemoveAcrossWords, Stream!RemoveAcrossWords, SP!Min, Stream!Min
  <2> QED
    BY <1>3, <2>1, SPAssumption, SP!AcrossWordsNext DEF Stream!RemoveAcrossWords
<1> QED
  BY <1>1, <1>2, <1>3 DEF Stream!RemoveBits

LEMMA StreamKept ==
  ASSUME SP!IInv, UNCHANGED bitstream
  PROVE  SP!IInv'
BY DEF bitstream, SP!IInv, SP!WordsLeft, SP!Filled, SP!Done, SP!Window, SP!WordsFrom

LEMMA BitsToBegin ==
  ASSUME NEW count \in Nat
  PROVE  Stream!Constructed(count).m_bitsAvailable > 0 <=> count # 0
<1>1. Stream!Constructed(count).m_bitsAvailable =
        CASE count = 0 -> 0 [] count = 1 -> Stream!Spare [] OTHER -> 32
  BY DEF Stream!Constructed
<1>2. PICK a : a = Stream!Constructed(count).m_bitsAvailable
  OBVIOUS
<1>3. count = 1 => a = 8
  BY <1>1, <1>2 DEF Stream!Spare
<1>4. count # 0 /\ count # 1 => a = 32
  BY <1>1, <1>2
<1>5. count = 0 => a = 0
  BY <1>1, <1>2
<1> QED
  BY <1>2, <1>3, <1>4, <1>5

LEMMA StreamInit == SP!Init => SP!IInv
BY SPAssumption, SP!InvInit

LEMMA StreamBegins ==
  ASSUME StartSide, NEW count \in Nat, count = Len(data[LED]) \div 24, count * 24 = Len(data[LED])
  PROVE  SP!IInv' /\ (m_bitsAvailable' > 0 <=> count # 0)
<1>1. (SP!Init => SP!IInv)'
  BY StreamInit, PTL
<1>2. SP!Constructed(count) = Stream!Constructed(count)
  BY DEF SP!Constructed, Stream!Constructed, SP!Spare, Stream!Spare, SP!DataWord, Stream!DataWord,
         SP!ShiftLeft, Stream!ShiftLeft, SP!ShiftRight, Stream!ShiftRight, SP!Or, Stream!Or,
         SP!Zero, Stream!Zero
<1>3. SP!Init'
  BY <1>2 DEF StartSide, SP!Init
<1>4. m_bitsAvailable' > 0 <=> count # 0
  <2>1. Stream!Constructed(count).m_bitsAvailable > 0 <=> count # 0
    BY BitsToBegin, Zenon
  <2>2. m_bitsAvailable' = Stream!Constructed(count).m_bitsAvailable
    BY Zenon DEF StartSide
  <2> QED
    BY <2>1, <2>2, Zenon
<1> QED
  BY <1>1, <1>3, <1>4

Removing == \E n \in {1, 3, 4, 11, 13, 19, 28} : Stream!RemoveBits(n)

InsideEvent == praeambleFound \/ pc \in {"firstHit", "hit", "align"}

(* Every step leaves the stream, removes bits from it, or begins one.      *)
LEMMA StreamSteps ==
  ASSUME Next
  PROVE  /\ input' = input /\ data' = data
         /\ \/ StartSide
            \/ LeaveSide
            \/ /\ Removing /\ LED' = LED
               /\ pc \notin {"side", "done"}
               /\ first' = FALSE \/ (InsideEvent /\ first' = first)
            \/ /\ UNCHANGED bitstream /\ LED' = LED
               /\ pc \notin {"side", "done"}
               /\ InsideEvent /\ first' = first
<1> USE DEF InsideEvent
<1>1. CASE StartSide
  BY <1>1 DEF StartSide
<1>2. CASE LeaveSide
  BY <1>2 DEF LeaveSide
<1>3. CASE ModuleHeader
  BY <1>3 DEF ModuleHeader, AtPacket, Removing
<1>4. CASE NoPraeamble
  BY <1>4 DEF NoPraeamble, AtPacket, Removing
<1> USE DEF InEvent, AtPacket
<1>5. CASE ErrorPacket
  BY <1>5 DEF ErrorPacket, Removing
<1>6. CASE ConfigPacket
  BY <1>6 DEF ConfigPacket, Removing
<1>7. CASE NoDataPacket
  BY <1>7 DEF NoDataPacket, Removing
<1>8. CASE DataPacket
  BY <1>8 DEF DataPacket, Removing
<1>9. CASE Hit
  BY <1>9 DEF Hit, MoreHits, Removing
<1>10. CASE HitsEnd
  BY <1>10 DEF HitsEnd
<1>11. CASE UnableToDecode
  BY <1>11 DEF UnableToDecode, Unknown
<1>12. CASE Align
  BY <1>12 DEF Align, Removing
<1>13. CASE EndAlign
  BY <1>13 DEF EndAlign
<1>14. CASE SkipZeros
  BY <1>14 DEF SkipZeros, Unknown, Removing
<1> QED
  BY <1>1, <1>2, <1>3, <1>4, <1>5, <1>6, <1>7, <1>8, <1>9, <1>10, <1>11, <1>12, <1>13, <1>14
  DEF Next, NoBitsAvailable, Trailer

LEMMA StreamGoesOn ==
  ASSUME IInv, Sent, Sound, Streaming, Begun, Next
  PROVE  Streaming' /\ Begun'
<1>1. /\ LED \in {0, 1} /\ (praeambleFound => ~first)
      /\ (InsideEvent => praeambleFound)
      /\ first \in BOOLEAN
  BY DEF IInv, Control, InsideEvent
<1>2. input' = input /\ data' = data
  BY StreamSteps
<1>3. CASE StartSide
  <2>1. PICK count \in Nat : count = Len(data[LED]) \div 24 /\ count * 24 = Len(data[LED])
    BY <1>1, FirstWordIs DEF Sound
  <2>2. SP!IInv' /\ (m_bitsAvailable' > 0 <=> count # 0)
    BY <1>3, <2>1, StreamBegins
  <2>3. LED' = LED /\ total' = Len(data[LED]) /\ pc' = "packet"
    BY <1>3 DEF StartSide
  <2>4. count = 0 <=> Len(data[LED]) = 0
    <3>1. PICK size : size = Len(data[LED]) /\ count * 24 = size
      BY <2>1, Zenon
    <3> QED
      BY <3>1
  <2>5. Streaming'
    BY <1>2, <2>2, <2>3 DEF Streaming
  <2>6. Begun'
    BY <1>2, <2>2, <2>3, <2>4 DEF Begun
  <2> QED
    BY <2>5, <2>6
<1>4. CASE LeaveSide
  BY <1>4 DEF LeaveSide, Streaming, Begun
<1>5. CASE /\ Removing /\ LED' = LED /\ pc \notin {"side", "done"}
           /\ first' = FALSE \/ (InsideEvent /\ first' = first)
  <2>1. PICK n \in {1, 3, 4, 11, 13, 19, 28} : Stream!RemoveBits(n)
    BY <1>5 DEF Removing
  <2>2. SP!IInv /\ total = Len(data[LED])
    BY <1>5 DEF Streaming
  <2>3. SP!IInv' /\ total' = total
    BY <2>1, <2>2, StreamNext
  <2>4. Streaming'
    BY <1>2, <1>5, <2>2, <2>3 DEF Streaming
  <2>5. Begun'
    BY <1>1, <1>5 DEF Begun
  <2> QED
    BY <2>4, <2>5
<1>6. CASE /\ UNCHANGED bitstream /\ LED' = LED /\ pc \notin {"side", "done"}
           /\ InsideEvent /\ first' = first
  <2>1. SP!IInv' /\ total' = total
    BY <1>6, StreamKept DEF Streaming, bitstream
  <2>2. Streaming'
    BY <1>2, <1>6, <2>1 DEF Streaming
  <2>3. Begun'
    BY <1>1, <1>6 DEF Begun
  <2> QED
    BY <2>2, <2>3
<1> QED
  BY <1>3, <1>4, <1>5, <1>6, StreamSteps

(* What the decoder looks at. *)
LEMMA StreamShown ==
  ASSUME Streaming, pc \notin {"side", "done"}
  PROVE  /\ removed \in Nat /\ Shows(m_currentBuffer, LED, removed)
         /\ ~Stream!BitsAvailable => Len(data[LED]) <= removed + 32
<1>1. SP!IInv /\ total = Len(data[LED])
  BY DEF Streaming
<1>2. removed \in Nat /\ m_currentBuffer = SP!Window(removed, total)
  BY <1>1 DEF SP!IInv
<1>3. Shows(m_currentBuffer, LED, removed)
  BY <1>1, <1>2 DEF Shows, SP!Window
<1>4. ~Stream!BitsAvailable => total <= removed + 32
  <2>1. SP!Filled /\ m_bitsAvailable \in 0..32
    BY <1>1 DEF SP!IInv
  <2> QED
    BY <2>1 DEF SP!Filled, Stream!BitsAvailable
<1> QED
  BY <1>1, <1>2, <1>3, <1>4

-------------------------------------------------------------------------------
(* One step from a stage to a stage. *)

Situation(line, n, m, j) ==
  /\ IInv /\ Sent /\ Sound /\ Streaming /\ Begun
  /\ line \in {0, 1} /\ n \in Nat /\ m \in Nat /\ j \in Nat
  /\ Stage(line, n, m, j)

Advanced == \E line \in {0, 1}, n, m, j \in Nat : Stage(line, n, m, j)'

(* The packets taken with one more of the line. *)
OfLed(line, n)  == IF line = 0 THEN n + 1 ELSE n
OfLedx(line, m) == IF line = 1 THEN m + 1 ELSE m

LEMMA SituationIs ==
  ASSUME NEW line, NEW n, NEW m, NEW j, Situation(line, n, m, j)
  PROVE  /\ IInv /\ Sent /\ Sound /\ HeadersDamaged /\ Streaming /\ Begun
         /\ line \in {0, 1} /\ n \in Nat /\ m \in Nat /\ j \in Nat
         /\ LED = line /\ Place(line, Own(line, n, m), j) /\ Contents(line, n, m, j)
         /\ Own(line, n, m) = (IF line = 0 THEN n ELSE m)
         /\ line = 0 => m = 0
         /\ line = 1 => Ended(0, n)
BY DEF Situation, Stage, Sound, Own

LEMMA EndedTaken ==
  ASSUME Sent, HeadersDamaged, NEW line \in {0, 1}, NEW n, Ended(line, n)
  PROVE  n \in 0..Count(line) /\ n \in Nat
<1>1. Count(line) \in Nat
  BY GoodLines
<1>2. CASE Heard(line) /\ Packets(line) # <<>>
  BY <1>1, <1>2 DEF Ended
<1>3. CASE ~(Heard(line) /\ Packets(line) # <<>>)
  BY <1>1, <1>3 DEF Ended
<1> QED
  BY <1>2, <1>3

LEMMA PlaceTaken ==
  ASSUME Sent, HeadersDamaged, NEW line \in {0, 1}, NEW k, NEW j, Place(line, k, j)
  PROVE  k \in 0..Count(line)
<1>1. Count(line) \in Nat
  BY GoodLines
<1>2. InLine(line, k) => k \in 0..Count(line)
  BY <1>1 DEF InLine
<1>3. line = 1 /\ Ended(1, k) => k \in 0..Count(line)
  BY EndedTaken
<1> QED
  BY <1>1, <1>2, <1>3 DEF Place, Between, Among

LEMMA SituationTaken ==
  ASSUME NEW line, NEW n, NEW m, NEW j, Situation(line, n, m, j)
  PROVE  Taken(n, m)
<1>1. /\ Sent /\ HeadersDamaged /\ line \in {0, 1} /\ n \in Nat /\ m \in Nat
      /\ Place(line, Own(line, n, m), j)
      /\ Own(line, n, m) = (IF line = 0 THEN n ELSE m)
      /\ (line = 0 => m = 0) /\ (line = 1 => Ended(0, n))
  BY SituationIs
<1>2. Own(line, n, m) \in 0..Count(line)
  BY <1>1, PlaceTaken
<1>3. Count(0) \in Nat /\ Count(1) \in Nat
  BY <1>1, GoodLines
<1>4. CASE line = 0
  BY <1>1, <1>2, <1>3, <1>4 DEF Taken
<1>5. CASE line = 1
  BY <1>1, <1>2, <1>5, EndedTaken DEF Taken
<1> QED
  BY <1>1, <1>4, <1>5

(* Behind the header there is an event. *)
LEMMA EventThere ==
  ASSUME NEW line, NEW n, NEW m, NEW j, Situation(line, n, m, j), n # 0 \/ m # 0
  PROVE  \E e \in SCTEvents : sctEvent = {e} /\ Has(e, n, m, line, j)
<1>1. IInv /\ Contents(line, n, m, j)
  BY SituationIs
<1>2. PICK e \in sctEvent : Has(e, n, m, line, j)
  BY <1>1 DEF Contents
<1>3. PICK f \in SCTEvents : sctEvent = {f}
  BY <1>1, <1>2 DEF IInv, Filled
<1> QED
  BY <1>2, <1>3

(* A packet of the line. *)
LEMMA InsideLine ==
  ASSUME NEW line, NEW n, NEW m, NEW j, Situation(line, n, m, j),
         NEW k, k = Own(line, n, m), InLine(line, k),
         NEW p, p = Packets(line)[k + 1]
  PROVE  /\ Sent /\ HeadersDamaged /\ line \in {0, 1} /\ LED = line
         /\ Proper(line) /\ k \in 1..(Count(line) - 1) /\ k \in Nat
         /\ Taken(n, m) /\ Body(line, k) /\ p = NextOf(line, n, m)
         /\ Moves(line, n, m, OfLed(line, n), OfLedx(line, m))
         /\ Taken(OfLed(line, n), OfLedx(line, m))
         /\ Own(line, OfLed(line, n), OfLedx(line, m)) = k + 1
         /\ \E e \in SCTEvents : sctEvent = {e} /\ Has(e, n, m, line, j)
<1>1. /\ Sent /\ HeadersDamaged /\ line \in {0, 1} /\ LED = line /\ n \in Nat /\ m \in Nat
      /\ k = (IF line = 0 THEN n ELSE m) /\ (line = 0 => m = 0)
  BY SituationIs
<1>2. Proper(line) /\ k \in 1..(Count(line) - 1)
  BY DEF InLine
<1>3. Count(line) \in Nat
  BY <1>1, GoodLines
<1>4. k \in Nat /\ k # 0 /\ k + 1 \in 0..Count(line)
  BY <1>2, <1>3
<1>5. Body(line, k)
  BY <1>1, <1>2, BodyOfLine
<1>6. Taken(n, m)
  BY SituationTaken
<1>7. Moves(line, n, m, OfLed(line, n), OfLedx(line, m))
  BY <1>1 DEF Moves, OfLed, OfLedx
<1>8. Own(line, OfLed(line, n), OfLedx(line, m)) = k + 1
  BY <1>1 DEF Own, OfLed, OfLedx
<1>9. Taken(OfLed(line, n), OfLedx(line, m))
  BY <1>1, <1>4, <1>6 DEF Taken, OfLed, OfLedx
<1>10. \E e \in SCTEvents : sctEvent = {e} /\ Has(e, n, m, line, j)
  <2>1. n # 0 \/ m # 0
    BY <1>1, <1>4
  <2> QED
    BY <2>1, EventThere
<1> QED
  BY <1>1, <1>2, <1>4, <1>5, <1>6, <1>7, <1>8, <1>9, <1>10 DEF NextOf

(* A stage of the next state. *)
LEMMA StageNext ==
  ASSUME Sent, input' = input, data' = data,
         NEW line \in {0, 1}, NEW n \in Nat, NEW m \in Nat, NEW j \in Nat,
         LED' = line, IF line = 0 THEN m = 0 ELSE Ended(0, n),
         Place(line, Own(line, n, m), j)',
         \/ n = 0 /\ m = 0 /\ sctEvent' = {}
         \/ (n # 0 \/ m # 0) /\ \E e \in sctEvent' : Has(e, n, m, line, j)
  PROVE  Advanced
<1>1. Ended(0, n)' <=> Ended(0, n)
  BY InputsKept DEF Kept
<1>2. \A e : Has(e, n, m, line, j)' <=> Has(e, n, m, line, j)
  BY InputsKept
<1>3. Contents(line, n, m, j)'
  BY <1>2 DEF Contents
<1>4. Stage(line, n, m, j)'
  BY <1>1, <1>3 DEF Stage
<1> QED
  BY <1>4 DEF Advanced

(* A packet has been taken: not the trailer, and so another one follows. *)
LEMMA PacketPassed ==
  ASSUME NEW line, NEW n, NEW m, NEW j, Situation(line, n, m, j),
         NEW k, k = Own(line, n, m), InLine(line, k),
         NEW p, p = Packets(line)[k + 1], p.kind # "trailer",
         removed' = Before(line, k) + Size(p), pc' = "packet",
         UNCHANGED <<input, data, LED, praeambleFound>>,
         NEW e, sctEvent' = {e}, Has(e, OfLed(line, n), OfLedx(line, m), line, 0)
  PROVE  Advanced
<1>1. /\ Sent /\ HeadersDamaged /\ line \in {0, 1} /\ LED = line
      /\ Proper(line) /\ k \in 1..(Count(line) - 1) /\ k \in Nat /\ Body(line, k)
      /\ Own(line, OfLed(line, n), OfLedx(line, m)) = k + 1
      /\ Taken(OfLed(line, n), OfLedx(line, m))
  BY InsideLine
<1>2. Count(line) \in Nat /\ Count(0) \in Nat /\ Count(1) \in Nat
  BY <1>1, GoodLines
<1>3. k + 1 \in 1..(Count(line) - 1) /\ removed' = Before(line, k + 1)
  <2>1. k # Count(line) - 1 /\ Before(line, k + 1) = Before(line, k) + Size(p)
    BY <1>1 DEF Body
  <2> QED
    BY <1>1, <1>2, <2>1
<1>4. Kept(line)
  BY <1>1, InputsKept
<1>5. InLine(line, k + 1)'
  <2>1. praeambleFound' /\ Heard(line)
    BY DEF InLine
  <2>2. Heard(line)' /\ Proper(line)' /\ Count(line)' = Count(line)
    BY <1>1, <1>4, <2>1 DEF Kept
  <2> QED
    BY <1>3, <2>1, <2>2 DEF InLine
<1>6. Between(line, k + 1)'
  <2>1. Before(line, k + 1)' = Before(line, k + 1)
    BY <1>4 DEF Kept
  <2> QED
    BY <1>3, <1>5, <2>1 DEF Between
<1>7. Place(line, Own(line, OfLed(line, n), OfLedx(line, m)), 0)'
  BY <1>1, <1>6, Zenon DEF Place
<1>8. /\ line = 0 => m = 0
      /\ line = 1 => Ended(0, n)
      /\ n \in Nat /\ m \in Nat
  BY SituationIs
<1>9. IF line = 0 THEN OfLedx(line, m) = 0 ELSE Ended(0, OfLed(line, n))
  BY <1>1, <1>8 DEF OfLed, OfLedx
<1>10. OfLed(line, n) \in Nat /\ OfLedx(line, m) \in Nat
  BY <1>8 DEF OfLed, OfLedx
<1>11. OfLed(line, n) # 0 \/ OfLedx(line, m) # 0
  BY <1>1, <1>8 DEF OfLed, OfLedx
<1>12. LED' = line
  BY <1>1
<1> QED
  BY <1>1, <1>7, <1>9, <1>10, <1>11, <1>12, StageNext

LEMMA StartSideAdvances ==
  ASSUME NEW line, NEW n, NEW m, NEW j, Situation(line, n, m, j), StartSide
  PROVE  Advanced
<1>1. /\ Sent /\ line \in {0, 1} /\ n \in Nat /\ m \in Nat /\ j \in Nat /\ LED = line
      /\ Place(line, Own(line, n, m), j) /\ Contents(line, n, m, j)
      /\ (line = 0 => m = 0) /\ (line = 1 => Ended(0, n))
  BY SituationIs
<1>2. /\ pc = "side" /\ pc' = "packet" /\ removed' = 0 /\ praeambleFound' = FALSE /\ first' = TRUE
      /\ UNCHANGED <<input, data, LED, sctEvent>>
  BY DEF StartSide, LocalsOfSide
<1>3. Own(line, n, m) = 0 /\ j = 0
  BY <1>1, <1>2 DEF Place, Searching, Between, Among
<1>4. Searching(line)'
  BY <1>2 DEF Searching
<1>5. Place(line, Own(line, n, m), j)'
  BY <1>3, <1>4, Zenon DEF Place
<1>6. \/ n = 0 /\ m = 0 /\ sctEvent' = {}
      \/ (n # 0 \/ m # 0) /\ \E e \in sctEvent' : Has(e, n, m, line, j)
  BY <1>1, <1>2 DEF Contents
<1>7. IF line = 0 THEN m = 0 ELSE Ended(0, n)
  BY <1>1
<1> QED
  BY <1>1, <1>2, <1>5, <1>6, <1>7, StageNext

LEMMA LineLeft ==
  ASSUME NEW line, NEW n, NEW m, Situation(line, n, m, 0), LeaveSide,
         Ended(line, Own(line, n, m))
  PROVE  Advanced
<1>1. /\ Sent /\ line \in {0, 1} /\ n \in Nat /\ m \in Nat /\ LED = line
      /\ Contents(line, n, m, 0)
      /\ Own(line, n, m) = (IF line = 0 THEN n ELSE m)
      /\ (line = 0 => m = 0) /\ (line = 1 => Ended(0, n))
  BY SituationIs
<1>2. UNCHANGED <<input, data, sctEvent>>
  BY DEF LeaveSide
<1>3. \/ n = 0 /\ m = 0 /\ sctEvent' = {}
      \/ (n # 0 \/ m # 0) /\ \E e \in sctEvent' : Has(e, n, m, line, 0)
  BY <1>1, <1>2 DEF Contents
<1>4. CASE line = 0
  <2>1. LED' = 1 /\ pc' = "side" /\ m = 0 /\ Ended(0, n)
    BY <1>1, <1>4 DEF LeaveSide
  <2>2. Place(1, Own(1, n, m), 0)'
    <3>1. Own(1, n, m) = 0
      BY <2>1 DEF Own
    <3> QED
      BY <2>1, <3>1, Zenon DEF Place
  <2>3. ASSUME NEW e, Has(e, n, m, 0, 0)
        PROVE  Has(e, n, m, 1, 0)
    <3>1. \A c : Piece(NextOf(0, n, m), 0, c) = <<>> /\ Piece(NextOf(1, n, m), 0, c) = <<>>
      BY DEF Piece
    <3> QED
      BY <2>3, <3>1 DEF Has
  <2>4. \/ n = 0 /\ m = 0 /\ sctEvent' = {}
        \/ (n # 0 \/ m # 0) /\ \E e \in sctEvent' : Has(e, n, m, 1, 0)
    BY <1>3, <1>4, <2>3
  <2> QED
    BY <1>1, <1>2, <2>1, <2>2, <2>4, StageNext
<1>5. CASE line = 1
  <2>1. LED' = 1 /\ pc' = "done" /\ Ended(0, n) /\ Ended(1, Own(1, n, m))
    BY <1>1, <1>5 DEF LeaveSide
  <2>2. Ended(1, Own(1, n, m))'
    BY <1>1, <1>2, <2>1, InputsKept DEF Kept
  <2>3. Place(1, Own(1, n, m), 0)'
    BY <2>1, <2>2, Zenon DEF Place
  <2> QED
    BY <1>1, <1>2, <1>3, <1>5, <2>1, <2>3, StageNext
<1> QED
  BY <1>1, <1>4, <1>5

-------------------------------------------------------------------------------
(* The decoder at a packet. *)
LEMMA AtSomePacket ==
  ASSUME NEW line, NEW n, NEW m, NEW j, Situation(line, n, m, j), pc = "packet"
  PROVE  /\ j = 0
         /\ (Searching(line) /\ Own(line, n, m) = 0) \/ Between(line, Own(line, n, m))
         /\ praeambleFound => Between(line, Own(line, n, m))
BY SituationIs DEF Place, Searching, Between, Among

(* What it sees behind the header. *)
LEMMA PacketSeen ==
  ASSUME NEW line, NEW n, NEW m, NEW j, Situation(line, n, m, j),
         NEW k, k = Own(line, n, m), Between(line, k),
         NEW p, p = Packets(line)[k + 1]
  PROVE  /\ InLine(line, k) /\ IsBodyPacket(p) /\ GoodPacket(p)
         /\ ~IsHeader(HeaderWord)
         /\ IsError(GetWord32) <=> p.kind = "error"
         /\ ~IsError(GetWord32) => (IsConfig(GetWord32) <=> p.kind = "config")
         /\ IsData(GetWord32) <=> p.kind = "data"
         /\ IsNoData(GetWord32) <=> p.kind = "nodata"
         /\ IsTrailer(GetWord32) <=> p.kind = "trailer"
         /\ p.kind = "error" => /\ Field(GetWord32, 4, 7) = p.chip
                                /\ Field(GetWord32, 8, 10) = p.err
         /\ p.kind = "data" => /\ Field(GetWord32, 3, 6) = p.chip
                               /\ Field(GetWord32, 7, 13) = p.channel
<1>1. /\ IInv /\ Sent /\ Sound /\ HeadersDamaged /\ Streaming /\ line \in {0, 1} /\ LED = line
  BY SituationIs
<1>2. InLine(line, k) /\ pc = "packet" /\ removed = Before(line, k) /\ praeambleFound
  BY DEF Between, InLine
<1>3. ~first
  BY <1>1, <1>2 DEF IInv, Control
<1>4. removed \in Nat /\ Shows(m_currentBuffer, line, removed)
  BY <1>1, <1>2, StreamShown
<1>5. GetWord32 = WordFrom(line, Before(line, k)) /\ HeaderWord = GetWord32
  BY <1>1, <1>2, <1>3, <1>4, HeaderWordIs
<1>6. Proper(line) /\ k \in 1..(Count(line) - 1)
  BY <1>2 DEF InLine
<1>7. PICK word : word = WordFrom(line, Before(line, k)) /\ word = GetWord32
  BY <1>5
<1>8. /\ word \in [1..32 -> Bit] /\ IsBodyPacket(p) /\ Begins(word, p)
      /\ p.kind = "error" => Field(word, 4, 7) = p.chip /\ Field(word, 8, 10) = p.err
      /\ p.kind = "data"  => Field(word, 3, 6) = p.chip /\ Field(word, 7, 13) = p.channel
  <2>1. /\ word \in [1..32 -> Bit] /\ IsBodyPacket(p) /\ Begins(word, p)
        /\ p.kind = "error" => /\ Field(word, 4, 7) = p.chip /\ Field(word, 8, 10) = p.err
                               /\ p.chip \in 0..15 /\ p.err \in 0..7
        /\ p.kind = "data"  => Field(word, 3, 6) = p.chip /\ Field(word, 7, 13) = p.channel
    <3>1. Sent /\ HeadersDamaged /\ line \in {0, 1} /\ Proper(line) /\ k \in 1..(Count(line) - 1)
          /\ p = Packets(line)[k + 1] /\ word = WordFrom(line, Before(line, k))
      BY <1>1, <1>6, <1>7
    <3> QED
      BY ONLY <3>1, PacketShown
  <2> QED
    BY <2>1, Zenon
<1>9. /\ ~IsHeader(word)
      /\ IsError(word)   <=> p.kind = "error"
      /\ ~IsError(word) => (IsConfig(word) <=> p.kind = "config")
      /\ IsData(word)    <=> p.kind = "data"
      /\ IsNoData(word)  <=> p.kind = "nodata"
      /\ IsTrailer(word) <=> p.kind = "trailer"
  BY <1>8, Recognized
<1>10. GoodPacket(p)
  BY <1>1, <1>6, BodyOfLine DEF Body
<1>11. HeaderWord = word /\ GetWord32 = word
  BY <1>5, <1>7
<1> QED
  BY <1>2, <1>8, <1>9, <1>10, <1>11, Zenon

(* A line without packets brings no bits, and a line with a header some. *)
LEMMA SilentLine ==
  ASSUME Sent, HeadersDamaged, NEW line \in {0, 1}
  PROVE  /\ Packets(line) = <<>> <=> Len(data[line]) = 0
         /\ Packets(line) # <<>> => /\ Proper(line) /\ 1 \in 1..(Count(line) - 1)
                                    /\ Before(line, 1) = 19 /\ Packets(line)[1].kind = "header"
<1>1. GoodLine(Packets(line)) /\ Count(line) \in Nat /\ (Packets(line) = <<>> \/ Proper(line))
  BY GoodLines
<1>2. PICK N \in Nat, s \in {Packets(line)} : N = Count(line) /\ s = Packets(line)
  BY <1>1
<1>3. Start(s, N) <= Len(data[line]) /\ (N = 0 => Len(data[line]) = 0) /\ Len(data[line]) \in Nat
  BY <1>2, DataOfLine
<1>4. CASE Packets(line) = <<>>
  <2>1. N = 0
    BY <1>2, <1>4 DEF Count
  <2> QED
    BY <1>3, <1>4, <2>1
<1>5. CASE Packets(line) # <<>>
  <2>1. Proper(line)
    BY <1>1, <1>5
  <2>2. N >= 2 /\ s[1].kind = "header" /\ N = Len(s)
    BY <1>1, <1>2, <2>1 DEF Proper, Count, GoodLine
  <2>3. GoodLine(s) /\ GoodPacket(s[1])
    BY <1>1, <1>2, <2>2 DEF GoodLine
  <2>4. Size(s[1]) = 19
    BY <2>2, <2>3, SizeIs
  <2>5. Start(s, 0) = 0 /\ Start(s, 1) = Start(s, 1 - 1) + Size(s[1]) /\ Start(s, 1) <= Start(s, N)
        /\ Start(s, N) \in Nat
    <3>1. 1 \in 1..N /\ 1 \in 0..N /\ N \in 0..N
      BY <2>2
    <3> QED
      BY <2>2, <2>3, <3>1, PacketsPlaced
  <2>6. Start(s, 1) = 19
    BY <2>4, <2>5
  <2> QED
    BY <1>2, <1>3, <1>5, <2>1, <2>2, <2>5, <2>6 DEF Before
<1> QED
  BY <1>4, <1>5

LEMMA NoBitsAdvances ==
  ASSUME NEW line, NEW n, NEW m, NEW j, Situation(line, n, m, j), NoBitsAvailable
  PROVE  Advanced
<1>1. /\ IInv /\ Sent /\ Sound /\ HeadersDamaged /\ Streaming /\ Begun /\ line \in {0, 1} /\ LED = line
  BY SituationIs
<1>2. pc = "packet" /\ ~Stream!BitsAvailable /\ LeaveSide
  BY DEF NoBitsAvailable
<1>3. PICK k : k = Own(line, n, m)
  OBVIOUS
<1>4. j = 0 /\ ((Searching(line) /\ k = 0) \/ Between(line, k))
  BY <1>2, <1>3, AtSomePacket
<1>5. removed \in Nat /\ Len(data[line]) <= removed + 32
  BY <1>1, <1>2, StreamShown
<1>6. Ended(line, k)
  <2>1. CASE Between(line, k)
    <3>1. /\ Heard(line) /\ Proper(line) /\ k \in 1..(Count(line) - 1)
          /\ removed = Before(line, k)
      BY <2>1 DEF Between, InLine
    <3>2. Packets(line) # <<>>
      BY <3>1 DEF Count
    <3> QED
      BY <1>5, <3>1, <3>2 DEF Ended
  <2>2. CASE Searching(line) /\ k = 0 /\ first
    <3>1. Len(data[line]) = 0
      BY <1>1, <1>2, <2>2 DEF Begun, Stream!BitsAvailable
    <3>2. Packets(line) = <<>>
      BY <1>1, <3>1, SilentLine
    <3> QED
      BY <2>2, <3>2 DEF Ended
  <2>3. CASE Searching(line) /\ k = 0 /\ ~first
    BY <2>3 DEF Ended, Searching
  <2> QED
    BY <1>4, <2>1, <2>2, <2>3
<1> QED
  BY <1>2, <1>3, <1>4, <1>6, LineLeft

LEMMA TrailerAdvances ==
  ASSUME NEW line, NEW n, NEW m, NEW j, Situation(line, n, m, j), Trailer
  PROVE  Advanced
<1>1. /\ Sent /\ HeadersDamaged /\ line \in {0, 1}
  BY SituationIs
<1>2. pc = "packet" /\ praeambleFound /\ IsTrailer(GetWord32) /\ LeaveSide
  BY DEF Trailer, InEvent, AtPacket
<1>3. PICK k : k = Own(line, n, m)
  OBVIOUS
<1>4. j = 0 /\ Between(line, k)
  BY <1>2, <1>3, AtSomePacket
<1>5. Packets(line)[k + 1].kind = "trailer"
  BY <1>2, <1>3, <1>4, PacketSeen
<1>6. Heard(line) /\ Proper(line) /\ k \in 1..(Count(line) - 1)
  BY <1>4 DEF Between, InLine
<1>7. k = Count(line) - 1
  BY <1>1, <1>5, <1>6, BodyOfLine DEF Body
<1>8. Packets(line) # <<>>
  BY <1>6 DEF Count
<1>9. Ended(line, k)
  BY <1>6, <1>7, <1>8 DEF Ended
<1> QED
  BY <1>2, <1>3, <1>4, <1>9, LineLeft

(* Headers. *)
LEMMA HeaderAdvances ==
  ASSUME NEW line, NEW n, NEW m, NEW j, Situation(line, n, m, j), ModuleHeader
  PROVE  Advanced
<1>1. /\ IInv /\ Sent /\ Sound /\ HeadersDamaged /\ Streaming /\ Begun /\ LED = line
      /\ line \in {0, 1} /\ n \in Nat /\ m \in Nat
      /\ Own(line, n, m) = (IF line = 0 THEN n ELSE m)
      /\ (line = 0 => m = 0) /\ (line = 1 => Ended(0, n))
      /\ Contents(line, n, m, j)
  BY SituationIs
<1>2. /\ pc = "packet" /\ Stream!BitsAvailable /\ IsHeader(HeaderWord)
      /\ Stream!RemoveBits(19) /\ pc' = "packet" /\ praeambleFound' = TRUE /\ first' = FALSE
      /\ UNCHANGED <<input, data, LED>>
      /\ sctEvent' = IF BeginsEvent
                     THEN {NewEvent(Field(HeaderWord, 7, 10), Field(HeaderWord, 11, 18))}
                     ELSE sctEvent
  BY DEF ModuleHeader, AtPacket
<1>3. ~Between(line, Own(line, n, m))
  BY <1>2, PacketSeen
<1>4. j = 0 /\ Searching(line) /\ Own(line, n, m) = 0
  BY <1>2, <1>3, AtSomePacket
<1>5. removed \in Nat /\ Shows(m_currentBuffer, line, removed)
  BY <1>1, <1>2, StreamShown
<1>6. first /\ removed = 0
  <2>1. ~first => removed > 0 /\ ~Heard(line)
    BY <1>4 DEF Searching
  <2>2. ~first => ~IsHeader(HeaderWord)
    BY <1>1, <1>5, <2>1, HeaderWordIs
  <2>3. first
    BY <1>2, <2>2
  <2> QED
    BY <1>4, <2>3 DEF Searching
<1>7. Heard(line) /\ SameIdentity(HeaderWord, Identity)
  BY <1>1, <1>2, <1>5, <1>6, HeaderWordIs
<1>8. Packets(line) # <<>>
  BY <1>1, <1>2, <1>6, SilentLine DEF Begun, Stream!BitsAvailable
<1>9. /\ Proper(line) /\ 1 \in 1..(Count(line) - 1)
      /\ Before(line, 1) = 19 /\ Packets(line)[1].kind = "header"
  BY <1>1, <1>8, SilentLine
<1>10. removed' = 19
  BY <1>1, <1>2, <1>6, StreamNext DEF Streaming
<1>11. Between(line, 1)'
  <2>1. Kept(line)
    BY <1>1, <1>2, InputsKept
  <2> QED
    BY <1>2, <1>7, <1>9, <1>10, <2>1 DEF Between, InLine, Kept
<1>12. /\ Own(line, OfLed(line, n), OfLedx(line, m)) = 1
       /\ Moves(line, n, m, OfLed(line, n), OfLedx(line, m))
       /\ OfLed(line, n) \in Nat /\ OfLedx(line, m) \in Nat
       /\ OfLed(line, n) # 0 \/ OfLedx(line, m) # 0
       /\ IF line = 0 THEN OfLedx(line, m) = 0 ELSE Ended(0, OfLed(line, n))
  BY <1>1, <1>4 DEF Own, OfLed, OfLedx, Moves
<1>13. Place(line, Own(line, OfLed(line, n), OfLedx(line, m)), 0)'
  BY <1>11, <1>12, Zenon DEF Place
<1>14. Taken(n, m)
  BY SituationTaken
<1>15. Taken(OfLed(line, n), OfLedx(line, m))
  <2>1. Count(line) \in Nat
    BY <1>1, GoodLines
  <2> QED
    BY <1>1, <1>4, <1>9, <1>14, <2>1 DEF Taken, OfLed, OfLedx
<1>16. PICK p : p = NextOf(line, n, m) /\ p.kind = "header"
  <2>1. NextOf(line, n, m) = Packets(line)[0 + 1]
    BY <1>4 DEF NextOf
  <2> QED
    BY <1>9, <2>1
<1>17. \E e \in sctEvent' : Has(e, OfLed(line, n), OfLedx(line, m), line, 0)
  <2>1. CASE n = 0 /\ m = 0
    <3>1. BeginsEvent
      BY <1>1, <2>1 DEF BeginsEvent, Contents
    <3>2. Has(NewEvent(Field(HeaderWord, 7, 10), Field(HeaderWord, 11, 18)),
              OfLed(line, n), OfLedx(line, m), line, 0)
      BY <1>1, <1>7, <1>12, <1>14, <1>15, <1>16, <2>1, EventBegun
    <3> QED
      BY <1>2, <3>1, <3>2
  <2>2. CASE n # 0 \/ m # 0
    <3>1. PICK e \in SCTEvents : sctEvent = {e} /\ Has(e, n, m, line, 0)
      BY <1>4, <2>2, EventThere
    <3>2. ~BeginsEvent
      BY <1>1, <1>4, <2>2, <3>1 DEF BeginsEvent
    <3>3. p.kind \notin {"data", "error"}
      BY <1>16
    <3>4. Has(e, OfLed(line, n), OfLedx(line, m), line, 0)
      BY <1>1, <1>12, <1>14, <1>15, <1>16, <3>1, <3>3, NothingAdded
    <3> QED
      BY <1>2, <3>1, <3>2, <3>4
  <2> QED
    BY <2>1, <2>2
<1> QED
  BY <1>1, <1>2, <1>12, <1>13, <1>17, StageNext

LEMMA NoPraeambleAdvances ==
  ASSUME NEW line, NEW n, NEW m, NEW j, Situation(line, n, m, j), NoPraeamble
  PROVE  Advanced
<1>1. /\ Sent /\ Sound /\ Streaming /\ LED = line
      /\ line \in {0, 1} /\ n \in Nat /\ m \in Nat
      /\ (line = 0 => m = 0) /\ (line = 1 => Ended(0, n))
      /\ Contents(line, n, m, j)
  BY SituationIs
<1>2. /\ pc = "packet" /\ ~IsHeader(HeaderWord) /\ ~praeambleFound
      /\ Stream!RemoveBits(1) /\ pc' = "packet" /\ praeambleFound' = praeambleFound /\ first' = FALSE
      /\ UNCHANGED <<input, data, LED, sctEvent>>
  BY DEF NoPraeamble, AtPacket
<1>3. j = 0 /\ Searching(line) /\ Own(line, n, m) = 0
  BY <1>2, AtSomePacket DEF Between, InLine
<1>4. removed \in Nat /\ Shows(m_currentBuffer, line, removed)
  BY <1>1, <1>2, StreamShown
<1>5. ~Heard(line)
  <2>1. CASE first
    <3>1. removed = 0
      BY <1>3, <2>1 DEF Searching
    <3> QED
      BY <1>1, <1>2, <1>4, <2>1, <3>1, HeaderWordIs
  <2>2. CASE ~first
    BY <1>3, <2>2 DEF Searching
  <2> QED
    BY <2>1, <2>2
<1>6. removed' = removed + 1
  BY <1>1, <1>2, StreamNext DEF Streaming
<1>7. Searching(line)'
  <2>1. removed' > 0
    BY <1>4, <1>6
  <2>2. ~Heard(line)'
    BY <1>1, <1>2, <1>5, InputsKept DEF Kept
  <2> QED
    BY <1>2, <2>1, <2>2 DEF Searching
<1>8. Place(line, Own(line, n, m), 0)'
  BY <1>3, <1>7, Zenon DEF Place
<1>9. \/ n = 0 /\ m = 0 /\ sctEvent' = {}
      \/ (n # 0 \/ m # 0) /\ \E e \in sctEvent' : Has(e, n, m, line, 0)
  BY <1>1, <1>2, <1>3 DEF Contents
<1>10. IF line = 0 THEN m = 0 ELSE Ended(0, n)
  BY <1>1
<1> QED
  BY <1>1, <1>2, <1>8, <1>9, <1>10, StageNext

(* A packet of one piece is taken. *)
LEMMA PieceTaken ==
  ASSUME NEW line, NEW n, NEW m, NEW j, Situation(line, n, m, j),
         NEW k, k = Own(line, n, m), Between(line, k),
         NEW p, p = Packets(line)[k + 1], p.kind # "trailer",
         NEW size \in {3, 11, 28}, size = Size(p), Stream!RemoveBits(size),
         UNCHANGED <<input, data, LED, pc, praeambleFound>>,
         NEW e, sctEvent' = {e}, Has(e, OfLed(line, n), OfLedx(line, m), line, 0)
  PROVE  Advanced
<1>1. pc = "packet" /\ InLine(line, k) /\ removed = Before(line, k)
  BY DEF Between
<1>2. SP!IInv
  BY <1>1, SituationIs DEF Streaming
<1>3. removed' = removed + size
  BY <1>2, StreamNext
<1>4. removed' = Before(line, k) + Size(p)
  BY <1>1, <1>3
<1> QED
  BY <1>1, <1>4, PacketPassed

LEMMA ErrorAdvances ==
  ASSUME NEW line, NEW n, NEW m, NEW j, Situation(line, n, m, j), ErrorPacket
  PROVE  Advanced
<1>1. /\ pc = "packet" /\ praeambleFound /\ IsError(GetWord32) /\ Stream!RemoveBits(11)
      /\ UNCHANGED <<input, data, LED, pc, praeambleFound>>
      /\ sctEvent' = {WithError(e, Field(GetWord32, 4, 7), Field(GetWord32, 8, 10)) : e \in sctEvent}
  BY DEF ErrorPacket, InEvent, AtPacket
<1>2. PICK k, p : k = Own(line, n, m) /\ p = Packets(line)[k + 1]
  OBVIOUS
<1>3. j = 0 /\ Between(line, k)
  BY <1>1, <1>2, AtSomePacket
<1>4. /\ InLine(line, k) /\ GoodPacket(p) /\ p.kind = "error"
      /\ Field(GetWord32, 4, 7) = p.chip /\ Field(GetWord32, 8, 10) = p.err
  BY <1>1, <1>2, <1>3, PacketSeen
<1>5. Size(p) = 11
  BY <1>4, SizeIs
<1>6. /\ Sent /\ HeadersDamaged /\ line \in {0, 1} /\ Taken(n, m) /\ p = NextOf(line, n, m)
      /\ Moves(line, n, m, OfLed(line, n), OfLedx(line, m))
      /\ Taken(OfLed(line, n), OfLedx(line, m))
      /\ \E e \in SCTEvents : sctEvent = {e} /\ Has(e, n, m, line, 0)
  BY <1>2, <1>3, <1>4, InsideLine
<1>7. PICK e \in SCTEvents : sctEvent = {e} /\ Has(e, n, m, line, 0)
  BY <1>6
<1>8. PICK f : f = WithError(e, p.chip, p.err)
  OBVIOUS
<1>9. sctEvent' = {f}
  BY <1>1, <1>4, <1>7, <1>8
<1>10. Has(f, OfLed(line, n), OfLedx(line, m), line, 0)
  BY <1>4, <1>6, <1>7, <1>8, ErrorAdded
<1>11. p.kind # "trailer"
  BY <1>4
<1> QED
  BY <1>1, <1>2, <1>3, <1>5, <1>9, <1>10, <1>11, PieceTaken

(* Packets that leave the event as it is. *)
LEMMA NothingTaken ==
  ASSUME NEW line, NEW n, NEW m, NEW j, Situation(line, n, m, j),
         NEW k, k = Own(line, n, m), Between(line, k), j = 0,
         NEW p, p = Packets(line)[k + 1], p.kind \in {"config", "nodata"}, GoodPacket(p),
         NEW size \in {3, 28}, size = Size(p), Stream!RemoveBits(size),
         UNCHANGED <<input, data, LED, pc, praeambleFound, sctEvent>>
  PROVE  Advanced
<1>1. InLine(line, k)
  BY DEF Between
<1>2. /\ Sent /\ HeadersDamaged /\ line \in {0, 1} /\ Taken(n, m) /\ p = NextOf(line, n, m)
      /\ Moves(line, n, m, OfLed(line, n), OfLedx(line, m))
      /\ Taken(OfLed(line, n), OfLedx(line, m))
      /\ \E e \in SCTEvents : sctEvent = {e} /\ Has(e, n, m, line, 0)
  BY <1>1, InsideLine
<1>3. PICK e \in SCTEvents : sctEvent = {e} /\ Has(e, n, m, line, 0)
  BY <1>2
<1>4. p.kind \notin {"data", "error"} /\ p.kind # "trailer"
  OBVIOUS
<1>5. Has(e, OfLed(line, n), OfLedx(line, m), line, 0)
  BY <1>2, <1>3, <1>4, NothingAdded
<1>6. sctEvent' = {e} /\ size \in {3, 11, 28}
  BY <1>3
<1> QED
  BY <1>4, <1>5, <1>6, PieceTaken

LEMMA ConfigAdvances ==
  ASSUME NEW line, NEW n, NEW m, NEW j, Situation(line, n, m, j), ConfigPacket
  PROVE  Advanced
<1>1. /\ pc = "packet" /\ praeambleFound /\ ~IsError(GetWord32) /\ IsConfig(GetWord32)
      /\ Stream!RemoveBits(28)
      /\ UNCHANGED <<input, data, LED, pc, praeambleFound, sctEvent>>
  BY DEF ConfigPacket, InEvent, AtPacket
<1>2. PICK k, p : k = Own(line, n, m) /\ p = Packets(line)[k + 1]
  OBVIOUS
<1>3. j = 0 /\ Between(line, k)
  BY <1>1, <1>2, AtSomePacket
<1>4. GoodPacket(p) /\ p.kind = "config"
  BY <1>1, <1>2, <1>3, PacketSeen
<1>5. Size(p) = 28
  BY <1>4, SizeIs
<1> QED
  BY <1>1, <1>2, <1>3, <1>4, <1>5, NothingTaken

LEMMA NoDataAdvances ==
  ASSUME NEW line, NEW n, NEW m, NEW j, Situation(line, n, m, j), NoDataPacket
  PROVE  Advanced
<1>1. /\ pc = "packet" /\ praeambleFound /\ IsNoData(GetWord32)
      /\ Stream!RemoveBits(3)
      /\ UNCHANGED <<input, data, LED, pc, praeambleFound, sctEvent>>
  BY DEF NoDataPacket, InEvent, AtPacket
<1>2. PICK k, p : k = Own(line, n, m) /\ p = Packets(line)[k + 1]
  OBVIOUS
<1>3. j = 0 /\ Between(line, k)
  BY <1>1, <1>2, AtSomePacket
<1>4. GoodPacket(p) /\ p.kind = "nodata"
  BY <1>1, <1>2, <1>3, PacketSeen
<1>5. Size(p) = 3
  BY <1>4, SizeIs
<1> QED
  BY <1>1, <1>2, <1>3, <1>4, <1>5, NothingTaken

(* Every packet of the line is one that the decoder knows. *)
LEMMA NoneUnknown ==
  ASSUME NEW line, NEW n, NEW m, NEW j, Situation(line, n, m, j)
  PROVE  ~Unknown
<1> SUFFICES ASSUME Unknown
             PROVE  FALSE
  OBVIOUS
<1>1. /\ pc = "packet" /\ praeambleFound
      /\ ~IsError(GetWord32) /\ ~IsConfig(GetWord32) /\ ~IsData(GetWord32)
      /\ ~IsNoData(GetWord32) /\ ~IsTrailer(GetWord32)
  BY DEF Unknown, InEvent, AtPacket
<1>2. PICK k, p : k = Own(line, n, m) /\ p = Packets(line)[k + 1]
  OBVIOUS
<1>3. Between(line, k)
  BY <1>1, <1>2, AtSomePacket
<1>4. IsBodyPacket(p) /\ p.kind \notin {"error", "config", "data", "nodata", "trailer"}
  BY <1>1, <1>2, <1>3, PacketSeen
<1>5. p.kind \in {"data", "error", "config", "nodata", "trailer"}
  BY <1>4, KindsOfPackets DEF IsBodyPacket
<1> QED
  BY <1>4, <1>5

(* What is seen among the hits of a data packet. *)
LEMMA HitSeen ==
  ASSUME NEW line, NEW n, NEW m, NEW j, Situation(line, n, m, j), pc \in {"firstHit", "hit"},
         NEW k, k = Own(line, n, m), NEW p, p = Packets(line)[k + 1]
  PROVE  /\ Among(line, k, j) /\ InLine(line, k) /\ GoodPacket(p)
         /\ Len(p.hits) \in Nat /\ Len(p.hits) >= 1
         /\ GetWord32 = WordFrom(line, Before(line, k) + (13 + 4 * j))
<1>1. /\ IInv /\ Sent /\ HeadersDamaged /\ Streaming /\ line \in {0, 1} /\ LED = line
      /\ Place(line, k, j)
  BY SituationIs
<1>2. Among(line, k, j)
  BY <1>1 DEF Place, Searching, Between
<1>3. InLine(line, k) /\ p.kind = "data" /\ removed = Before(line, k) + (13 + 4 * j)
  BY <1>2 DEF Among
<1>4. GoodPacket(p)
  BY <1>3, InsideLine DEF Body
<1>5. removed \in Nat /\ Shows(m_currentBuffer, line, removed)
  BY <1>1, StreamShown
<1>6. GetWord32 = WordFrom(line, removed)
  BY <1>1, <1>5, WindowShows DEF GetWord32
<1> QED
  BY <1>2, <1>3, <1>4, <1>6, SizeIs

LEMMA DataAdvances ==
  ASSUME NEW line, NEW n, NEW m, NEW j, Situation(line, n, m, j), DataPacket
  PROVE  Advanced
<1>1. /\ pc = "packet" /\ praeambleFound /\ IsData(GetWord32) /\ Stream!RemoveBits(13)
      /\ UNCHANGED <<input, data, LED, praeambleFound, sctEvent>>
      /\ pc' = "firstHit" /\ chip' = Field(GetWord32, 3, 6)
      /\ channel' = LET c == Field(GetWord32, 7, 13)
                    IN  IF WindowOn(LED, m_currentBuffer')[1] = 1 THEN c ELSE Repaired(c)
  BY DEF DataPacket, InEvent, AtPacket
<1>2. PICK k, p : k = Own(line, n, m) /\ p = Packets(line)[k + 1]
  OBVIOUS
<1>3. j = 0 /\ Between(line, k)
  BY <1>1, <1>2, AtSomePacket
<1>4. /\ InLine(line, k) /\ GoodPacket(p) /\ p.kind = "data"
      /\ Field(GetWord32, 3, 6) = p.chip /\ Field(GetWord32, 7, 13) = p.channel
  BY <1>1, <1>2, <1>3, PacketSeen
<1>5. /\ Sent /\ HeadersDamaged /\ line \in {0, 1} /\ LED = line
      /\ Proper(line) /\ k \in 1..(Count(line) - 1) /\ Before(line, k) \in Nat
      /\ \E e \in SCTEvents : sctEvent = {e} /\ Has(e, n, m, line, j)
  BY <1>2, <1>4, InsideLine DEF Body
<1>6. /\ Streaming /\ n \in Nat /\ m \in Nat /\ (line = 0 => m = 0) /\ (line = 1 => Ended(0, n))
      /\ Own(line, n, m) = (IF line = 0 THEN n ELSE m)
  BY SituationIs
<1>7. removed = Before(line, k)
  BY <1>3 DEF Between
<1>8. /\ SP!IInv' /\ removed' = removed + 13 /\ total' = Len(data[line])
  BY <1>1, <1>5, <1>6, StreamNext DEF Streaming
<1>9. PICK r \in Nat, buffer \in {m_currentBuffer'} : r = Before(line, k) + 13 /\ buffer = m_currentBuffer' /\ removed' = r
  BY <1>5, <1>7, <1>8
<1>10. Shows(buffer, line, r)
  <2>1. m_currentBuffer' = SP!Window(removed', total')
    BY <1>8 DEF SP!IInv
  <2>2. buffer = SP!Window(r, Len(data[line]))
    BY <1>8, <1>9, <2>1
  <2> QED
    BY <2>2 DEF Shows, SP!Window
<1>11. WindowOn(line, buffer) = WordFrom(line, r)
  BY <1>5, <1>10, WindowShows
<1>12. PICK N \in Nat : N = Len(p.hits) /\ N >= 1
  BY <1>4, SizeIs
<1>13. WordFrom(line, r)[1] = 1
  <2>1. PICK z \in 0..(N - 1) : r = Before(line, k) + (13 + 4 * z)
    <3>1. 0 \in 0..(N - 1) /\ r = Before(line, k) + (13 + 4 * 0)
      BY <1>5, <1>9, <1>12
    <3> QED
      BY <3>1
  <2>2. AtHit(line, k, p, z)
    BY <1>2, <1>4, <1>5, <1>12, HitShown
  <2> QED
    BY <2>1, <2>2, Zenon DEF AtHit
<1>14. channel' = p.channel /\ chip' = p.chip
  <2>1. WindowOn(LED, m_currentBuffer')[1] = 1
    BY <1>5, <1>9, <1>11, <1>13
  <2> QED
    BY <1>1, <1>4, <2>1
<1>15. Kept(line)
  BY <1>1, <1>5, InputsKept
<1>16. InLine(line, k)'
  BY <1>1, <1>4, <1>15 DEF InLine, Kept
<1>17. Among(line, k, 0)'
  <2>1. Packets(line)' = Packets(line) /\ Before(line, k)' = Before(line, k)
    BY <1>15 DEF Kept
  <2>2. removed' = Before(line, k) + (13 + 4 * 0)
    BY <1>9
  <2>3. p.channel \in Nat
    <3>1. p.channel \in 0..127
      BY <1>4, DataFields DEF GoodPacket
    <3> QED
      BY <3>1
  <2>4. channel' = p.channel + 0 /\ 0 \in 0..Len(p.hits)
    BY <1>12, <1>14, <2>3
  <2> QED
    BY <1>1, <1>2, <1>4, <1>14, <1>16, <2>1, <2>2, <2>4 DEF Among
<1>18. Place(line, Own(line, n, m), 0)'
  BY <1>2, <1>17, Zenon DEF Place
<1>19. (n # 0 \/ m # 0) /\ \E e \in sctEvent' : Has(e, n, m, line, 0)
  BY <1>1, <1>2, <1>3, <1>5, <1>6
<1>20. IF line = 0 THEN m = 0 ELSE Ended(0, n)
  BY <1>5, <1>6
<1> QED
  BY <1>1, <1>5, <1>6, <1>18, <1>19, <1>20, StageNext

LEMMA HitAdvances ==
  ASSUME NEW line, NEW n, NEW m, NEW j, Situation(line, n, m, j), Hit
  PROVE  Advanced
<1>1. /\ MoreHits /\ Stream!RemoveBits(4) /\ pc' = "hit"
      /\ UNCHANGED <<input, data, LED, praeambleFound, chip>>
      /\ sctEvent' = {WithHit(e, chip, channel, Field(GetWord32, 2, 4)) : e \in sctEvent}
      /\ channel' = IF chip \in KnownChips THEN channel + 1 ELSE channel
  BY DEF Hit
<1>2. PICK k, p : k = Own(line, n, m) /\ p = Packets(line)[k + 1]
  OBVIOUS
<1>3. /\ Among(line, k, j) /\ InLine(line, k) /\ GoodPacket(p)
      /\ Len(p.hits) \in Nat /\ Len(p.hits) >= 1
      /\ GetWord32 = WordFrom(line, Before(line, k) + (13 + 4 * j))
  BY <1>1, <1>2, HitSeen DEF MoreHits
<1>4. /\ Sent /\ HeadersDamaged /\ line \in {0, 1} /\ LED = line
      /\ Proper(line) /\ k \in 1..(Count(line) - 1)
      /\ Taken(n, m) /\ Before(line, k) \in Nat /\ p = NextOf(line, n, m)
      /\ Moves(line, n, m, OfLed(line, n), OfLedx(line, m))
      /\ Taken(OfLed(line, n), OfLedx(line, m))
  BY <1>2, <1>3, InsideLine DEF Body
<1>5. /\ p.kind = "data" /\ chip = p.chip /\ j \in 0..Len(p.hits)
      /\ removed = Before(line, k) + (13 + 4 * j)
      /\ (chip \in KnownChips => channel = p.channel + j)
      /\ (pc = "firstHit" <=> j = 0)
  BY <1>2, <1>3 DEF Among
<1>6. PICK N \in Nat : N = Len(p.hits) /\ N >= 1 /\ j \in 0..N
  BY <1>3, <1>5
<1>7. j # N
  <2> SUFFICES ASSUME j = N
               PROVE  FALSE
    OBVIOUS
  <2>1. Before(line, k) + (13 + 4 * N) = Before(line, k + 1)
        /\ LET word == WordFrom(line, Before(line, k + 1))
           IN  word[1] # 1 \/ IsTrailer(word)
    BY <1>2, <1>4, <1>5, <1>6, HitsOver
  <2>2. GetWord32[1] # 1 \/ IsTrailer(GetWord32)
    BY <1>3, <2>1
  <2>3. pc # "firstHit"
    BY <1>5, <1>6
  <2> QED
    BY <1>1, <2>2, <2>3 DEF MoreHits
<1>8. j \in 0..(N - 1) /\ j \in Nat
  BY <1>6, <1>7
<1>9. Field(GetWord32, 2, 4) = p.hits[j + 1]
  <2>1. AtHit(line, k, p, j)
    BY <1>2, <1>4, <1>5, <1>6, <1>8, HitShown
  <2> QED
    BY <1>3, <2>1, Zenon DEF AtHit
<1>10. PICK e \in SCTEvents : sctEvent = {e} /\ Has(e, n, m, line, j)
  BY <1>2, <1>3, InsideLine
<1>11. PICK f, i : f = WithHit(e, p.chip, channel, p.hits[i]) /\ i = j + 1
  OBVIOUS
<1>12. sctEvent' = {f}
  BY <1>1, <1>5, <1>9, <1>10, <1>11
<1>13. Has(f, n, m, line, i)
  <2>1. channel \in Nat
    BY SituationIs DEF IInv
  <2> QED
    BY <1>4, <1>5, <1>6, <1>8, <1>10, <1>11, <2>1, HitAdded
<1>14. /\ n \in Nat /\ m \in Nat /\ (line = 0 => m = 0) /\ (line = 1 => Ended(0, n)) /\ Streaming
       /\ Own(line, n, m) = (IF line = 0 THEN n ELSE m)
  BY SituationIs
<1>15. SP!IInv
  BY <1>1, <1>14 DEF Streaming, MoreHits
<1>16. removed' = removed + 4
  BY <1>1, <1>15, StreamNext
<1>17. Kept(line)
  BY <1>1, <1>4, InputsKept
<1>18. InLine(line, k)'
  BY <1>1, <1>3, <1>17 DEF InLine, Kept
<1>19. i \in 1..N /\ i \in Nat
  BY <1>8, <1>11
<1>20. Among(line, k, i)'
  <2>1. Packets(line)' = Packets(line) /\ Before(line, k)' = Before(line, k)
    BY <1>17 DEF Kept
  <2>2. removed' = Before(line, k) + (13 + 4 * i)
    BY <1>4, <1>5, <1>8, <1>11, <1>16
  <2>3. p.channel \in Nat
    <3>1. p.channel \in 0..127
      BY <1>3, <1>5, DataFields DEF GoodPacket
    <3> QED
      BY <3>1
  <2>4. chip' \in KnownChips => channel' = p.channel + i
    BY <1>1, <1>5, <1>8, <1>11, <2>3, SMTT(30)
  <2>5. i \in 0..Len(p.hits) /\ i # 0 /\ chip' = p.chip
    BY <1>1, <1>5, <1>6, <1>19
  <2> QED
    BY <1>1, <1>2, <1>5, <1>18, <2>1, <2>2, <2>4, <2>5 DEF Among
<1>21. Place(line, Own(line, n, m), i)'
  BY <1>2, <1>20, Zenon DEF Place
<1>22. (n # 0 \/ m # 0) /\ \E g \in sctEvent' : Has(g, n, m, line, i)
  BY <1>2, <1>4, <1>12, <1>13, <1>14
<1>23. LED' = line /\ (IF line = 0 THEN m = 0 ELSE Ended(0, n))
  BY <1>1, <1>4, <1>14
<1> QED
  BY <1>1, <1>4, <1>14, <1>19, <1>21, <1>22, <1>23, StageNext

LEMMA HitsEndAdvances ==
  ASSUME NEW line, NEW n, NEW m, NEW j, Situation(line, n, m, j), HitsEnd
  PROVE  Advanced
<1>1. /\ pc \in {"firstHit", "hit"} /\ ~MoreHits /\ pc' = "packet" /\ removed' = removed
      /\ UNCHANGED <<input, data, LED, praeambleFound, sctEvent>>
  BY DEF HitsEnd, bitstream
<1>2. PICK k, p : k = Own(line, n, m) /\ p = Packets(line)[k + 1]
  OBVIOUS
<1>3. /\ Among(line, k, j) /\ InLine(line, k) /\ GoodPacket(p)
      /\ Len(p.hits) \in Nat /\ Len(p.hits) >= 1
      /\ GetWord32 = WordFrom(line, Before(line, k) + (13 + 4 * j))
  BY <1>1, <1>2, HitSeen
<1>4. /\ Sent /\ HeadersDamaged /\ line \in {0, 1}
      /\ Proper(line) /\ k \in 1..(Count(line) - 1)
      /\ Taken(n, m) /\ p = NextOf(line, n, m)
      /\ Moves(line, n, m, OfLed(line, n), OfLedx(line, m))
      /\ Taken(OfLed(line, n), OfLedx(line, m))
      /\ Before(line, k) \in Nat /\ Before(line, k + 1) = Before(line, k) + Size(p)
  BY <1>2, <1>3, InsideLine DEF Body
<1>5. /\ p.kind = "data" /\ j \in 0..Len(p.hits)
      /\ removed = Before(line, k) + (13 + 4 * j)
  BY <1>2, <1>3 DEF Among
<1>6. PICK N \in Nat : N = Len(p.hits) /\ N >= 1 /\ j \in 0..N
  BY <1>3, <1>5
<1>7. j = N
  <2> SUFFICES ASSUME j # N
               PROVE  FALSE
    OBVIOUS
  <2>1. j \in 0..(N - 1)
    BY <1>6
  <2>2. AtHit(line, k, p, j)
    BY <1>2, <1>4, <1>5, <1>6, <2>1, HitShown
  <2>3. GetWord32[1] = 1 /\ ~IsTrailer(GetWord32)
    BY <1>3, <2>2, Zenon DEF AtHit
  <2> QED
    BY <1>1, <2>3 DEF MoreHits
<1>8. PICK e \in SCTEvents : sctEvent = {e} /\ Has(e, n, m, line, j)
  BY <1>2, <1>3, InsideLine
<1>9. Has(e, OfLed(line, n), OfLedx(line, m), line, 0)
  <2>1. N # 0 /\ Has(e, n, m, line, N)
    BY <1>6, <1>7, <1>8
  <2> QED
    BY <1>4, <1>5, <1>6, <2>1, HitsAdded
<1>10. removed' = Before(line, k) + Size(p)
  <2>1. Size(p) = 13 + 4 * N
    BY <1>3, <1>5, <1>6, SizeIs
  <2> QED
    BY <1>1, <1>5, <1>7, <2>1
<1>11. p.kind # "trailer" /\ sctEvent' = {e}
  BY <1>1, <1>5, <1>8
<1> QED
  BY <1>1, <1>2, <1>3, <1>9, <1>10, <1>11, PacketPassed

LEMMA NotAligning ==
  ASSUME NEW line, NEW n, NEW m, NEW j, Situation(line, n, m, j)
  PROVE  pc # "align"
BY SituationIs DEF Place, Searching, Between, Among

LEMMA NextAdvances ==
  ASSUME NEW line, NEW n, NEW m, NEW j, Situation(line, n, m, j), Next
  PROVE  Advanced
<1>1. ~UnableToDecode /\ ~SkipZeros
  BY NoneUnknown DEF UnableToDecode, SkipZeros
<1>2. ~Align /\ ~EndAlign
  BY NotAligning DEF Align, EndAlign
<1> QED
  BY <1>1, <1>2, StartSideAdvances, NoBitsAdvances, HeaderAdvances, NoPraeambleAdvances,
     ErrorAdvances, ConfigAdvances, NoDataAdvances, DataAdvances, HitAdvances, HitsEndAdvances,
     TrailerAdvances DEF Next

(* The inductive invariant. *)
DecodingInv ==
  /\ IInv /\ Sent
  /\ Sound => /\ Streaming /\ Begun
              /\ \E line \in {0, 1}, n, m, j \in Nat : Stage(line, n, m, j)

LEMMA DecodingInit == Init => DecodingInv
<1> SUFFICES ASSUME Init
             PROVE  DecodingInv
  OBVIOUS
<1>1. IInv /\ Sent
  BY InvInit DEF Init, Sent
<1>2. Streaming /\ Begun
  BY DEF Init, Streaming, Begun
<1>3. Stage(0, 0, 0, 0)
  <2>1. Place(0, Own(0, 0, 0), 0)
    BY Zenon DEF Init, Place, Own
  <2> QED
    BY <2>1 DEF Init, Stage, Contents
<1> QED
  BY <1>1, <1>2, <1>3 DEF DecodingInv

LEMMA DecodingNext == DecodingInv /\ [Next]_vars => DecodingInv'
<1> SUFFICES ASSUME DecodingInv, [Next]_vars
             PROVE  DecodingInv'
  OBVIOUS
<1>1. IInv /\ Sent /\ IInv'
  BY InvNext DEF DecodingInv
<1>2. input' = input /\ data' = data
  BY StreamSteps DEF vars
<1>3. Sent' /\ (Sound' <=> Sound)
  BY <1>1, <1>2, InputsKept
<1>4. CASE ~Sound
  BY <1>1, <1>3, <1>4 DEF DecodingInv
<1>5. CASE Sound /\ Next
  <2>1. Streaming /\ Begun
    BY <1>5 DEF DecodingInv
  <2>2. PICK line \in {0, 1}, n \in Nat, m \in Nat, j \in Nat : Stage(line, n, m, j)
    BY <1>5 DEF DecodingInv
  <2>3. Situation(line, n, m, j)
    BY <1>1, <1>5, <2>1, <2>2 DEF Situation
  <2>4. Advanced
    BY <1>5, <2>3, NextAdvances
  <2>5. Streaming' /\ Begun'
    BY <1>1, <1>5, <2>1, StreamGoesOn
  <2> QED
    BY <1>1, <1>3, <2>4, <2>5 DEF DecodingInv, Advanced
<1>6. CASE Sound /\ UNCHANGED vars
  <2>1. Streaming /\ Begun
    BY <1>6 DEF DecodingInv
  <2>2. PICK line \in {0, 1}, n \in Nat, m \in Nat, j \in Nat : Stage(line, n, m, j)
    BY <1>6 DEF DecodingInv
  <2>3. Streaming'
    <3>1. SP!IInv => SP!IInv'
      BY <1>6, StreamKept DEF vars
    <3> QED
      BY <1>6, <2>1, <3>1 DEF Streaming, vars, bitstream
  <2>4. Begun'
    BY <1>6, <2>1 DEF Begun, vars, bitstream
  <2>5. Stage(line, n, m, j)'
    <3>1. /\ \A l \in {0, 1} : Kept(l)
          /\ \A e : Has(e, n, m, line, j)' <=> Has(e, n, m, line, j)
      BY <1>1, <1>2, InputsKept
    <3>2. UNCHANGED <<pc, praeambleFound, first, removed, chip, channel, sctEvent, LED>>
      BY <1>6 DEF vars, bitstream
    <3>3. \A k : Place(line, k, j)' <=> Place(line, k, j)
      BY <3>1, <3>2 DEF Place, Searching, Between, Among, InLine, Kept
    <3>4. Contents(line, n, m, j)'
      BY <2>2, <3>1, <3>2 DEF Stage, Contents
    <3>5. IF line = 0 THEN m = 0 ELSE Ended(0, n)'
      BY <2>2, <3>1 DEF Stage, Kept
    <3> QED
      BY <2>2, <3>2, <3>3, <3>4, <3>5 DEF Stage
  <2> QED
    BY <1>1, <1>3, <2>3, <2>4, <2>5 DEF DecodingInv
<1> QED
  BY <1>4, <1>5, <1>6

LEMMA DecodingInvariant == Spec => []DecodingInv
<1>1. Init => DecodingInv
  BY DecodingInit
<1>2. DecodingInv /\ [Next]_vars => DecodingInv'
  BY DecodingNext
<1> QED
  BY <1>1, <1>2, PTL DEF Spec

-------------------------------------------------------------------------------
(* What has been sent is in the first packets taken. *)

(* An intact header is recognized. *)
LEMMA IntactHeader ==
  ASSUME Sent, HeadersDamaged, input.flips = {}, NEW line \in {0, 1}, Proper(line)
  PROVE  IsHeader(FirstWord(line))
<1>1. GoodLine(Packets(line)) /\ Count(line) \in Nat
  BY GoodLines
<1>2. PICK N \in Nat, s \in {Packets(line)} : N = Count(line) /\ s = Packets(line)
  BY <1>1
<1>3. N >= 2 /\ s[1].kind = "header" /\ N = Len(s) /\ GoodLine(s) /\ GoodPacket(s[1])
  BY <1>1, <1>2 DEF Proper, Count, GoodLine
<1>4. AsSent(line, s, N)
  BY <1>2, DataOfLine
<1>5. Start(s, 0) = 0 /\ Size(s[1]) = 19
  BY <1>3, PacketsPlaced, SizeIs
<1>6. PICK b : b = PacketBits(s[1])
  OBVIOUS
<1>7. \A k \in 1..19 : DataAt(line, 0 + k) = b[k]
  <2>1. 1 \in 1..N /\ 1 - 1 = 0
    BY <1>3
  <2> QED
    BY <1>4, <1>5, <1>6, <2>1 DEF AsSent
<1>8. FirstWord(line) = WordFrom(line, 0) /\ FirstWord(line) \in [1..32 -> Bit]
  BY FirstWordIs
<1>9. \A k \in 1..19 : FirstWord(line)[k] = b[k]
  <2>1. \A k \in 1..19 : WordFrom(line, 0)[k] = DataAt(line, 0 + k)
    BY DEF WordFrom
  <2> QED
    BY <1>7, <1>8, <2>1, Zenon
<1>10. /\ b[1] = 1 /\ b[2] = 1 /\ b[3] = 1 /\ b[4] = 0 /\ b[5] = 1 /\ b[6] = 0 /\ b[19] = 1
  BY <1>3, <1>6, HeaderBits DEF GoodPacket
<1>11. /\ FirstWord(line)[1] = 1 /\ FirstWord(line)[2] = 1 /\ FirstWord(line)[3] = 1
       /\ FirstWord(line)[4] = 0 /\ FirstWord(line)[5] = 1 /\ FirstWord(line)[6] = 0
       /\ FirstWord(line)[19] = 1
  BY <1>9, <1>10
<1> QED
  BY <1>8, <1>11, Tags

LEMMA IntactIsSound ==
  ASSUME Sent, Intact
  PROVE  Sound /\ Heard(0) /\ Heard(1) /\ Packets(0) # <<>> /\ Packets(1) # <<>>
<1>1. HeadersDamaged
  BY DEF Intact, HeadersDamaged
<1>2. IsHeader(FirstWord(1))
  BY <1>1, IntactHeader DEF Intact
<1>3. \A line \in {0, 1} : Packets(line) # <<>>
  BY DEF Intact, Proper
<1> QED
  BY <1>1, <1>2, <1>3 DEF Sound, Heard

(* What follows the packets taken is the trailer, or begins in the last    *)
(* 32 bits of the line.                                                    *)
LEMMA BehindTheEnd ==
  ASSUME Sent, HeadersDamaged, NEW line \in {0, 1}, Heard(line), NEW n, Ended(line, n),
         NEW N \in Nat, N = Count(line), NEW i \in (n + 1)..N
  PROVE  /\ n \in Nat /\ Packets(line)[i].kind # "data"
         /\ Packets(line)[i].kind = "error" =>
              /\ Before(line, i - 1) \in Nat /\ Len(data[line]) \in Nat
              /\ Len(data[line]) <= Before(line, i - 1) + 32
<1>1. n \in 0..N /\ n \in Nat
  BY EndedTaken
<1>2. Packets(line) # <<>> /\ Proper(line)
  <2>1. N # 0
    BY <1>1
  <2> QED
    BY <2>1, SilentLine DEF Count
<1>3. n \in 1..(N - 1) /\ (n = N - 1 \/ Len(data[line]) <= Before(line, n) + 32)
  BY <1>2 DEF Ended
<1>4. CASE n = N - 1
  <2>1. i = n + 1
    BY <1>3, <1>4
  <2>2. Packets(line)[n + 1].kind = "trailer"
    BY <1>2, <1>3, <1>4, BodyOfLine DEF Body
  <2> QED
    BY <1>1, <2>1, <2>2
<1>5. CASE Len(data[line]) <= Before(line, n) + 32
  <2>1. Packets(line)[i].kind # "data"
    BY <1>2, <1>3, <1>5, NoDataLost
  <2>2. PICK s : s = Packets(line) /\ GoodLine(s) /\ N = Len(s)
    BY GoodLines DEF Count
  <2>3. Start(s, n) \in Nat /\ Start(s, i - 1) \in Nat /\ Start(s, n) <= Start(s, i - 1)
    <3>1. n \in 0..N /\ i - 1 \in n..N
      BY <1>1
    <3> QED
      BY <2>2, <3>1, Later
  <2>4. Len(data[line]) \in Nat
    BY <2>2, DataOfLine
  <2>5. Before(line, n) = Start(s, n) /\ Before(line, i - 1) = Start(s, i - 1)
    BY <2>2 DEF Before
  <2>6. PICK size \in Nat : size = Len(data[line]) /\ size <= Start(s, n) + 32
    BY <1>5, <2>4, <2>5
  <2> QED
    BY <1>1, <2>1, <2>3, <2>5, <2>6
<1> QED
  BY <1>3, <1>4, <1>5

LEMMA AllHits ==
  ASSUME Sent, HeadersDamaged, NEW line \in {0, 1}, NEW n, Ended(line, n),
         Heard(line) \/ Packets(line) = <<>>, NEW c
  PROVE  HitsOfFirst(line, n, c) = HitsSent(line, c) /\ HitsSent(line, c) \in Seq(Hits)
<1>1. PICK N \in Nat : N = Count(line)
  BY GoodLines
<1>2. n \in 0..N /\ n \in Nat
  BY <1>1, EndedTaken
<1>3. HitsSent(line, c) = HitsOfFirst(line, N, c)
  BY <1>1 DEF HitsSent, Count
<1>4. \A i \in 0..N : HitsOfFirst(line, i, c) \in Seq(Hits)
  BY <1>1, FirstGrow
<1> DEFINE S == {i \in 0..N : i >= n => HitsOfFirst(line, i, c) = HitsOfFirst(line, n, c)}
<1>5. 0 \in S
  BY <1>1, <1>2
<1>6. ASSUME NEW i \in 0..(N - 1), i \in S
      PROVE  i + 1 \in S
  <2>1. i + 1 \in 1..N /\ i + 1 \in 0..N /\ (i + 1) - 1 = i
    BY <1>1
  <2>2. CASE i >= n
    <3>1. i + 1 \in (n + 1)..N /\ N # 0
      BY <1>2, <2>1, <2>2
    <3>2. Heard(line)
      BY <1>1, <3>1 DEF Count
    <3>3. Packets(line)[i + 1].kind # "data"
      BY <1>1, <3>1, <3>2, BehindTheEnd
    <3>4. /\ GoodPacket(Packets(line)[i + 1])
          /\ HitsOfFirst(line, i + 1, c) =
               HitsOfFirst(line, (i + 1) - 1, c) \o HitsIn(Packets(line)[i + 1], c)
      BY <1>1, <2>1, FirstGrow
    <3>5. HitsIn(Packets(line)[i + 1], c) = <<>>
      BY <3>3, <3>4, HitsInType
    <3>6. PICK h : h \in Seq(Hits) /\ h = HitsOfFirst(line, i, c)
      BY <1>4
    <3>7. HitsOfFirst(line, i + 1, c) = h \o <<>>
      BY <2>1, <3>4, <3>5, <3>6
    <3>8. h \o <<>> = h
      BY <3>6
    <3>9. HitsOfFirst(line, i + 1, c) = HitsOfFirst(line, n, c)
      BY <1>6, <2>2, <3>6, <3>7, <3>8
    <3> QED
      BY <2>1, <3>9
  <2>3. CASE ~(i >= n)
    <3>1. i + 1 >= n => i + 1 = n
      BY <1>2, <2>3
    <3> QED
      BY <2>1, <3>1
  <2> QED
    BY <2>2, <2>3
<1> HIDE DEF S
<1>7. N \in S
  BY <1>1, <1>5, <1>6, UpTo, SMTT(30)
<1> QED
  BY <1>2, <1>3, <1>4, <1>7 DEF S

(* A line of which nothing is taken for lack of a header. *)
LEMMA NoneTaken ==
  ASSUME Sent, HeadersDamaged, NEW line \in {0, 1}, NEW n, Ended(line, n)
  PROVE  n = 0 <=> ~Heard(line) \/ Packets(line) = <<>>
<1>1. n \in Nat /\ Count(line) \in Nat
  BY EndedTaken, GoodLines
<1> QED
  BY <1>1 DEF Ended

(* Of the end that the decoder comes to. *)
LEMMA AtTheEnd ==
  ASSUME DecodingInv, Sound, pc = "done"
  PROVE  \E n, m \in Nat : Situation(1, n, m, 0) /\ Ended(0, n) /\ Ended(1, m)
<1>1. PICK line \in {0, 1}, n \in Nat, m \in Nat, j \in Nat : Stage(line, n, m, j)
  BY DEF DecodingInv
<1>2. Situation(line, n, m, j)
  BY <1>1 DEF DecodingInv, Situation
<1>3. line = 1 /\ j = 0 /\ Ended(1, Own(line, n, m))
  BY <1>2, SituationIs DEF Place, Searching, Between, Among
<1>4. Ended(0, n) /\ Ended(1, m)
  BY <1>2, <1>3, SituationIs
<1> QED
  BY <1>2, <1>3, <1>4

(* The event at the end. *)
LEMMA EventAtTheEnd ==
  ASSUME NEW n, NEW m, Situation(1, n, m, 0), n # 0 \/ m # 0
  PROVE  \E e \in SCTEvents :
           /\ sctEvent = {e} /\ Has(e, n, m, 1, 0)
           /\ \A c \in KnownChips :
                /\ e.hits[c] = HitsOfFirst(0, n, c) \o HitsOfFirst(1, m, c)
                /\ e.errors[c] = ErrorsOfFirst(0, n, c) \o ErrorsOfFirst(1, m, c)
           /\ e.missingData <=> Dropped(0, n) \/ Dropped(1, m)
           /\ e.complete <=> ~e.missingData
<1>1. PICK e \in SCTEvents : sctEvent = {e} /\ Has(e, n, m, 1, 0)
  BY EventThere
<1>2. Sent /\ HeadersDamaged /\ Taken(n, m)
  BY SituationIs, SituationTaken
<1>3. ASSUME NEW c \in KnownChips
      PROVE  e.hits[c] = HitsOfFirst(0, n, c) \o HitsOfFirst(1, m, c)
  <2>1. e.hits[c] = HitsTaken(n, m, c) \o Piece(NextOf(1, n, m), 0, c)
    BY <1>1 DEF Has
  <2>2. Piece(NextOf(1, n, m), 0, c) = <<>>
    BY DEF Piece
  <2>3. Count(0) \in Nat /\ Count(1) \in Nat
    BY <1>2, GoodLines
  <2>4. HitsOfFirst(0, n, c) \in Seq(Hits) /\ HitsOfFirst(1, m, c) \in Seq(Hits)
    BY <1>2, <2>3, FirstGrow DEF Taken
  <2>5. (HitsOfFirst(0, n, c) \o HitsOfFirst(1, m, c)) \o <<>> = HitsOfFirst(0, n, c) \o HitsOfFirst(1, m, c)
    BY <2>4, ThreeParts
  <2> QED
    BY <2>1, <2>2, <2>5, Zenon DEF HitsTaken
<1>4. \A c \in KnownChips : e.errors[c] = ErrorsOfFirst(0, n, c) \o ErrorsOfFirst(1, m, c)
  BY <1>1, Zenon DEF Has, ErrorsTaken
<1>5. (e.missingData <=> Dropped(0, n) \/ Dropped(1, m)) /\ (e.complete <=> ~e.missingData)
  BY <1>1 DEF Has
<1> QED
  BY <1>1, <1>3, <1>4, <1>5

(* Packets with an unknown chip. *)
LEMMA UnknownDropped ==
  ASSUME Sent, HeadersDamaged, Heard(0), Heard(1), NEW n, Ended(0, n), NEW m, Ended(1, m)
  PROVE  /\ ~(ChipsIn({"data"}) \subseteq KnownChips) => Dropped(0, n) \/ Dropped(1, m)
         /\ Dropped(0, n) \/ Dropped(1, m) => ~(ChipsIn({"data", "error"}) \subseteq KnownChips)
<1>1. ASSUME NEW line \in {0, 1}, NEW k, Ended(line, k), NEW q \in Range(Packets(line)),
             q.kind = "data", q.chip \notin KnownChips
      PROVE  Dropped(line, k)
  <2>1. Heard(line)
    OBVIOUS
  <2>2. PICK N \in Nat : N = Count(line) /\ GoodLine(Packets(line))
    BY GoodLines
  <2>3. PICK i \in 1..N : q = Packets(line)[i]
    BY <1>1, <2>2 DEF Range, Count, GoodLine
  <2>4. k \in 0..N
    BY <1>1, <2>2, EndedTaken
  <2>5. i \in 1..k
    <3> SUFFICES ASSUME i \notin 1..k
                 PROVE  FALSE
      OBVIOUS
    <3>1. i \in (k + 1)..N
      BY <2>4
    <3> QED
      BY <1>1, <2>1, <2>2, <2>3, <3>1, BehindTheEnd
  <2> QED
    BY <1>1, <2>3, <2>5 DEF Dropped, Drops
<1>2. ASSUME ~(ChipsIn({"data"}) \subseteq KnownChips)
      PROVE  Dropped(0, n) \/ Dropped(1, m)
  <2>1. PICK q \in Range(Packets(0)) \cup Range(Packets(1)) :
          q.kind = "data" /\ q.chip \notin KnownChips
    BY <1>2 DEF ChipsIn
  <2> QED
    BY <1>1, <2>1
<1>3. ASSUME NEW line \in {0, 1}, NEW k, Ended(line, k), Dropped(line, k)
      PROVE  ~(ChipsIn({"data", "error"}) \subseteq KnownChips)
  <2>1. PICK i \in 1..k : Drops(Packets(line)[i])
    BY <1>3 DEF Dropped
  <2>2. PICK N \in Nat : N = Count(line) /\ GoodLine(Packets(line))
    BY GoodLines
  <2>3. k \in 0..N
    BY <1>3, <2>2, EndedTaken
  <2>4. Packets(line)[i] \in Range(Packets(line))
    <3>1. i \in 1..N
      BY <2>3
    <3> QED
      BY <2>2, <3>1 DEF Range, Count, GoodLine
  <2>5. Packets(line)[i].chip \in ChipsIn({"data", "error"}) /\ Packets(line)[i].chip \notin KnownChips
    BY <2>1, <2>4 DEF ChipsIn, Drops
  <2> QED
    BY <2>5
<1> QED
  BY <1>2, <1>3

(* Every hit sent is in the event of the module, with its chip, strip and  *)
(* pattern, in order, and nothing else is, for all packets that modules    *)
(* send and wherever they lie in the words; and the event is marked        *)
(* incomplete where hits of an unknown chip were dropped.                  *)
THEOREM HitsCorrect == Spec => []HitsDecoded
<1>1. DecodingInv => HitsDecoded
  <2> SUFFICES ASSUME DecodingInv, pc = "done", Intact
               PROVE  \E e \in sctEvent :
                        /\ \A c \in KnownChips : e.hits[c] = HitsSent(0, c) \o HitsSent(1, c)
                        /\ ~(ChipsIn({"data"}) \subseteq KnownChips) => ~e.complete /\ e.missingData
                        /\ ChipsIn({"data", "error"}) \subseteq KnownChips => e.complete /\ ~e.missingData
    BY DEF HitsDecoded
  <2>1. /\ Sent /\ Sound /\ HeadersDamaged /\ Heard(0) /\ Heard(1)
        /\ Packets(0) # <<>> /\ Packets(1) # <<>>
    BY IntactIsSound DEF DecodingInv, Sound
  <2>2. PICK n \in Nat, m \in Nat : Situation(1, n, m, 0) /\ Ended(0, n) /\ Ended(1, m)
    BY <2>1, AtTheEnd
  <2>3. n # 0
    BY <2>1, <2>2, NoneTaken
  <2>4. PICK e \in SCTEvents :
          /\ sctEvent = {e}
          /\ \A c \in KnownChips : e.hits[c] = HitsOfFirst(0, n, c) \o HitsOfFirst(1, m, c)
          /\ e.missingData <=> Dropped(0, n) \/ Dropped(1, m)
          /\ e.complete <=> ~e.missingData
    BY <2>2, <2>3, EventAtTheEnd
  <2>5. \A c : HitsOfFirst(0, n, c) = HitsSent(0, c) /\ HitsOfFirst(1, m, c) = HitsSent(1, c)
    BY <2>1, <2>2, AllHits
  <2>6. \A c \in KnownChips : e.hits[c] = HitsSent(0, c) \o HitsSent(1, c)
    BY <2>4, <2>5, Zenon
  <2>7. /\ ~(ChipsIn({"data"}) \subseteq KnownChips) => ~e.complete /\ e.missingData
        /\ ChipsIn({"data", "error"}) \subseteq KnownChips => e.complete /\ ~e.missingData
    BY <2>1, <2>2, <2>4, UnknownDropped
  <2> QED
    BY <2>4, <2>6, <2>7
<1> QED
  BY <1>1, DecodingInvariant, PTL

(* Whatever happened to the headers, the hits of both lines are in the     *)
(* event, which has the identity that ledx gives; without a header on ledx *)
(* the hits of led are lost, and without one on both there is no event.    *)
(* Bits behind the first word of a line must not look like a header.       *)
THEOREM LedNeedsLedxCorrect == Spec => []LedNeedsLedx
<1>1. DecodingInv => LedNeedsLedx
  <2> SUFFICES ASSUME DecodingInv, pc = "done", HeadersDamaged, ~HeaderWithin(0), ~HeaderWithin(1)
               PROVE  LedNeedsLedx
    BY DEF LedNeedsLedx
  <2>1. Sent /\ Sound
    BY DEF DecodingInv, Sound
  <2>2. PICK n \in Nat, m \in Nat : Situation(1, n, m, 0) /\ Ended(0, n) /\ Ended(1, m)
    BY <2>1, AtTheEnd
  <2>3. n = 0 <=> ~IsHeader(FirstWord(1))
    <3>1. Proper(0) /\ Packets(0) # <<>>
      BY DEF HeadersDamaged, Proper
    <3> QED
      BY <2>1, <2>2, <3>1, NoneTaken DEF Heard
  <2>4. (n # 0 \/ m # 0) =>
          \E e \in sctEvent :
            /\ e.l1id = Field(Identity, 7, 10) /\ e.bcid = Field(Identity, 11, 18)
            /\ \A c \in KnownChips : e.hits[c] = HitsOfFirst(0, n, c) \o HitsOfFirst(1, m, c)
    <3> SUFFICES ASSUME n # 0 \/ m # 0
                 PROVE  \E e \in sctEvent :
                          /\ e.l1id = Field(Identity, 7, 10) /\ e.bcid = Field(Identity, 11, 18)
                          /\ \A c \in KnownChips : e.hits[c] = HitsOfFirst(0, n, c) \o HitsOfFirst(1, m, c)
      OBVIOUS
    <3>1. PICK e \in SCTEvents :
            /\ sctEvent = {e} /\ Has(e, n, m, 1, 0)
            /\ \A c \in KnownChips : e.hits[c] = HitsOfFirst(0, n, c) \o HitsOfFirst(1, m, c)
      BY <2>2, EventAtTheEnd
    <3>2. e.l1id = Field(Identity, 7, 10) /\ e.bcid = Field(Identity, 11, 18)
      BY <3>1 DEF Has
    <3> QED
      BY <3>1, <3>2
  <2>5. CASE IsHeader(FirstWord(1))
    <3>1. Heard(0) /\ Heard(1) /\ Identity = FirstWord(1)
      BY <2>5 DEF Heard, Identity
    <3>2. \A c : HitsOfFirst(0, n, c) = HitsSent(0, c) /\ HitsOfFirst(1, m, c) = HitsSent(1, c)
      BY <2>1, <2>2, <3>1, AllHits
    <3>3. \E e \in sctEvent :
            /\ e.l1id = Field(FirstWord(1), 7, 10) /\ e.bcid = Field(FirstWord(1), 11, 18)
            /\ \A c \in KnownChips : e.hits[c] = HitsSent(0, c) \o HitsSent(1, c)
      BY <2>3, <2>4, <2>5, <3>1, <3>2
    <3> QED
      BY <2>5, <3>3 DEF LedNeedsLedx
  <2>6. CASE ~IsHeader(FirstWord(1)) /\ IsHeader(FirstWord(0)) /\ data[1] # <<>>
    <3>1. n = 0 /\ Heard(1) /\ Identity = FirstWord(0)
      BY <2>3, <2>6 DEF Heard, Identity
    <3>2. Packets(1) # <<>>
      <4>1. data[1] \in Seq(Bit)
        <5>1. Count(1) \in Nat
          BY <2>1, GoodLines
        <5> QED
          BY <2>1, <5>1, DataOfLine
      <4>2. Len(data[1]) # 0
        BY <2>6, <4>1
      <4> QED
        BY <2>1, <4>2, SilentLine
    <3>3. m # 0
      BY <2>1, <2>2, <3>1, <3>2, NoneTaken
    <3>4. ASSUME NEW c
          PROVE  HitsOfFirst(0, n, c) \o HitsOfFirst(1, m, c) = HitsSent(1, c)
      <4>1. HitsOfFirst(1, m, c) = HitsSent(1, c) /\ HitsSent(1, c) \in Seq(Hits)
        BY <2>1, <2>2, <3>1, AllHits
      <4>2. HitsOfFirst(0, n, c) = <<>>
        <5>1. Count(0) \in Nat
          BY <2>1, GoodLines
        <5> QED
          BY <2>1, <3>1, <5>1, FirstGrow
      <4>3. <<>> \o HitsSent(1, c) = HitsSent(1, c)
        BY <4>1
      <4> QED
        BY <4>1, <4>2, <4>3, Zenon
    <3>5. \E e \in sctEvent :
            /\ e.l1id = Field(FirstWord(0), 7, 10) /\ e.bcid = Field(FirstWord(0), 11, 18)
            /\ \A c \in KnownChips : e.hits[c] = HitsSent(1, c)
      BY <2>4, <3>1, <3>3, <3>4
    <3> QED
      BY <2>6, <3>5 DEF LedNeedsLedx
  <2>7. CASE ~IsHeader(FirstWord(1)) /\ ~(IsHeader(FirstWord(0)) /\ data[1] # <<>>)
    <3>1. m = 0
      <4>1. Heard(1) => Packets(1) = <<>>
        <5>1. IsHeader(FirstWord(0)) => Len(data[1]) = 0
          BY <2>7
        <5> QED
          BY <2>1, <2>7, <5>1, SilentLine DEF Heard
      <4> QED
        BY <2>1, <2>2, <4>1, NoneTaken
    <3>2. sctEvent = {}
      BY <2>2, <2>3, <2>7, <3>1, SituationIs DEF Contents
    <3> QED
      BY <2>7, <3>2 DEF LedNeedsLedx
  <2> QED
    BY <2>5, <2>6, <2>7
<1> QED
  BY <1>1, DecodingInvariant, PTL

(* Errors. *)

(* Of the first packets of a line, those that are errors of a chip. *)
ErrorPackets(line, n, c) ==
  {i \in 1..n : Packets(line)[i].kind = "error" /\ Packets(line)[i].chip = c}

(* The packet after k others adds an error, or none. *)
NextError(line, k, c) ==
  LET errors == ErrorsOfFirst(line, k, c)
  IN  /\ errors \in Seq(ErrorNumbers)
      /\ \/ /\ ErrorsOfFirst(line, k + 1, c) = errors
            /\ ErrorPackets(line, k + 1, c) = ErrorPackets(line, k, c)
         \/ \E err \in ErrorNumbers :
              /\ ErrorsOfFirst(line, k + 1, c) = Append(errors, err)
              /\ ErrorPackets(line, k + 1, c) = ErrorPackets(line, k, c) \cup {k + 1}

LEMMA OneMoreError ==
  ASSUME Sent, HeadersDamaged, NEW line \in {0, 1}, NEW N \in Nat, N = Count(line),
         NEW k \in 0..(N - 1), NEW c
  PROVE  NextError(line, k, c)
<1>1. PICK i \in 1..N : i = k + 1 /\ i - 1 = k
  OBVIOUS
<1>2. PICK errors : errors = ErrorsOfFirst(line, i - 1, c) /\ errors \in Seq(ErrorNumbers)
  <2>1. i - 1 \in 0..N
    OBVIOUS
  <2> QED
    BY <2>1, FirstGrow
<1>3. PICK q : q = Packets(line)[i] /\ GoodPacket(q)
  BY FirstGrow
<1>4. ErrorsOfFirst(line, i, c) = errors \o ErrorsIn(q, c) /\ ErrorsIn(q, c) \in Seq(ErrorNumbers)
  <2>1. ErrorsOfFirst(line, i, c) = ErrorsOfFirst(line, i - 1, c) \o ErrorsIn(Packets(line)[i], c)
    BY FirstGrow
  <2> QED
    BY <1>2, <1>3, <2>1, HitsInType
<1>5. 1..i = 1..(i - 1) \cup {i}
  OBVIOUS
<1>6. CASE q.kind = "error" /\ q.chip = c
  <2>1. ErrorsIn(q, c) = <<q.err>> /\ q.err \in ErrorNumbers
    <3>1. q.err \in 0..7
      BY <1>3, <1>6, KindsOfPackets DEF GoodPacket
    <3> QED
      BY <1>6, <3>1 DEF ErrorsIn, ErrorNumbers
  <2>2. errors \o <<q.err>> = Append(errors, q.err)
    BY <1>2, <2>1, AppendIsConcat
  <2>3. ErrorPackets(line, i, c) = ErrorPackets(line, i - 1, c) \cup {i}
    BY <1>3, <1>5, <1>6 DEF ErrorPackets
  <2> QED
    BY <1>1, <1>2, <1>4, <2>1, <2>2, <2>3, Zenon DEF NextError
<1>7. CASE ~(q.kind = "error" /\ q.chip = c)
  <2>1. ErrorsIn(q, c) = <<>>
    BY <1>7 DEF ErrorsIn
  <2>2. errors \o <<>> = errors
    BY <1>2
  <2>3. ErrorPackets(line, i, c) = ErrorPackets(line, i - 1, c)
    BY <1>3, <1>5, <1>7 DEF ErrorPackets
  <2> QED
    BY <1>1, <1>2, <1>4, <2>1, <2>2, <2>3, Zenon DEF NextError
<1> QED
  BY <1>6, <1>7

(* As many errors as packets that bring them. *)
LEMMA ErrorsCounted ==
  ASSUME Sent, HeadersDamaged, NEW line \in {0, 1}, NEW N \in Nat, N = Count(line),
         NEW n \in 0..N, NEW c
  PROVE  /\ IsFiniteSet(ErrorPackets(line, n, c))
         /\ Cardinality(ErrorPackets(line, n, c)) = Len(ErrorsOfFirst(line, n, c))
<1> DEFINE P(i) == /\ IsFiniteSet(ErrorPackets(line, i, c))
                   /\ Cardinality(ErrorPackets(line, i, c)) = Len(ErrorsOfFirst(line, i, c))
           S == {i \in 0..N : P(i)}
<1>1. P(0)
  <2>1. ErrorPackets(line, 0, c) = {}
    BY DEF ErrorPackets
  <2>2. Len(ErrorsOfFirst(line, 0, c)) = 0
    BY FirstGrow
  <2> QED
    BY <2>1, <2>2, FS_EmptySet
<1>2. ASSUME NEW k \in 0..(N - 1), P(k)
      PROVE  P(k + 1)
  <2>1. NextError(line, k, c)
    BY OneMoreError
  <2>2. PICK errors, T : /\ errors = ErrorsOfFirst(line, k, c) /\ T = ErrorPackets(line, k, c)
                         /\ IsFiniteSet(T) /\ Cardinality(T) = Len(errors)
    BY <1>2
  <2>3. errors \in Seq(ErrorNumbers)
    BY <2>1, <2>2 DEF NextError
  <2>4. CASE ErrorsOfFirst(line, k + 1, c) = errors /\ ErrorPackets(line, k + 1, c) = T
    BY <2>2, <2>4, Zenon
  <2>5. ASSUME NEW err \in ErrorNumbers, ErrorsOfFirst(line, k + 1, c) = Append(errors, err),
               ErrorPackets(line, k + 1, c) = T \cup {k + 1}
        PROVE  P(k + 1)
    <3>1. k + 1 \notin T
      BY <2>2 DEF ErrorPackets
    <3>2. IsFiniteSet(T \cup {k + 1}) /\ Cardinality(T \cup {k + 1}) = Cardinality(T) + 1
      BY <2>2, <3>1, FS_AddElement
    <3>3. Len(Append(errors, err)) = Len(errors) + 1
      BY <2>3
    <3> QED
      BY <2>2, <2>5, <3>2, <3>3, Zenon
  <2> HIDE DEF P
  <2> QED
    BY <2>1, <2>2, <2>4, <2>5, Zenon DEF NextError
<1> HIDE DEF P
<1>3. 0..N \subseteq S
  <2>1. 0 \in S /\ \A k \in 0..(N - 1) : k \in S => k + 1 \in S
    BY <1>1, <1>2
  <2> HIDE DEF S
  <2> QED
    BY <2>1, UpTo
<1> QED
  BY <1>3 DEF P

(* The errors of the first packets are the first of the errors. *)
LEMMA ErrorsFirst ==
  ASSUME Sent, HeadersDamaged, NEW line \in {0, 1}, NEW N \in Nat, N = Count(line),
         NEW n \in 0..N, NEW c, NEW s, s = ErrorsOfFirst(line, n, c), NEW L \in Nat, L = Len(s)
  PROVE  L <= Len(ErrorsSent(line, c)) /\ s = SubSeq(ErrorsSent(line, c), 1, L)
<1>1. s \in Seq(ErrorNumbers)
  BY FirstGrow
<1> DEFINE S == {i \in 0..N : i >= n => LET t == ErrorsOfFirst(line, i, c)
                                        IN  /\ t \in Seq(ErrorNumbers) /\ L <= Len(t)
                                            /\ \A k \in 1..L : t[k] = s[k]}
<1>2. 0 \in S
  <2>1. 0 >= n => n = 0
    OBVIOUS
  <2> QED
    BY <1>1, <2>1
<1>3. ASSUME NEW j \in 0..(N - 1), j \in S
      PROVE  j + 1 \in S
  <2>1. PICK i \in 1..N : i = j + 1 /\ i \in 0..N
    OBVIOUS
  <2>2. CASE j >= n
    <3>1. PICK t, u : t = ErrorsOfFirst(line, j, c) /\ u = ErrorsOfFirst(line, i, c)
      OBVIOUS
    <3>2. t \in Seq(ErrorNumbers) /\ L <= Len(t) /\ \A k \in 1..L : t[k] = s[k]
      BY <1>3, <2>2, <3>1
    <3>3. u = t \/ \E x \in ErrorNumbers : u = Append(t, x)
      <4>1. NextError(line, j, c)
        BY OneMoreError
      <4> QED
        BY <2>1, <3>1, <4>1, Zenon DEF NextError
    <3>4. u \in Seq(ErrorNumbers) /\ L <= Len(u) /\ \A k \in 1..L : u[k] = s[k]
      <4>1. CASE u = t
        BY <3>2, <4>1
      <4>2. ASSUME NEW x \in ErrorNumbers, u = Append(t, x)
            PROVE  u \in Seq(ErrorNumbers) /\ L <= Len(u) /\ \A k \in 1..L : u[k] = s[k]
        <5>1. /\ u \in Seq(ErrorNumbers) /\ Len(u) = Len(t) + 1
              /\ \A k \in 1..Len(t) : u[k] = t[k]
          BY <3>2, <4>2, AppendProperties
        <5>2. \A k \in 1..L : k \in 1..Len(t)
          BY <3>2
        <5> QED
          BY <3>2, <5>1, <5>2
      <4> QED
        BY <3>3, <4>1, <4>2
    <3> QED
      BY <2>1, <3>1, <3>4
  <2>3. CASE ~(j >= n)
    <3>1. i >= n => i = n
      BY <2>1, <2>3
    <3> QED
      BY <1>1, <2>1, <3>1
  <2> QED
    BY <2>2, <2>3
<1> HIDE DEF S
<1>4. N \in S
  <2>1. 0..N \subseteq S
    BY <1>2, <1>3, UpTo
  <2> QED
    BY <2>1
<1>5. PICK t : t = ErrorsSent(line, c) /\ t = ErrorsOfFirst(line, N, c)
  BY DEF ErrorsSent, Count
<1>6. t \in Seq(ErrorNumbers) /\ L <= Len(t) /\ \A k \in 1..L : t[k] = s[k]
  BY <1>4, <1>5 DEF S
<1>7. SubSeq(t, 1, L) = s
  <2>1. \A k \in 1..L : t[k] \in ErrorNumbers
    BY <1>6
  <2>2. /\ SubSeq(t, 1, L) \in Seq(ErrorNumbers) /\ Len(SubSeq(t, 1, L)) = L
        /\ \A k \in 1..L : SubSeq(t, 1, L)[k] = t[k]
    BY <2>1, SubSeqProperties
  <2> QED
    BY <1>1, <1>6, <2>2, SeqEqual
<1> QED
  BY <1>5, <1>6, <1>7

(* Errors that do not begin in the last 32 bits of their line. *)
SafeErrors(line, c) ==
  {i \in DOMAIN Packets(line) :
     /\ Packets(line)[i].kind = "error" /\ Packets(line)[i].chip = c
     /\ Len(BitsOf(Packets(line), i - 1)) < Len(data[line]) - 32}

ErrorsUpTo(line, n, c, k) ==
  /\ k \in Cardinality(SafeErrors(line, c))..Len(ErrorsSent(line, c))
  /\ ErrorsOfFirst(line, n, c) = SubSeq(ErrorsSent(line, c), 1, k)

LEMMA SafeErrorsTaken ==
  ASSUME Sent, HeadersDamaged, NEW line \in {0, 1}, Heard(line), NEW n, Ended(line, n), NEW c
  PROVE  \E k : ErrorsUpTo(line, n, c, k)
<1>1. PICK N \in Nat : N = Count(line) /\ GoodLine(Packets(line))
  BY GoodLines
<1>2. n \in 0..N
  BY <1>1, EndedTaken
<1>3. SafeErrors(line, c) \subseteq ErrorPackets(line, n, c)
  <2> SUFFICES ASSUME NEW i \in SafeErrors(line, c)
               PROVE  i \in ErrorPackets(line, n, c)
    OBVIOUS
  <2>1. /\ i \in 1..N
        /\ Packets(line)[i].kind = "error" /\ Packets(line)[i].chip = c
        /\ Before(line, i - 1) < Len(data[line]) - 32
    BY <1>1 DEF SafeErrors, Before, Start, GoodLine, Count
  <2>2. i \in 1..n
    <3> SUFFICES ASSUME i \notin 1..n
                 PROVE  FALSE
      OBVIOUS
    <3>1. i \in (n + 1)..N
      BY <1>2, <2>1
    <3>2. /\ Before(line, i - 1) \in Nat /\ Len(data[line]) \in Nat
          /\ Len(data[line]) <= Before(line, i - 1) + 32
      BY <1>1, <2>1, <3>1, BehindTheEnd
    <3> QED
      BY <2>1, <3>2
  <2> QED
    BY <2>1, <2>2 DEF ErrorPackets
<1>4. PICK s : s = ErrorsOfFirst(line, n, c) /\ s \in Seq(ErrorNumbers)
  BY <1>1, <1>2, FirstGrow
<1>5. PICK L \in Nat : L = Len(s)
  BY <1>4
<1>6. IsFiniteSet(ErrorPackets(line, n, c)) /\ Cardinality(ErrorPackets(line, n, c)) = L
  BY <1>1, <1>2, <1>4, <1>5, ErrorsCounted
<1>7. /\ Cardinality(SafeErrors(line, c)) \in Nat /\ Cardinality(SafeErrors(line, c)) <= L
  <2>1. IsFiniteSet(SafeErrors(line, c))
        /\ Cardinality(SafeErrors(line, c)) <= Cardinality(ErrorPackets(line, n, c))
    BY <1>3, <1>6, FS_Subset
  <2> QED
    BY <1>6, <2>1, FS_CardinalityType
<1>8. L <= Len(ErrorsSent(line, c)) /\ s = SubSeq(ErrorsSent(line, c), 1, L)
  BY <1>1, <1>2, <1>4, <1>5, ErrorsFirst
<1>9. Len(ErrorsSent(line, c)) \in Nat
  <2>1. ErrorsSent(line, c) = ErrorsOfFirst(line, N, c)
    BY <1>1 DEF ErrorsSent, Count
  <2>2. N \in 0..N
    OBVIOUS
  <2>3. PICK t : t = ErrorsOfFirst(line, N, c) /\ t \in Seq(ErrorNumbers)
    BY <1>1, <2>2, FirstGrow
  <2>4. Len(t) \in Nat
    BY <2>3
  <2> QED
    BY <2>1, <2>3, <2>4, Zenon
<1>10. ErrorsUpTo(line, n, c, L)
  BY <1>4, <1>7, <1>8, <1>9 DEF ErrorsUpTo
<1> QED
  BY <1>10

(* The errors of a line are in the event in order, but for a last few that *)
(* begin in the last 32 bits of their line.                                *)
THEOREM ErrorsCorrect == Spec => []ErrorsDecoded
<1>1. DecodingInv => ErrorsDecoded
  <2> SUFFICES ASSUME DecodingInv, pc = "done", Intact
               PROVE  ErrorsDecoded
    BY DEF ErrorsDecoded
  <2>1. /\ Sent /\ Sound /\ HeadersDamaged /\ Heard(0) /\ Heard(1) /\ Packets(0) # <<>>
    BY IntactIsSound DEF DecodingInv, Sound
  <2>2. PICK n \in Nat, m \in Nat : Situation(1, n, m, 0) /\ Ended(0, n) /\ Ended(1, m)
    BY <2>1, AtTheEnd
  <2>3. n # 0
    BY <2>1, <2>2, NoneTaken
  <2>4. PICK e \in SCTEvents :
          /\ sctEvent = {e}
          /\ \A c \in KnownChips : e.errors[c] = ErrorsOfFirst(0, n, c) \o ErrorsOfFirst(1, m, c)
    BY <2>2, <2>3, EventAtTheEnd
  <2>5. ASSUME NEW c \in KnownChips
        PROVE  \E i \in Cardinality(SafeErrors(0, c))..Len(ErrorsSent(0, c)),
                  k \in Cardinality(SafeErrors(1, c))..Len(ErrorsSent(1, c)) :
                 e.errors[c] = SubSeq(ErrorsSent(0, c), 1, i) \o SubSeq(ErrorsSent(1, c), 1, k)
    <3>1. PICK i, k : ErrorsUpTo(0, n, c, i) /\ ErrorsUpTo(1, m, c, k)
      BY <2>1, <2>2, SafeErrorsTaken
    <3> QED
      BY <2>4, <3>1, Zenon DEF ErrorsUpTo
  <2> QED
    BY <2>4, <2>5 DEF ErrorsDecoded, SafeErrors
<1> QED
  BY <1>1, DecodingInvariant, PTL

================================================================================
