--------------------------- MODULE TrackerWords_proof ---------------------------
(***************************************************************************)
(* What holds of TrackerWords for words of any width, of any fragments     *)
(* sent and of any loss and change on the way.                             *)
(***************************************************************************)
EXTENDS TrackerWords, Recursion, SequenceTheorems

-------------------------------------------------------------------------------
(* Powers of two. *)

LEMMA PowerEquation == ArePowers(PowerOf2)
BY PowersExist, Zenon DEF PowerOf2

LEMMA RangesType ==
  /\ WordModulus \in Nat \ {0} /\ FieldRange \in Nat \ {0} /\ ContentRange \in Nat \ {0}
  /\ \E q \in Nat : WordModulus = q * FieldRange
  /\ \E q \in Nat : ContentRange = q * FieldRange
<1>1. /\ WordBits \in Nat /\ FieldBits \in Nat /\ 2 * FieldBits \in Nat
      /\ FieldBits <= WordBits /\ FieldBits <= 2 * FieldBits
  BY WidthsAssumption
<1>2. \E q \in Nat : WordModulus = q * FieldRange
  BY <1>1, PowerEquation, PowersDivide DEF WordModulus, FieldRange
<1>3. \E q \in Nat : ContentRange = q * FieldRange
  BY <1>1, PowerEquation, PowersDivide DEF ContentRange, FieldRange
<1>4. WordModulus \in Nat \ {0} /\ FieldRange \in Nat \ {0} /\ ContentRange \in Nat \ {0}
  BY <1>1, PowerEquation DEF ArePowers, WordModulus, FieldRange, ContentRange
<1> QED
  BY <1>2, <1>3, <1>4

-------------------------------------------------------------------------------
(* The checksum. *)

LEMMA NumberType ==
  ASSUME NEW w \in Words
  PROVE  Number(w) \in 0..(WordModulus - 1) /\ Number(w) % FieldRange = w.content % FieldRange
<1>1. PICK high \in Nat :
        Number(w) = (high * ContentRange + w.content) % WordModulus
  <2>1. w.counter \in Nat /\ TypeBits(w)[1] \in Nat /\ TypeBits(w)[2] \in Nat
    BY DEF Words, BoardKinds, TypeBits, FrameCounterCycle
  <2>2. (TypeBits(w)[1] * FrameCounterCycle + w.counter) * 8 + TypeBits(w)[2] \in Nat
    BY <2>1 DEF FrameCounterCycle
  <2> QED
    BY <2>2, Zenon DEF Number
<1>2. w.content \in Nat
  BY RangesType DEF Words, Contents
<1>3. PICK q \in Nat : ContentRange = q * FieldRange
  BY RangesType
<1>4. PICK p \in Nat : WordModulus = p * FieldRange
  BY RangesType
<1>5. PICK a \in Nat : a = high * ContentRange + w.content
  <2>1. high * ContentRange \in Nat
    BY RangesType
  <2> QED
    BY <1>2, <2>1
<1>6. (a % WordModulus) % FieldRange = a % FieldRange
  BY <1>4, RangesType, ModMod, ZenonT(30)
<1>7. a % FieldRange = w.content % FieldRange
  <2>1. high * (q * FieldRange) = FieldRange * (high * q)
    BY RangesType
  <2>2. PICK k \in Nat : k = high * q
    OBVIOUS
  <2>3. FieldRange * k \in Nat
    BY RangesType
  <2>4. a = w.content + FieldRange * k
    BY <1>2, <1>3, <1>5, <2>1, <2>2, <2>3
  <2>5. (w.content + FieldRange * k) % FieldRange = w.content % FieldRange
    BY <1>2, RangesType, ModShift
  <2> QED
    BY <2>4, <2>5
<1>8. a % WordModulus \in 0..(WordModulus - 1)
  BY RangesType, Remainder
<1> QED
  BY <1>1, <1>5, <1>6, <1>7, <1>8

LEMMA NumbersType ==
  ASSUME NEW words \in Seq(Words)
  PROVE  /\ Numbers(words) \in Seq(Nat)
         /\ Len(Numbers(words)) = Len(words)
         /\ \A k \in 1..Len(words) : Numbers(words)[k] = Number(words[k])
<1>1. \A k \in 1..Len(words) : Number(words[k]) \in Nat
  BY NumberType, RangesType
<1>2. Numbers(words) = [k \in 1..Len(words) |-> Number(words[k])]
  BY DEF Numbers
<1> QED
  BY <1>1, <1>2

(* The sums after each word. *)

SumPairs == [L : 0..(WordModulus - 1), H : 0..(WordModulus - 1)]

IsAdding(h, words, count) ==
  /\ h \in [0..count -> SumPairs]
  /\ h[0] = [L |-> 0, H |-> 0]
  /\ \A n \in 1..count : h[n] = AddData(h[n - 1], words[n])
  /\ ChecksumOfFirst(words, count) = ComputeFletcherChecksum(h[count].H, h[count].L)

LEMMA AddDataType ==
  ASSUME NEW s \in SumPairs, NEW n \in Nat
  PROVE  AddData(s, n) \in SumPairs
<1>1. (s.L + n) % WordModulus \in 0..(WordModulus - 1)
  <2>1. s.L + n \in Nat
    BY RangesType DEF SumPairs
  <2> QED
    BY <2>1, RangesType, Remainder
<1>2. PICK l \in 0..(WordModulus - 1) : l = (s.L + n) % WordModulus
  BY <1>1
<1>3. (s.H + l) % WordModulus \in 0..(WordModulus - 1)
  <2>1. s.H + l \in Nat
    BY RangesType DEF SumPairs
  <2> QED
    BY <2>1, RangesType, Remainder
<1>4. PICK h \in 0..(WordModulus - 1) : h = (s.H + l) % WordModulus
  BY <1>3
<1>5. AddData(s, n) = [L |-> l, H |-> h]
  BY <1>2, <1>4 DEF AddData
<1> QED
  BY <1>5 DEF SumPairs

LEMMA AddingExists ==
  ASSUME NEW words \in Seq(Nat), NEW count \in 0..Len(words)
  PROVE  \E h : IsAdding(h, words, count)
<1> DEFINE start == [L |-> 0, H |-> 0]
           step == [n \in 1..count |-> [s \in SumPairs |-> AddData(s, words[n])]]
           sums[n \in 0..count] ==
             IF n = 0 THEN {[L |-> 0, H |-> 0]}
             ELSE {AddData(s, words[n]) : s \in sums[n - 1]}
           P(g) == g = [n \in 0..count |-> IF n = 0 THEN {[L |-> 0, H |-> 0]}
                                           ELSE {AddData(s, words[n]) : s \in g[n - 1]}]
<1>0. count \in Nat /\ 1..count \subseteq 1..Len(words)
  OBVIOUS
<1>1. ChecksumOfFirst(words, count)
        = CHOOSE c \in {ComputeFletcherChecksum(s.H, s.L) : s \in sums[count]} : TRUE
  BY Zenon DEF ChecksumOfFirst
<1>2. start \in SumPairs /\ step \in [1..count -> [SumPairs -> SumPairs]]
  <2>1. \A n \in 1..count : words[n] \in Nat
    BY <1>0
  <2>2. start \in SumPairs
    BY RangesType DEF SumPairs
  <2>3. \A n \in 1..count : \A s \in SumPairs : AddData(s, words[n]) \in SumPairs
    BY <2>1, AddDataType
  <2> QED
    BY <2>2, <2>3
<1>3. PICK h \in [0..count -> SumPairs] : IsLoop(count, start, step, h)
  <2>1. start \in SumPairs
    BY <1>2
  <2>2. step \in [1..count -> [SumPairs -> SumPairs]]
    BY <1>2
  <2> HIDE DEF start, step, sums, P
  <2> QED
    BY <1>0, <2>1, <2>2, LoopExists
<1>4. h[0] = start /\ \A n \in 1..count : h[n] = AddData(h[n - 1], words[n])
  <2>1. h[0] = start
    BY <1>3 DEF IsLoop
  <2>2. ASSUME NEW n \in 1..count
        PROVE  h[n] = AddData(h[n - 1], words[n])
    <3>1. h[n - 1] \in SumPairs
      <4>1. n - 1 \in 0..count
        BY <1>0
      <4> QED
        BY <1>3, <4>1
    <3>2. h[n] = step[n][h[n - 1]]
      <4> HIDE DEF step, start
      <4> QED
        BY <1>3 DEF IsLoop
    <3> QED
      BY <3>1, <3>2
  <2> QED
    BY <2>1, <2>2
<1>5. P([n \in 0..count |-> {h[n]}])
  <2> DEFINE g == [n \in 0..count |-> {h[n]}]
  <2>1. ASSUME NEW n \in 0..count
        PROVE  g[n] = IF n = 0 THEN {[L |-> 0, H |-> 0]}
                      ELSE {AddData(s, words[n]) : s \in g[n - 1]}
    <3>1. CASE n = 0
      BY <1>4, <3>1
    <3>2. CASE n # 0
      <4>1. g[n - 1] = {h[n - 1]} /\ h[n] = AddData(h[n - 1], words[n])
        BY <1>4, <3>2
      <4> QED
        BY <3>2, <4>1
    <3> QED
      BY <3>1, <3>2
  <2>2. g = [n \in 0..count |-> g[n]]
    OBVIOUS
  <2> HIDE DEF g
  <2>3. P(g)
    BY <2>1, <2>2
  <2> QED
    BY <2>3, Zenon DEF g
<1>6. sums = CHOOSE g : P(g)
  BY Zenon DEF sums
<1>7. P(sums)
  <2> HIDE DEF sums, P
  <2> QED
    BY <1>5, <1>6, Zenon
<1> DEFINE S == {n \in 0..count : sums[n] = {h[n]}}
<1>8. 0..count \subseteq S
  <2> HIDE DEF sums
  <2>1. 0 \in S
    BY <1>4, <1>7
  <2>2. ASSUME NEW n \in 0..(count - 1), n \in S
        PROVE  n + 1 \in S
    <3>1. n + 1 \in 1..count /\ (n + 1) - 1 = n /\ n + 1 # 0 /\ n + 1 \in 0..count
      BY <1>0
    <3>2. \A m \in 0..count :
            sums[m] = IF m = 0 THEN {[L |-> 0, H |-> 0]}
                      ELSE {AddData(s, words[m]) : s \in sums[m - 1]}
      BY <1>7
    <3>3. sums[n + 1] = {AddData(s, words[n + 1]) : s \in sums[n]}
      BY <3>1, <3>2
    <3>4. sums[n] = {h[n]}
      BY <2>2
    <3>5. sums[n + 1] = {AddData(h[n], words[n + 1])}
      BY <3>3, <3>4
    <3> QED
      BY <1>4, <3>1, <3>5
  <2> HIDE DEF S
  <2> QED
    BY <1>0, <2>1, <2>2, UpTo
<1>9. sums[count] = {h[count]}
  <2> HIDE DEF sums
  <2> QED
    BY <1>8
<1>10. ChecksumOfFirst(words, count) = ComputeFletcherChecksum(h[count].H, h[count].L)
  <2> HIDE DEF sums
  <2>1. {ComputeFletcherChecksum(s.H, s.L) : s \in sums[count]}
          = {ComputeFletcherChecksum(h[count].H, h[count].L)}
    BY <1>9
  <2> QED
    BY <1>1, <2>1
<1>11. IsAdding(h, words, count)
  <2> HIDE DEF sums, step
  <2> QED
    BY <1>3, <1>4, <1>10 DEF IsAdding
<1> QED
  BY <1>11, Zenon

(* A sum with the words one after the other. *)
IsSumming(s, numbers) ==
  /\ s \in [0..Len(numbers) -> 0..(WordModulus - 1)]
  /\ s[0] = 0
  /\ \A n \in 1..Len(numbers) : s[n] = (s[n - 1] + numbers[n]) % WordModulus
  /\ Sum(numbers) = s[Len(numbers)]

LEMMA SummingExists ==
  ASSUME NEW numbers \in Seq(Nat)
  PROVE  \E s : IsSumming(s, numbers)
<1> DEFINE N == Len(numbers)
           D == 0..(WordModulus - 1)
           step == [n \in 1..N |-> [t \in D |-> (t + numbers[n]) % WordModulus]]
           iter[T \in SUBSET DOMAIN numbers] ==
             IF T = {} THEN 0
             ELSE LET x == Max(T) IN (iter[T \ {x}] + numbers[x]) % WordModulus
           P(g) == g = [T \in SUBSET DOMAIN numbers |->
                          IF T = {} THEN 0
                          ELSE LET x == Max(T) IN (g[T \ {x}] + numbers[x]) % WordModulus]
<1>1. Sum(numbers) = iter[DOMAIN numbers]
  BY Zenon DEF Sum, FoldLeft, MapThenFoldSet
<1>2. iter = CHOOSE g : P(g)
  BY Zenon DEF iter
<1> HIDE DEF iter
<1>3. N \in Nat /\ DOMAIN numbers = 1..N
  OBVIOUS
<1>4. ASSUME NEW n \in 1..N, NEW t \in D
      PROVE  (t + numbers[n]) % WordModulus \in D
  <2>1. t + numbers[n] \in Nat
    BY RangesType
  <2> QED
    BY <2>1, RangesType, Remainder
<1>5. step \in [1..N -> [D -> D]]
  <2> HIDE DEF N, D
  <2> QED
    BY <1>4
<1>6. 0 \in D
  BY RangesType
<1>7. PICK g \in [SUBSET (1..N) -> D] : IsSequenceFold(N, 0, step, g)
  <2> HIDE DEF N, D, step
  <2> QED
    BY <1>3, <1>5, <1>6, SequenceFoldExists
<1>8. P(g)
  <2>1. ASSUME NEW T \in SUBSET (1..N)
        PROVE  g[T] = IF T = {} THEN 0
                      ELSE LET x == Max(T) IN (g[T \ {x}] + numbers[x]) % WordModulus
    <3> HIDE DEF N, D
    <3>1. g[T] = IF T = {} THEN 0 ELSE step[Largest(T)][g[T \ {Largest(T)}]]
      <4> HIDE DEF step
      <4> QED
        BY <1>7 DEF IsSequenceFold
    <3>2. CASE T = {}
      BY <3>1, <3>2
    <3>3. CASE T # {}
      <4>1. Max(T) = Largest(T) /\ Max(T) \in T
        BY <1>3, <3>3, MaxOfFirst
      <4>2. g[T \ {Max(T)}] \in D /\ Max(T) \in 1..N
        BY <1>7, <4>1
      <4>3. step[Max(T)][g[T \ {Max(T)}]] = (g[T \ {Max(T)}] + numbers[Max(T)]) % WordModulus
        BY <4>2
      <4> HIDE DEF step
      <4> QED
        BY <3>1, <3>3, <4>1, <4>3
    <3> QED
      BY <3>2, <3>3
  <2> HIDE DEF N, D, step
  <2> QED
    BY <1>3, <1>7, <2>1
<1>9. P(iter)
  <2> HIDE DEF P
  <2> QED
    BY <1>2, <1>8, Zenon
<1> DEFINE s == [n \in 0..N |-> iter[1..n]]
<1>10. iter[1..0] = 0
  <2>1. 1..0 = {}
    OBVIOUS
  <2> QED
    BY <1>9, <2>1
<1>11. ASSUME NEW n \in 1..N
       PROVE  iter[1..n] = (iter[1..(n - 1)] + numbers[n]) % WordModulus
  <2>1. Max(1..n) = n /\ 1..n # {} /\ (1..n) \ {n} = 1..(n - 1) /\ 1..n \in SUBSET DOMAIN numbers
    BY <1>3, MaxOfFirst, SMTT(30)
  <2>2. \A T \in SUBSET DOMAIN numbers :
          T # {} => iter[T] = (iter[T \ {Max(T)}] + numbers[Max(T)]) % WordModulus
    BY <1>9
  <2> HIDE DEF N, P
  <2>3. iter[1..n] = (iter[(1..n) \ {n}] + numbers[n]) % WordModulus
    BY <2>1, <2>2
  <2> QED
    BY <2>1, <2>3
<1> DEFINE S == {n \in 0..N : iter[1..n] \in D}
<1>12. 0..N \subseteq S
  <2>1. 0 \in S
    BY <1>3, <1>6, <1>10
  <2>2. ASSUME NEW n \in 0..(N - 1), n \in S
        PROVE  n + 1 \in S
    <3>1. n + 1 \in 1..N /\ (n + 1) - 1 = n
      BY <1>3
    <3>2. iter[1..(n + 1)] = (iter[1..n] + numbers[n + 1]) % WordModulus
      BY <1>11, <3>1
    <3>3. iter[1..n] \in D
      BY <2>2
    <3> HIDE DEF D
    <3> QED
      BY <1>4, <3>1, <3>2, <3>3
  <2> HIDE DEF S, N
  <2> QED
    BY <1>3, <2>1, <2>2, UpTo
<1>13. IsSumming(s, numbers)
  <2> HIDE DEF P
  <2>1. s \in [0..N -> D]
    BY <1>12
  <2>2. s[0] = 0 /\ s[N] = Sum(numbers)
    BY <1>1, <1>3, <1>10
  <2>3. ASSUME NEW n \in 1..N
        PROVE  s[n] = (s[n - 1] + numbers[n]) % WordModulus
    BY <1>3, <1>11
  <2> HIDE DEF s
  <2> QED
    BY <2>1, <2>2, <2>3 DEF IsSumming
<1> QED
  BY <1>13, Zenon

(* What a word adds to both halves of the checksum, c words before the end. *)
AddsWeight(W, c, H, L, x) ==
  (((H + (c + 1) * L) % W) + (c + 1) * x) % W
    = (((H + ((L + x) % W)) % W) + c * ((L + x) % W)) % W

LEMMA WeightStep ==
  ASSUME NEW W \in Nat \ {0}, NEW c \in Nat, NEW H \in Nat, NEW L \in Nat, NEW x \in Nat
  PROVE  AddsWeight(W, c, H, L, x)
<1>1. (L + x) % W \in Nat
  <2>1. L + x \in Nat
    OBVIOUS
  <2> QED
    BY <2>1, Remainder
<1> DEFINE l == (L + x) % W
           y == L + x
           k == c + 1
<1>2. l \in Nat /\ l = y % W
  BY <1>1
<1>3. y \in Nat /\ y = L + x
  OBVIOUS
<1>4. k \in Nat /\ k = c + 1
  OBVIOUS
<1> HIDE DEF l, y, k
<1>5. (((H + k * L) % W) + k * x) % W = ((H + k * L) + k * x) % W
  <2>1. H + k * L \in Nat /\ k * x \in Nat
    BY <1>2, <1>3, <1>4
  <2> QED
    BY <2>1, ModPlus
<1>6. (H + k * L) + k * x = H + k * y
  <2>1. k * y = k * L + k * x
    BY <1>3, <1>4
  <2>2. PICK a \in Nat, b \in Nat : a = k * L /\ b = k * x
    BY <1>4
  <2> QED
    BY <2>1, <2>2
<1>7. (((H + l) % W) + c * l) % W = ((H + l) + c * l) % W
  <2>1. H + l \in Nat /\ c * l \in Nat
    BY <1>2, <1>3, <1>4
  <2> QED
    BY <2>1, ModPlus
<1>8. (H + l) + c * l = H + k * l
  <2>1. k * l = c * l + l
    BY <1>2, <1>4
  <2>2. PICK a \in Nat : a = c * l
    BY <1>2
  <2> QED
    BY <1>2, <2>1, <2>2
<1>9. (H + k * l) % W = (H + k * y) % W
  <2>1. TimesRemainder(H, k, y, W)
    BY <1>3, <1>4, ModTimes
  <2> QED
    BY <1>2, <2>1 DEF TimesRemainder
<1>10. (((H + k * L) % W) + k * x) % W = (((H + l) % W) + c * l) % W
  BY <1>5, <1>6, <1>7, <1>8, <1>9
<1> QED
  BY <1>10 DEF AddsWeight, l, k

LEMMA FrontNumbers ==
  ASSUME NEW words \in Seq(Words), Len(words) >= 1
  PROVE  /\ Numbers(Front(words)) \in Seq(Nat)
         /\ Len(Numbers(Front(words))) = Len(words) - 1
         /\ \A k \in 1..(Len(words) - 1) : Numbers(Front(words))[k] = Numbers(words)[k]
<1>1. /\ Front(words) \in Seq(Words) /\ Len(Front(words)) = Len(words) - 1
      /\ \A k \in 1..(Len(words) - 1) : Front(words)[k] = words[k]
  <2>1. \A k \in 1..(Len(words) - 1) : words[k] \in Words
    OBVIOUS
  <2>2. PICK m \in Int : m = Len(words) - 1
    OBVIOUS
  <2>3. \A k \in 1..m : words[k] \in Words
    BY <2>1, <2>2
  <2>4. /\ SubSeq(words, 1, m) \in Seq(Words)
        /\ Len(SubSeq(words, 1, m)) = IF 1 <= m THEN m - 1 + 1 ELSE 0
        /\ \A k \in 1..(m - 1 + 1) : SubSeq(words, 1, m)[k] = words[1 + k - 1]
    BY <2>3, SubSeqProperties
  <2>5. Front(words) = SubSeq(words, 1, m)
    BY <2>2 DEF Front
  <2>6. \A k \in 1..m : words[1 + k - 1] = words[k] /\ m - 1 + 1 = m
    OBVIOUS
  <2>7. /\ Front(words) \in Seq(Words)
        /\ Len(Front(words)) = m
        /\ \A k \in 1..m : Front(words)[k] = words[k]
    BY <2>2, <2>4, <2>5, <2>6
  <2> QED
    BY <2>2, <2>7
<1> QED
  BY <1>1, NumbersType

LEMMA ChecksumIsSum ==
  ASSUME NEW words \in Seq(Words), Len(words) >= 2
  PROVE  ReturnFletcherChecksum(Numbers(words)) = ChecksumOf(words)
<1> DEFINE W == WordModulus
           x == Numbers(words)
           N == Len(words) - 1
           front == Numbers(Front(words))
           weighted == [k \in DOMAIN front |-> (Len(words) - k) * front[k]]
<1>1. x \in Seq(Nat) /\ Len(x) = N + 1 /\ N \in Nat \ {0}
  BY NumbersType
<1>2. front \in Seq(Nat) /\ Len(front) = N /\ \A k \in 1..N : front[k] = x[k]
  BY FrontNumbers
<1> HIDE DEF x, front
<1>3. weighted \in Seq(Nat) /\ Len(weighted) = N
      /\ \A k \in 1..N : weighted[k] = (N - k + 1) * x[k]
  <2>1. \A k \in 1..N : (Len(words) - k) \in Nat /\ front[k] \in Nat
    BY <1>2
  <2>2. \A k \in 1..N : (Len(words) - k) * front[k] \in Nat
    BY <2>1
  <2>3. weighted = [k \in 1..N |-> (Len(words) - k) * front[k]]
    BY <1>2
  <2>4. \A k \in 1..N : Len(words) - k = N - k + 1
    BY <1>1
  <2>5. weighted \in [1..N -> Nat]
    BY <2>2, <2>3
  <2>6. \A k \in 1..N : weighted[k] = (N - k + 1) * x[k]
    BY <1>2, <2>3, <2>4
  <2> HIDE DEF weighted, N
  <2> QED
    BY <1>1, <2>5, <2>6
<1> HIDE DEF weighted
<1>4. PICK h : IsAdding(h, x, N)
  <2>1. N \in 0..Len(x)
    BY <1>1
  <2> QED
    BY <1>1, <2>1, AddingExists
<1>5. PICK s : IsSumming(s, front)
  BY <1>2, SummingExists
<1>6. PICK t : IsSumming(t, weighted)
  BY <1>3, SummingExists
<1> HIDE DEF N
<1>7. ASSUME NEW n \in 0..N
      PROVE  h[n].L \in Nat /\ h[n].H \in Nat /\ h[n].H % W = h[n].H
  <2>0. h[n] \in SumPairs
    BY <1>4 DEF IsAdding
  <2>1. h[n].L \in 0..(W - 1) /\ h[n].H \in 0..(W - 1)
    BY <2>0 DEF SumPairs
  <2>2. W \in Nat \ {0}
    BY RangesType
  <2> HIDE DEF W
  <2>3. h[n].L \in Nat /\ h[n].H \in Nat /\ h[n].H < W
    BY <2>1, <2>2
  <2>4. \A r \in Nat : r < W => r % W = r
    BY <2>2
  <2> QED
    BY <2>3, <2>4
<1>8. ASSUME NEW n \in 1..N
      PROVE  /\ h[n].L = (h[n - 1].L + x[n]) % W
             /\ h[n].H = (h[n - 1].H + h[n].L) % W
             /\ s[n] = (s[n - 1] + x[n]) % W
             /\ t[n] = (t[n - 1] + (N - n + 1) * x[n]) % W
  <2>1. h[n] = AddData(h[n - 1], x[n])
    BY <1>4 DEF IsAdding
  <2>2. h[n].L = (h[n - 1].L + x[n]) % W /\ h[n].H = (h[n - 1].H + h[n].L) % W
    BY <2>1 DEF AddData
  <2>3. s[n] = (s[n - 1] + x[n]) % W
    BY <1>2, <1>5 DEF IsSumming
  <2>4. t[n] = (t[n - 1] + (N - n + 1) * x[n]) % W
    BY <1>3, <1>6 DEF IsSumming
  <2> QED
    BY <2>2, <2>3, <2>4
<1> DEFINE S == {n \in 0..N : s[n] = h[n].L /\ t[n] = (h[n].H + (N - n) * h[n].L) % W}
<1>9. 0 \in S
  <2>1. h[0].L = 0 /\ h[0].H = 0 /\ s[0] = 0 /\ t[0] = 0
    BY <1>4, <1>5, <1>6 DEF IsAdding, IsSumming
  <2>2. (0 + (N - 0) * 0) % W = 0
    BY <1>1, RangesType
  <2>3. 0 \in 0..N
    BY <1>1
  <2> QED
    BY <2>1, <2>2, <2>3
<1>10. ASSUME NEW n \in 0..(N - 1), n \in S
       PROVE  n + 1 \in S
  <2>1. /\ n + 1 \in 1..N /\ n + 1 \in 0..N /\ (n + 1) - 1 = n /\ n \in 0..N
        /\ N - (n + 1) \in Nat /\ N - n = (N - (n + 1)) + 1
        /\ N - (n + 1) + 1 = (N - (n + 1)) + 1
    BY <1>1
  <2>2. PICK c \in Nat : c = N - (n + 1)
    BY <2>1
  <2>3. PICK H \in Nat, L \in Nat : H = h[n].H /\ L = h[n].L
    BY <1>7, <2>1
  <2>4. PICK y \in Nat : y = x[n + 1]
    BY <1>1, <2>1
  <2>5. s[n] = L /\ t[n] = (H + (c + 1) * L) % W
    BY <1>10, <2>1, <2>2, <2>3
  <2>6. /\ h[n + 1].L = (L + y) % W
        /\ h[n + 1].H = (H + h[n + 1].L) % W
        /\ s[n + 1] = (s[n] + y) % W
        /\ t[n + 1] = (t[n] + (c + 1) * y) % W
    BY <1>8, <2>1, <2>2, <2>3, <2>4
  <2>7. s[n + 1] = h[n + 1].L
    BY <2>5, <2>6
  <2>8. t[n + 1] = (h[n + 1].H + c * h[n + 1].L) % W
    <3>1. W \in Nat \ {0}
      BY RangesType
    <3> HIDE DEF W
    <3>2. AddsWeight(W, c, H, L, y)
      BY <3>1, WeightStep
    <3> QED
      BY <2>5, <2>6, <3>2 DEF AddsWeight
  <2> QED
    BY <2>1, <2>2, <2>7, <2>8
<1>11. s[N] = h[N].L /\ t[N] = h[N].H
  <2>1. 0..N \subseteq S
    <3> HIDE DEF S
    <3> QED
      BY <1>1, <1>9, <1>10, UpTo
  <2>2. N \in 0..N
    BY <1>1
  <2>3. t[N] = (h[N].H + (N - N) * h[N].L) % W
    BY <2>1, <2>2
  <2>4. h[N].H + (N - N) * h[N].L = h[N].H
    BY <1>1, <1>7, <2>2
  <2> QED
    BY <1>7, <2>1, <2>2, <2>3, <2>4
<1>12. ReturnFletcherChecksum(x) = ComputeFletcherChecksum(h[N].H, h[N].L)
  <2>1. ~(Len(x) <= 1) /\ Len(x) - 1 = N
    BY <1>1
  <2> QED
    BY <1>4, <2>1 DEF ReturnFletcherChecksum, IsAdding
<1>13. ChecksumOf(words) = ComputeFletcherChecksum(Sum(weighted), Sum(front))
  BY Zenon DEF ChecksumOf, weighted, front
<1>14. Sum(weighted) = t[N] /\ Sum(front) = s[N]
  BY <1>2, <1>3, <1>5, <1>6 DEF IsSumming
<1> QED
  BY <1>11, <1>12, <1>13, <1>14 DEF x

-------------------------------------------------------------------------------
(* What arrives of the words sent. *)

IsRemoving(s, words, lost, E) ==
  /\ s \in [0..Len(words) -> Seq(E)]
  /\ s[0] = <<>>
  /\ \A n \in 1..Len(words) :
       s[n] = IF n \in lost THEN s[n - 1] ELSE Append(s[n - 1], words[n])
  /\ Without(words, lost) = s[Len(words)]

LEMMA RemovingExists ==
  ASSUME NEW E, NEW words \in Seq(E), NEW lost
  PROVE  \E s : IsRemoving(s, words, lost, E)
<1> DEFINE N == Len(words)
           D == Seq(E)
           KeepUnlost(t, n) == IF n \in lost THEN t ELSE Append(t, words[n])
           step == [n \in 1..N |-> [t \in D |->
                                    IF n \in lost THEN t ELSE Append(t, words[n])]]
           places == [j \in DOMAIN words |-> j]
           iter[T \in SUBSET DOMAIN places] ==
             IF T = {} THEN <<>>
             ELSE LET x == Max(T) IN KeepUnlost(iter[T \ {x}], places[x])
           P(g) == g = [T \in SUBSET DOMAIN places |->
                          IF T = {} THEN <<>>
                          ELSE LET x == Max(T) IN KeepUnlost(g[T \ {x}], places[x])]
<1>1. Without(words, lost) = iter[DOMAIN places]
  BY Zenon DEF Without, FoldLeftDomain, FoldLeft, MapThenFoldSet
<1>2. iter = CHOOSE g : P(g)
  BY Zenon DEF iter
<1> HIDE DEF iter
<1>3. N \in Nat /\ DOMAIN places = 1..N /\ \A n \in 1..N : places[n] = n
  OBVIOUS
<1>4. ASSUME NEW n \in 1..N, NEW t \in D
      PROVE  (IF n \in lost THEN t ELSE Append(t, words[n])) \in D
  OBVIOUS
<1>5. step \in [1..N -> [D -> D]]
  <2> HIDE DEF N, D
  <2> QED
    BY <1>4
<1>6. <<>> \in D
  OBVIOUS
<1>7. PICK g \in [SUBSET (1..N) -> D] : IsSequenceFold(N, <<>>, step, g)
  <2> HIDE DEF N, D, step
  <2> QED
    BY <1>3, <1>5, <1>6, SequenceFoldExists
<1>8. P(g)
  <2>1. ASSUME NEW T \in SUBSET (1..N)
        PROVE  g[T] = IF T = {} THEN <<>>
                      ELSE LET x == Max(T) IN KeepUnlost(g[T \ {x}], places[x])
    <3> HIDE DEF N, D, places
    <3>1. g[T] = IF T = {} THEN <<>> ELSE step[Largest(T)][g[T \ {Largest(T)}]]
      <4> HIDE DEF step
      <4> QED
        BY <1>7 DEF IsSequenceFold
    <3>2. CASE T = {}
      BY <3>1, <3>2
    <3>3. CASE T # {}
      <4>1. Max(T) = Largest(T) /\ Max(T) \in T
        BY <1>3, <3>3, MaxOfFirst
      <4>2. g[T \ {Max(T)}] \in D /\ Max(T) \in 1..N
        BY <1>7, <4>1
      <4>3. step[Max(T)][g[T \ {Max(T)}]] = KeepUnlost(g[T \ {Max(T)}], Max(T))
        BY <4>2
      <4>4. g[T] = KeepUnlost(g[T \ {Max(T)}], Max(T))
        <5> HIDE DEF step
        <5> QED
          BY <3>1, <3>3, <4>1, <4>3
      <4> HIDE DEF step
      <4> QED
        BY <1>3, <3>3, <4>2, <4>4
    <3> QED
      BY <3>2, <3>3
  <2> HIDE DEF N, D, step, places
  <2> QED
    BY <1>3, <1>7, <2>1
<1>9. P(iter)
  <2> HIDE DEF P
  <2> QED
    BY <1>2, <1>8, Zenon
<1> DEFINE s == [n \in 0..N |-> iter[1..n]]
<1>10. iter[1..0] = <<>>
  <2>1. 1..0 = {}
    OBVIOUS
  <2> QED
    BY <1>9, <2>1
<1>11. ASSUME NEW n \in 1..N
       PROVE  iter[1..n] = KeepUnlost(iter[1..(n - 1)], n)
  <2>1. Max(1..n) = n /\ 1..n # {} /\ (1..n) \ {n} = 1..(n - 1) /\ 1..n \in SUBSET DOMAIN places
    BY <1>3, MaxOfFirst
  <2>2. \A T \in SUBSET DOMAIN places :
          T # {} => iter[T] = LET x == Max(T) IN KeepUnlost(iter[T \ {x}], places[x])
    BY <1>9
  <2> HIDE DEF N, P, places
  <2>3. iter[1..n] = LET x == n IN KeepUnlost(iter[(1..n) \ {n}], places[x])
    BY <2>1, <2>2
  <2> QED
    BY <1>3, <2>1, <2>3
<1> DEFINE S == {n \in 0..N : iter[1..n] \in D}
<1>12. 0..N \subseteq S
  <2>1. 0 \in S
    <3> HIDE DEF D
    <3> QED
      BY <1>3, <1>6, <1>10
  <2>2. ASSUME NEW n \in 0..(N - 1), n \in S
        PROVE  n + 1 \in S
    <3>1. n + 1 \in 1..N /\ (n + 1) - 1 = n
      BY <1>3
    <3>2. iter[1..(n + 1)] = KeepUnlost(iter[1..n], n + 1)
      BY <1>11, <3>1
    <3>3. iter[1..n] \in D
      BY <2>2
    <3> HIDE DEF D
    <3> QED
      BY <1>4, <3>1, <3>2, <3>3
  <2> HIDE DEF S, N
  <2> QED
    BY <1>3, <2>1, <2>2, UpTo
<1>13. IsRemoving(s, words, lost, E)
  <2> HIDE DEF P
  <2>1. s \in [0..N -> D]
    BY <1>12
  <2>2. s[0] = <<>> /\ s[N] = Without(words, lost)
    BY <1>1, <1>3, <1>10
  <2>3. ASSUME NEW n \in 1..N
        PROVE  s[n] = IF n \in lost THEN s[n - 1] ELSE Append(s[n - 1], words[n])
    BY <1>3, <1>11
  <2> HIDE DEF s
  <2> QED
    BY <2>1, <2>2, <2>3 DEF IsRemoving
<1> QED
  BY <1>13, Zenon

(* The words of a line, one after the other. *)
Picked(bits, w, line) ==
  IF w.kind = "module" /\ w.line = line THEN Append(bits, w.content) ELSE bits

IsPicking(s, words, line) ==
  /\ s \in [0..Len(words) -> Seq(Nat)]
  /\ s[0] = <<>>
  /\ \A n \in 1..Len(words) : s[n] = Picked(s[n - 1], words[n], line)
  /\ OfLine(line, words) = s[Len(words)]

LEMMA PickingExists ==
  ASSUME NEW words \in Seq(Words), NEW line
  PROVE  \E s : IsPicking(s, words, line)
<1> DEFINE N == Len(words)
           D == Seq(Nat)
           step == [n \in 1..N |-> [t \in D |-> Picked(t, words[n], line)]]
           iter[T \in SUBSET DOMAIN words] ==
             IF T = {} THEN <<>>
             ELSE LET x == Max(T) IN Picked(iter[T \ {x}], words[x], line)
           P(g) == g = [T \in SUBSET DOMAIN words |->
                          IF T = {} THEN <<>>
                          ELSE LET x == Max(T) IN Picked(g[T \ {x}], words[x], line)]
<1>1. OfLine(line, words) = iter[DOMAIN words]
  BY Zenon DEF OfLine, Picked, FoldLeft, MapThenFoldSet
<1>2. iter = CHOOSE g : P(g)
  BY Zenon DEF iter
<1> HIDE DEF iter
<1>3. N \in Nat /\ DOMAIN words = 1..N 
  OBVIOUS
<1>4. ASSUME NEW n \in 1..N, NEW t \in D
      PROVE  (Picked(t, words[n], line)) \in D
  <2>1. words[n].content \in Nat
    BY RangesType DEF Words, Contents
  <2> QED
    BY <2>1 DEF Picked
<1>5. step \in [1..N -> [D -> D]]
  <2> HIDE DEF N, D
  <2> QED
    BY <1>4
<1>6. <<>> \in D
  OBVIOUS
<1>7. PICK g \in [SUBSET (1..N) -> D] : IsSequenceFold(N, <<>>, step, g)
  <2> HIDE DEF N, D, step
  <2> QED
    BY <1>3, <1>5, <1>6, SequenceFoldExists
<1>8. P(g)
  <2>1. ASSUME NEW T \in SUBSET (1..N)
        PROVE  g[T] = IF T = {} THEN <<>>
                      ELSE LET x == Max(T) IN Picked(g[T \ {x}], words[x], line)
    <3> HIDE DEF N, D
    <3>1. g[T] = IF T = {} THEN <<>> ELSE step[Largest(T)][g[T \ {Largest(T)}]]
      <4> HIDE DEF step
      <4> QED
        BY <1>7 DEF IsSequenceFold
    <3>2. CASE T = {}
      BY <3>1, <3>2
    <3>3. CASE T # {}
      <4>1. Max(T) = Largest(T) /\ Max(T) \in T
        BY <1>3, <3>3, MaxOfFirst
      <4>2. g[T \ {Max(T)}] \in D /\ Max(T) \in 1..N
        BY <1>7, <4>1
      <4>3. step[Max(T)][g[T \ {Max(T)}]] = Picked(g[T \ {Max(T)}], words[Max(T)], line)
        BY <4>2
      <4>4. g[T] = Picked(g[T \ {Max(T)}], words[Max(T)], line)
        <5> HIDE DEF step
        <5> QED
          BY <3>1, <3>3, <4>1, <4>3
      <4> HIDE DEF step
      <4> QED
        BY <1>3, <3>3, <4>2, <4>4
    <3> QED
      BY <3>2, <3>3
  <2> HIDE DEF N, D, step
  <2> QED
    BY <1>3, <1>7, <2>1
<1>9. P(iter)
  <2> HIDE DEF P
  <2> QED
    BY <1>2, <1>8, Zenon
<1> DEFINE s == [n \in 0..N |-> iter[1..n]]
<1>10. iter[1..0] = <<>>
  <2>1. 1..0 = {}
    OBVIOUS
  <2> QED
    BY <1>9, <2>1
<1>11. ASSUME NEW n \in 1..N
       PROVE  iter[1..n] = Picked(iter[1..(n - 1)], words[n], line)
  <2>1. Max(1..n) = n /\ 1..n # {} /\ (1..n) \ {n} = 1..(n - 1) /\ 1..n \in SUBSET DOMAIN words
    BY <1>3, MaxOfFirst
  <2>2. \A T \in SUBSET DOMAIN words :
          T # {} => iter[T] = LET x == Max(T) IN Picked(iter[T \ {x}], words[x], line)
    BY <1>9
  <2> HIDE DEF N, P
  <2>3. iter[1..n] = LET x == n IN Picked(iter[(1..n) \ {n}], words[x], line)
    BY <2>1, <2>2
  <2> QED
    BY <1>3, <2>1, <2>3
<1> DEFINE S == {n \in 0..N : iter[1..n] \in D}
<1>12. 0..N \subseteq S
  <2>1. 0 \in S
    <3> HIDE DEF D
    <3> QED
      BY <1>3, <1>6, <1>10
  <2>2. ASSUME NEW n \in 0..(N - 1), n \in S
        PROVE  n + 1 \in S
    <3>1. n + 1 \in 1..N /\ (n + 1) - 1 = n
      BY <1>3
    <3>2. iter[1..(n + 1)] = Picked(iter[1..n], words[n + 1], line)
      BY <1>11, <3>1
    <3>3. iter[1..n] \in D
      BY <2>2
    <3> HIDE DEF D
    <3> QED
      BY <1>4, <3>1, <3>2, <3>3
  <2> HIDE DEF S, N
  <2> QED
    BY <1>3, <2>1, <2>2, UpTo
<1>13. IsPicking(s, words, line)
  <2> HIDE DEF P
  <2>1. s \in [0..N -> D]
    BY <1>12
  <2>2. s[0] = <<>> /\ s[N] = OfLine(line, words)
    BY <1>1, <1>3, <1>10
  <2>3. ASSUME NEW n \in 1..N
        PROVE  s[n] = Picked(s[n - 1], words[n], line)
    BY <1>3, <1>11
  <2> HIDE DEF s
  <2> QED
    BY <2>1, <2>2, <2>3 DEF IsPicking
<1> QED
  BY <1>13, Zenon

LEMMA ArrivedType ==
  ASSUME NEW t \in Transmissions
  PROVE  Arrived(t.sent, t.fault) \in Seq(Words)
<1> DEFINE words == t.sent
           changed == t.fault.changed
           came == [k \in DOMAIN words |-> IF k \in DOMAIN changed
                                           THEN [words[k] EXCEPT !.content = changed[k]]
                                           ELSE words[k]]
<1>1. words \in Seq(Words) /\ \A k \in DOMAIN changed : changed[k] \in Contents
  BY TransmissionsAssumption
<1>2. \A w \in Words : \A c \in Contents : [w EXCEPT !.content = c] \in Words
  BY DEF Words
<1> HIDE DEF changed, words
<1>3. ASSUME NEW k \in 1..Len(words)
      PROVE  came[k] \in Words
  <2>1. words[k] \in Words /\ k \in DOMAIN words
    BY <1>1
  <2>2. CASE k \in DOMAIN changed
    BY <1>1, <1>2, <2>1, <2>2
  <2>3. CASE k \notin DOMAIN changed
    BY <2>1, <2>3
  <2> QED
    BY <2>2, <2>3
<1>4. came \in Seq(Words)
  <2>1. DOMAIN came = 1..Len(words) /\ Len(words) \in Nat
    BY <1>1
  <2>2. came = [k \in 1..Len(words) |-> came[k]]
    BY <2>1
  <2> HIDE DEF came
  <2>3. came \in [1..Len(words) -> Words]
    BY <1>3, <2>2
  <2> QED
    BY <2>1, <2>3
<1>5. Arrived(words, t.fault) = Without(came, t.fault.lost)
  BY Zenon DEF Arrived, came, changed
<1>6. PICK s : IsRemoving(s, came, t.fault.lost, Words)
  <2> HIDE DEF came
  <2> QED
    BY <1>4, RemovingExists
<1>7. s[Len(came)] \in Seq(Words)
  <2> HIDE DEF came
  <2>1. Len(came) \in 0..Len(came)
    BY <1>4
  <2> QED
    BY <1>6, <2>1 DEF IsRemoving
<1> QED
  BY <1>5, <1>6, <1>7 DEF IsRemoving, words

(* The words of a line among the first n. *)
OfLineUpTo(line, words, n) == OfLine(line, SubSeq(words, 1, n))

LEMMA OfLineStep ==
  ASSUME NEW words \in Seq(Words), NEW line
  PROVE  /\ OfLineUpTo(line, words, 0) = <<>>
         /\ \A n \in 1..Len(words) :
              OfLineUpTo(line, words, n) = Picked(OfLineUpTo(line, words, n - 1), words[n], line)
<1> DEFINE sub(n) == SubSeq(words, 1, n)
<1>1. ASSUME NEW n \in 0..Len(words)
      PROVE  /\ sub(n) \in Seq(Words) /\ Len(sub(n)) = n
             /\ \A k \in 1..n : sub(n)[k] = words[k]
  <2>1. \A k \in 1..n : words[k] \in Words
    OBVIOUS
  <2>2. /\ SubSeq(words, 1, n) \in Seq(Words)
        /\ Len(SubSeq(words, 1, n)) = IF 1 <= n THEN n - 1 + 1 ELSE 0
        /\ \A k \in 1..(n - 1 + 1) : SubSeq(words, 1, n)[k] = words[1 + k - 1]
    BY <2>1, SubSeqProperties
  <2>3. \A k \in 1..n : 1 + k - 1 = k /\ n - 1 + 1 = n
    OBVIOUS
  <2> QED
    BY <2>2, <2>3
<1> HIDE DEF sub
<1>2. OfLineUpTo(line, words, 0) = <<>>
  <2>0. 0 \in 0..Len(words)
    OBVIOUS
  <2>1. PICK s : IsPicking(s, sub(0), line)
    BY <1>1, <2>0, PickingExists
  <2>2. Len(sub(0)) = 0
    BY <1>1, <2>0
  <2> QED
    BY <2>1, <2>2 DEF IsPicking, OfLineUpTo, sub
<1>3. ASSUME NEW n \in 1..Len(words)
      PROVE  OfLineUpTo(line, words, n) = Picked(OfLineUpTo(line, words, n - 1), words[n], line)
  <2>0. n \in 0..Len(words) /\ n - 1 \in 0..Len(words) /\ n - 1 \in Nat
    OBVIOUS
  <2>1. PICK s : IsPicking(s, sub(n), line)
    BY <1>1, <2>0, PickingExists
  <2>2. PICK r : IsPicking(r, sub(n - 1), line)
    BY <1>1, <2>0, PickingExists
  <2>3. /\ s[0] = <<>> /\ r[0] = <<>>
        /\ \A k \in 1..n : s[k] = Picked(s[k - 1], words[k], line)
        /\ \A k \in 1..(n - 1) : r[k] = Picked(r[k - 1], words[k], line)
        /\ OfLine(line, sub(n)) = s[n] /\ OfLine(line, sub(n - 1)) = r[n - 1]
    BY <1>1, <2>0, <2>1, <2>2 DEF IsPicking
  <2> DEFINE S == {k \in 0..(n - 1) : r[k] = s[k]}
  <2>4. 0 \in S
    BY <2>0, <2>3
  <2>5. ASSUME NEW k \in 0..((n - 1) - 1), k \in S
        PROVE  k + 1 \in S
    <3>1. k + 1 \in 1..(n - 1) /\ k + 1 \in 1..n /\ (k + 1) - 1 = k
      OBVIOUS
    <3> QED
      BY <2>3, <2>5, <3>1
  <2>6. r[n - 1] = s[n - 1]
    <3> HIDE DEF S
    <3>1. 0..(n - 1) \subseteq S
      BY <2>0, <2>4, <2>5, UpTo
    <3> QED
      BY <2>0, <3>1 DEF S
  <2>7. s[n] = Picked(s[n - 1], words[n], line)
    BY <2>3
  <2> QED
    BY <2>3, <2>6, <2>7 DEF OfLineUpTo, sub
<1> QED
  BY <1>2, <1>3

LEMMA OfLineLength ==
  ASSUME NEW words \in Seq(Words), NEW line, NEW n \in 0..Len(words)
  PROVE  OfLineUpTo(line, words, n) \in Seq(Nat) /\ Len(OfLineUpTo(line, words, n)) <= n
<1> DEFINE S == {m \in 0..Len(words) : /\ OfLineUpTo(line, words, m) \in Seq(Nat)
                                       /\ Len(OfLineUpTo(line, words, m)) <= m}
<1>1. 0 \in S
  <2>1. OfLineUpTo(line, words, 0) = <<>> /\ 0 \in 0..Len(words) /\ Len(<<>>) = 0
    BY OfLineStep
  <2>2. <<>> \in Seq(Nat) /\ Len(<<>>) = 0 /\ 0 <= 0
    BY EmptySeq
  <2>3. OfLineUpTo(line, words, 0) \in Seq(Nat) /\ Len(OfLineUpTo(line, words, 0)) <= 0
    BY <2>1, <2>2, Zenon
  <2> QED
    BY <2>1, <2>3
<1>2. ASSUME NEW m \in 0..(Len(words) - 1), m \in S
      PROVE  m + 1 \in S
  <2>1. m + 1 \in 1..Len(words) /\ (m + 1) - 1 = m /\ m + 1 \in 0..Len(words)
    OBVIOUS
  <2>2. OfLineUpTo(line, words, m + 1)
          = Picked(OfLineUpTo(line, words, m), words[m + 1], line)
    BY <2>1, OfLineStep
  <2>3. PICK bits \in Seq(Nat) : bits = OfLineUpTo(line, words, m) /\ Len(bits) <= m
    BY <1>2
  <2>4. words[m + 1].content \in Nat
    <3>1. words[m + 1] \in Words
      BY <2>1
    <3> QED
      BY <3>1, RangesType DEF Words, Contents
  <2>5. /\ Picked(bits, words[m + 1], line) \in Seq(Nat)
        /\ Len(Picked(bits, words[m + 1], line)) <= m + 1
    BY <2>3, <2>4 DEF Picked
  <2> QED
    BY <2>1, <2>2, <2>3, <2>5
<1>3. 0..Len(words) \subseteq S
  <2> HIDE DEF S
  <2>1. Len(words) \in Nat
    OBVIOUS
  <2> QED
    BY <1>1, <1>2, <2>1, UpTo
<1> QED
  BY <1>3

-------------------------------------------------------------------------------
(* The inductive invariant. *)

Continuing == {"eventid", "bcid", "trberror", "moduleerror", "trbdata", "module"}

(* Where among the first n words those of a kind are. *)
Places(words, n, kind) == {k \in 1..n : words[k].kind = kind}

Follows(words, k) == words[k].counter = (words[k - 1].counter + 1) % FrameCounterCycle

(* The words before the loop's index are in order and let it go on. *)
Progress ==
  /\ data \in Seq(Words)
  /\ i \in 1..(Len(data) + 1)
  /\ \A k \in 1..(i - 1) : data[k].kind \in Continuing
  /\ \A k \in 2..(i - 1) : Follows(data, k)

(* What the event keeps of them. *)
Kept(n) ==
  /\ \A j, k \in Places(data, n, "eventid") : j = k
  /\ m_event_id = {data[k].content : k \in Places(data, n, "eventid")}
  /\ \/ Places(data, n, "bcid") = {} /\ m_bc_id = {}
     \/ \E k \in Places(data, n, "bcid") :
          /\ \A j \in Places(data, n, "bcid") : k <= j
          /\ m_bc_id = {data[k].content % FieldRange}
  /\ m_trb_error_id = {} <=> Places(data, n, "trberror") = {}
  /\ m_module_error_ids \in Seq(Nat)
  /\ m_module_error_ids = <<>> <=> Places(data, n, "moduleerror") = {}

KeptOfLines(n) ==
  /\ DOMAIN m_modDB = Lines
  /\ \A line \in Lines : m_modDB[line] = OfLineUpTo(line, data, n)

(* How the loop ended. *)
AtEnd == i = Len(data) + 1 /\ m_crc = {} /\ ~m_frame_counter_invalid /\ ~m_unrecognized_frames

AtLoss ==
  /\ i \in 2..Len(data) /\ ~Follows(data, i) /\ data[i].kind # "end"
  /\ m_frame_counter_invalid /\ m_crc = {}

InOrderAt == i \in 1..Len(data) /\ (i > 1 => Follows(data, i) \/ data[i].kind = "end")

AtTrbEnd == InOrderAt /\ data[i].kind = "end" /\ m_crc = {}

AtCrc ==
  /\ InOrderAt /\ data[i].kind = "crc"
  /\ m_crc = {data[i].content}
  /\ ~m_frame_counter_invalid /\ ~m_unrecognized_frames

AtUnrecognized ==
  /\ InOrderAt /\ data[i].kind \in {"header", "eventid"}
  /\ data[i].kind = "eventid" => m_event_id # {}
  /\ m_unrecognized_frames /\ m_crc = {}

Counters ==
  /\ nextFrameCounter \in (0..(FrameCounterCycle - 1)) \cup {15}
  /\ nextFrameCounter = 15 => i = 1 /\ m_crc = {}

Control ==
  /\ reading \in BOOLEAN
  /\ m_frame_counter_invalid \in BOOLEAN /\ m_unrecognized_frames \in BOOLEAN
  /\ reading =>
       /\ nextFrameCounter = IF i = 1 THEN 15
                             ELSE (data[i - 1].counter + 1) % FrameCounterCycle
       /\ m_crc = {} /\ ~m_frame_counter_invalid /\ ~m_unrecognized_frames
  /\ ~reading => AtEnd \/ AtLoss \/ AtTrbEnd \/ AtCrc \/ AtUnrecognized

Origin ==
  /\ \E t \in Transmissions : sent = t.sent /\ fault = t.fault
  /\ data = Arrived(sent, fault)
  /\ m_crc_calculated = ReturnFletcherChecksum(Numbers(data))

IInv ==
  Origin /\ Progress /\ Kept(i - 1) /\ KeptOfLines(i - 1) /\ Counters /\ Control

LEMMA InvInit == Init => IInv
<1> SUFFICES ASSUME Init
             PROVE  IInv
  OBVIOUS
<1>1. Origin /\ data \in Seq(Words)
  BY ArrivedType DEF Init, Origin
<1>2. i = 1 /\ i - 1 = 0 /\ 1..0 = {} /\ 2..0 = {} /\ 1 \in 1..(Len(data) + 1)
  BY <1>1 DEF Init
<1>3. Progress
  BY <1>1, <1>2 DEF Progress
<1>4. Kept(0)
  <2>1. \A kind : Places(data, 0, kind) = {}
    BY <1>2 DEF Places
  <2> QED
    BY <2>1 DEF Kept, Init
<1>5. KeptOfLines(0)
  BY <1>1, OfLineStep DEF KeptOfLines, Init
<1>6. Counters
  BY <1>2 DEF Counters, Init
<1>7. Control
  BY <1>2 DEF Control, Init
<1> QED
  BY <1>1, <1>2, <1>3, <1>4, <1>5, <1>6, <1>7 DEF IInv

(* A place more. *)
LEMMA PlacesNext ==
  ASSUME NEW words, NEW n \in 1..Len(words), NEW kind, Len(words) \in Nat
  PROVE  Places(words, n, kind) = IF words[n].kind = kind
                                  THEN Places(words, n - 1, kind) \cup {n}
                                  ELSE Places(words, n - 1, kind)
<1>1. 1..n = (1..(n - 1)) \cup {n}
  OBVIOUS
<1> QED
  BY <1>1 DEF Places

(* The word at the loop's index. *)
LEMMA WordAt ==
  ASSUME IInv, reading, i <= Len(data), ~OutOfOrder
  PROVE  /\ InOrderAt /\ data \in Seq(Words) /\ Len(data) \in Nat
         /\ data[i] \in Words /\ data[i].content \in Nat
         /\ data[i].counter \in 0..(FrameCounterCycle - 1)
         /\ NextCounter(data[i].counter) = (data[i].counter + 1) % FrameCounterCycle
         /\ NextCounter(data[i].counter) \in 0..(FrameCounterCycle - 1)
         /\ i' = i + 1 => i' - 1 = i
<1>1. data \in Seq(Words) /\ i \in 1..Len(data) /\ Len(data) \in Nat
  BY DEF IInv, Progress
<1>2. data[i] \in Words
  BY <1>1
<1>3. data[i].content \in Nat /\ data[i].counter \in 0..(FrameCounterCycle - 1)
  BY <1>2, RangesType DEF Words, Contents
<1>4. i > 1 => Follows(data, i) \/ data[i].kind = "end"
  <2>1. i > 1 => nextFrameCounter = (data[i - 1].counter + 1) % FrameCounterCycle
    BY <1>1 DEF IInv, Control
  <2> QED
    BY <1>1, <2>1 DEF OutOfOrder, Follows
<1> QED
  BY <1>1, <1>2, <1>3, <1>4 DEF InOrderAt, NextCounter, FrameCounterCycle

LEMMA ContinueStep ==
  ASSUME IInv, reading, i <= Len(data), ~OutOfOrder, data[i].kind \in Continuing, Continue,
         nextFrameCounter' = NextCounter(data[i].counter),
         UNCHANGED <<inputs, sent, fault, data, m_crc, defects>>
  PROVE  Origin' /\ Progress' /\ Counters' /\ Control'
<1>1. /\ InOrderAt /\ data \in Seq(Words) /\ Len(data) \in Nat
      /\ NextCounter(data[i].counter) = (data[i].counter + 1) % FrameCounterCycle
      /\ NextCounter(data[i].counter) \in 0..(FrameCounterCycle - 1)
      /\ i' = i + 1 /\ i' - 1 = i /\ reading' = reading
  BY WordAt DEF Continue
<1>2. Origin'
  BY DEF IInv, Origin, inputs
<1>3. Progress'
  <2>1. \A k \in 1..i : data[k].kind \in Continuing
    BY <1>1 DEF IInv, Progress, InOrderAt
  <2>2. data[i].kind # "end"
    BY DEF Continuing
  <2>3. \A k \in 2..i : Follows(data, k)
    BY <1>1, <2>2 DEF IInv, Progress, InOrderAt
  <2>4. i + 1 \in 1..(Len(data) + 1)
    BY <1>1 DEF InOrderAt
  <2> QED
    BY <1>1, <2>1, <2>3, <2>4 DEF Progress, Follows
<1>4. Counters'
  BY <1>1 DEF Counters, FrameCounterCycle
<1>5. Control'
  <2>1. i' # 1
    BY <1>1 DEF InOrderAt
  <2> QED
    BY <1>1, <2>1 DEF IInv, Control, defects
<1> QED
  BY <1>2, <1>3, <1>4, <1>5

(* What a word adds to the identity and the errors. *)
LEMMA KeptStep ==
  ASSUME Kept(i - 1), data \in Seq(Words), i \in 1..Len(data), data' = data, i' - 1 = i,
         m_event_id' = IF data[i].kind = "eventid" THEN {data[i].content} ELSE m_event_id,
         data[i].kind = "eventid" => m_event_id = {},
         m_bc_id' = IF data[i].kind = "bcid" THEN BcidOf(data[i].content % FieldRange)
                    ELSE m_bc_id,
         m_trb_error_id' = IF data[i].kind = "trberror" THEN {data[i].content}
                           ELSE m_trb_error_id,
         m_module_error_ids' = IF data[i].kind = "moduleerror"
                               THEN Append(m_module_error_ids, data[i].content)
                               ELSE m_module_error_ids
  PROVE  Kept(i - 1)'
<1>1. Len(data) \in Nat /\ data[i].content \in Nat
  <2>1. data[i] \in Words
    OBVIOUS
  <2> QED
    BY <2>1, RangesType DEF Words, Contents
<1>2. \A kind : Places(data, i, kind) = IF data[i].kind = kind
                                        THEN Places(data, i - 1, kind) \cup {i}
                                        ELSE Places(data, i - 1, kind)
  BY <1>1, PlacesNext
<1>3. \A kind : \A k \in Places(data, i - 1, kind) : k < i
  BY DEF Places
<1>4. \A j, k \in Places(data, i, "eventid") : j = k
  <2>1. CASE data[i].kind = "eventid"
    <3>1. Places(data, i - 1, "eventid") = {}
      BY <2>1, ZenonT(120) DEF Kept
    <3> QED
      BY <1>2, <2>1, <3>1
  <2>2. CASE data[i].kind # "eventid"
    BY <1>2, <2>2 DEF Kept
  <2> QED
    BY <2>1, <2>2
<1>5. m_event_id' = {data[k].content : k \in Places(data, i, "eventid")}
  <2>1. CASE data[i].kind = "eventid"
    <3>1. Places(data, i - 1, "eventid") = {}
      BY <2>1, ZenonT(120) DEF Kept
    <3> QED
      BY <1>2, <2>1, <3>1
  <2>2. CASE data[i].kind # "eventid"
    BY <1>2, <2>2 DEF Kept
  <2> QED
    BY <2>1, <2>2
<1>6. \/ Places(data, i, "bcid") = {} /\ m_bc_id' = {}
      \/ \E k \in Places(data, i, "bcid") :
           /\ \A j \in Places(data, i, "bcid") : k <= j
           /\ m_bc_id' = {data[k].content % FieldRange}
  <2>1. CASE data[i].kind # "bcid"
    BY <1>2, <2>1 DEF Kept
  <2>2. CASE data[i].kind = "bcid" /\ Places(data, i - 1, "bcid") = {} /\ m_bc_id = {}
    <3>1. Places(data, i, "bcid") = {i} /\ m_bc_id' = {data[i].content % FieldRange}
      BY <1>2, <2>2 DEF BcidOf
    <3> QED
      BY <3>1
  <2>3. ASSUME data[i].kind = "bcid",
               NEW k \in Places(data, i - 1, "bcid"),
               \A j \in Places(data, i - 1, "bcid") : k <= j,
               m_bc_id = {data[k].content % FieldRange}
        PROVE  \E l \in Places(data, i, "bcid") :
                 /\ \A j \in Places(data, i, "bcid") : l <= j
                 /\ m_bc_id' = {data[l].content % FieldRange}
    <3>1. m_bc_id' = m_bc_id
      BY <2>3 DEF BcidOf
    <3>2. k \in Places(data, i, "bcid") /\ k <= i
      BY <1>2, <1>3, <2>3 DEF Places
    <3>3. \A j \in Places(data, i, "bcid") : k <= j
      BY <1>2, <2>3, <3>2
    <3> QED
      BY <2>3, <3>1, <3>2, <3>3
  <2> QED
    BY <2>1, <2>2, <2>3 DEF Kept
<1>7. m_trb_error_id' = {} <=> Places(data, i, "trberror") = {}
  BY <1>2 DEF Kept
<1>8. /\ m_module_error_ids' \in Seq(Nat)
      /\ m_module_error_ids' = <<>> <=> Places(data, i, "moduleerror") = {}
  <2>1. CASE data[i].kind = "moduleerror"
    <3>1. /\ Append(m_module_error_ids, data[i].content) \in Seq(Nat)
          /\ Append(m_module_error_ids, data[i].content) # <<>>
      BY <1>1, AppendProperties DEF Kept
    <3> QED
      BY <1>2, <2>1, <3>1
  <2>2. CASE data[i].kind # "moduleerror"
    BY <1>2, <2>2 DEF Kept
  <2> QED
    BY <2>1, <2>2
<1>9. \A kind : Places(data', (i - 1)', kind) = Places(data, i, kind)
  OBVIOUS
<1>10. m_event_id' = {data'[k].content : k \in Places(data', (i - 1)', "eventid")}
  BY <1>5, <1>9
<1>11. \/ Places(data', (i - 1)', "bcid") = {} /\ m_bc_id' = {}
       \/ \E k \in Places(data', (i - 1)', "bcid") :
            /\ \A j \in Places(data', (i - 1)', "bcid") : k <= j
            /\ m_bc_id' = {data'[k].content % FieldRange}
  BY <1>6, <1>9
<1> QED
  BY <1>4, <1>7, <1>8, <1>9, <1>10, <1>11 DEF Kept

(* What a word adds to the words of the lines. *)
LEMMA LinesStep ==
  ASSUME KeptOfLines(i - 1), data \in Seq(Words), i \in 1..Len(data), data' = data, i' - 1 = i,
         m_modDB' = IF data[i].kind = "module"
                    THEN [m_modDB EXCEPT ![data[i].line] = Pushed(data[i].content, @)]
                    ELSE m_modDB
  PROVE  KeptOfLines(i - 1)'
<1>1. Lines' = Lines
  BY DEF Lines
<1>2. DOMAIN m_modDB' = Lines
  BY DEF KeptOfLines
<1>3. ASSUME NEW line \in Lines
      PROVE  m_modDB'[line] = OfLineUpTo(line, data, i)
  <2>1. m_modDB[line] = OfLineUpTo(line, data, i - 1) /\ line \in DOMAIN m_modDB
    BY DEF KeptOfLines
  <2>2. OfLineUpTo(line, data, i) = Picked(OfLineUpTo(line, data, i - 1), data[i], line)
    BY OfLineStep
  <2>3. CASE data[i].kind = "module" /\ data[i].line = line
    <3>1. m_modDB'[line] = Append(m_modDB[line], data[i].content)
      BY <2>1, <2>3 DEF Pushed
    <3> QED
      BY <2>1, <2>2, <2>3, <3>1 DEF Picked
  <2>4. CASE ~(data[i].kind = "module" /\ data[i].line = line)
    <3>1. m_modDB'[line] = m_modDB[line]
      BY <2>1, <2>4
    <3> QED
      BY <2>1, <2>2, <2>4, <3>1 DEF Picked
  <2> QED
    BY <2>3, <2>4
<1>4. \A line : OfLineUpTo(line, data', (i - 1)') = OfLineUpTo(line, data, i)
  OBVIOUS
<1> QED
  BY <1>1, <1>2, <1>3, <1>4 DEF KeptOfLines

(* The loop ends: what it has kept stays as it is. *)
LEMMA BreakStep ==
  ASSUME IInv, ~reading', Control', Counters',
         UNCHANGED <<inputs, sent, fault, data, i, m_event_id, m_bc_id, errors, m_modDB>>
  PROVE  IInv'
<1>1. Origin'
  BY DEF IInv, Origin, inputs
<1>2. Progress'
  BY DEF IInv, Progress, Follows
<1>3. Kept(i - 1)'
  BY DEF IInv, Kept, Places, errors
<1>4. KeptOfLines(i - 1)'
  BY DEF IInv, KeptOfLines, Lines, OfLineUpTo
<1> QED
  BY <1>1, <1>2, <1>3, <1>4 DEF IInv

LEMMA InvNext == IInv /\ [Next]_vars => IInv'
<1> SUFFICES ASSUME IInv, [Next]_vars
             PROVE  IInv'
  OBVIOUS
<1>1. ASSUME NEW kind \in Continuing, Word(kind), Continue,
             UNCHANGED <<m_crc, defects>>,
             m_event_id' = IF kind = "eventid" THEN {data[i].content} ELSE m_event_id,
             kind = "eventid" => m_event_id = {},
             m_bc_id' = IF kind = "bcid" THEN BcidOf(data[i].content % FieldRange) ELSE m_bc_id,
             m_trb_error_id' = IF kind = "trberror" THEN {data[i].content} ELSE m_trb_error_id,
             m_module_error_ids' = IF kind = "moduleerror"
                                   THEN Append(m_module_error_ids, data[i].content)
                                   ELSE m_module_error_ids,
             m_modDB' = IF kind = "module"
                        THEN [m_modDB EXCEPT ![data[i].line] = Pushed(data[i].content, @)]
                        ELSE m_modDB
      PROVE  IInv'
  <2>1. /\ reading /\ i <= Len(data) /\ ~OutOfOrder /\ data[i].kind = kind
        /\ nextFrameCounter' = NextCounter(data[i].counter)
        /\ UNCHANGED <<inputs, sent, fault, data>>
    BY <1>1 DEF Word, inputs
  <2>2. InOrderAt /\ data \in Seq(Words) /\ i' - 1 = i
    BY <1>1, <2>1, WordAt DEF Continue
  <2>3. Origin' /\ Progress' /\ Counters' /\ Control'
    BY <1>1, <2>1, ContinueStep
  <2>4. Kept(i - 1) /\ KeptOfLines(i - 1) /\ i \in 1..Len(data)
    BY <2>2 DEF IInv, InOrderAt
  <2>5. Kept(i - 1)'
    BY <1>1, <2>1, <2>2, <2>4, KeptStep
  <2>6. KeptOfLines(i - 1)'
    BY <1>1, <2>1, <2>2, <2>4, LinesStep
  <2> QED
    BY <2>3, <2>5, <2>6 DEF IInv
<1>2. ASSUME EventId
      PROVE  IInv'
  BY <1>1, <1>2 DEF EventId, Continuing, errors
<1>3. ASSUME Bcid
      PROVE  IInv'
  BY <1>1, <1>3 DEF Bcid, Continuing, errors
<1>4. ASSUME TrbError
      PROVE  IInv'
  BY <1>1, <1>4 DEF TrbError, Continuing, ids
<1>5. ASSUME ModuleError
      PROVE  IInv'
  BY <1>1, <1>5 DEF ModuleError, Continuing, ids
<1>6. ASSUME OtherData
      PROVE  IInv'
  BY <1>1, <1>6 DEF OtherData, Continuing, ids, errors
<1>7. ASSUME ModuleData
      PROVE  IInv'
  BY <1>1, <1>7 DEF ModuleData, Continuing, ids, errors
<1>8. ASSUME NEW kind, Word(kind), Break
      PROVE  /\ InOrderAt /\ data[i].kind = kind /\ ~reading' /\ reading' = FALSE
             /\ nextFrameCounter' \in 0..(FrameCounterCycle - 1)
             /\ reading /\ m_crc = {} /\ ~m_frame_counter_invalid /\ ~m_unrecognized_frames
             /\ UNCHANGED <<inputs, sent, fault, data, i>>
  <2>1. reading /\ i <= Len(data) /\ ~OutOfOrder
    BY <1>8 DEF Word
  <2> QED
    BY <1>8, <2>1, WordAt DEF Word, Break, inputs, IInv, Control
<1>9. ASSUME End
      PROVE  IInv'
  <2>1. AtTrbEnd'
    BY <1>8, <1>9 DEF End, AtTrbEnd, InOrderAt, Follows, ids
  <2>2. Control'
    BY <1>8, <1>9, <2>1 DEF End, Control, IInv, defects
  <2>3. Counters'
    <3>1. nextFrameCounter' \in 0..(FrameCounterCycle - 1)
      BY <1>8, <1>9 DEF End
    <3> QED
      BY <3>1 DEF Counters, FrameCounterCycle
  <2> QED
    BY <1>8, <1>9, <2>2, <2>3, BreakStep DEF End, ids
<1>10. ASSUME Crc
       PROVE  IInv'
  <2>1. AtCrc'
    BY <1>8, <1>10 DEF Crc, AtCrc, InOrderAt, Follows, defects
  <2>2. Control'
    BY <1>8, <1>10, <2>1 DEF Crc, Control, IInv, defects
  <2>3. Counters'
    <3>1. nextFrameCounter' \in 0..(FrameCounterCycle - 1)
      BY <1>8, <1>10 DEF Crc
    <3> QED
      BY <3>1 DEF Counters, FrameCounterCycle
  <2> QED
    BY <1>8, <1>10, <2>2, <2>3, BreakStep DEF Crc
<1>11. ASSUME Unrecognized
       PROVE  IInv'
  <2>1. PICK kind \in {"header", "eventid"} :
          Word(kind) /\ (kind = "eventid" => m_event_id # {})
    BY <1>11 DEF Unrecognized
  <2>2. AtUnrecognized'
    BY <1>8, <1>11, <2>1 DEF Unrecognized, AtUnrecognized, InOrderAt, Follows, ids
  <2>3. Control'
    BY <1>8, <1>11, <2>1, <2>2 DEF Unrecognized, Control, IInv
  <2>4. Counters'
    <3>1. nextFrameCounter' \in 0..(FrameCounterCycle - 1)
      BY <1>8, <1>11, <2>1 DEF Unrecognized
    <3> QED
      BY <3>1 DEF Counters, FrameCounterCycle
  <2> QED
    BY <1>8, <1>11, <2>1, <2>3, <2>4, BreakStep DEF Unrecognized, ids
<1>12. ASSUME FrameLost
       PROVE  IInv'
  <2>1. /\ reading /\ i \in 2..Len(data) /\ data \in Seq(Words) /\ m_crc = {}
        /\ ~Follows(data, i) /\ data[i].kind # "end"
    BY <1>12 DEF FrameLost, OutOfOrder, IInv, Progress, Control, Follows
  <2>2. AtLoss'
    BY <1>12, <2>1 DEF FrameLost, AtLoss, Follows, inputs, ids
  <2>3. Control' /\ Counters'
    BY <1>12, <2>1, <2>2 DEF FrameLost, Control, Counters, IInv, ids
  <2> QED
    BY <1>12, <2>3, BreakStep DEF FrameLost, inputs, ids
<1>13. ASSUME AllRead
       PROVE  IInv'
  <2>1. AtEnd'
    BY <1>13 DEF AllRead, AtEnd, IInv, Progress, Control, inputs, ids, defects
  <2>2. Control' /\ Counters'
    BY <1>13, <2>1 DEF AllRead, Control, Counters, IInv, ids, defects
  <2> QED
    BY <1>13, <2>2, BreakStep DEF AllRead, inputs, ids
<1>14. ASSUME UNCHANGED vars
       PROVE  IInv'
  <2>1. /\ UNCHANGED <<sent, fault, data, uninitialised, m_crc_calculated, i, nextFrameCounter>>
        /\ UNCHANGED <<reading, m_event_id, m_bc_id, m_crc, m_trb_error_id, m_module_error_ids>>
        /\ UNCHANGED <<m_frame_counter_invalid, m_unrecognized_frames, m_modDB>>
    BY <1>14 DEF vars, inputs, ids, errors, defects
  <2>2. Origin'
    BY <2>1, Zenon DEF IInv, Origin
  <2>3. Progress'
    BY <2>1, Zenon DEF IInv, Progress
  <2>4. Kept(i - 1)'
    BY <2>1, Zenon DEF IInv, Kept
  <2>5. KeptOfLines(i - 1)'
    BY <2>1, Zenon DEF IInv, KeptOfLines, Lines
  <2>6. Counters'
    BY <2>1 DEF IInv, Counters
  <2>7. Control'
    BY <2>1 DEF IInv, Control, AtEnd, AtLoss, AtTrbEnd, AtCrc, AtUnrecognized, InOrderAt
  <2> QED
    BY <2>2, <2>3, <2>4, <2>5, <2>6, <2>7, Zenon DEF IInv
<1> QED
  BY <1>2, <1>3, <1>4, <1>5, <1>6, <1>7, <1>9, <1>10, <1>11, <1>12, <1>13, <1>14 DEF Next

LEMMA Invariant == Spec => []IInv
<1>1. Init => IInv
  BY InvInit
<1>2. IInv /\ [Next]_vars => IInv'
  BY InvNext
<1> QED
  BY <1>1, <1>2, PTL DEF Spec

-------------------------------------------------------------------------------
(* What the invariant says. *)

LEMMA AtMostOne ==
  ASSUME NEW S, \A x, y \in S : x = y
  PROVE  Cardinality(S) <= 1
<1>1. CASE S = {}
  BY <1>1, FS_EmptySet
<1>2. ASSUME NEW x \in S
      PROVE  Cardinality(S) <= 1
  <2>1. S = {x}
    OBVIOUS
  <2> QED
    BY <2>1, FS_Singleton
<1> QED
  BY <1>1, <1>2

(* Of any words, in any order, each step of the loop keeps the types: a    *)
(* missing identity or checksum is told from every value, and a line has   *)
(* fewer words than the loop has read.                                     *)
THEOREM TypeCorrect == Spec => []TypeOK
<1>1. IInv => TypeOK
  <2> SUFFICES ASSUME IInv
               PROVE  TypeOK
    OBVIOUS
  <2>1. i \in 1..(Len(data) + 1) /\ data \in Seq(Words) /\ Len(data) \in Nat
    BY DEF IInv, Progress
  <2>2. nextFrameCounter \in (0..(FrameCounterCycle - 1)) \cup {15}
    BY DEF IInv, Counters
  <2>3. i = 1 => m_event_id = {} /\ m_bc_id = {}
    <3>1. i = 1 => \A kind : Places(data, i - 1, kind) = {}
      BY DEF Places
    <3> QED
      BY <3>1 DEF IInv, Kept
  <2>4. nextFrameCounter = 15 => i = 1 /\ m_event_id = {} /\ m_bc_id = {} /\ m_crc = {}
    BY <2>3 DEF IInv, Counters
  <2>5. Cardinality(m_event_id) <= 1
    <3>1. \A x, y \in m_event_id : x = y
      BY DEF IInv, Kept
    <3> QED
      BY <3>1, AtMostOne
  <2>6. Cardinality(m_bc_id) <= 1
    <3>1. \A x, y \in m_bc_id : x = y
      BY DEF IInv, Kept
    <3> QED
      BY <3>1, AtMostOne
  <2>7. Cardinality(m_crc) <= 1
    <3>1. \A x, y \in m_crc : x = y
      BY DEF IInv, Control, AtEnd, AtLoss, AtTrbEnd, AtCrc, AtUnrecognized
    <3> QED
      BY <3>1, AtMostOne
  <2>8. \A line \in DOMAIN m_modDB : Len(m_modDB[line]) < i
    <3> SUFFICES ASSUME NEW line \in DOMAIN m_modDB
                 PROVE  Len(m_modDB[line]) < i
      OBVIOUS
    <3>1. m_modDB[line] = OfLineUpTo(line, data, i - 1)
      BY DEF IInv, KeptOfLines
    <3>2. i - 1 \in 0..Len(data)
      BY <2>1
    <3>3. m_modDB[line] \in Seq(Nat) /\ Len(m_modDB[line]) <= i - 1
      BY <2>1, <3>1, <3>2, OfLineLength
    <3>4. Len(m_modDB[line]) \in Nat
      BY <3>3
    <3> QED
      BY <2>1, <3>3, <3>4
  <2> QED
    BY <2>1, <2>2, <2>4, <2>5, <2>6, <2>7, <2>8 DEF TypeOK
<1> QED
  BY <1>1, Invariant, PTL

(* What valid() needs besides a checksum. *)
Complete ==
  /\ m_event_id # {} /\ m_bc_id # {}
  /\ m_trb_error_id = {} /\ m_module_error_ids = <<>>

LEMMA ValidIs ==
  ASSUME IInv, Constructed
  PROVE  valid <=> AtCrc /\ Complete /\ data[i].content = m_crc_calculated
<1>1. AtEnd \/ AtLoss \/ AtTrbEnd \/ AtCrc \/ AtUnrecognized
  BY DEF IInv, Control, Constructed
<1>2. ~AtCrc => m_crc = {}
  BY <1>1 DEF AtEnd, AtLoss, AtTrbEnd, AtUnrecognized
<1>3. AtCrc => /\ m_crc = {data[i].content} /\ m_crc # {}
               /\ ~m_frame_counter_invalid /\ ~m_unrecognized_frames
  BY DEF AtCrc
<1>4. AtCrc => (CrcMatches <=> data[i].content = m_crc_calculated)
  BY <1>3 DEF CrcMatches
<1> QED
  BY <1>2, <1>3, <1>4 DEF valid, Complete

(* The words of a line reach the decoder of the line in the order in which *)
(* the board sent them, none added, and of those before the checksum none  *)
(* missing; the identity is that of the first words that give one.         *)
THEOREM LinesCorrect == Spec => []LinesInOrder
<1>1. IInv => LinesInOrder
  <2> SUFFICES ASSUME IInv
               PROVE  LinesInOrder
    OBVIOUS
  <2> DEFINE of(kind) == {k \in DOMAIN data : data[k].kind = kind}
             value(kind) == data[Min(of(kind))].content
  <2>1. \A line \in Lines : m_modDB[line] = OfLine(line, SubSeq(data, 1, i - 1))
    BY DEF IInv, KeptOfLines, OfLineUpTo
  <2>2. ASSUME Constructed, valid
        PROVE  /\ data[i].kind = "crc"
               /\ m_event_id = {value("eventid")} /\ m_bc_id = {value("bcid") % FieldRange}
    <3>1. AtCrc /\ Complete /\ data \in Seq(Words) /\ i \in 1..(Len(data) + 1)
      BY <2>2, ValidIs DEF IInv, Progress
    <3>2. \A kind : of(kind) \subseteq Int
      BY <3>1
    <3>3. ASSUME NEW kind, NEW k \in Places(data, i - 1, kind),
                 \A j \in Places(data, i - 1, kind) : k <= j
          PROVE  Min(of(kind)) = k
      <4>1. k \in of(kind)
        BY <3>1 DEF Places
      <4>2. ASSUME NEW j \in of(kind)
            PROVE  k <= j
        <5>1. CASE j \in 1..(i - 1)
          BY <3>3, <4>2, <5>1 DEF Places
        <5>2. CASE j \notin 1..(i - 1)
          BY <3>1, <5>2 DEF Places
        <5> QED
          BY <5>1, <5>2
      <4> HIDE DEF of
      <4> QED
        BY <3>2, <4>1, <4>2, MinIs
    <3>4. PICK k \in Places(data, i - 1, "eventid") : m_event_id = {data[k].content}
      BY <3>1 DEF IInv, Kept, Complete
    <3>5. Min(of("eventid")) = k
      <4>1. \A j \in Places(data, i - 1, "eventid") : k <= j
        BY DEF IInv, Kept, Places
      <4> HIDE DEF of
      <4> QED
        BY <3>3, <4>1
    <3>6. PICK b \in Places(data, i - 1, "bcid") :
            /\ \A j \in Places(data, i - 1, "bcid") : b <= j
            /\ m_bc_id = {data[b].content % FieldRange}
      BY <3>1 DEF IInv, Kept, Complete
    <3>7. Min(of("bcid")) = b
      <4> HIDE DEF of
      <4> QED
        BY <3>3, <3>6
    <3>8. data[i].kind = "crc"
      BY <3>1 DEF AtCrc
    <3> HIDE DEF of
    <3> QED
      BY <3>4, <3>5, <3>6, <3>7, <3>8
  <2> QED
    BY <2>1, <2>2, Zenon DEF LinesInOrder
<1> QED
  BY <1>1, Invariant, PTL

(* What it takes for the first n words to be a good fragment, but for the  *)
(* checksum.                                                               *)
WholeUpTo(words, n) ==
  /\ \A k \in 2..n : Follows(words, k)
  /\ \E e \in 1..n : Places(words, n, "eventid") = {e}
  /\ Places(words, n, "bcid") # {}
  /\ \A k \in 1..n : words[k].kind \notin {"end", "header", "trberror", "moduleerror"}
  /\ Places(words, n, "crc") = {n}

LEMMA PrefixWhole ==
  ASSUME NEW words \in Seq(Words), NEW n \in 1..Len(words)
  PROVE  Whole(SubSeq(words, 1, n)) <=> WholeUpTo(words, n)
<1> DEFINE sub == SubSeq(words, 1, n)
<1>1. Len(sub) = n /\ DOMAIN sub = 1..n /\ \A k \in 1..n : sub[k] = words[k]
  <2>1. \A k \in 1..n : words[k] \in Words
    OBVIOUS
  <2>2. /\ SubSeq(words, 1, n) \in Seq(Words)
        /\ Len(SubSeq(words, 1, n)) = IF 1 <= n THEN n - 1 + 1 ELSE 0
        /\ \A k \in 1..(n - 1 + 1) : SubSeq(words, 1, n)[k] = words[1 + k - 1]
    BY <2>1, SubSeqProperties
  <2>3. \A k \in 1..n : 1 + k - 1 = k /\ n - 1 + 1 = n
    OBVIOUS
  <2> QED
    BY <2>2, <2>3
<1> HIDE DEF sub
<1>2. InOrder(sub) <=> \A k \in 2..n : Follows(words, k)
  <2>1. \A k \in 2..n : sub[k] = words[k] /\ sub[k - 1] = words[k - 1]
    BY <1>1
  <2> QED
    BY <1>1, <2>1 DEF InOrder, Follows
<1>3. \A kind : {k \in DOMAIN sub : sub[k].kind = kind} = Places(words, n, kind)
  BY <1>1 DEF Places
<1>4. Cardinality(Places(words, n, "eventid")) = 1
        <=> \E e \in 1..n : Places(words, n, "eventid") = {e}
  <2>1. IsFiniteSet(Places(words, n, "eventid")) /\ Places(words, n, "eventid") \subseteq 1..n
    <3>1. IsFiniteSet(1..n) /\ Places(words, n, "eventid") \subseteq 1..n
      BY FS_Interval DEF Places
    <3> QED
      BY <3>1, FS_Subset
  <2>2. Cardinality(Places(words, n, "eventid")) = 1
          <=> \E e : Places(words, n, "eventid") = {e}
    BY <2>1, FS_Singleton
  <2> QED
    BY <2>1, <2>2
<1>5. KindsIn(sub) = {words[k].kind : k \in 1..n}
  BY <1>1 DEF KindsIn, Range
<1>6. "bcid" \in KindsIn(sub) <=> Places(words, n, "bcid") # {}
  BY <1>5 DEF Places
<1>7. KindsIn(sub) \cap {"end", "header", "trberror", "moduleerror"} = {}
        <=> \A k \in 1..n : words[k].kind \notin {"end", "header", "trberror", "moduleerror"}
  BY <1>5
<1>8. Whole(sub) <=> WholeUpTo(words, n)
  BY <1>1, <1>2, <1>3, <1>4, <1>6, <1>7 DEF Whole, WholeUpTo
<1> QED
  BY <1>8 DEF sub

(* The loop ends at the checksum of a good fragment, and only there with   *)
(* all that a good fragment has.                                           *)
LEMMA EndsAtChecksum ==
  ASSUME IInv, Constructed
  PROVE  /\ AtCrc /\ Complete => i \in 1..Len(data) /\ WholeUpTo(data, i)
         /\ \A n \in 1..Len(data) : WholeUpTo(data, n) => i = n /\ AtCrc /\ Complete
<1>1. /\ data \in Seq(Words) /\ i \in 1..(Len(data) + 1) /\ Len(data) \in Nat
      /\ \A k \in 1..(i - 1) : data[k].kind \in Continuing
      /\ \A k \in 2..(i - 1) : Follows(data, k)
  BY DEF IInv, Progress
<1>2. AtEnd \/ AtLoss \/ AtTrbEnd \/ AtCrc \/ AtUnrecognized
  BY DEF IInv, Control, Constructed
<1>3. Kept(i - 1)
  BY DEF IInv
<1>4. ASSUME AtCrc, Complete
      PROVE  i \in 1..Len(data) /\ WholeUpTo(data, i)
  <2>1. i \in 1..Len(data) /\ data[i].kind = "crc" /\ (i > 1 => Follows(data, i))
    BY <1>4 DEF AtCrc, InOrderAt
  <2>2. \A k \in 2..i : Follows(data, k)
    BY <1>1, <2>1
  <2>3. \A kind : Places(data, i, kind) = IF kind = "crc"
                                          THEN Places(data, i - 1, kind) \cup {i}
                                          ELSE Places(data, i - 1, kind)
    BY <1>1, <2>1, PlacesNext
  <2>4. \E e \in 1..i : Places(data, i, "eventid") = {e}
    <3>1. PICK e \in Places(data, i - 1, "eventid") : TRUE
      BY <1>3, <1>4 DEF Kept, Complete
    <3>2. Places(data, i - 1, "eventid") = {e} /\ e \in 1..i
      BY <1>3, <2>1, <3>1 DEF Kept, Places
    <3> QED
      BY <2>3, <3>2
  <2>5. Places(data, i, "bcid") # {}
    BY <1>3, <1>4, <2>3 DEF Kept, Complete
  <2>6. \A k \in 1..i : data[k].kind \notin {"end", "header", "trberror", "moduleerror"}
    <3>1. Places(data, i - 1, "trberror") = {} /\ Places(data, i - 1, "moduleerror") = {}
      BY <1>3, <1>4 DEF Kept, Complete
    <3>2. ASSUME NEW k \in 1..(i - 1)
          PROVE  data[k].kind \notin {"end", "header", "trberror", "moduleerror"}
      BY <1>1, <3>1 DEF Places, Continuing
    <3> QED
      BY <2>1, <3>2
  <2>7. Places(data, i, "crc") = {i}
    <3>1. Places(data, i - 1, "crc") = {}
      BY <1>1 DEF Places, Continuing
    <3> QED
      BY <2>3, <3>1
  <2> QED
    BY <2>1, <2>2, <2>4, <2>5, <2>6, <2>7 DEF WholeUpTo
<1>5. ASSUME NEW n \in 1..Len(data), WholeUpTo(data, n)
      PROVE  i = n /\ AtCrc /\ Complete
  <2>1. data[n].kind = "crc" /\ \A k \in 1..(n - 1) : data[k].kind # "crc"
    BY <1>1, <1>5, SMTT(30) DEF WholeUpTo, Places
  <2>2. i <= n
    <3>1. CASE n \in 1..(i - 1)
      BY <1>1, <2>1, <3>1 DEF Continuing
    <3> QED
      BY <1>1, <3>1
  <2>3. \A k \in 1..n : data[k].kind \notin {"end", "header", "trberror", "moduleerror"}
    BY <1>5 DEF WholeUpTo
  <2>4. ~AtEnd /\ ~AtTrbEnd
    BY <1>1, <2>2, <2>3 DEF AtEnd, AtTrbEnd
  <2>5. ~AtLoss
    BY <1>5, <2>2 DEF AtLoss, WholeUpTo
  <2>6. ~AtUnrecognized
    <3> SUFFICES ASSUME AtUnrecognized
                 PROVE  FALSE
      OBVIOUS
    <3>1. data[i].kind = "eventid" /\ m_event_id # {}
      BY <1>1, <2>2, <2>3 DEF AtUnrecognized
    <3>2. PICK k \in Places(data, i - 1, "eventid") : TRUE
      BY <1>3, <3>1 DEF Kept
    <3>3. k \in Places(data, n, "eventid") /\ i \in Places(data, n, "eventid") /\ k # i
      BY <1>1, <2>2, <3>1, <3>2 DEF Places
    <3> QED
      BY <1>5, <3>3 DEF WholeUpTo
  <2>7. AtCrc
    BY <1>2, <2>4, <2>5, <2>6
  <2>8. i = n
    BY <1>1, <2>1, <2>2, <2>7 DEF AtCrc
  <2>9. \A kind : kind # "crc" => Places(data, n, kind) = Places(data, n - 1, kind)
    BY <1>1, <2>1, PlacesNext
  <2>10. m_event_id # {} /\ m_bc_id # {}
    <3>1. PICK e : e \in Places(data, n, "eventid")
      BY <1>5 DEF WholeUpTo
    <3>2. e \in Places(data, i - 1, "eventid")
      BY <2>8, <2>9, <3>1
    <3>3. Places(data, i - 1, "bcid") # {}
      BY <1>5, <2>8, <2>9 DEF WholeUpTo
    <3>4. data[e].content \in m_event_id
      BY <1>3, <3>2 DEF Kept
    <3>5. m_bc_id # {}
      BY <1>3, <3>3 DEF Kept
    <3> QED
      BY <3>4, <3>5
  <2>11. Places(data, n - 1, "trberror") = {} /\ Places(data, n - 1, "moduleerror") = {}
    BY <2>3 DEF Places
  <2>12. Complete
    BY <1>3, <2>8, <2>10, <2>11 DEF Kept, Complete
  <2> QED
    BY <2>7, <2>8, <2>12
<1> QED
  BY <1>4, <1>5

(* The checksum of a fragment that has an identity and a checksum word.    *)
LEMMA ChecksumOfWhole ==
  ASSUME IInv, NEW n \in 1..Len(data), WholeUpTo(data, n)
  PROVE  m_crc_calculated = ChecksumOf(data)
<1>1. data \in Seq(Words) /\ Len(data) \in Nat
  BY DEF IInv, Progress
<1>2. PICK e \in 1..n : data[e].kind = "eventid"
  BY DEF WholeUpTo, Places
<1>3. data[n].kind = "crc"
  BY DEF WholeUpTo, Places
<1>4. Len(data) >= 2
  BY <1>1, <1>2, <1>3
<1> QED
  BY <1>1, <1>4, ChecksumIsSum DEF IInv, Origin

(* valid() accepts a fragment exactly if its words, up to one of them, are *)
(* a good fragment, and this word has the checksum of all words that       *)
(* arrived but the last; it never looks at a checksum that is missing.     *)
THEOREM ValidCorrect == Spec => []ValidIffWhole
<1>1. IInv => ValidIffWhole
  <2> SUFFICES ASSUME IInv, Constructed
               PROVE  valid <=> \E n \in 1..Len(data) :
                                  Whole(SubSeq(data, 1, n)) /\ data[n].content = ChecksumOf(data)
    BY DEF ValidIffWhole
  <2>1. data \in Seq(Words)
    BY DEF IInv, Progress
  <2>2. \A n \in 1..Len(data) : Whole(SubSeq(data, 1, n)) <=> WholeUpTo(data, n)
    BY <2>1, PrefixWhole
  <2>3. \A n \in 1..Len(data) : WholeUpTo(data, n) => m_crc_calculated = ChecksumOf(data)
    BY ChecksumOfWhole
  <2>4. ASSUME valid
        PROVE  \E n \in 1..Len(data) :
                 Whole(SubSeq(data, 1, n)) /\ data[n].content = ChecksumOf(data)
    <3>1. AtCrc /\ Complete /\ data[i].content = m_crc_calculated
      BY <2>4, ValidIs
    <3>2. i \in 1..Len(data) /\ WholeUpTo(data, i)
      BY <3>1, EndsAtChecksum
    <3> QED
      BY <2>2, <2>3, <3>1, <3>2
  <2>5. ASSUME NEW n \in 1..Len(data), Whole(SubSeq(data, 1, n)),
               data[n].content = ChecksumOf(data)
        PROVE  valid
    <3>1. WholeUpTo(data, n)
      BY <2>2, <2>5
    <3>2. i = n /\ AtCrc /\ Complete
      BY <3>1, EndsAtChecksum
    <3> QED
      BY <2>3, <2>5, <3>1, <3>2, ValidIs
  <2> QED
    BY <2>4, <2>5
<1> QED
  BY <1>1, Invariant, PTL

-------------------------------------------------------------------------------
(* Faults on the way. *)

(* The words as changed, before any are lost. *)
Came(words, changed) ==
  [k \in DOMAIN words |-> IF k \in DOMAIN changed
                          THEN [words[k] EXCEPT !.content = changed[k]]
                          ELSE words[k]]

LEMMA CameIs ==
  ASSUME Origin
  PROVE  /\ sent \in Seq(Words) /\ Len(sent) \in Nat
         /\ Came(sent, fault.changed) \in Seq(Words)
         /\ Len(Came(sent, fault.changed)) = Len(sent)
         /\ data = Without(Came(sent, fault.changed), fault.lost)
         /\ fault.lost \subseteq 1..Len(sent)
         /\ \A k \in 1..Len(sent) :
              LET w == Came(sent, fault.changed)[k]
              IN  /\ w.kind = sent[k].kind /\ w.counter = sent[k].counter
                  /\ k \in DOMAIN fault.changed => w.content = fault.changed[k]
                  /\ k \notin DOMAIN fault.changed => w = sent[k]
<1> DEFINE came == Came(sent, fault.changed)
<1>1. PICK t \in Transmissions : sent = t.sent /\ fault = t.fault
  BY DEF Origin
<1>2. /\ sent \in Seq(Words) /\ fault.lost \subseteq DOMAIN sent
      /\ \A k \in DOMAIN fault.changed : fault.changed[k] \in Contents
  BY <1>1, TransmissionsAssumption
<1>3. DOMAIN came = 1..Len(sent) /\ Len(sent) \in Nat
  BY <1>2 DEF Came
<1>4. ASSUME NEW k \in 1..Len(sent)
      PROVE  /\ came[k] \in Words
             /\ came[k].kind = sent[k].kind /\ came[k].counter = sent[k].counter
             /\ k \in DOMAIN fault.changed => came[k].content = fault.changed[k]
             /\ k \notin DOMAIN fault.changed => came[k] = sent[k]
  <2>1. sent[k] \in Words /\ k \in DOMAIN sent
    BY <1>2
  <2>2. CASE k \in DOMAIN fault.changed
    <3>1. came[k] = [sent[k] EXCEPT !.content = fault.changed[k]]
      BY <2>1, <2>2 DEF Came
    <3> HIDE DEF came
    <3>2. fault.changed[k] \in Contents
      BY <1>2, <2>2
    <3> QED
      BY <2>1, <2>2, <3>1, <3>2 DEF Words
  <2>3. CASE k \notin DOMAIN fault.changed
    <3>1. came[k] = sent[k]
      BY <2>1, <2>3 DEF Came
    <3> HIDE DEF came
    <3> QED
      BY <2>1, <2>3, <3>1
  <2> QED
    BY <2>2, <2>3
<1>5. came \in Seq(Words) /\ Len(came) = Len(sent)
  <2>1. came = [k \in 1..Len(sent) |-> came[k]]
    BY <1>3 DEF Came
  <2> HIDE DEF came
  <2>2. came \in [1..Len(sent) -> Words]
    BY <1>4, <2>1
  <2> QED
    BY <1>3, <2>2
<1>6. data = Without(came, fault.lost)
  BY Zenon DEF Origin, Arrived, Came
<1> HIDE DEF came
<1>7. fault.lost \subseteq 1..Len(sent)
  BY <1>2
<1> QED
  BY <1>2, <1>3, <1>4, <1>5, <1>6, <1>7 DEF came

(* What is left of the first n words. *)
Left(s, words, lost, n) ==
  /\ Cardinality(lost \cap (1..n)) \in Nat
  /\ Len(s[n]) = n - Cardinality(lost \cap (1..n))
  /\ \A p \in 1..Len(s[n]) : \E k \in (1..n) \ lost : s[n][p] = words[k]
  /\ n >= 1 /\ 1 \notin lost => Len(s[n]) >= 1 /\ s[n][1] = words[1]

LEMMA LeftOf ==
  ASSUME NEW E, NEW words \in Seq(E), NEW lost, NEW s, IsRemoving(s, words, lost, E)
  PROVE  \A n \in 0..Len(words) : Left(s, words, lost, n)
<1> DEFINE S == {n \in 0..Len(words) : Left(s, words, lost, n)}
<1>1. /\ \A n \in 0..Len(words) : s[n] \in Seq(E)
      /\ s[0] = <<>>
      /\ \A n \in 1..Len(words) :
           s[n] = IF n \in lost THEN s[n - 1] ELSE Append(s[n - 1], words[n])
  BY DEF IsRemoving
<1>2. 0 \in S
  <2>1. lost \cap (1..0) = {} /\ Len(s[0]) = 0
    BY <1>1
  <2>2. Cardinality(lost \cap (1..0)) = 0
    BY <2>1, FS_EmptySet
  <2> QED
    BY <2>1, <2>2 DEF Left
<1>3. ASSUME NEW n \in 0..(Len(words) - 1), n \in S
      PROVE  n + 1 \in S
  <2>1. n + 1 \in 1..Len(words) /\ n + 1 \in 0..Len(words) /\ (n + 1) - 1 = n /\ n \in Nat
    OBVIOUS
  <2>2. /\ Cardinality(lost \cap (1..n)) \in Nat
        /\ Len(s[n]) = n - Cardinality(lost \cap (1..n))
        /\ \A p \in 1..Len(s[n]) : \E k \in (1..n) \ lost : s[n][p] = words[k]
        /\ n >= 1 /\ 1 \notin lost => Len(s[n]) >= 1 /\ s[n][1] = words[1]
    BY <1>3 DEF Left
  <2>3. IsFiniteSet(lost \cap (1..n)) /\ n + 1 \notin lost \cap (1..n)
    <3>1. IsFiniteSet(1..n) /\ lost \cap (1..n) \subseteq 1..n
      BY <2>1, FS_Interval
    <3>2. n + 1 \notin 1..n
      BY <2>1
    <3> QED
      BY <3>1, <3>2, FS_Subset
  <2>4. 1..(n + 1) = (1..n) \cup {n + 1}
    BY <2>1
  <2>5. s[n] \in Seq(E) /\ Len(s[n]) \in Nat
    BY <1>1, <2>1
  <2>6. PICK c \in Nat : c = Cardinality(lost \cap (1..n)) /\ Len(s[n]) = n - c
    BY <2>2
  <2>7. (1..n) \ lost \subseteq (1..(n + 1)) \ lost /\ n + 1 >= 1
    BY <2>1, <2>4
  <2>8. CASE n + 1 \in lost
    <3>1. s[n + 1] = s[n]
      BY <1>1, <2>1, <2>8
    <3>2. lost \cap (1..(n + 1)) = (lost \cap (1..n)) \cup {n + 1}
      BY <2>4, <2>8
    <3>3. Cardinality(lost \cap (1..(n + 1))) = c + 1
      BY <2>3, <2>6, <3>2, FS_AddElement, ZenonT(30)
    <3>4. n - c = (n + 1) - (c + 1)
      BY <2>1, <2>6
    <3>5. Len(s[n + 1]) = (n + 1) - Cardinality(lost \cap (1..(n + 1)))
      BY <2>6, <3>1, <3>3, <3>4
    <3>6. \A p \in 1..Len(s[n + 1]) : \E k \in (1..(n + 1)) \ lost : s[n + 1][p] = words[k]
      BY <2>2, <2>7, <3>1
    <3>7. 1 \notin lost => Len(s[n + 1]) >= 1 /\ s[n + 1][1] = words[1]
      <4> SUFFICES ASSUME 1 \notin lost
                   PROVE  Len(s[n + 1]) >= 1 /\ s[n + 1][1] = words[1]
        OBVIOUS
      <4>1. n >= 1
        BY <2>1, <2>8
      <4> QED
        BY <2>2, <3>1, <4>1
    <3>8. Cardinality(lost \cap (1..(n + 1))) \in Nat
      BY <2>6, <3>3
    <3>9. Left(s, words, lost, n + 1)
      BY <3>5, <3>6, <3>7, <3>8, Zenon DEF Left
    <3> QED
      BY <2>1, <3>9
  <2>9. CASE n + 1 \notin lost
    <3>1. words[n + 1] \in E
      BY <2>1
    <3>2. s[n + 1] = Append(s[n], words[n + 1])
      BY <1>1, <2>1, <2>9
    <3>3. lost \cap (1..(n + 1)) = lost \cap (1..n)
      BY <2>4, <2>9
    <3>4. /\ Len(s[n + 1]) = Len(s[n]) + 1
          /\ \A p \in 1..Len(s[n]) : s[n + 1][p] = s[n][p]
          /\ s[n + 1][Len(s[n]) + 1] = words[n + 1]
      BY <2>5, <3>1, <3>2, AppendProperties
    <3>5. \A p \in 1..Len(s[n + 1]) : \E k \in (1..(n + 1)) \ lost : s[n + 1][p] = words[k]
      <4> TAKE p \in 1..Len(s[n + 1])
      <4>1. CASE p \in 1..Len(s[n])
        BY <2>2, <2>7, <3>4, <4>1, ZenonT(30)
      <4>2. CASE p \notin 1..Len(s[n])
        <5>1. p = Len(s[n]) + 1
          BY <2>5, <3>4, <4>2
        <5>2. s[n + 1][p] = words[n + 1] /\ n + 1 \in (1..(n + 1)) \ lost
          BY <2>4, <2>9, <3>4, <5>1
        <5> QED
          BY <5>2
      <4> QED
        BY <4>1, <4>2
    <3>6. 1 \notin lost => Len(s[n + 1]) >= 1 /\ s[n + 1][1] = words[1]
      <4> SUFFICES ASSUME 1 \notin lost
                   PROVE  Len(s[n + 1]) >= 1 /\ s[n + 1][1] = words[1]
        OBVIOUS
      <4>1. CASE n = 0
        <5>1. Len(s[n]) = 0
          BY <1>1, <4>1
        <5> QED
          BY <3>4, <4>1, <5>1
      <4>2. CASE n # 0
        <5>1. n >= 1
          BY <2>1, <4>2
        <5>2. Len(s[n]) >= 1 /\ s[n][1] = words[1]
          BY <2>2, <5>1
        <5>3. 1 \in 1..Len(s[n])
          BY <2>5, <5>2
        <5>4. s[n + 1][1] = s[n][1]
          BY <3>4, <5>3
        <5>5. Len(s[n + 1]) >= 1
          BY <2>5, <3>4
        <5> QED
          BY <5>2, <5>4, <5>5
      <4> QED
        BY <4>1, <4>2
    <3>7. (n - c) + 1 = (n + 1) - c
      BY <2>1, <2>6
    <3>8. Len(s[n + 1]) = (n + 1) - Cardinality(lost \cap (1..(n + 1)))
      BY <2>6, <3>3, <3>4, <3>7
    <3>9. Left(s, words, lost, n + 1)
      BY <2>2, <3>3, <3>5, <3>6, <3>8, Zenon DEF Left
    <3> QED
      BY <2>1, <3>9
  <2> QED
    BY <2>8, <2>9
<1>4. 0..Len(words) \subseteq S
  <2> HIDE DEF S
  <2>1. Len(words) \in Nat
    OBVIOUS
  <2> QED
    BY <1>2, <1>3, <2>1, UpTo
<1> QED
  BY <1>4

(* The frame counters of words in order. *)
LEMMA CounterRun ==
  ASSUME NEW words \in Seq(Words), NEW n \in 1..Len(words), \A k \in 2..n : Follows(words, k)
  PROVE  words[n].counter = (words[1].counter + (n - 1)) % FrameCounterCycle
<1> DEFINE S == {m \in 0..(n - 1) :
                   words[m + 1].counter = (words[1].counter + m) % FrameCounterCycle}
<1>1. \A k \in 1..n : words[k].counter \in 0..7
  <2> TAKE k \in 1..n
  <2>1. words[k] \in Words
    OBVIOUS
  <2> QED
    BY <2>1 DEF Words, FrameCounterCycle
<1>2. 0 \in S
  BY <1>1 DEF FrameCounterCycle
<1>3. ASSUME NEW m \in 0..((n - 1) - 1), m \in S
      PROVE  m + 1 \in S
  <2>1. m + 2 \in 2..n /\ (m + 1) + 1 = m + 2 /\ (m + 2) - 1 = m + 1 /\ m + 1 \in 0..(n - 1)
    OBVIOUS
  <2>2. words[m + 2].counter = (words[m + 1].counter + 1) % FrameCounterCycle
    BY <2>1 DEF Follows
  <2>3. words[m + 1].counter = (words[1].counter + m) % FrameCounterCycle
    BY <1>3
  <2>4. words[1].counter \in Nat
    BY <1>1, SMTT(30)
  <2>5. words[m + 2].counter = (words[1].counter + (m + 1)) % FrameCounterCycle
    BY <2>2, <2>3, <2>4 DEF FrameCounterCycle
  <2> QED
    BY <2>1, <2>5
<1>4. 0..(n - 1) \subseteq S
  <2> HIDE DEF S
  <2>1. n - 1 \in Nat
    OBVIOUS
  <2> QED
    BY <1>2, <1>3, <2>1, UpTo
<1>5. n - 1 \in S /\ (n - 1) + 1 = n
  BY <1>4
<1> QED
  BY <1>5

(* Less than a cycle of frame counters never goes unseen. *)
LEMMA CycleShows ==
  ASSUME NEW x \in Nat, NEW c \in 1..7
  PROVE  x % 8 # (x + c) % 8
  OBVIOUS

LEMMA WholeSent ==
  ASSUME Origin, Whole(sent)
  PROVE  /\ sent \in Seq(Words) /\ Len(sent) \in 1..Len(sent)
         /\ WholeUpTo(sent, Len(sent))
         /\ Last(sent) = sent[Len(sent)] /\ sent[Len(sent)].kind = "crc"
<1>1. sent \in Seq(Words) /\ Len(sent) \in Nat
  BY CameIs
<1>2. Len(sent) \in 1..Len(sent)
  <2>1. Len(sent) \in {k \in DOMAIN sent : sent[k].kind = "crc"}
    BY DEF Whole
  <2>2. Len(sent) \in DOMAIN sent
    BY <2>1
  <2> QED
    BY <1>1, <2>2
<1>3. SubSeq(sent, 1, Len(sent)) = sent
  BY <1>1
<1>4. WholeUpTo(sent, Len(sent))
  BY <1>1, <1>2, <1>3, PrefixWhole
<1>5. sent[Len(sent)].kind = "crc"
  BY <1>4 DEF WholeUpTo, Places
<1> QED
  BY <1>1, <1>2, <1>4, <1>5 DEF Last

(* However the checksum came out, a good fragment that lost fewer words    *)
(* than FRAME_COUNTER_CYCLE is not valid: neither its first nor its last   *)
(* word is gone, and between them the counters have advanced by the number *)
(* of words lost too far, which only a full cycle would hide.              *)
THEOREM LossIsFound == Spec => []LossFound
<1>1. IInv => LossFound
  <2> SUFFICES ASSUME IInv, Constructed, Whole(sent), sent[1].kind = "eventid",
                      Cardinality(fault.lost) \in 1..(FrameCounterCycle - 1),
                      \A k \in DOMAIN fault.changed : sent[k].kind = "crc",
                      valid
               PROVE  FALSE
    BY Zenon DEF LossFound
  <2> DEFINE N == Len(sent)
             came == Came(sent, fault.changed)
             lost == fault.lost
  <2>1. Origin
    BY DEF IInv
  <2>2. /\ sent \in Seq(Words) /\ N \in Nat /\ N \in 1..N
        /\ WholeUpTo(sent, N)
    BY <2>1, WholeSent, CameIs
  <2>3. /\ came \in Seq(Words) /\ Len(came) = N
        /\ data = Without(came, lost)
        /\ lost \subseteq 1..N
        /\ \A k \in 1..N : came[k].kind = sent[k].kind /\ came[k].counter = sent[k].counter
    BY <2>1, CameIs
  <2>4. PICK n \in 1..Len(data) : WholeUpTo(data, n)
    BY ValidIs, EndsAtChecksum
  <2>5. data \in Seq(Words) /\ Len(data) \in Nat
    BY DEF IInv, Progress
  <2>6. PICK s : IsRemoving(s, came, lost, Words)
    BY <2>3, RemovingExists
  <2> HIDE DEF came
  <2>7. /\ data = s[N]
        /\ N - 1 \in 0..N /\ s[N - 1] \in Seq(Words)
        /\ s[N] = IF N \in lost THEN s[N - 1] ELSE Append(s[N - 1], came[N])
        /\ came[N] \in Words
    <3>1. N \in 1..N /\ N - 1 \in 0..N /\ N \in 1..Len(came) /\ N - 1 \in 0..Len(came)
      BY <2>2, <2>3
    <3>2. Without(came, lost) = s[Len(came)]
      BY <2>6 DEF IsRemoving
    <3>3. s[N] = IF N \in lost THEN s[N - 1] ELSE Append(s[N - 1], came[N])
      BY <2>6, <3>1 DEF IsRemoving
    <3>4. s[N - 1] \in Seq(Words)
      BY <2>6, <3>1 DEF IsRemoving
    <3>5. came[N] \in Words
      BY <2>3, <3>1
    <3> QED
      BY <2>3, <3>1, <3>2, <3>3, <3>4, <3>5
  <2>8. Left(s, came, lost, N) /\ Left(s, came, lost, N - 1)
    BY <2>2, <2>3, <2>6, <2>7, LeftOf
  <2>9. \A p \in 1..Len(data) :
          \E k \in (1..N) \ lost :
            data[p] = came[k] /\ data[p].kind = sent[k].kind
    <3> TAKE p \in 1..Len(data)
    <3>1. PICK k \in (1..N) \ lost : s[N][p] = came[k]
      BY <2>7, <2>8 DEF Left
    <3>2. data[p] = came[k] /\ data[p].kind = sent[k].kind
      BY <2>3, <2>7, <3>1
    <3> QED
      BY <3>2
  <2>10. \A k \in 1..N : sent[k].kind = "crc" => k = N
    BY <2>2 DEF WholeUpTo, Places
  <2>11. N \notin lost
    BY <2>4, <2>9, <2>10 DEF WholeUpTo, Places
  <2>12. /\ Len(data) = Len(s[N - 1]) + 1
         /\ \A p \in 1..Len(s[N - 1]) : data[p] = s[N - 1][p]
         /\ data[Len(s[N - 1]) + 1] = came[N]
    BY <2>7, <2>11, AppendProperties
  <2>13. n = Len(data)
    <3> SUFFICES ASSUME n # Len(data)
                 PROVE  FALSE
      OBVIOUS
    <3>1. Len(s[N - 1]) \in Nat
      BY <2>7
    <3>2. n \in 1..Len(s[N - 1])
      BY <2>5, <2>12, <3>1
    <3>3. PICK k \in (1..(N - 1)) \ lost : s[N - 1][n] = came[k]
      BY <2>8, <3>2 DEF Left
    <3>4. k \in 1..N /\ k # N
      BY <2>2
    <3>5. sent[k].kind = "crc"
      BY <2>3, <2>4, <2>12, <3>2, <3>3, <3>4 DEF WholeUpTo, Places
    <3> QED
      BY <2>10, <3>4, <3>5
  <2>14. 1 \notin lost
    <3>1. PICK e \in 1..n : data[e].kind = "eventid"
      BY <2>4 DEF WholeUpTo, Places
    <3>2. PICK k \in (1..N) \ lost : sent[k].kind = "eventid"
      <4>1. e \in 1..Len(data)
        BY <2>5, <3>1
      <4>2. PICK k \in (1..N) \ lost : data[e].kind = sent[k].kind
        BY <2>9, <4>1
      <4> QED
        BY <3>1, <4>2
    <3>3. k = 1
      <4>1. PICK d \in 1..N : Places(sent, N, "eventid") = {d}
        BY <2>2 DEF WholeUpTo
      <4>2. 1 \in Places(sent, N, "eventid") /\ k \in Places(sent, N, "eventid")
        BY <2>2, <3>2 DEF Places
      <4> QED
        BY <4>1, <4>2
    <3> QED
      BY <3>2, <3>3
  <2>15. data[1].counter = sent[1].counter
    <3>1. data[1] = came[1]
      BY <2>2, <2>7, <2>8, <2>14 DEF Left
    <3> QED
      BY <2>2, <2>3, <3>1
  <2>16. data[n].counter = sent[N].counter
    <3>1. data[n] = came[N]
      BY <2>12, <2>13
    <3> QED
      BY <2>2, <2>3, <3>1
  <2>17. PICK c \in 1..7 : c = Cardinality(lost) /\ n = N - c
    <3>1. lost \cap (1..N) = lost
      BY <2>3
    <3>2. Len(data) = N - Cardinality(lost)
      BY <2>7, <2>8, <3>1 DEF Left
    <3>3. Cardinality(lost) \in 1..7
      BY DEF FrameCounterCycle
    <3> QED
      BY <2>13, <3>2, <3>3
  <2>18. data[n].counter = (data[1].counter + (n - 1)) % FrameCounterCycle
    <3>1. \A k \in 2..n : Follows(data, k)
      BY <2>4 DEF WholeUpTo
    <3> QED
      BY <2>5, <3>1, CounterRun
  <2>19. sent[N].counter = (sent[1].counter + (N - 1)) % FrameCounterCycle
    <3>1. \A k \in 2..N : Follows(sent, k)
      BY <2>2 DEF WholeUpTo
    <3> QED
      BY <2>2, <3>1, CounterRun
  <2>20. PICK f \in 0..7 : f = sent[1].counter
    <3>1. sent[1] \in Words
      BY <2>2
    <3> QED
      BY <3>1 DEF Words, FrameCounterCycle
  <2>21. (f + (n - 1)) % 8 = (f + (N - 1)) % 8
    BY <2>15, <2>16, <2>18, <2>19, <2>20 DEF FrameCounterCycle
  <2>22. PICK x \in Nat : x = f + (n - 1)
    BY <2>5, <2>20
  <2>23. f + (N - 1) = x + c
    <3>1. n \in Int /\ N \in Int /\ c \in Int /\ f \in Int /\ x \in Int
      BY <2>2, <2>5, <2>17, <2>20, <2>22
    <3>2. n = N - c
      BY <2>17
    <3> HIDE DEF N
    <3> QED
      BY <2>22, <3>1, <3>2
  <2>24. x % 8 = (x + c) % 8
    BY <2>21, <2>22, <2>23
  <2> QED
    BY <2>17, <2>22, <2>24, CycleShows
<1> QED
  BY <1>1, Invariant, PTL

-------------------------------------------------------------------------------
(* A change shows in the lower half of the checksum. *)

LEMMA SumShows ==
  ASSUME NEW A \in Seq(Nat), NEW B \in Seq(Nat), Len(A) = Len(B),
         NEW k \in 1..Len(A), A[k] % FieldRange # B[k] % FieldRange,
         \A j \in 1..Len(A) : j # k => A[j] = B[j]
  PROVE  Sum(A) % FieldRange # Sum(B) % FieldRange
<1> DEFINE N == Len(A)
           F == FieldRange
           W == WordModulus
<1>1. PICK a : IsSumming(a, A)
  BY SummingExists
<1>2. PICK b : IsSumming(b, B)
  BY SummingExists
<1>3. /\ N \in Nat /\ F \in Nat \ {0} /\ W \in Nat \ {0}
      /\ \A n \in 1..N : A[n] \in Nat /\ B[n] \in Nat
  <2>1. \A n \in 1..N : A[n] \in Nat /\ B[n] \in Nat
    OBVIOUS
  <2>2. N \in Nat
    OBVIOUS
  <2> QED
    BY <2>1, <2>2, RangesType
<1>4. PICK q \in Nat : W = q * F
  BY RangesType
<1>5. ASSUME NEW n \in 0..N
      PROVE  a[n] \in Nat /\ b[n] \in Nat
  <2>1. a[n] \in 0..(W - 1) /\ b[n] \in 0..(W - 1)
    BY <1>1, <1>2 DEF IsSumming
  <2> QED
    BY <1>3, <2>1
<1>6. ASSUME NEW n \in 1..N
      PROVE  /\ a[n] = (a[n - 1] + A[n]) % W /\ b[n] = (b[n - 1] + B[n]) % W
             /\ a[n] % F = (a[n - 1] + A[n]) % F /\ b[n] % F = (b[n - 1] + B[n]) % F
  <2>1. a[n] = (a[n - 1] + A[n]) % W /\ b[n] = (b[n - 1] + B[n]) % W
    BY <1>1, <1>2 DEF IsSumming
  <2>2. n - 1 \in 0..N
    BY <1>3
  <2>3. PICK x \in Nat, y \in Nat : x = a[n - 1] + A[n] /\ y = b[n - 1] + B[n]
    <3>1. a[n - 1] \in Nat /\ b[n - 1] \in Nat /\ A[n] \in Nat /\ B[n] \in Nat
      BY <1>3, <1>5, <2>2
    <3>2. PICK e \in Nat, f \in Nat, g \in Nat, h \in Nat :
            e = a[n - 1] /\ f = A[n] /\ g = b[n - 1] /\ h = B[n]
      BY <3>1
    <3>3. e + f \in Nat /\ g + h \in Nat
      OBVIOUS
    <3> QED
      BY <3>2, <3>3
  <2> HIDE DEF F, W
  <2>4. (x % W) % F = x % F /\ (y % W) % F = y % F
    BY <1>3, <1>4, ModMod, ZenonT(120)
  <2> QED
    BY <2>1, <2>3, <2>4
<1> DEFINE Apart(n) == IF n < k THEN a[n] = b[n] ELSE a[n] % F # b[n] % F
           S == {n \in 0..N : Apart(n)}
<1>7. 0 \in S
  <2>1. a[0] = 0 /\ b[0] = 0
    BY <1>1, <1>2 DEF IsSumming
  <2>2. 0 < k /\ 0 \in 0..N
    BY <1>3
  <2> QED
    BY <2>1, <2>2
<1>8. ASSUME NEW n \in 0..(N - 1), n \in S
      PROVE  n + 1 \in S
  <2>1. n + 1 \in 1..N /\ n + 1 \in 0..N /\ (n + 1) - 1 = n /\ n \in 0..N
    BY <1>3
  <2>2. PICK an \in Nat, bn \in Nat, x \in Nat, y \in Nat :
          an = a[n] /\ bn = b[n] /\ x = A[n + 1] /\ y = B[n + 1]
    BY <1>3, <1>5, <2>1
  <2>3. /\ a[n + 1] = (an + x) % W /\ b[n + 1] = (bn + y) % W
        /\ a[n + 1] % F = (an + x) % F /\ b[n + 1] % F = (bn + y) % F
    BY <1>6, <2>1, <2>2
  <2>4. Apart(n)
    BY <1>8
  <2>5. CASE n + 1 < k
    <3>1. an = bn /\ x = y
      BY <2>1, <2>2, <2>4, <2>5
    <3> QED
      BY <2>1, <2>3, <2>5, <3>1
  <2>6. CASE n + 1 = k
    <3>1. an = bn /\ x % F # y % F
      BY <2>1, <2>2, <2>4, <2>6
    <3> HIDE DEF F, W
    <3>2. (an + x) % F # (an + y) % F
      <4>1. Cancels(an, x, y, F)
        BY <1>3, ModCancel
      <4> QED
        BY <3>1, <4>1 DEF Cancels
    <3>3. a[n + 1] % F # b[n + 1] % F /\ ~(n + 1 < k)
      BY <2>3, <2>6, <3>1, <3>2
    <3> QED
      BY <2>1, <3>3
  <2>7. CASE n + 1 > k
    <3>1. an % F # bn % F /\ x = y
      BY <2>1, <2>2, <2>4, <2>7
    <3> HIDE DEF F, W
    <3>2. (x + an) % F # (x + bn) % F
      <4>1. Cancels(x, an, bn, F)
        BY <1>3, ModCancel
      <4> QED
        BY <3>1, <4>1 DEF Cancels
    <3>3. x + an = an + x /\ x + bn = bn + x
      OBVIOUS
    <3>4. a[n + 1] % F # b[n + 1] % F /\ ~(n + 1 < k)
      BY <2>3, <2>7, <3>1, <3>2, <3>3
    <3> QED
      BY <2>1, <3>4
  <2> QED
    BY <2>1, <2>5, <2>6, <2>7
<1>9. N \in S
  <2>1. 0..N \subseteq S
    <3> HIDE DEF S, N
    <3> QED
      BY <1>3, <1>7, <1>8, UpTo
  <2> QED
    BY <1>3, <2>1, SMTT(30)
<1>10. a[N] % F # b[N] % F
  BY <1>9
<1> QED
  BY <1>1, <1>2, <1>10 DEF IsSumming

LEMMA ChecksumRemainder ==
  ASSUME NEW words \in Seq(Words), Len(words) >= 1
  PROVE  ChecksumOf(words) % FieldRange = Sum(Numbers(Front(words))) % FieldRange
<1> DEFINE N == Len(words) - 1
           front == Numbers(Front(words))
           weighted == [k \in DOMAIN front |-> (Len(words) - k) * front[k]]
<1>1. front \in Seq(Nat) /\ Len(front) = N
  BY FrontNumbers
<1> HIDE DEF front
<1>2. weighted \in Seq(Nat)
  <2>1. \A k \in 1..N : (Len(words) - k) \in Nat /\ front[k] \in Nat
    BY <1>1
  <2>2. \A k \in 1..N : (Len(words) - k) * front[k] \in Nat
    BY <2>1
  <2>3. weighted = [k \in 1..N |-> (Len(words) - k) * front[k]]
    BY <1>1
  <2>4. weighted \in [1..N -> Nat]
    BY <2>2, <2>3
  <2>5. N \in Nat
    OBVIOUS
  <2> HIDE DEF weighted, N
  <2> QED
    BY <2>4, <2>5
<1> HIDE DEF weighted
<1>3. ASSUME NEW numbers \in Seq(Nat)
      PROVE  Sum(numbers) \in Nat
  <2>1. PICK s : IsSumming(s, numbers)
    BY SummingExists
  <2>2. s[Len(numbers)] \in 0..(WordModulus - 1)
    BY <2>1 DEF IsSumming
  <2> QED
    BY <2>1, <2>2, RangesType DEF IsSumming
<1>4. PICK H \in Nat, L \in Nat : H = Sum(weighted) /\ L = Sum(front)
  BY <1>1, <1>2, <1>3
<1>5. ChecksumOf(words) = ComputeFletcherChecksum(H, L)
  BY <1>4, Zenon DEF ChecksumOf, weighted, front
<1>6. PICK d \in Int : ComputeFletcherChecksum(H, L) = d * FieldRange + (L % FieldRange)
  <2>1. /\ WordBits - (FieldBits - KeptBits) \in Nat /\ KeptBits \in Nat
    BY WidthsAssumption
  <2>2. /\ PowerOf2[WordBits - (FieldBits - KeptBits)] \in Nat \ {0}
        /\ PowerOf2[KeptBits] \in Nat \ {0}
    BY <2>1, PowerEquation DEF ArePowers
  <2>3. H \div PowerOf2[WordBits - (FieldBits - KeptBits)] \in Int
    BY <2>2
  <2>4. (H \div FieldRange) % PowerOf2[KeptBits] \in Int
    BY <2>2, RangesType
  <2>5. PICK top \in Int, middle \in Int, kept \in Int :
          /\ top = H \div PowerOf2[WordBits - (FieldBits - KeptBits)]
          /\ middle = (H \div FieldRange) % PowerOf2[KeptBits]
          /\ kept = PowerOf2[KeptBits]
    BY <2>2, <2>3, <2>4
  <2>6. top * kept + middle \in Int
    OBVIOUS
  <2>7. ComputeFletcherChecksum(H, L) = (top * kept + middle) * FieldRange + (L % FieldRange)
    BY <2>5, Zenon DEF ComputeFletcherChecksum
  <2> QED
    BY <2>6, <2>7
<1>7. (FieldRange * d + (L % FieldRange)) % FieldRange = L % FieldRange
  <2>1. L % FieldRange \in 0..(FieldRange - 1)
    BY RangesType, Remainder
  <2> QED
    BY <2>1, RangesType, RemainderIs
<1>8. d * FieldRange = FieldRange * d
  BY RangesType
<1> QED
  BY <1>4, <1>5, <1>6, <1>7, <1>8 DEF front

LEMMA NoneLost ==
  ASSUME NEW E, NEW words \in Seq(E)
  PROVE  Without(words, {}) = words
<1> DEFINE N == Len(words)
<1>1. PICK s : IsRemoving(s, words, {}, E)
  BY RemovingExists
<1>2. /\ \A n \in 0..N : s[n] \in Seq(E)
      /\ s[0] = <<>>
      /\ \A n \in 1..N : s[n] = Append(s[n - 1], words[n])
      /\ Without(words, {}) = s[N] /\ N \in Nat
  <2>1. N \in Nat /\ Without(words, {}) = s[N] /\ s[0] = <<>>
    BY <1>1 DEF IsRemoving
  <2>2. \A n \in 0..N : s[n] \in Seq(E)
    BY <1>1 DEF IsRemoving
  <2>3. \A n \in 1..N : s[n] = Append(s[n - 1], words[n])
    BY <1>1 DEF IsRemoving
  <2> QED
    BY <2>1, <2>2, <2>3
<1> DEFINE S == {n \in 0..N : Len(s[n]) = n /\ \A p \in 1..n : s[n][p] = words[p]}
<1>3. 0 \in S
  BY <1>2
<1>4. ASSUME NEW n \in 0..(N - 1), n \in S
      PROVE  n + 1 \in S
  <2>1. n + 1 \in 1..N /\ n + 1 \in 0..N /\ (n + 1) - 1 = n /\ n \in 0..N
    BY <1>2
  <2>2. s[n + 1] = Append(s[n], words[n + 1])
    BY <1>2, <2>1
  <2>3. s[n] \in Seq(E) /\ words[n + 1] \in E
    BY <1>2, <2>1
  <2>4. Len(s[n]) = n /\ \A p \in 1..n : s[n][p] = words[p]
    BY <1>4
  <2>5. /\ Len(s[n + 1]) = n + 1 /\ s[n + 1][n + 1] = words[n + 1]
        /\ \A p \in 1..n : s[n + 1][p] = s[n][p]
    BY <2>2, <2>3, <2>4, AppendProperties
  <2>6. 1..(n + 1) = (1..n) \cup {n + 1}
    BY <2>1
  <2> QED
    BY <2>1, <2>4, <2>5, <2>6
<1>5. N \in S
  <2>1. 0..N \subseteq S
    <3> HIDE DEF S, N
    <3> QED
      BY <1>2, <1>3, <1>4, UpTo
  <2>2. N \in 0..N
    BY <1>2
  <2> QED
    BY <2>1, <2>2
<1>6. s[N] \in Seq(E) /\ Len(s[N]) = N /\ \A p \in 1..N : s[N][p] = words[p]
  BY <1>2, <1>5
<1>7. s[N] = words
  BY <1>6
<1> QED
  BY <1>2, <1>7

(* A change of one word in its low bits is always found: a word under the  *)
(* checksum changes the lower half of what is calculated, the checksum     *)
(* word what it is compared with.                                          *)
THEOREM ChangeIsFound == Spec => []ChangeFound
<1>1. IInv => ChangeFound
  <2> SUFFICES ASSUME IInv, Constructed, Whole(sent), Last(sent).content = ChecksumOf(sent),
                      fault.lost = {},
                      NEW k \in DOMAIN sent, DOMAIN fault.changed = {k},
                      fault.changed[k] % FieldRange # sent[k].content % FieldRange,
                      valid
               PROVE  FALSE
    BY Zenon DEF ChangeFound
  <2> DEFINE N == Len(sent)
             F == FieldRange
  <2>1. Origin
    BY DEF IInv
  <2>2. /\ sent \in Seq(Words) /\ N \in Nat /\ N \in 1..N /\ k \in 1..N
        /\ Last(sent) = sent[N] /\ WholeUpTo(sent, N)
    BY <2>1, WholeSent, CameIs
  <2>3. data = Came(sent, fault.changed) /\ data \in Seq(Words) /\ Len(data) = N
    BY <2>1, CameIs, NoneLost
  <2>4. \A j \in 1..N : /\ data[j].kind = sent[j].kind
                        /\ j = k => data[j].content = fault.changed[k]
                        /\ j # k => data[j] = sent[j]
    <3> TAKE j \in 1..N
    <3>1. LET w == Came(sent, fault.changed)[j]
          IN  /\ w.kind = sent[j].kind
              /\ j \in DOMAIN fault.changed => w.content = fault.changed[j]
              /\ j \notin DOMAIN fault.changed => w = sent[j]
      BY <2>1, CameIs
    <3> QED
      BY <2>3, <3>1
  <2>5. PICK n \in 1..Len(data) : WholeUpTo(data, n) /\ data[n].content = ChecksumOf(data)
    BY ValidIs, EndsAtChecksum, ChecksumOfWhole
  <2>6. n = N
    <3>1. n \in 1..N /\ sent[n].kind = "crc"
      BY <2>3, <2>4, <2>5 DEF WholeUpTo, Places
    <3> QED
      BY <2>2, <3>1 DEF WholeUpTo, Places
  <2>7. data[N].content = ChecksumOf(data) /\ sent[N].content = ChecksumOf(sent)
    BY <2>2, <2>5, <2>6
  <2> DEFINE A == Numbers(Front(data))
             B == Numbers(Front(sent))
  <2>8. /\ A \in Seq(Nat) /\ Len(A) = N - 1
        /\ B \in Seq(Nat) /\ Len(B) = N - 1
        /\ \A j \in 1..(N - 1) : A[j] = Number(data[j]) /\ B[j] = Number(sent[j])
    <3>1. Len(data) >= 1 /\ Len(sent) >= 1
      BY <2>2, <2>3
    <3>2. /\ A \in Seq(Nat) /\ Len(A) = Len(data) - 1
          /\ \A j \in 1..(Len(data) - 1) : A[j] = Numbers(data)[j]
      BY <2>3, <3>1, FrontNumbers
    <3>3. /\ B \in Seq(Nat) /\ Len(B) = Len(sent) - 1
          /\ \A j \in 1..(Len(sent) - 1) : B[j] = Numbers(sent)[j]
      BY <2>2, <3>1, FrontNumbers
    <3>4. /\ \A j \in 1..Len(data) : Numbers(data)[j] = Number(data[j])
          /\ \A j \in 1..Len(sent) : Numbers(sent)[j] = Number(sent[j])
      BY <2>2, <2>3, NumbersType
    <3>5. \A j \in 1..(N - 1) : j \in 1..N
      BY <2>2
    <3> HIDE DEF A, B
    <3> QED
      BY <2>3, <3>2, <3>3, <3>4, <3>5
  <2>9. \A j \in 1..(N - 1) : j # k => A[j] = B[j]
    <3>1. \A j \in 1..(N - 1) : j \in 1..N
      BY <2>2
    <3> HIDE DEF A, B
    <3> QED
      BY <2>4, <2>8, <3>1
  <2>10. CASE k = N
    <3>1. \A j \in 1..(N - 1) : j # k
      BY <2>2, <2>10
    <3>2. A = B
      <4> HIDE DEF A, B
      <4>1. A = [j \in 1..(N - 1) |-> A[j]] /\ B = [j \in 1..(N - 1) |-> B[j]]
        BY <2>8
      <4> QED
        BY <2>9, <3>1, <4>1
    <3>3. ChecksumOf(data) = ChecksumOf(sent)
      BY <2>3, <3>2, Zenon DEF ChecksumOf
    <3>4. data[N].content = fault.changed[k]
      BY <2>2, <2>4, <2>10
    <3> QED
      BY <2>7, <2>10, <3>3, <3>4
  <2>11. CASE k # N
    <3>1. k \in 1..(N - 1)
      BY <2>2, <2>11
    <3>2. ChecksumOf(data) = ChecksumOf(sent)
      BY <2>2, <2>4, <2>7, <2>11
    <3>3. A[k] % F # B[k] % F
      <4>1. data[k] \in Words /\ sent[k] \in Words
        BY <2>2, <2>3
      <4>2. Number(data[k]) % F = data[k].content % F /\ Number(sent[k]) % F = sent[k].content % F
        BY <4>1, NumberType
      <4>3. data[k].content = fault.changed[k]
        BY <2>2, <2>4
      <4>4. A[k] = Number(data[k]) /\ B[k] = Number(sent[k])
        BY <2>8, <3>1
      <4> QED
        BY <4>2, <4>3, <4>4
    <3>4. Sum(A) % F # Sum(B) % F
      <4> HIDE DEF A, B
      <4>1. Len(A) = Len(B) /\ k \in 1..Len(A) /\ \A j \in 1..Len(A) : j # k => A[j] = B[j]
        BY <2>8, <2>9, <3>1
      <4> QED
        BY <2>8, <3>3, <4>1, SumShows
    <3>5. ChecksumOf(data) % F = Sum(A) % F /\ ChecksumOf(sent) % F = Sum(B) % F
      <4>1. Len(data) >= 1 /\ Len(sent) >= 1
        BY <2>2, <2>3
      <4> QED
        BY <2>2, <2>3, <4>1, ChecksumRemainder
    <3> QED
      BY <3>2, <3>4, <3>5
  <2> QED
    BY <2>10, <2>11
<1> QED
  BY <1>1, Invariant, PTL

===============================================================================
