---------------------------- MODULE DAQFormats_proof ----------------------------
(***************************************************************************)
(* Lemmas about reading and writing the containers of DAQFormats, for any  *)
(* sizes of headers and any bytes: what both constructors make of any      *)
(* buffer, what raw() lays out, when the one reads back the other, and     *)
(* when raw() returns the bytes that were read.                            *)
(***************************************************************************)
EXTENDS DAQFormats, Recursion, SequenceTheorems

-------------------------------------------------------------------------------
(* The loop over fragments.  Its rounds are sets of states: one state, or  *)
(* none from the round on in which a fragment does not decode.             *)

AfterRound(states) ==
  {AfterFragment(state) : state \in {s \in states : FragmentDecodes(s.left, TRUE)}}

IsLoading(round, bytes, count) ==
  /\ LoadLoop(bytes, count) = round[count]
  /\ round[0] = {[decoded |-> <<>>, left |-> bytes]}
  /\ \A n \in 1..count : round[n] = AfterRound(round[n - 1])

LEMMA LoadRounds ==
  ASSUME NEW bytes, NEW count \in Nat
  PROVE  \E round : IsLoading(round, bytes, count)
<1> DEFINE start == {[decoded |-> <<>>, left |-> bytes]}
           round[n \in 0..count] ==
             IF n = 0 THEN {[decoded |-> <<>>, left |-> bytes]}
             ELSE {AfterFragment(state) :
                     state \in {s \in round[n - 1] : FragmentDecodes(s.left, TRUE)}}
           Rounds(m, g) == g = [n \in 0..m |-> IF n = 0 THEN start ELSE AfterRound(g[n - 1])]
           S == {m \in 0..count : \E g : Rounds(m, g)}
<1>1. LoadLoop(bytes, count) = round[count]
  BY Zenon DEF LoadLoop
<1>2. round = CHOOSE g : Rounds(count, g)
  BY Zenon DEF round, AfterRound
<1>3. 0 \in S
  <2>1. Rounds(0, [n \in 0..0 |-> start])
    OBVIOUS
  <2> HIDE DEF Rounds
  <2> QED
    BY <2>1
<1>4. ASSUME NEW m \in 0..(count - 1), m \in S
      PROVE  m + 1 \in S
  <2>1. PICK g : Rounds(m, g)
    BY <1>4
  <2> DEFINE h == [n \in 0..(m + 1) |-> IF n = m + 1 THEN AfterRound(g[m]) ELSE g[n]]
  <2> HIDE DEF start
  <2>2. ASSUME NEW n \in 0..(m + 1)
        PROVE  h[n] = IF n = 0 THEN start ELSE AfterRound(h[n - 1])
    <3>1. CASE n = m + 1
      BY <3>1
    <3>2. CASE n # m + 1
      BY <2>1, <3>2
    <3> QED
      BY <3>1, <3>2
  <2>3. Rounds(m + 1, h)
    <3>1. h = [n \in 0..(m + 1) |-> h[n]]
      OBVIOUS
    <3> HIDE DEF h
    <3> QED
      BY <2>2, <3>1
  <2> HIDE DEF Rounds
  <2> QED
    BY <2>3
<1>5. \E g : Rounds(count, g)
  <2> HIDE DEF S
  <2>1. 0..count \subseteq S
    BY <1>3, <1>4, UpTo
  <2> QED
    BY <2>1 DEF S
<1>6. Rounds(count, round)
  <2> HIDE DEF round, Rounds
  <2> QED
    BY <1>2, <1>5, Zenon
<1>7. round[0] = start /\ \A n \in 1..count : round[n] = AfterRound(round[n - 1])
  <2> HIDE DEF round, start
  <2> QED
    BY <1>6
<1>8. IsLoading(round, bytes, count)
  <2> HIDE DEF round
  <2> QED
    BY <1>1, <1>7 DEF IsLoading
<1> QED
  BY <1>8, Zenon

(* Two states of a round are the same state. *)
LEMMA OneState ==
  ASSUME NEW bytes, NEW count \in Nat
  PROVE  \A a, b \in LoadLoop(bytes, count) : a = b
<1>0. PICK round : IsLoading(round, bytes, count)
  BY LoadRounds
<1>1. /\ LoadLoop(bytes, count) = round[count]
      /\ round[0] = {[decoded |-> <<>>, left |-> bytes]}
      /\ \A n \in 1..count : round[n] = AfterRound(round[n - 1])
  BY <1>0 DEF IsLoading
<1> DEFINE S == {n \in 0..count : \A a, b \in round[n] : a = b}
<1>2. 0 \in S
  BY <1>1
<1>3. ASSUME NEW n \in 0..(count - 1), n \in S
      PROVE  n + 1 \in S
  <2>1. n + 1 \in 1..count /\ (n + 1) - 1 = n
    OBVIOUS
  <2>2. round[n + 1] = AfterRound(round[n])
    BY <1>1, <2>1
  <2>3. ASSUME NEW a \in round[n + 1], NEW b \in round[n + 1]
        PROVE  a = b
    <3>1. PICK s \in round[n] : a = AfterFragment(s)
      BY <2>2 DEF AfterRound
    <3>2. PICK t \in round[n] : b = AfterFragment(t)
      BY <2>2 DEF AfterRound
    <3>3. s = t
      BY <1>3
    <3> QED
      BY <3>1, <3>2, <3>3
  <2> QED
    BY <2>1, <2>3
<1>4. 0..count \subseteq S
  <2> HIDE DEF S
  <2> QED
    BY <1>2, <1>3, UpTo
<1> QED
  BY <1>1, <1>4

(* A header and a payload make at most one event. *)
LEMMA OneLoaded ==
  ASSUME NEW header, header.fragment_count \in Nat, NEW payload
  PROVE  \A d, e \in LoadedEvents(header, payload) : d = e /\ d.header = header
BY OneState DEF LoadedEvents

-------------------------------------------------------------------------------
(* raw(): keys in order. *)

Ascending(ids, n) == \A i, j \in 1..n : i < j => KeyOrder(ids[i], ids[j])

(* The keys of a map, each once, in ascending order. *)
LEMMA KeysOnce ==
  ASSUME NEW S, IsFiniteSet(S), S \subseteq Int
  PROVE  /\ Cardinality(S) \in Nat
         /\ KeysInOrder(S) \in [1..Cardinality(S) -> S]
         /\ \A i, j \in 1..Cardinality(S) : i # j => KeysInOrder(S)[i] # KeysInOrder(S)[j]
         /\ S = {KeysInOrder(S)[i] : i \in 1..Cardinality(S)}
         /\ Ascending(KeysInOrder(S), Cardinality(S))
<1> DEFINE N == Cardinality(S)
           Q == {T \in SUBSET S :
                   \E ids \in [1..Cardinality(T) -> T] : Ascending(ids, Cardinality(T))}
<1>1. ASSUME NEW T \in SUBSET S, \A x \in T : T \ {x} \in Q
      PROVE  T \in Q
  <2>1. IsFiniteSet(T) /\ Cardinality(T) \in Nat
    BY FS_Subset, FS_CardinalityType
  <2>2. CASE T = {}
    <3>1. Cardinality(T) = 0
      BY <2>2, FS_EmptySet
    <3>2. [i \in 1..0 |-> 0] \in [1..0 -> T]
      OBVIOUS
    <3>3. Ascending([i \in 1..0 |-> 0], 0)
      BY DEF Ascending
    <3> QED
      BY <3>1, <3>2, <3>3
  <2>3. CASE T # {}
    <3>1. PICK x \in T : \A y \in T : x >= y
      BY <2>1, <2>3, GreatestExists
    <3>2. Cardinality(T \ {x}) = Cardinality(T) - 1 /\ Cardinality(T) # 0
      BY <2>1, FS_RemoveElement, FS_EmptySet
    <3> DEFINE n == Cardinality(T)
    <3>3. PICK ids \in [1..(n - 1) -> T \ {x}] : Ascending(ids, n - 1)
      BY <1>1, <3>2
    <3> DEFINE more == [i \in 1..n |-> IF i = n THEN x ELSE ids[i]]
    <3>4. more \in [1..n -> T]
      BY <2>1, <3>2, <3>3
    <3>5. ASSUME NEW i \in 1..n, NEW j \in 1..n, i < j
          PROVE  KeyOrder(more[i], more[j])
      <4>1. i \in 1..(n - 1) /\ ids[i] \in T \ {x} /\ more[i] = ids[i]
        BY <2>1, <3>2, <3>3, <3>5
      <4>2. CASE j = n
        <5>1. more[j] = x /\ x >= ids[i] /\ x # ids[i] /\ x \in Int /\ ids[i] \in Int
          BY <3>1, <4>1, <4>2
        <5> QED
          BY <4>1, <5>1 DEF KeyOrder
      <4>3. CASE j # n
        <5>1. j \in 1..(n - 1) /\ more[j] = ids[j]
          BY <2>1, <3>2, <4>3
        <5> QED
          BY <3>3, <3>5, <4>1, <5>1 DEF Ascending
      <4> QED
        BY <4>2, <4>3
    <3>6. Ascending(more, n)
      BY <3>5 DEF Ascending
    <3> HIDE DEF more
    <3> QED
      BY <3>4, <3>6
  <2> QED
    BY <2>2, <2>3
<1>2. S \in Q
  <2> HIDE DEF Q
  <2> QED
    BY <1>1, AllSubsets
<1> DEFINE ids == KeysInOrder(S)
<1>3. ids \in [1..N -> S] /\ \A i, j \in 1..N : i < j => KeyOrder(ids[i], ids[j])
  BY <1>2 DEF KeysInOrder, Ascending
<1>4. N \in Nat
  BY FS_CardinalityType
<1> HIDE DEF ids
<1>5. ASSUME NEW i \in 1..N, NEW j \in 1..N, i # j
      PROVE  ids[i] # ids[j]
  <2>1. ids[i] \in Int /\ ids[j] \in Int
    BY <1>3
  <2>2. i < j \/ j < i
    BY <1>4, <1>5
  <2> QED
    BY <1>3, <2>1, <2>2 DEF KeyOrder
<1>6. S = {ids[i] : i \in 1..N}
  <2>1. ids \in Injection(1..N, S)
    BY <1>3, <1>5 DEF Injection, IsInjective
  <2>2. Cardinality(1..N) = N
    BY <1>4, FS_Interval
  <2>3. ids \in Surjection(1..N, S)
    BY <2>1, <2>2, FS_Injection
  <2> QED
    BY <1>3, <2>3 DEF Surjection
<1> QED
  BY <1>3, <1>4, <1>5, <1>6 DEF ids, Ascending

-------------------------------------------------------------------------------
(* What raw() writes of a fragment, and what the constructor makes of it.  *)

Cells(H) == {TailByte} \cup DataBytes \cup {[kind |-> "header", header |-> h] : h \in H}

(* A fragment as this build makes it, with a header of H. *)
Written(f, H) ==
  /\ f \in [header : H, payload : Seq(Cells(H))]
  /\ f.header.marker = FragmentMarker
  /\ f.header.version_number = FragmentVersionLatest
  /\ f.header.header_size = FragmentHeaderSize
  /\ f.header.payload_size = Len(f.payload) % SizeModulus

(* The bytes it has when written; size() says so if they are fewer than    *)
(* 32 bits count.                                                          *)
RawSize(f) == FragmentHeaderSize + Len(f.payload)

LEMMA SizeModuli ==
  /\ SizeModulus \in Nat \ {0} /\ HeaderSizeModulus \in Nat \ {0}
  /\ FragmentHeaderSize < SizeModulus /\ EventHeaderSize < SizeModulus
  /\ MaxFilePayload < SizeModulus
BY SizesAssumption

LEMMA ModSmall ==
  ASSUME NEW x \in Nat, NEW m \in Nat, x < m
  PROVE  x % m = x
OBVIOUS

LEMMA WrittenSize ==
  ASSUME NEW H, NEW f, Written(f, H), RawSize(f) < SizeModulus
  PROVE  f.header.payload_size = Len(f.payload) /\ FragmentSize(f) = RawSize(f)
<1>1. PICK l \in Nat : l = Len(f.payload)
  BY LenProperties DEF Written
<1>2. SizeModulus \in Nat /\ FragmentHeaderSize \in Nat
  BY SizesAssumption
<1>3. l % SizeModulus = l /\ (FragmentHeaderSize + l) % SizeModulus = FragmentHeaderSize + l
  <2>1. FragmentHeaderSize + l < SizeModulus
    BY <1>1 DEF RawSize
  <2>2. l < SizeModulus /\ FragmentHeaderSize + l \in Nat
    BY <1>2, <2>1
  <2> QED
    BY <1>2, <2>1, <2>2, ModSmall
<1>4. f.header.header_size = FragmentHeaderSize /\ f.header.payload_size = l
  BY <1>1, <1>3 DEF Written
<1> QED
  BY <1>1, <1>3, <1>4 DEF FragmentSize, RawSize

LEMMA HeaderCells ==
  ASSUME NEW H, NEW h \in H, NEW size \in Nat \ {0}
  PROVE  /\ HeaderBytes(h, size) \in Seq(Cells(H))
         /\ Len(HeaderBytes(h, size)) = size
         /\ HeaderBytes(h, size)[1] = [kind |-> "header", header |-> h]
<1> DEFINE first == <<[kind |-> "header", header |-> h]>>
           tail == [i \in 1..(size - 1) |-> TailByte]
<1>1. first \in Seq(Cells(H)) /\ Len(first) = 1 /\ first[1] = [kind |-> "header", header |-> h]
  BY DEF Cells
<1>2. tail \in Seq(Cells(H)) /\ Len(tail) = size - 1
  <2>1. size - 1 \in Nat /\ TailByte \in Cells(H)
    BY DEF Cells
  <2> QED
    BY <2>1
<1>3. HeaderBytes(h, size) = first \o tail
  BY DEF HeaderBytes
<1> HIDE DEF first, tail
<1>4. first \o tail \in Seq(Cells(H))
  BY <1>1, <1>2, ConcatProperties
<1>5. Len(first \o tail) = size /\ (first \o tail)[1] = first[1]
  <2>1. PICK D, s, t, u : D = Cells(H) /\ s = first /\ t = tail /\ u = first \o tail
    OBVIOUS
  <2>2. s \in Seq(D) /\ t \in Seq(D) /\ u = s \o t
    BY <1>1, <1>2, <2>1
  <2>3. Len(u) = Len(s) + Len(t) /\ \A k \in 1..Len(s) : u[k] = s[k]
    BY <2>2, Concatenated
  <2>4. Len(u) = size
    BY <1>1, <1>2, <2>1, <2>3
  <2>5. Len(s) = 1
    BY <1>1, <2>1
  <2>6. u[1] = s[1]
    BY <2>3, <2>5
  <2> QED
    BY <2>1, <2>4, <2>6
<1> QED
  BY <1>1, <1>3, <1>4, <1>5

LEMMA RawOfWritten ==
  ASSUME NEW H, NEW f, Written(f, H)
  PROVE  /\ RawFragment(f) \in Seq(Cells(H))
         /\ RawSize(f) \in Nat
         /\ RawSize(f) = FragmentHeaderSize + Len(f.payload)
         /\ RawSize(f) >= FragmentHeaderSize
         /\ Len(RawFragment(f)) = RawSize(f)
         /\ RawFragment(f)[1] = [kind |-> "header", header |-> f.header]
         /\ \A k \in 1..Len(f.payload) : RawFragment(f)[FragmentHeaderSize + k] = f.payload[k]
<1>1. f.header \in H /\ f.payload \in Seq(Cells(H)) /\ Len(f.payload) \in Nat
  <2>1. f.header \in H /\ f.payload \in Seq(Cells(H))
    BY DEF Written
  <2> QED
    BY <2>1, LenProperties
<1>2. FragmentHeaderSize \in Nat \ {0}
  BY SizesAssumption
<1> DEFINE hb == HeaderBytes(f.header, FragmentHeaderSize)
<1>3. /\ hb \in Seq(Cells(H)) /\ Len(hb) = FragmentHeaderSize
      /\ hb[1] = [kind |-> "header", header |-> f.header]
  BY <1>1, <1>2, HeaderCells
<1>4. RawFragment(f) = hb \o f.payload
  BY DEF RawFragment
<1>5. RawSize(f) = FragmentHeaderSize + Len(f.payload)
  BY DEF RawSize
<1> HIDE DEF hb
<1>6. RawFragment(f) \in Seq(Cells(H))
  BY <1>1, <1>3, <1>4, ConcatProperties
<1>7. /\ Len(RawFragment(f)) = Len(hb) + Len(f.payload)
      /\ \A k \in 1..Len(hb) : RawFragment(f)[k] = hb[k]
      /\ \A k \in 1..Len(f.payload) : RawFragment(f)[Len(hb) + k] = f.payload[k]
  <2>1. PICK D, s, t, u : D = Cells(H) /\ s = hb /\ t = f.payload /\ u = RawFragment(f)
    OBVIOUS
  <2>2. s \in Seq(D) /\ t \in Seq(D) /\ u = s \o t
    BY <1>1, <1>3, <1>4, <2>1
  <2>3. /\ Len(u) = Len(s) + Len(t)
        /\ \A k \in 1..Len(s) : u[k] = s[k]
        /\ \A k \in 1..Len(t) : u[Len(s) + k] = t[k]
    BY <2>2, Concatenated
  <2> QED
    BY <2>1, <2>3
<1> QED
  BY <1>1, <1>2, <1>3, <1>5, <1>6, <1>7

LEMMA DecodeWritten ==
  ASSUME NEW H, NEW f, Written(f, H),
         NEW bytes \in Seq(Cells(H)), Len(bytes) >= RawSize(f), Len(bytes) < SizeModulus,
         \A k \in 1..RawSize(f) : bytes[k] = RawFragment(f)[k]
  PROVE  FragmentDecodes(bytes, TRUE) /\ DecodedFragment(bytes) = f
<1>1. /\ RawSize(f) \in Nat /\ RawSize(f) = FragmentHeaderSize + Len(f.payload)
      /\ RawFragment(f)[1] = [kind |-> "header", header |-> f.header]
      /\ \A k \in 1..Len(f.payload) : RawFragment(f)[FragmentHeaderSize + k] = f.payload[k]
  BY RawOfWritten
<1>2. /\ FragmentHeaderSize \in Nat \ {0} /\ MinFragmentSize <= FragmentHeaderSize
      /\ MinFragmentSize \in Nat
  BY SizesAssumption
<1>3. f.payload \in Seq(Cells(H)) /\ Len(f.payload) \in Nat
  <2>1. f.payload \in Seq(Cells(H))
    BY DEF Written
  <2> QED
    BY <2>1, LenProperties
<1>4. Len(bytes) \in Nat
  BY LenProperties
<1>0. /\ RawSize(f) < SizeModulus
      /\ f.header.payload_size = Len(f.payload) /\ FragmentSize(f) = RawSize(f)
  <2>1. RawSize(f) < SizeModulus
    BY <1>1, <1>4, SizeModuli
  <2> QED
    BY <2>1, WrittenSize
<1>5. 1 \in 1..RawSize(f)
  BY <1>1, <1>2, <1>3
<1>6. Head(bytes) = [kind |-> "header", header |-> f.header]
  <2>1. bytes[1] = [kind |-> "header", header |-> f.header]
    BY <1>1, <1>5
  <2>2. Head(bytes) = bytes[1]
    OBVIOUS
  <2> QED
    BY <2>1, <2>2
<1>7. Head(bytes).kind = "header" /\ Head(bytes).header = f.header
  BY <1>6
<1>8. FragmentDecodes(bytes, TRUE)
  <2>1. HeaderIs(bytes, FragmentMarker, FragmentVersionLatest)
    BY <1>7 DEF HeaderIs, Written
  <2>2. Len(bytes) >= MinFragmentSize
    BY <1>1, <1>2, <1>3, <1>4
  <2>3. Len(bytes) >= f.header.header_size + f.header.payload_size
    BY <1>0, <1>1 DEF Written
  <2>4. Len(bytes) >= f.header.header_size
    BY <1>1, <1>2, <1>3, <1>4 DEF Written
  <2>5. Len(bytes) >= (f.header.header_size + f.header.payload_size) % SizeModulus
    BY <1>0 DEF FragmentSize
  <2>6. FragmentAccepted(bytes, TRUE)
    BY <1>7, <2>1, <2>2, <2>4, <2>5 DEF FragmentAccepted
  <2>7. PayloadInside(bytes)
    BY <1>7, <2>3 DEF PayloadInside
  <2> QED
    BY <2>6, <2>7 DEF FragmentDecodes
<1>9. SubSeq(bytes, FragmentHeaderSize + 1, FragmentHeaderSize + Len(f.payload)) = f.payload
  <2> DEFINE s == SubSeq(bytes, FragmentHeaderSize + 1, FragmentHeaderSize + Len(f.payload))
             m == FragmentHeaderSize + 1
             n == FragmentHeaderSize + Len(f.payload)
  <2>1. \A i \in m..n : bytes[i] \in Cells(H)
    <3>1. \A i \in 1..Len(bytes) : bytes[i] \in Cells(H)
      BY ElementOfSeq
    <3>2. m..n \subseteq 1..Len(bytes)
      BY <1>1, <1>2, <1>3, <1>4
    <3> QED
      BY <3>1, <3>2
  <2>2. m \in Int /\ n \in Int /\ n - m + 1 = Len(f.payload)
    BY <1>2, <1>3
  <2>3. /\ s \in Seq(Cells(H))
        /\ Len(s) = IF m <= n THEN n - m + 1 ELSE 0
        /\ \A i \in 1..(n - m + 1) : s[i] = bytes[m + i - 1]
    <3> HIDE DEF m, n
    <3>1. s = SubSeq(bytes, m, n)
      BY DEF m, n
    <3> HIDE DEF s
    <3> QED
      BY <2>1, <2>2, <3>1, SubSeqProperties
  <2>4. Len(s) = Len(f.payload)
    BY <1>2, <1>3, <2>2, <2>3
  <2>5. ASSUME NEW i \in 1..Len(f.payload)
        PROVE  s[i] = f.payload[i]
    <3>0. m + i - 1 = FragmentHeaderSize + i
      BY <1>2
    <3>1. s[i] = bytes[m + i - 1]
      <4> HIDE DEF s, m, n
      <4> QED
        BY <2>2, <2>3
    <3>2. FragmentHeaderSize + i \in 1..RawSize(f)
      BY <1>1, <1>2, <1>3
    <3> QED
      BY <1>1, <3>0, <3>1, <3>2
  <2> HIDE DEF s, m, n
  <2>6. s = f.payload
    BY <1>3, <2>3, <2>4, <2>5, SeqEqual
  <2> QED
    BY <2>6 DEF s
<1>10. DecodedFragment(bytes) = [header |-> f.header, payload |-> f.payload]
  <2>1. f.header.header_size = FragmentHeaderSize /\ f.header.payload_size = Len(f.payload)
    BY <1>0 DEF Written
  <2> QED
    BY <1>7, <1>9, <2>1 DEF DecodedFragment
<1>11. f = [header |-> f.header, payload |-> f.payload]
  BY DEF Written
<1> QED
  BY <1>8, <1>10, <1>11

FirstOf(fs, n) == [i \in 1..n |-> fs[i]]

LEMMA LoadWritten ==
  ASSUME NEW H, NEW N \in Nat, NEW fs, \A n \in 1..N : Written(fs[n], H),
         NEW raws, \A n \in 1..N : raws[n] = RawFragment(fs[n]),
         NEW flat, IsFlattening(flat, raws, N, Cells(H)), Len(flat[N]) < SizeModulus
  PROVE  LoadLoop(flat[N], N) = {[decoded |-> FirstOf(fs, N), left |-> <<>>]}
<1> DEFINE P == flat[N]
           L == Len(flat[N])
           Left(n) == SubSeq(P, Len(flat[n]) + 1, L)
           Loaded(n) == [decoded |-> [i \in 1..n |-> fs[i]], left |-> Left(n)]
<1>1. AreSeqs(raws, N, Cells(H))
  BY RawOfWritten DEF AreSeqs
<1>2. P \in Seq(Cells(H)) /\ flat[0] = <<>> /\ L \in Nat /\ L < SizeModulus
  <2>1. P \in Seq(Cells(H)) /\ flat[0] = <<>>
    BY DEF IsFlattening
  <2> QED
    BY <2>1, LenProperties
<1>3. /\ \A n \in 1..N : Len(flat[n]) = Len(flat[n - 1]) + Len(raws[n])
      /\ \A n \in 0..N : Len(flat[n]) \in Nat /\ Len(flat[n]) <= L
      /\ \A n \in 1..N : \A k \in 1..Len(raws[n]) :
           P[Len(flat[n - 1]) + k] = raws[n][k]
  <2>1. PICK D : D = Cells(H)
    OBVIOUS
  <2>2. AreSeqs(raws, N, D) /\ IsFlattening(flat, raws, N, D)
    BY <1>1, <2>1
  <2>3. Placed(flat, raws, N)
    BY <2>2, InFlattening
  <2> QED
    BY <2>3 DEF Placed
<1>4. PICK round : IsLoading(round, P, N)
  BY LoadRounds
<1>5. /\ LoadLoop(P, N) = round[N]
      /\ round[0] = {[decoded |-> <<>>, left |-> P]}
      /\ \A n \in 1..N : round[n] = AfterRound(round[n - 1])
  BY <1>4 DEF IsLoading
<1> HIDE DEF P, L
<1> DEFINE S == {n \in 0..N : round[n] = {Loaded(n)}}
<1>6. 0 \in S
  <2>1. Len(flat[0]) + 1 = 1
    BY <1>2
  <2>2. Left(0) = P
    BY <1>2, <2>1, SubSeqFull DEF L, P
  <2>3. [i \in 1..0 |-> fs[i]] = <<>>
    OBVIOUS
  <2>4. Loaded(0) = [decoded |-> <<>>, left |-> P]
    BY <2>2, <2>3
  <2> HIDE DEF Loaded
  <2> QED
    BY <1>5, <2>4
<1>7. ASSUME NEW m \in 0..(N - 1), m \in S
      PROVE  m + 1 \in S
  <2>1. PICK n \in 1..N : n = m + 1 /\ n - 1 = m
    OBVIOUS
  <2>2. PICK f : f = fs[n]
    OBVIOUS
  <2>3. Written(f, H) /\ raws[n] = RawFragment(f)
    BY <2>2
  <2>4. RawSize(f) \in Nat /\ Len(RawFragment(f)) = RawSize(f)
    BY <2>3, RawOfWritten
  <2>5. PICK a \in Nat : a = Len(flat[m])
    BY <1>3
  <2>6. Len(flat[n]) = a + RawSize(f) /\ a + RawSize(f) <= L
    <3>1. Len(flat[n]) = Len(flat[n - 1]) + Len(raws[n]) /\ Len(flat[n]) <= L
      <4>1. n \in 0..N
        OBVIOUS
      <4> QED
        BY <1>3, <4>1
    <3>2. Len(flat[n - 1]) = a /\ Len(raws[n]) = RawSize(f)
      BY <2>1, <2>3, <2>4, <2>5
    <3> QED
      BY <3>1, <3>2
  <2>7. PICK left : left = Left(m)
    OBVIOUS
  <2>8. a \in 0..L /\ RawSize(f) \in 0..(L - a)
    BY <1>2, <2>4, <2>5, <2>6
  <2>9. /\ left \in Seq(Cells(H)) /\ Len(left) = L - a
        /\ \A k \in 1..(L - a) : left[k] = P[a + k]
    <3>1. left = SubSeq(P, a + 1, Len(P)) /\ L = Len(P)
      BY <2>5, <2>7 DEF L, P
    <3> QED
      BY <1>2, <2>8, <3>1, Suffix
  <2>10. ASSUME NEW k \in 1..RawSize(f)
         PROVE  left[k] = RawFragment(f)[k]
    <3>1. k \in 1..(L - a) /\ k \in 1..Len(raws[n])
      BY <1>2, <2>3, <2>4, <2>5, <2>6
    <3>2. P[a + k] = raws[n][k]
      BY <1>3, <2>1, <2>5, <3>1
    <3> QED
      BY <2>3, <2>9, <3>1, <3>2
  <2>11. Len(left) >= RawSize(f)
    BY <1>2, <2>4, <2>5, <2>6, <2>9
  <2>0. Len(left) < SizeModulus /\ RawSize(f) < SizeModulus
    BY <1>2, <2>4, <2>5, <2>8, <2>9, SizeModuli
  <2>12. FragmentDecodes(left, TRUE) /\ DecodedFragment(left) = f
    BY <2>0, <2>3, <2>9, <2>10, <2>11, DecodeWritten
  <2>20. FragmentSize(f) = RawSize(f)
    BY <2>0, <2>3, WrittenSize
  <2>13. SubSeq(left, RawSize(f) + 1, Len(left)) = Left(n)
    <3>1. left = SubSeq(P, a + 1, Len(P)) /\ L = Len(P)
      BY <2>5, <2>7 DEF L, P
    <3>2. SubSeq(left, RawSize(f) + 1, Len(left)) = SubSeq(P, (a + RawSize(f)) + 1, Len(P))
      BY <1>2, <2>8, <3>1, SuffixOfSuffix
    <3> QED
      BY <2>6, <3>1, <3>2
  <2>14. Append([i \in 1..m |-> fs[i]], f) = [i \in 1..n |-> fs[i]]
    BY <2>1, <2>2
  <2>15. AfterFragment(Loaded(m)) = Loaded(n)
    <3>1. Loaded(m).left = left /\ Loaded(m).decoded = [i \in 1..m |-> fs[i]]
      BY <2>7
    <3> HIDE DEF Left
    <3> QED
      BY <2>12, <2>13, <2>14, <2>20, <3>1 DEF AfterFragment
  <2>16. AfterRound({Loaded(m)}) = {Loaded(n)}
    <3>1. Loaded(m).left = left
      BY <2>7
    <3> HIDE DEF Loaded
    <3> QED
      BY <2>12, <2>15, <3>1 DEF AfterRound
  <2>17. round[n] = AfterRound({Loaded(m)})
    <3>1. round[m] = {Loaded(m)}
      BY <1>7
    <3> HIDE DEF Loaded
    <3> QED
      BY <1>5, <2>1, <3>1
  <2> HIDE DEF Loaded
  <2>18. round[n] = {Loaded(n)}
    BY <2>16, <2>17
  <2>19. n \in S
    BY <2>18
  <2> QED
    BY <2>1, <2>19
<1>8. N \in S
  <2> HIDE DEF S
  <2>1. 0..N \subseteq S
    BY <1>6, <1>7, UpTo
  <2> QED
    BY <2>1
<1>9. Left(N) = <<>>
  <2>1. SubSeq(P, L + 1, L) = <<>>
    BY <1>2, SubSeqEmpty
  <2> QED
    BY <2>1 DEF L
<1>10. Loaded(N) = [decoded |-> [i \in 1..N |-> fs[i]], left |-> <<>>]
  BY <1>9
<1> HIDE DEF Loaded
<1>11. LoadLoop(P, N) = {Loaded(N)}
  BY <1>5, <1>8
<1> QED
  BY <1>10, <1>11 DEF P, FirstOf

(* An event as this build makes it, with headers of H. *)
WrittenEvent(e, H) ==
  /\ e = [header |-> e.header, fragments |-> e.fragments]
  /\ e.header \in H
  /\ e.header.marker = EventMarker
  /\ e.header.version_number = EventVersionLatest
  /\ e.header.header_size = EventHeaderSize
  /\ e.fragments = [s \in DOMAIN e.fragments |-> e.fragments[s]]
  /\ IsFiniteSet(DOMAIN e.fragments)
  /\ DOMAIN e.fragments \subseteq Int
  /\ \A s \in DOMAIN e.fragments :
       Written(e.fragments[s], H) /\ e.fragments[s].header.source_id = s

(* What each of its fragments takes in raw(). *)
FragmentSizes(e) == [s \in DOMAIN e.fragments |-> RawSize(e.fragments[s])]

RawsInOrder(e) ==
  LET ids == KeysInOrder(DOMAIN e.fragments)
  IN  [i \in 1..Cardinality(DOMAIN e.fragments) |-> RawFragment(e.fragments[ids[i]])]

(* What raw() is: a header, and as many bytes as the fragments have. *)
RawIs(e, flat, N, H) ==
  /\ N \in Nat
  /\ N = Cardinality(DOMAIN e.fragments)
  /\ IsFlattening(flat, RawsInOrder(e), N, Cells(H))
  /\ RawEvent(e) = HeaderBytes(e.header, EventHeaderSize) \o flat[N]
  /\ Len(flat[N]) = Total(FragmentSizes(e))

(* raw() puts one fragment behind the other, whatever they are. *)
FlatIs(e, flat, N, H) ==
  /\ N \in Nat
  /\ N = Cardinality(DOMAIN e.fragments)
  /\ AreSeqs(RawsInOrder(e), N, Cells(H))
  /\ IsFlattening(flat, RawsInOrder(e), N, Cells(H))
  /\ RawEvent(e) = HeaderBytes(e.header, EventHeaderSize) \o flat[N]
  /\ Len(flat[N]) = Total(Lengths(RawsInOrder(e), N))

LEMMA FlatOfMap ==
  ASSUME NEW H, NEW e, IsFiniteSet(DOMAIN e.fragments), DOMAIN e.fragments \subseteq Int,
         \A s \in DOMAIN e.fragments : RawFragment(e.fragments[s]) \in Seq(Cells(H))
  PROVE  \E flat, N : FlatIs(e, flat, N, H)
<1> DEFINE S == DOMAIN e.fragments
           N == Cardinality(S)
           ids == KeysInOrder(S)
           raws == RawsInOrder(e)
<1>1. N \in Nat /\ ids \in [1..N -> S]
  BY KeysOnce
<1>2. raws = [i \in 1..N |-> RawFragment(e.fragments[ids[i]])]
  BY DEF RawsInOrder
<1>3. AreSeqs(raws, N, Cells(H))
  <2>1. ASSUME NEW i \in 1..N
        PROVE  raws[i] \in Seq(Cells(H))
    <3>1. ids[i] \in S /\ raws[i] = RawFragment(e.fragments[ids[i]])
      <4> HIDE DEF raws, ids, N, S
      <4> QED
        BY <1>1, <1>2
    <3> QED
      BY <3>1
  <2> QED
    BY <2>1 DEF AreSeqs
<1> HIDE DEF S, N, ids, raws
<1>4. PICK flat : IsFlattening(flat, raws, N, Cells(H))
  BY <1>1, <1>3, FlatteningExists
<1>5. FlattenSeq(raws) = flat[N]
  <2>1. Len(raws) = N /\ raws = [i \in 1..Len(raws) |-> raws[i]]
    BY <1>1, <1>2
  <2>2. /\ Len(raws) \in Nat /\ AreSeqs(raws, Len(raws), Cells(H))
        /\ IsFlattening(flat, raws, Len(raws), Cells(H))
    BY <1>1, <1>3, <1>4, <2>1
  <2> QED
    BY <2>1, <2>2, FlattenIs
<1>6. RawEvent(e) = HeaderBytes(e.header, EventHeaderSize) \o flat[N]
  <2>1. DOMAIN ids = 1..N
    BY <1>1
  <2>2. raws = [i \in DOMAIN ids |-> RawFragment(e.fragments[ids[i]])]
    BY <1>2, <2>1
  <2>3. RawEvent(e) = HeaderBytes(e.header, EventHeaderSize) \o FlattenSeq(raws)
    BY <2>2, Zenon DEF RawEvent, ids, S
  <2> QED
    BY <1>5, <2>3
<1>7. Len(flat[N]) = Total(Lengths(raws, N))
  BY <1>1, <1>3, <1>4, FlatLength
<1>8. FlatIs(e, flat, N, H)
  BY <1>1, <1>3, <1>4, <1>6, <1>7 DEF FlatIs, N, S, raws
<1> QED
  BY <1>8, Zenon

LEMMA RawOfWrittenEvent ==
  ASSUME NEW H, NEW e, WrittenEvent(e, H)
  PROVE  \E flat, N : RawIs(e, flat, N, H)
<1> DEFINE S == DOMAIN e.fragments
           ids == KeysInOrder(S)
           size == FragmentSizes(e)
<1>1. /\ IsFiniteSet(S) /\ S \subseteq Int
      /\ \A s \in S : Written(e.fragments[s], H)
  BY DEF WrittenEvent
<1>2. PICK flat, N : FlatIs(e, flat, N, H)
  BY <1>1, FlatOfMap, RawOfWritten
<1>3. N \in Nat /\ N = Cardinality(S)
  BY <1>2 DEF FlatIs
<1>4. ids \in [1..N -> S] /\ Enumerates(ids, N, S)
  BY <1>1, <1>3, KeysOnce DEF Enumerates
<1>5. size \in [S -> Nat] /\ \A s \in S : size[s] = RawSize(e.fragments[s])
  BY <1>1, RawOfWritten DEF FragmentSizes
<1>6. Lengths(RawsInOrder(e), N) = ValuesInOrder(size, ids, N)
  <2>1. ASSUME NEW i \in 1..N
        PROVE  Len(RawsInOrder(e)[i]) = size[ids[i]]
    <3>1. ids[i] \in S /\ RawsInOrder(e)[i] = RawFragment(e.fragments[ids[i]])
      BY <1>3, <1>4 DEF RawsInOrder
    <3> HIDE DEF S, ids, size
    <3>2. PICK f : f = e.fragments[ids[i]]
      OBVIOUS
    <3>3. Written(f, H) /\ size[ids[i]] = RawSize(f)
      BY <1>1, <1>5, <3>1, <3>2
    <3> QED
      BY <3>1, <3>2, <3>3, RawOfWritten
  <2> QED
    BY <2>1 DEF Lengths, ValuesInOrder
<1>7. Total(ValuesInOrder(size, ids, N)) = Total(size)
  <2> HIDE DEF S, ids, size
  <2> QED
    BY <1>1, <1>3, <1>4, <1>5, TotalInOrder, ZenonT(30)
<1>8. RawIs(e, flat, N, H)
  BY <1>2, <1>6, <1>7 DEF FlatIs, RawIs
<1> QED
  BY <1>8, Zenon

(* Its length. *)
LEMMA LengthOfRaw ==
  ASSUME NEW H, NEW e, WrittenEvent(e, H)
  PROVE  /\ RawEvent(e) \in Seq(Cells(H))
         /\ Len(RawEvent(e)) = EventHeaderSize + Total(FragmentSizes(e))
<1>1. PICK flat, N : RawIs(e, flat, N, H)
  BY RawOfWrittenEvent
<1>2. EventHeaderSize \in Nat \ {0} /\ e.header \in H
  BY SizesAssumption DEF WrittenEvent
<1>3. PICK D, s, t : D = Cells(H) /\ s = HeaderBytes(e.header, EventHeaderSize) /\ t = flat[N]
  OBVIOUS
<1>4. s \in Seq(D) /\ Len(s) = EventHeaderSize
  BY <1>2, <1>3, HeaderCells
<1>5. t \in Seq(D)
  BY <1>1, <1>3 DEF RawIs, IsFlattening
<1>6. RawEvent(e) = s \o t /\ Len(t) = Total(FragmentSizes(e))
  BY <1>1, <1>3 DEF RawIs
<1>7. s \o t \in Seq(D) /\ Len(s \o t) = Len(s) + Len(t)
  BY <1>4, <1>5, ConcatProperties
<1> QED
  BY <1>3, <1>4, <1>6, <1>7

-------------------------------------------------------------------------------
(* Reading back what raw() wrote. *)

LEMMA MapOfWritten ==
  ASSUME NEW e, IsFiniteSet(DOMAIN e.fragments), DOMAIN e.fragments \subseteq Int,
         \A s \in DOMAIN e.fragments : e.fragments[s].header.source_id = s,
         e.fragments = [s \in DOMAIN e.fragments |-> e.fragments[s]],
         NEW N, N = Cardinality(DOMAIN e.fragments),
         NEW decoded,
         decoded = [i \in 1..N |-> e.fragments[KeysInOrder(DOMAIN e.fragments)[i]]]
  PROVE  FragmentMap(decoded) = e.fragments
<1> DEFINE S == DOMAIN e.fragments
           ids == KeysInOrder(S)
           source(i) == decoded[i].header.source_id
           At(s) == {i \in DOMAIN decoded : source(i) = s}
<1>1. N \in Nat
  BY KeysOnce
<1>2. ids \in [1..N -> S] /\ S = {ids[i] : i \in 1..N}
  BY KeysOnce
<1>3. \A i, j \in 1..N : i # j => ids[i] # ids[j]
  BY KeysOnce
<1>4. DOMAIN decoded = 1..N /\ \A i \in 1..N : decoded[i] = e.fragments[ids[i]]
  OBVIOUS
<1>5. \A s \in S : e.fragments[s].header.source_id = s
  OBVIOUS
<1>6. e.fragments = [s \in S |-> e.fragments[s]]
  OBVIOUS
<1> HIDE DEF S, ids
<1>7. \A i \in 1..N : source(i) = ids[i]
  BY <1>2, <1>4, <1>5
<1>8. {source(i) : i \in DOMAIN decoded} = S
  <2> HIDE DEF source
  <2> QED
    BY <1>2, <1>4, <1>7
<1>9. ASSUME NEW s \in S
      PROVE  decoded[Max(At(s))] = e.fragments[s]
  <2>1. PICK j \in 1..N : s = ids[j]
    BY <1>2
  <2>2. At(s) = {j}
    <3> HIDE DEF source
    <3> QED
      BY <1>3, <1>4, <1>7, <2>1
  <2> HIDE DEF At
  <2>3. Max(At(s)) = j
    <3>1. At(s) \in SUBSET (1..N) /\ At(s) # {}
      BY <2>2
    <3>2. Max(At(s)) \in At(s)
      BY <1>1, <3>1, MaxOfFirst
    <3> QED
      BY <2>2, <3>2
  <2> QED
    BY <1>4, <2>1, <2>3
<1>10. FragmentMap(decoded) = [s \in {source(i) : i \in DOMAIN decoded} |-> decoded[Max(At(s))]]
  BY Zenon DEF FragmentMap, At, source
<1> HIDE DEF source, At
<1>11. FragmentMap(decoded) = [s \in S |-> decoded[Max(At(s))]]
  BY <1>8, <1>10
<1>12. [s \in S |-> decoded[Max(At(s))]] = [s \in S |-> e.fragments[s]]
  BY <1>9
<1> QED
  BY <1>6, <1>11, <1>12

(* The header of an event says how many fragments and bytes follow it, and *)
(* those are no more than 32 bits count.                                   *)
HeaderFits(e) ==
  /\ e.header.fragment_count = Cardinality(DOMAIN e.fragments)
  /\ e.header.payload_size = Total(FragmentSizes(e))
  /\ Total(FragmentSizes(e)) \in Nat /\ Total(FragmentSizes(e)) < SizeModulus

Loads(e, payload) == LoadedEvents(e.header, payload) = {e}

FragmentsInOrder(e) ==
  [i \in 1..Cardinality(DOMAIN e.fragments) |-> e.fragments[KeysInOrder(DOMAIN e.fragments)[i]]]

LoopLoads(e, flat, N) ==
  LoadLoop(flat[N], N) = {[decoded |-> FragmentsInOrder(e), left |-> <<>>]}

LEMMA LoopOfWritten ==
  ASSUME NEW H, NEW e, WrittenEvent(e, H),
         NEW flat, NEW N, RawIs(e, flat, N, H), Len(flat[N]) < SizeModulus
  PROVE  LoopLoads(e, flat, N)
<1> DEFINE S == DOMAIN e.fragments
           ids == KeysInOrder(S)
           fs == FragmentsInOrder(e)
<1>1. N \in Nat /\ N = Cardinality(S) /\ IsFlattening(flat, RawsInOrder(e), N, Cells(H))
  BY DEF RawIs
<1>2. IsFiniteSet(S) /\ S \subseteq Int /\ \A s \in S : Written(e.fragments[s], H)
  BY DEF WrittenEvent
<1>3. ids \in [1..N -> S]
  BY <1>1, <1>2, KeysOnce
<1>4. fs = [i \in 1..N |-> e.fragments[ids[i]]]
  BY <1>1 DEF FragmentsInOrder
<1>5. \A n \in 1..N : RawsInOrder(e)[n] = RawFragment(fs[n])
  BY <1>1, <1>4 DEF RawsInOrder
<1>6. \A n \in 1..N : Written(fs[n], H)
  <2> HIDE DEF S, ids, fs
  <2> QED
    BY <1>2, <1>3, <1>4
<1>7. fs = FirstOf(fs, N)
  <2> HIDE DEF fs
  <2> QED
    BY <1>4 DEF FirstOf
<1> HIDE DEF S, ids, fs
<1>8. PICK raws : raws = RawsInOrder(e)
  OBVIOUS
<1>9. /\ N \in Nat /\ \A n \in 1..N : Written(fs[n], H)
      /\ \A n \in 1..N : raws[n] = RawFragment(fs[n])
      /\ IsFlattening(flat, raws, N, Cells(H))
      /\ Len(flat[N]) < SizeModulus
  BY <1>1, <1>5, <1>6, <1>8
<1>10. LoadLoop(flat[N], N) = {[decoded |-> FirstOf(fs, N), left |-> <<>>]}
  BY <1>9, LoadWritten
<1> QED
  BY <1>7, <1>10 DEF LoopLoads, fs

LEMMA LoadOfWritten ==
  ASSUME NEW H, NEW e, WrittenEvent(e, H), HeaderFits(e),
         NEW flat, NEW N, RawIs(e, flat, N, H)
  PROVE  Loads(e, flat[N])
<1> DEFINE fs == FragmentsInOrder(e)
<1>0. Len(flat[N]) < SizeModulus
  BY DEF RawIs, HeaderFits
<1>1. LoadLoop(flat[N], N) = {[decoded |-> fs, left |-> <<>>]}
  BY <1>0, LoopOfWritten DEF LoopLoads
<1>2. FragmentMap(fs) = e.fragments
  <2>1. /\ \A s \in DOMAIN e.fragments : e.fragments[s].header.source_id = s
        /\ e.fragments = [s \in DOMAIN e.fragments |-> e.fragments[s]]
        /\ IsFiniteSet(DOMAIN e.fragments) /\ DOMAIN e.fragments \subseteq Int
    BY DEF WrittenEvent
  <2> QED
    BY <2>1, MapOfWritten DEF FragmentsInOrder
<1>3. e.header.fragment_count = N
  BY DEF HeaderFits, RawIs
<1>4. e = [header |-> e.header, fragments |-> e.fragments]
  BY DEF WrittenEvent
<1> HIDE DEF fs
<1>5. PICK l : l = [decoded |-> fs, left |-> <<>>]
  OBVIOUS
<1>6. LoadLoop(flat[N], N) = {l} /\ l.decoded = fs
  BY <1>1, <1>5
<1>7. LoadedEvents(e.header, flat[N]) = {[header |-> e.header, fragments |-> FragmentMap(l.decoded)]}
  BY <1>3, <1>6 DEF LoadedEvents
<1> QED
  BY <1>2, <1>4, <1>6, <1>7 DEF Loads

(* Either constructor reads the event back, and what follows it in a       *)
(* stream stays there.                                                     *)
ReadsBack(e, rest) ==
  /\ EventsOfBytes(RawEvent(e)) = {e}
  /\ e.header.payload_size <= MaxFilePayload =>
       /\ EventsOfStream(RawEvent(e) \o rest) = {e}
       /\ StreamRest(RawEvent(e) \o rest) = rest

LEMMA ReadBack ==
  ASSUME NEW H, NEW e, WrittenEvent(e, H), HeaderFits(e), NEW rest \in Seq(Cells(H))
  PROVE  ReadsBack(e, rest)
<1>1. PICK flat, N : RawIs(e, flat, N, H)
  BY RawOfWrittenEvent
<1>2. LoadedEvents(e.header, flat[N]) = {e}
  <2>1. Loads(e, flat[N])
    BY <1>1, LoadOfWritten
  <2> QED
    BY <2>1 DEF Loads
<1>3. EventHeaderSize \in Nat \ {0} /\ e.header \in H
  BY SizesAssumption DEF WrittenEvent
<1>4. PICK D, s, t, raw : /\ D = Cells(H) /\ s = HeaderBytes(e.header, EventHeaderSize)
                          /\ t = flat[N] /\ raw = RawEvent(e)
  OBVIOUS
<1>5. s \in Seq(D) /\ Len(s) = EventHeaderSize /\ s[1] = [kind |-> "header", header |-> e.header]
  BY <1>3, <1>4, HeaderCells
<1>6. t \in Seq(D)
  BY <1>1, <1>4 DEF RawIs, IsFlattening
<1>7. raw = s \o t /\ Len(t) = e.header.payload_size
  BY <1>1, <1>4 DEF RawIs, HeaderFits
<1>8. rest \in Seq(D)
  BY <1>4
<1>9. /\ e.header.marker = EventMarker /\ e.header.version_number = EventVersionLatest
      /\ e.header.header_size = EventHeaderSize
  BY DEF WrittenEvent
<1> DEFINE Read(bytes, r) ==
             /\ bytes \in Seq(D)
             /\ Len(bytes) = EventHeaderSize + e.header.payload_size + Len(r)
             /\ HeaderIs(bytes, EventMarker, EventVersionLatest)
             /\ Head(bytes).header = e.header
             /\ StreamPayload(bytes) = t
             /\ StreamRest(bytes) = r
<1>10. ASSUME NEW r \in Seq(D)
       PROVE  Read(raw \o r, r)
  <2> DEFINE bytes == raw \o r
  <2>1. raw \in Seq(D) /\ Len(s) \in Nat /\ Len(t) \in Nat /\ Len(r) \in Nat
    BY <1>5, <1>6, <1>7, ConcatProperties, LenProperties
  <2>2. /\ Len(raw) = Len(s) + Len(t)
        /\ \A k \in 1..Len(s) : raw[k] = s[k]
        /\ \A k \in 1..Len(t) : raw[Len(s) + k] = t[k]
    <3>1. s \in Seq(D) /\ t \in Seq(D) /\ raw = s \o t
      BY <1>5, <1>6, <1>7
    <3> QED
      BY <3>1, Concatenated
  <2>3. bytes \in Seq(D)
    BY <2>1, ConcatProperties
  <2>4. /\ Len(bytes) = Len(raw) + Len(r)
        /\ \A k \in 1..Len(raw) : bytes[k] = raw[k]
        /\ \A k \in 1..Len(r) : bytes[Len(raw) + k] = r[k]
    BY <2>1, Concatenated
  <2> HIDE DEF bytes
  <2>5. Len(bytes) = Len(s) + Len(t) + Len(r)
    BY <2>1, <2>2, <2>4
  <2>6. Head(bytes) = [kind |-> "header", header |-> e.header]
    <3>1. 1 \in 1..Len(s) /\ 1 \in 1..Len(raw)
      BY <1>3, <1>5, <2>1, <2>2
    <3>2. bytes[1] = [kind |-> "header", header |-> e.header]
      BY <1>5, <2>2, <2>4, <3>1
    <3>3. Head(bytes) = bytes[1]
      BY <2>3
    <3> QED
      BY <3>2, <3>3
  <2>7. Head(bytes).kind = "header" /\ Head(bytes).header = e.header
    BY <2>6
  <2>8. HeaderIs(bytes, EventMarker, EventVersionLatest)
    BY <1>9, <2>7 DEF HeaderIs
  <2>9. StreamPayload(bytes) = t
    <3>1. PICK m \in Int, n \in Int : m = EventHeaderSize + 1 /\ n = EventHeaderSize + Len(t)
      BY <1>3, <2>1
    <3>2. \A i \in m..n : bytes[i] \in D
      <4>1. m..n \subseteq 1..Len(bytes)
        BY <1>3, <1>5, <2>1, <2>5, <3>1
      <4> QED
        BY <2>3, <4>1, ElementOfSeq
    <3>3. PICK u : u = SubSeq(bytes, m, n)
      OBVIOUS
    <3>4. /\ u \in Seq(D)
          /\ Len(u) = IF m <= n THEN n - m + 1 ELSE 0
          /\ \A i \in 1..(n - m + 1) : u[i] = bytes[m + i - 1]
      BY <3>2, <3>3, SubSeqProperties
    <3>5. Len(u) = Len(t) /\ n - m + 1 = Len(t)
      BY <1>3, <2>1, <3>1, <3>4
    <3>6. ASSUME NEW i \in 1..Len(t)
          PROVE  u[i] = t[i]
      <4>1. m + i - 1 = Len(s) + i
        BY <1>3, <1>5, <3>1
      <4>2. Len(s) + i \in 1..Len(raw)
        BY <2>1, <2>2
      <4>3. u[i] = bytes[Len(s) + i]
        BY <3>4, <3>5, <4>1
      <4> QED
        BY <2>2, <2>4, <4>2, <4>3
    <3>7. u = t
      BY <1>6, <3>4, <3>5, <3>6, SeqEqual
    <3> QED
      BY <1>7, <2>7, <3>1, <3>3, <3>7 DEF StreamPayload
  <2>10. StreamRest(bytes) = r
    <3>1. PICK a \in Nat : a = EventHeaderSize + Len(t) /\ a = Len(raw)
      BY <1>3, <1>5, <2>1, <2>2
    <3>2. a \in 0..Len(bytes) /\ Len(bytes) - a = Len(r)
      BY <2>1, <2>4, <3>1
    <3>3. PICK u : u = SubSeq(bytes, a + 1, Len(bytes))
      OBVIOUS
    <3>4. u \in Seq(D) /\ Len(u) = Len(bytes) - a /\ \A k \in 1..(Len(bytes) - a) : u[k] = bytes[a + k]
      BY <2>3, <3>2, <3>3, Suffix
    <3>5. \A k \in 1..Len(u) : u[k] = r[k]
      BY <2>4, <3>1, <3>2, <3>4
    <3>6. u = r
      BY <3>2, <3>4, <3>5, SeqEqual
    <3> QED
      BY <1>7, <2>7, <3>1, <3>3, <3>6 DEF StreamRest
  <2>11. Len(bytes) = EventHeaderSize + e.header.payload_size + Len(r)
    BY <1>5, <1>7, <2>5
  <2> QED
    BY <2>3, <2>7, <2>8, <2>9, <2>10, <2>11 DEF bytes
<1>11. EventsOfBytes(raw) = {e}
  <2>1. raw \o <<>> = raw /\ <<>> \in Seq(D) /\ Len(<<>>) = 0
    <3>1. raw \in Seq(D)
      BY <1>5, <1>6, <1>7, ConcatProperties
    <3> QED
      BY <3>1, ConcatEmptySeq
  <2>2. /\ Len(raw) = EventHeaderSize + e.header.payload_size + 0
        /\ HeaderIs(raw, EventMarker, EventVersionLatest)
        /\ Head(raw).header = e.header
        /\ StreamPayload(raw) = t
    <3>1. Read(raw \o <<>>, <<>>)
      <4> HIDE DEF Read
      <4> QED
        BY <1>10, <2>1
    <3>2. Read(raw, <<>>)
      BY <2>1, <3>1
    <3> QED
      BY <2>1, <3>2
  <2>3. e.header.payload_size \in Nat
    BY <1>6, <1>7, LenProperties
  <2>4. /\ Len(raw) >= EventHeaderSize
        /\ Len(raw) - e.header.header_size = e.header.payload_size
        /\ e.header.payload_size < SizeModulus
    BY <1>3, <1>9, <2>2, <2>3 DEF HeaderFits
  <2>5. (Len(raw) - e.header.header_size) % SizeModulus = e.header.payload_size
    BY <2>3, <2>4, SizeModuli, ModSmall
  <2>6. SubSeq(raw, e.header.header_size + 1, e.header.header_size + e.header.payload_size) = t
    BY <1>9, <2>2 DEF StreamPayload
  <2> QED
    BY <1>2, <1>4, <2>2, <2>4, <2>5, <2>6 DEF EventsOfBytes
<1>12. ASSUME e.header.payload_size <= MaxFilePayload
       PROVE  EventsOfStream(raw \o rest) = {e} /\ StreamRest(raw \o rest) = rest
  <2>1. PICK bytes : bytes = raw \o rest
    OBVIOUS
  <2>2. /\ Len(bytes) = EventHeaderSize + e.header.payload_size + Len(rest)
        /\ HeaderIs(bytes, EventMarker, EventVersionLatest)
        /\ Head(bytes).header = e.header
        /\ StreamPayload(bytes) = t
        /\ StreamRest(bytes) = rest
    <3>1. Read(bytes, rest)
      <4> HIDE DEF Read
      <4> QED
        BY <1>8, <1>10, <2>1
    <3> QED
      BY <3>1
  <2>3. e.header.payload_size \in Nat /\ Len(rest) \in Nat
    BY <1>6, <1>7, <1>8, LenProperties
  <2>4. Len(bytes) >= EventHeaderSize /\ Len(bytes) >= EventHeaderSize + e.header.payload_size
    BY <1>3, <2>2, <2>3
  <2>5. EventsOfStream(bytes) = {e}
    BY <1>2, <1>4, <1>12, <2>2, <2>4 DEF EventsOfStream, PayloadRead
  <2> QED
    BY <2>1, <2>2, <2>5
<1> QED
  BY <1>4, <1>11, <1>12 DEF ReadsBack

-------------------------------------------------------------------------------
(* What the loop over fragments makes of bytes that may be damaged. *)

(* Headers that are taken for those of fragments have numbers in them. *)
Loadable(H) ==
  \A h \in H : h.marker = FragmentMarker =>
    h.header_size \in Nat /\ h.payload_size \in Nat /\ h.source_id \in Nat

(* What passes the checks of the constructor: a header of any size. *)
Parsed(H) ==
  {f \in [header : H, payload : Seq(Cells(H))] :
     /\ f.header.marker = FragmentMarker
     /\ f.header.version_number = FragmentVersionLatest
     /\ f.header.header_size \in Nat
     /\ f.header.payload_size = Len(f.payload)
     /\ f.header.header_size + f.header.payload_size < SizeModulus
     /\ f.header.source_id \in Nat}

LEMMA ParsedSize ==
  ASSUME NEW H, NEW f \in Parsed(H)
  PROVE  /\ FragmentSize(f) \in Nat
         /\ FragmentSize(f) = f.header.header_size + f.header.payload_size
         /\ FragmentSize(f) = f.header.header_size + Len(f.payload)
<1>1. PICK a \in Nat, b \in Nat : a = f.header.header_size /\ b = Len(f.payload)
  BY LenProperties DEF Parsed
<1>2. f.header.payload_size = b /\ a + b < SizeModulus
  BY <1>1 DEF Parsed
<1>3. a + b \in Nat /\ SizeModulus \in Nat
  BY SizesAssumption
<1>4. (a + b) % SizeModulus = a + b
  BY <1>2, <1>3, ModSmall
<1> QED
  BY <1>1, <1>2, <1>3, <1>4 DEF FragmentSize

SizesInOrder(d) == [i \in 1..Len(d) |-> FragmentSize(d[i])]

LEMMA ParsedWritten ==
  ASSUME NEW H, NEW f \in Parsed(H), f.header.header_size = FragmentHeaderSize
  PROVE  Written(f, H) /\ FragmentSize(f) = RawSize(f)
<1>1. Len(f.payload) \in Nat /\ FragmentHeaderSize \in Nat /\ SizeModulus \in Nat
  BY LenProperties, SizesAssumption DEF Parsed
<1>2. Len(f.payload) < SizeModulus
  BY <1>1 DEF Parsed
<1>3. Len(f.payload) % SizeModulus = Len(f.payload)
  BY <1>1, <1>2, ModSmall
<1>4. Written(f, H)
  BY <1>3 DEF Parsed, Written
<1> QED
  BY <1>4, ParsedSize DEF RawSize

(* After n rounds on so many bytes. *)
LoadedSoFar(st, n, size, H) ==
  /\ st = [decoded |-> st.decoded, left |-> st.left]
  /\ st.decoded \in Seq(Parsed(H)) /\ Len(st.decoded) = n
  /\ st.left \in Seq(Cells(H))
  /\ Total(SizesInOrder(st.decoded)) + Len(st.left) = size

LEMMA ParsedOne ==
  ASSUME NEW H, Loadable(H), NEW bytes \in Seq(Cells(H)), FragmentDecodes(bytes, TRUE),
         Len(bytes) < SizeModulus
  PROVE  /\ DecodedFragment(bytes) \in Parsed(H)
         /\ DecodedFragment(bytes).header = Head(bytes).header
         /\ FragmentSize(DecodedFragment(bytes)) \in Nat
         /\ FragmentSize(DecodedFragment(bytes)) <= Len(bytes)
         /\ DecodedFragment(bytes).header.payload_size \in Nat
         /\ FragmentSize(DecodedFragment(bytes))
              = Head(bytes).header.header_size + Head(bytes).header.payload_size
<1> DEFINE h == Head(bytes).header
<1>1. /\ Len(bytes) >= MinFragmentSize
      /\ Head(bytes).kind = "header" /\ h.marker = FragmentMarker
      /\ h.version_number = FragmentVersionLatest
      /\ Len(bytes) >= h.header_size + h.payload_size
  BY DEF FragmentDecodes, FragmentAccepted, PayloadInside, HeaderIs
<1>2. Len(bytes) \in Nat /\ Len(bytes) >= 1
  BY <1>1, SizesAssumption
<1>3. Head(bytes) \in Cells(H)
  BY <1>2
<1>4. h \in H
  BY <1>1, <1>3 DEF Cells, TailByte, DataBytes
<1>5. h.header_size \in Nat /\ h.payload_size \in Nat /\ h.source_id \in Nat
  BY <1>1, <1>4 DEF Loadable
<1>6. PICK a \in Nat, b \in Nat : a = h.header_size /\ b = h.payload_size
  BY <1>5
<1>7. a + b <= Len(bytes)
  BY <1>1, <1>6
<1>8. PICK p : p = SubSeq(bytes, a + 1, a + b)
  OBVIOUS
<1>9. p \in Seq(Cells(H)) /\ Len(p) = b
  <2>1. \A i \in (a + 1)..(a + b) : bytes[i] \in Cells(H)
    BY <1>2, <1>7, ElementOfSeq
  <2> QED
    BY <1>8, <2>1, SubSeqProperties
<1>10. DecodedFragment(bytes) = [header |-> h, payload |-> p]
  BY <1>6, <1>8 DEF DecodedFragment
<1>11. h.header_size + h.payload_size < SizeModulus
  BY <1>2, <1>6, <1>7, SizeModuli
<1> HIDE DEF h
<1>12. DecodedFragment(bytes) \in Parsed(H)
  BY <1>1, <1>4, <1>5, <1>6, <1>9, <1>10, <1>11 DEF Parsed
<1>13. /\ FragmentSize(DecodedFragment(bytes)) \in Nat
       /\ FragmentSize(DecodedFragment(bytes)) = h.header_size + h.payload_size
  <2>1. PICK f : f = DecodedFragment(bytes)
    OBVIOUS
  <2>2. FragmentSize(f) \in Nat /\ FragmentSize(f) = f.header.header_size + f.header.payload_size
    BY <1>12, <2>1, ParsedSize
  <2> QED
    BY <1>10, <2>1, <2>2
<1> QED
  BY <1>5, <1>6, <1>7, <1>10, <1>12, <1>13 DEF h

LEMMA AddedSize ==
  ASSUME NEW F, NEW d \in Seq(F), NEW f \in F, \A x \in F : FragmentSize(x) \in Nat
  PROVE  /\ Append(d, f) \in Seq(F) /\ Len(Append(d, f)) = Len(d) + 1
         /\ Total(SizesInOrder(d)) \in Nat
         /\ Total(SizesInOrder(Append(d, f))) = Total(SizesInOrder(d)) + FragmentSize(f)
<1> DEFINE e == Append(d, f)
           n == Len(d)
<1>1. e \in Seq(F) /\ Len(e) = n + 1 /\ e[n + 1] = f /\ \A i \in 1..n : e[i] = d[i]
  BY AppendProperties
<1>2. n \in Nat /\ \A i \in 1..n : d[i] \in F
  BY ElementOfSeq
<1> HIDE DEF e, n
<1> DEFINE I == 1..n
           J == 1..(n + 1)
<1>3. SizesInOrder(d) \in [I -> Nat] /\ \A i \in I : SizesInOrder(d)[i] = FragmentSize(d[i])
  BY <1>2 DEF SizesInOrder, n
<1>4. SizesInOrder(e) = [i \in J |-> FragmentSize(e[i])]
  BY <1>1 DEF SizesInOrder
<1>5. IsFiniteSet(I)
  BY <1>2, FS_Interval
<1>6. \A i \in J : e[i] \in F
  BY <1>1, ElementOfSeq
<1>7. SizesInOrder(e) \in [J -> Nat] /\ \A i \in J : SizesInOrder(e)[i] = FragmentSize(e[i])
  BY <1>4, <1>6
<1>8. I = J \ {n + 1} /\ n + 1 \in J
  BY <1>2
<1>12. IsFiniteSet(J)
  BY <1>2, FS_Interval
<1> HIDE DEF I, J
<1>11. \A i \in I : SizesInOrder(e)[i] = SizesInOrder(d)[i]
  BY <1>1, <1>3, <1>7, <1>8 DEF I
<1>10. Total(SizesInOrder(e)) = Total(SizesInOrder(d)) + SizesInOrder(e)[n + 1]
  <2>1. /\ SizesInOrder(e) \in [J -> Nat] /\ n + 1 \in J
        /\ SizesInOrder(d) \in [J \ {n + 1} -> Nat]
        /\ \A i \in J \ {n + 1} : SizesInOrder(e)[i] = SizesInOrder(d)[i]
    BY <1>3, <1>7, <1>8, <1>11
  <2>2. PICK u, v, x, T : /\ u = SizesInOrder(e) /\ v = SizesInOrder(d) /\ x = n + 1
                          /\ T = J \ {x}
    OBVIOUS
  <2>3. OneLess(v, u, x, J, T)
    BY <1>12, <2>1, <2>2 DEF OneLess
  <2>4. Total(u) = Total(v) + u[x]
    BY <2>2, <2>3, TotalWithOne
  <2> QED
    BY <2>2, <2>4
<1>9. Total(SizesInOrder(d)) \in Nat
  BY <1>3, <1>5, TotalNat
<1> QED
  BY <1>1, <1>7, <1>8, <1>9, <1>10 DEF e, n

LEMMA TotalOfSizes ==
  ASSUME NEW F, NEW d \in Seq(F), \A x \in F : FragmentSize(x) \in Nat
  PROVE  Total(SizesInOrder(d)) \in Nat
<1>1. Len(d) \in Nat /\ \A i \in 1..Len(d) : d[i] \in F
  BY ElementOfSeq
<1>2. PICK I : I = 1..Len(d)
  OBVIOUS
<1>3. SizesInOrder(d) \in [I -> Nat]
  BY <1>1, <1>2 DEF SizesInOrder
<1>4. IsFiniteSet(I)
  BY <1>1, <1>2, FS_Interval
<1> QED
  BY <1>3, <1>4, TotalNat

LEMMA LeftIsSmall ==
  ASSUME NEW H, NEW st, NEW n \in Nat, NEW size \in Nat, LoadedSoFar(st, n, size, H),
         size < SizeModulus
  PROVE  Len(st.left) < SizeModulus
<1>1. st.left \in Seq(Cells(H)) /\ st.decoded \in Seq(Parsed(H))
      /\ Total(SizesInOrder(st.decoded)) + Len(st.left) = size
  BY DEF LoadedSoFar
<1>2. \A x \in Parsed(H) : FragmentSize(x) \in Nat
  BY ParsedSize
<1>3. Total(SizesInOrder(st.decoded)) \in Nat
  BY <1>1, <1>2, TotalOfSizes
<1>4. Len(st.left) \in Nat
  BY <1>1, LenProperties
<1> QED
  BY <1>1, <1>3, <1>4, SizeModuli

LEMMA LoadedNext ==
  ASSUME NEW H, Loadable(H), NEW st, NEW n \in Nat, NEW size \in Nat,
         LoadedSoFar(st, n, size, H), FragmentDecodes(st.left, TRUE), size < SizeModulus
  PROVE  LoadedSoFar(AfterFragment(st), n + 1, size, H)
<1> DEFINE f == DecodedFragment(st.left)
           a == FragmentSize(f)
           left == SubSeq(st.left, a + 1, Len(st.left))
<1>1. st.left \in Seq(Cells(H)) /\ st.decoded \in Seq(Parsed(H)) /\ Len(st.decoded) = n
      /\ Total(SizesInOrder(st.decoded)) + Len(st.left) = size
  BY DEF LoadedSoFar
<1>6. \A x \in Parsed(H) : FragmentSize(x) \in Nat
  BY ParsedSize
<1>0. Len(st.left) < SizeModulus
  BY LeftIsSmall
<1>2. f \in Parsed(H) /\ a \in Nat /\ a <= Len(st.left)
  BY <1>0, <1>1, ParsedOne
<1>3. AfterFragment(st) = [decoded |-> Append(st.decoded, f), left |-> left]
  BY DEF AfterFragment
<1> HIDE DEF f, a
<1>4. a \in 0..Len(st.left) /\ Len(st.left) \in Nat
  BY <1>1, <1>2
<1>5. left \in Seq(Cells(H)) /\ Len(left) = Len(st.left) - a
  BY <1>1, <1>4, Suffix
<1>7. /\ Append(st.decoded, f) \in Seq(Parsed(H)) /\ Len(Append(st.decoded, f)) = Len(st.decoded) + 1
      /\ Total(SizesInOrder(st.decoded)) \in Nat
      /\ Total(SizesInOrder(Append(st.decoded, f))) = Total(SizesInOrder(st.decoded)) + a
  BY <1>1, <1>2, <1>6, AddedSize DEF a
<1> HIDE DEF left
<1>8. Total(SizesInOrder(Append(st.decoded, f))) + Len(left) = size
  BY <1>1, <1>4, <1>5, <1>7
<1> QED
  BY <1>1, <1>3, <1>5, <1>7, <1>8 DEF LoadedSoFar

LEMMA LoadedStart ==
  ASSUME NEW H, NEW bytes \in Seq(Cells(H))
  PROVE  LoadedSoFar([decoded |-> <<>>, left |-> bytes], 0, Len(bytes), H)
<1>1. SizesInOrder(<<>>) \in [{} -> Nat]
  BY DEF SizesInOrder
<1>2. Total(SizesInOrder(<<>>)) = 0
  BY <1>1, TotalEmpty
<1>3. Len(bytes) \in Nat
  OBVIOUS
<1> QED
  BY <1>2, <1>3 DEF LoadedSoFar

LEMMA LoadedEnd ==
  ASSUME NEW H, Loadable(H), NEW bytes \in Seq(Cells(H)), Len(bytes) < SizeModulus,
         NEW count \in Nat, NEW st \in LoadLoop(bytes, count)
  PROVE  LoadedSoFar(st, count, Len(bytes), H)
<1>1. PICK round : IsLoading(round, bytes, count)
  BY LoadRounds
<1> DEFINE Q == {n \in 0..count : \A s \in round[n] : LoadedSoFar(s, n, Len(bytes), H)}
<1>2. 0 \in Q
  BY <1>1, LoadedStart DEF IsLoading
<1>3. ASSUME NEW n \in 0..(count - 1), n \in Q
      PROVE  n + 1 \in Q
  <2>1. n + 1 \in 1..count /\ (n + 1) - 1 = n /\ n \in Nat /\ Len(bytes) \in Nat
    OBVIOUS
  <2>2. round[n + 1] = AfterRound(round[n])
    BY <1>1, <2>1 DEF IsLoading
  <2>3. ASSUME NEW s \in round[n + 1]
        PROVE  LoadedSoFar(s, n + 1, Len(bytes), H)
    <3>1. PICK t \in round[n] : FragmentDecodes(t.left, TRUE) /\ s = AfterFragment(t)
      BY <2>2 DEF AfterRound
    <3>2. LoadedSoFar(t, n, Len(bytes), H)
      BY <1>3
    <3> QED
      BY <2>1, <3>1, <3>2, LoadedNext
  <2> QED
    BY <2>1, <2>3
<1>4. count \in Q
  <2> HIDE DEF Q
  <2>1. 0..count \subseteq Q
    BY <1>2, <1>3, UpTo
  <2> QED
    BY <2>1
<1> QED
  BY <1>1, <1>4 DEF IsLoading

(* The members of a set of numbers can be listed in ascending order in one *)
(* way only.                                                               *)
Lists(b, N, S) == Enumerates(b, N, S) /\ Ascending(b, N)

SameList(a, b, N) == \A n \in 1..N : a[n] = b[n]

LEMMA ListedOnce ==
  ASSUME NEW S, S \subseteq Int, NEW N \in Nat, NEW a, NEW b, Lists(a, N, S), Lists(b, N, S)
  PROVE  SameList(a, b, N)
<1> DEFINE Q == {n \in 0..N : \A m \in 1..n : a[m] = b[m]}
<1>1. ASSUME NEW u, NEW v, Lists(u, N, S), Lists(v, N, S), NEW n \in 0..(N - 1),
             \A m \in 1..n : u[m] = v[m]
      PROVE  u[n + 1] >= v[n + 1]
  <2>1. n + 1 \in 1..N /\ u[n + 1] \in S /\ v[n + 1] \in S
    BY <1>1 DEF Lists, Enumerates
  <2>2. PICK j \in 1..N : v[j] = u[n + 1]
    BY <1>1, <2>1 DEF Lists, Enumerates
  <2>3. j \notin 1..n
    <3> SUFFICES ASSUME j \in 1..n
                 PROVE  FALSE
      OBVIOUS
    <3>1. u[j] = u[n + 1] /\ j # n + 1
      BY <1>1, <2>2
    <3> QED
      BY <1>1, <2>1, <3>1 DEF Lists, Enumerates
  <2>4. j = n + 1 \/ n + 1 < j
    BY <2>3
  <2>5. n + 1 < j => v[n + 1] < v[j]
    BY <1>1, <2>1 DEF Lists, Ascending, KeyOrder
  <2>6. v[j] \in Int /\ v[n + 1] \in Int
    BY <2>1, <2>2
  <2> QED
    BY <2>2, <2>4, <2>5, <2>6
<1>2. 0 \in Q
  OBVIOUS
<1>3. ASSUME NEW n \in 0..(N - 1), n \in Q
      PROVE  n + 1 \in Q
  <2>1. \A m \in 1..n : a[m] = b[m] /\ b[m] = a[m]
    BY <1>3
  <2>2. a[n + 1] >= b[n + 1]
    BY <1>1, <2>1
  <2>3. b[n + 1] >= a[n + 1]
    BY <1>1, <2>1
  <2>4. n + 1 \in 1..N /\ a[n + 1] \in Int /\ b[n + 1] \in Int
    BY DEF Lists, Enumerates
  <2>5. a[n + 1] = b[n + 1]
    BY <2>2, <2>3, <2>4
  <2>6. \A m \in 1..(n + 1) : m = n + 1 \/ m \in 1..n
    OBVIOUS
  <2> QED
    BY <2>1, <2>4, <2>5, <2>6
<1>4. N \in Q
  <2> HIDE DEF Q
  <2>1. 0..N \subseteq Q
    BY <1>2, <1>3, UpTo
  <2> QED
    BY <2>1
<1> QED
  BY <1>4 DEF SameList

LEMMA KeysListed ==
  ASSUME NEW S, IsFiniteSet(S), S \subseteq Int
  PROVE  Lists(KeysInOrder(S), Cardinality(S), S)
BY KeysOnce DEF Lists, Enumerates

(* What the loop has after all its rounds is as raw() lays it out. *)
LaidOut(loaded) ==
  LET d == loaded.decoded
  IN  /\ \A i \in DOMAIN d : d[i].header.header_size = FragmentHeaderSize
      /\ \A i, j \in DOMAIN d :
           i < j => d[i].header.source_id < d[j].header.source_id
      /\ loaded.left = <<>>

Sources(d) == [i \in 1..Len(d) |-> d[i].header.source_id]

(* The map has the fragments, each under its source, when no source comes  *)
(* twice.                                                                  *)
LEMMA MapOfDistinct ==
  ASSUME NEW d, NEW N \in Nat, DOMAIN d = 1..N, NEW b, NEW S, Enumerates(b, N, S),
         \A i \in 1..N : d[i].header.source_id = b[i]
  PROVE  /\ DOMAIN FragmentMap(d) = S
         /\ FragmentMap(d) = [s \in S |-> FragmentMap(d)[s]]
         /\ \A i \in 1..N : FragmentMap(d)[b[i]] = d[i]
<1> DEFINE source(i) == d[i].header.source_id
           At(s) == {i \in DOMAIN d : source(i) = s}
<1>1. FragmentMap(d) = [s \in {source(i) : i \in DOMAIN d} |-> d[Max(At(s))]]
  BY Zenon DEF FragmentMap, At, source
<1>2. \A i \in 1..N : source(i) = b[i] /\ b[i] \in S
  BY DEF Enumerates
<1>3. {source(i) : i \in DOMAIN d} = S
  <2> HIDE DEF source
  <2> QED
    BY <1>2 DEF Enumerates
<1>4. ASSUME NEW i \in 1..N
      PROVE  d[Max(At(b[i]))] = d[i]
  <2>1. At(b[i]) = {i}
    <3> HIDE DEF source
    <3> QED
      BY <1>2 DEF Enumerates
  <2> HIDE DEF At
  <2>2. Max(At(b[i])) = i
    <3>1. At(b[i]) \in SUBSET (1..N) /\ At(b[i]) # {}
      BY <2>1
    <3>2. Max(At(b[i])) \in At(b[i])
      BY <3>1, MaxOfFirst
    <3> QED
      BY <2>1, <3>2
  <2> QED
    BY <2>2
<1> HIDE DEF source, At
<1>5. FragmentMap(d) = [s \in S |-> d[Max(At(s))]]
  BY <1>1, <1>3
<1> QED
  BY <1>2, <1>4, <1>5

LEMMA LoadedIsWritten ==
  ASSUME NEW H, Loadable(H), NEW header \in H,
         header.marker = EventMarker, header.version_number = EventVersionLatest,
         header.header_size = EventHeaderSize, header.fragment_count \in Nat,
         NEW bytes \in Seq(Cells(H)), header.payload_size = Len(bytes), Len(bytes) < SizeModulus,
         NEW loaded \in LoadLoop(bytes, header.fragment_count), LaidOut(loaded),
         NEW e \in LoadedEvents(header, bytes)
  PROVE  /\ WrittenEvent(e, H)
         /\ HeaderFits(e)
         /\ Lists(Sources(loaded.decoded), header.fragment_count, DOMAIN e.fragments)
         /\ \A i \in 1..header.fragment_count :
              e.fragments[Sources(loaded.decoded)[i]] = loaded.decoded[i]
<1> DEFINE N == header.fragment_count
           d == loaded.decoded
           b == Sources(d)
           S == {b[i] : i \in 1..N}
<1>1. LoadedSoFar(loaded, N, Len(bytes), H)
  BY LoadedEnd
<1>2. d \in Seq(Parsed(H)) /\ Len(d) = N /\ Total(SizesInOrder(d)) + Len(loaded.left) = Len(bytes)
  BY <1>1 DEF LoadedSoFar
<1>3. e = [header |-> header, fragments |-> FragmentMap(d)]
  BY OneState DEF LoadedEvents
<1>4. DOMAIN d = 1..N /\ \A i \in 1..N : d[i] \in Parsed(H)
  BY <1>2, ElementOfSeq
<1>5. \A i \in 1..N : b[i] = d[i].header.source_id /\ b[i] \in Nat
  BY <1>2, <1>4 DEF Sources, Parsed
<1>6. Ascending(b, N)
  BY <1>4, <1>5 DEF LaidOut, Ascending, KeyOrder
<1>7. Enumerates(b, N, S)
  <2>1. ASSUME NEW i \in 1..N, NEW j \in 1..N, i # j
        PROVE  b[i] # b[j]
    <3>1. i < j \/ j < i
      BY <2>1
    <3> HIDE DEF b
    <3> QED
      BY <1>5, <1>6, <3>1 DEF Ascending, KeyOrder
  <2> HIDE DEF b
  <2> QED
    BY <2>1 DEF Enumerates
<1>8. S \subseteq Int
  BY <1>5
<1> HIDE DEF b, S, d
<1>9. /\ DOMAIN FragmentMap(d) = S
      /\ FragmentMap(d) = [s \in S |-> FragmentMap(d)[s]]
      /\ \A i \in 1..N : FragmentMap(d)[b[i]] = d[i]
  BY <1>4, <1>5, <1>7, MapOfDistinct
<1>10. IsFiniteSet(S) /\ Cardinality(S) = N
  BY <1>7, CountOfListed
<1>11. \A s \in S : \E i \in 1..N : s = b[i] /\ FragmentMap(d)[s] = d[i]
  BY <1>7, <1>9 DEF Enumerates
<1>12. ASSUME NEW s \in S
       PROVE  Written(FragmentMap(d)[s], H) /\ FragmentMap(d)[s].header.source_id = s
  <2>1. PICK i \in 1..N : s = b[i] /\ FragmentMap(d)[s] = d[i]
    BY <1>11
  <2>2. d[i].header.header_size = FragmentHeaderSize /\ d[i] \in Parsed(H)
    BY <1>4 DEF LaidOut, d
  <2>3. PICK f : f = d[i]
    OBVIOUS
  <2>4. Written(f, H)
    BY <2>2, <2>3, ParsedWritten
  <2> QED
    BY <1>5, <2>1, <2>3, <2>4
<1>13. WrittenEvent(e, H)
  BY <1>3, <1>8, <1>9, <1>10, <1>12 DEF WrittenEvent
<1>14. Total(FragmentSizes(e)) = Total(SizesInOrder(d))
  <2>1. PICK f : f = FragmentSizes(e)
    OBVIOUS
  <2>2. f \in [S -> Nat] /\ \A s \in S : f[s] = RawSize(FragmentMap(d)[s])
    BY <1>3, <1>9, <1>12, <2>1, RawOfWritten DEF FragmentSizes
  <2>3. Total(ValuesInOrder(f, b, N)) = Total(f)
    BY <1>7, <1>10, <2>2, TotalInOrder
  <2>4. ValuesInOrder(f, b, N) = SizesInOrder(d)
    <3>1. ASSUME NEW i \in 1..N
          PROVE  f[b[i]] = FragmentSize(d[i])
      <4>1. PICK g : g = d[i]
        OBVIOUS
      <4>2. g \in Parsed(H) /\ g.header.header_size = FragmentHeaderSize
        BY <1>4, <4>1 DEF LaidOut, d
      <4>3. FragmentSize(g) = RawSize(g)
        BY <4>2, ParsedWritten
      <4>4. f[b[i]] = RawSize(d[i])
        BY <1>7, <1>9, <2>2 DEF Enumerates
      <4> QED
        BY <4>1, <4>3, <4>4
    <3> QED
      BY <1>2, <3>1 DEF ValuesInOrder, SizesInOrder, d
  <2> QED
    BY <2>1, <2>3, <2>4
<1>15. Len(loaded.left) = 0
  BY DEF LaidOut
<1>16. Total(SizesInOrder(d)) = Len(bytes)
  <2>1. Total(FragmentSizes(e)) \in Nat
    <3>1. FragmentSizes(e) \in [S -> Nat]
      BY <1>3, <1>9, <1>12, RawOfWritten DEF FragmentSizes
    <3> QED
      BY <1>10, <3>1, TotalNat
  <2> QED
    BY <1>2, <1>14, <1>15, <2>1 DEF d
<1>17. HeaderFits(e)
  <2>1. Len(bytes) \in Nat
    BY LenProperties
  <2> QED
    BY <1>3, <1>9, <1>10, <1>14, <1>16, <2>1 DEF HeaderFits
<1> QED
  BY <1>3, <1>6, <1>7, <1>9, <1>13, <1>17 DEF Lists, b, d

-------------------------------------------------------------------------------
(* The bytes behind the loop over fragments.                               *)

(* Behind the first cell of a header come its other bytes. *)
TailAt(bytes, k, size) ==
  \A j \in 2..size : (k - 1) + j <= Len(bytes) => bytes[(k - 1) + j] = TailByte

(* A header is its own bytes and no others: those of another header do not *)
(* lie inside it, and its payload does not begin there.                    *)
Packed(bytes) ==
  \A k \in 1..Len(bytes) : bytes[k].kind = "header" =>
    /\ bytes[k].header.marker = EventMarker => TailAt(bytes, k, EventHeaderSize)
    /\ bytes[k].header.marker = FragmentMarker =>
         TailAt(bytes, k, FragmentHeaderSize) /\ bytes[k].header.header_size >= FragmentHeaderSize

LEMMA PackedRest ==
  ASSUME NEW D, NEW s \in Seq(D), Packed(s), NEW a \in 0..Len(s),
         NEW t, t = SubSeq(s, a + 1, Len(s))
  PROVE  Packed(t)
<1>1. /\ Len(t) = Len(s) - a /\ Len(s) \in Nat
      /\ \A k \in 1..Len(t) : t[k] = s[a + k] /\ a + k \in 1..Len(s)
  BY Suffix
<1>2. ASSUME NEW k \in 1..Len(t), NEW size, TailAt(s, a + k, size)
      PROVE  TailAt(t, k, size)
  <2> SUFFICES ASSUME NEW j \in 2..size, (k - 1) + j <= Len(t)
               PROVE  t[(k - 1) + j] = TailByte
    BY DEF TailAt
  <2>1. PICK m \in 1..Len(t) : m = (k - 1) + j
    BY <1>1
  <2>2. ((a + k) - 1) + j = a + m /\ a + m <= Len(s)
    BY <1>1, <2>1
  <2>3. s[a + m] = TailByte
    BY <1>2, <2>2 DEF TailAt
  <2> QED
    BY <1>1, <2>1, <2>3
<1> SUFFICES ASSUME NEW k \in 1..Len(t), t[k].kind = "header"
             PROVE  /\ t[k].header.marker = EventMarker => TailAt(t, k, EventHeaderSize)
                    /\ t[k].header.marker = FragmentMarker =>
                         TailAt(t, k, FragmentHeaderSize)
                           /\ t[k].header.header_size >= FragmentHeaderSize
  BY DEF Packed
<1>3. PICK m \in 1..Len(s) : m = a + k
  BY <1>1
<1>4. t[k] = s[m]
  BY <1>1, <1>3
<1>5. /\ s[m].header.marker = EventMarker => TailAt(s, m, EventHeaderSize)
      /\ s[m].header.marker = FragmentMarker =>
           TailAt(s, m, FragmentHeaderSize) /\ s[m].header.header_size >= FragmentHeaderSize
  BY <1>4 DEF Packed
<1> QED
  BY <1>2, <1>3, <1>4, <1>5

LEMMA PackedFront ==
  ASSUME NEW s, NEW t, Packed(s), Len(s) \in Nat, Len(t) \in Nat, Len(t) <= Len(s),
         \A k \in 1..Len(t) : t[k] = s[k]
  PROVE  Packed(t)
<1>1. ASSUME NEW k \in 1..Len(t), NEW size, TailAt(s, k, size)
      PROVE  TailAt(t, k, size)
  <2> SUFFICES ASSUME NEW j \in 2..size, (k - 1) + j <= Len(t)
               PROVE  t[(k - 1) + j] = TailByte
    BY DEF TailAt
  <2>1. PICK m \in 1..Len(t) : m = (k - 1) + j
    OBVIOUS
  <2>2. s[(k - 1) + j] = TailByte
    BY <1>1, <2>1 DEF TailAt
  <2> QED
    BY <2>1, <2>2
<1>2. \A k \in 1..Len(t) : k \in 1..Len(s)
  OBVIOUS
<1> QED
  BY <1>1, <1>2 DEF Packed

(* A header laid out in front of other bytes. *)
StartsWithHeader(bytes, h, size) ==
  /\ bytes[1] = [kind |-> "header", header |-> h]
  /\ \A j \in 2..size : bytes[j] = TailByte

HeaderAnd(p, u, h, size, H) ==
  /\ u \in Seq(Cells(H)) /\ Len(u) = size + Len(p)
  /\ StartsWithHeader(u, h, size)
  /\ \A k \in 1..Len(p) : u[size + k] = p[k]

LEMMA HeaderTail ==
  ASSUME NEW H, NEW h \in H, NEW size \in Nat \ {0}, NEW p \in Seq(Cells(H)),
         NEW u, u = HeaderBytes(h, size) \o p
  PROVE  HeaderAnd(p, u, h, size, H)
<1> DEFINE hb == HeaderBytes(h, size)
           first == <<[kind |-> "header", header |-> h]>>
           tail == [i \in 1..(size - 1) |-> TailByte]
<1>1. /\ hb \in Seq(Cells(H)) /\ Len(hb) = size
      /\ hb[1] = [kind |-> "header", header |-> h]
  BY HeaderCells
<1>2. ASSUME NEW j \in 2..size
      PROVE  hb[j] = TailByte
  <2>1. first \in Seq(Cells(H)) /\ Len(first) = 1 /\ tail \in Seq(Cells(H)) /\ Len(tail) = size - 1
    <3>1. TailByte \in Cells(H)
      BY DEF Cells
    <3>2. first \in Seq(Cells(H)) /\ Len(first) = 1
      BY DEF Cells
    <3>3. size - 1 \in Nat
      OBVIOUS
    <3> QED
      BY <3>1, <3>2, <3>3
  <2>2. hb = first \o tail
    BY DEF HeaderBytes
  <2>3. j - 1 \in 1..Len(tail) /\ tail[j - 1] = TailByte /\ Len(first) + (j - 1) = j
    BY <2>1
  <2> HIDE DEF hb, first, tail
  <2>4. PICK D : D = Cells(H)
    OBVIOUS
  <2>5. first \in Seq(D) /\ tail \in Seq(D)
    BY <2>1, <2>4
  <2>6. \A k \in 1..Len(tail) : hb[Len(first) + k] = tail[k]
    BY <2>2, <2>5, Concatenated
  <2> QED
    BY <2>3, <2>6
<1> HIDE DEF hb
<1>3. /\ Len(u) = Len(hb) + Len(p)
      /\ \A k \in 1..Len(hb) : u[k] = hb[k]
      /\ \A k \in 1..Len(p) : u[Len(hb) + k] = p[k]
  <2>1. u = hb \o p
    BY DEF hb
  <2>2. PICK D : D = Cells(H)
    OBVIOUS
  <2>3. hb \in Seq(D) /\ p \in Seq(D)
    BY <1>1, <2>2
  <2> QED
    BY <2>1, <2>3, Concatenated
<1>4. u \in Seq(Cells(H))
  BY <1>1, ConcatProperties DEF hb
<1>5. StartsWithHeader(u, h, size)
  <2>1. 1 \in 1..size /\ \A j \in 2..size : j \in 1..size
    OBVIOUS
  <2> QED
    BY <1>1, <1>2, <1>3, <2>1 DEF StartsWithHeader
<1> QED
  BY <1>1, <1>3, <1>4, <1>5 DEF HeaderAnd

LEMMA RawOfParsed ==
  ASSUME NEW H, NEW f \in Parsed(H)
  PROVE  /\ RawFragment(f) \in Seq(Cells(H))
         /\ Len(RawFragment(f)) = FragmentHeaderSize + Len(f.payload)
         /\ StartsWithHeader(RawFragment(f), f.header, FragmentHeaderSize)
         /\ \A k \in 1..Len(f.payload) : RawFragment(f)[FragmentHeaderSize + k] = f.payload[k]
<1>1. f.header \in H /\ f.payload \in Seq(Cells(H))
  BY DEF Parsed
<1>2. FragmentHeaderSize \in Nat \ {0}
  BY SizesAssumption
<1>3. PICK u : u = RawFragment(f)
  OBVIOUS
<1>4. PICK h, p, size : h = f.header /\ p = f.payload /\ size = FragmentHeaderSize
  OBVIOUS
<1>5. u = HeaderBytes(h, size) \o p
  BY <1>3, <1>4 DEF RawFragment
<1>6. h \in H /\ p \in Seq(Cells(H)) /\ size \in Nat \ {0}
  BY <1>1, <1>2, <1>4
<1>7. HeaderAnd(p, u, h, size, H)
  BY <1>5, <1>6, HeaderTail
<1> QED
  BY <1>3, <1>4, <1>7 DEF HeaderAnd

(* A fragment with a header of this build's size is what raw() would write *)
(* of it.                                                                  *)
RawInFront(left, f, rest, H) ==
  /\ left = RawFragment(f) \o rest
  /\ rest \in Seq(Cells(H)) /\ Packed(rest)

LEMMA DecodedIsRaw ==
  ASSUME NEW H, Loadable(H), NEW left \in Seq(Cells(H)), Packed(left),
         Len(left) < SizeModulus,
         FragmentDecodes(left, TRUE), NEW f, f = DecodedFragment(left),
         f.header.header_size = FragmentHeaderSize,
         NEW rest, rest = SubSeq(left, FragmentSize(f) + 1, Len(left))
  PROVE  RawInFront(left, f, rest, H)
<1>1. /\ f \in Parsed(H) /\ f.header = Head(left).header
      /\ FragmentSize(f) \in Nat /\ FragmentSize(f) <= Len(left)
  BY ParsedOne
<1>2. f.payload \in Seq(Cells(H)) /\ f.header.payload_size = Len(f.payload)
      /\ f.header.marker = FragmentMarker
  BY <1>1 DEF Parsed
<1>3. PICK a, b : a = FragmentHeaderSize /\ b = Len(f.payload)
  OBVIOUS
<1>4. a \in Nat \ {0} /\ b \in Nat /\ FragmentSize(f) = a + b
  <2>1. FragmentSize(f) = f.header.header_size + Len(f.payload)
    BY <1>1, ParsedSize
  <2>2. b \in Nat
    BY <1>2, <1>3, LenProperties
  <2>3. a \in Nat \ {0}
    BY <1>3, SizesAssumption
  <2> QED
    BY <1>3, <2>1, <2>2, <2>3
<1>5. a + b <= Len(left) /\ Len(left) \in Nat
  BY <1>1, <1>4
<1>6. /\ rest \in Seq(Cells(H)) /\ Len(rest) = Len(left) - (a + b)
      /\ \A k \in 1..(Len(left) - (a + b)) : rest[k] = left[(a + b) + k]
  <2>1. PICK n : n = a + b
    OBVIOUS
  <2>2. n \in 0..Len(left) /\ rest = SubSeq(left, n + 1, Len(left))
    BY <1>4, <1>5, <2>1
  <2>3. /\ rest \in Seq(Cells(H)) /\ Len(rest) = Len(left) - n
        /\ \A k \in 1..(Len(left) - n) : rest[k] = left[n + k]
    BY <2>2, Suffix
  <2> QED
    BY <2>1, <2>3
<1>7. Packed(rest)
  <2>1. PICK n : n = a + b
    OBVIOUS
  <2>2. n \in 0..Len(left) /\ rest = SubSeq(left, n + 1, Len(left))
    BY <1>4, <1>5, <2>1
  <2> QED
    BY <2>2, PackedRest
<1>8. left[1] = [kind |-> "header", header |-> f.header]
  <2>1. Head(left) = left[1] /\ left[1] \in Cells(H)
    BY <1>4, <1>5
  <2>2. left[1].kind = "header" /\ left[1].header = f.header
    BY <1>1, <2>1 DEF FragmentDecodes, FragmentAccepted, HeaderIs
  <2> QED
    BY <2>1, <2>2 DEF Cells, TailByte, DataBytes
<1>9. \A j \in 2..a : left[j] = TailByte
  <2>1. 1 \in 1..Len(left) /\ left[1].kind = "header" /\ left[1].header.marker = FragmentMarker
    BY <1>2, <1>4, <1>5, <1>8
  <2>2. TailAt(left, 1, a)
    BY <1>3, <2>1 DEF Packed
  <2>3. \A j \in 2..a : (1 - 1) + j = j /\ j <= Len(left)
    BY <1>4, <1>5
  <2> QED
    BY <2>2, <2>3 DEF TailAt
<1>10. \A k \in 1..b : f.payload[k] = left[a + k]
  <2>1. f.payload = SubSeq(left, a + 1, a + b)
    BY <1>1, <1>2, <1>3 DEF DecodedFragment
  <2> QED
    BY <1>4, <1>5, <2>1
<1>11. PICK raw, whole : raw = RawFragment(f) /\ whole = raw \o rest
  OBVIOUS
<1>12. /\ raw \in Seq(Cells(H)) /\ Len(raw) = a + b
       /\ StartsWithHeader(raw, f.header, a)
       /\ \A k \in 1..b : raw[a + k] = f.payload[k]
  BY <1>1, <1>3, <1>11, RawOfParsed
<1>13. /\ Len(whole) = Len(raw) + Len(rest)
       /\ \A k \in 1..Len(raw) : whole[k] = raw[k]
       /\ \A k \in 1..Len(rest) : whole[Len(raw) + k] = rest[k]
       /\ whole \in Seq(Cells(H))
  <2>1. PICK D : D = Cells(H)
    OBVIOUS
  <2>2. raw \in Seq(D) /\ rest \in Seq(D) /\ whole = raw \o rest
    BY <1>6, <1>11, <1>12, <2>1
  <2>3. whole \in Seq(D)
    BY <2>2, ConcatProperties
  <2> QED
    BY <2>1, <2>2, <2>3, Concatenated
<1>14. ASSUME NEW k \in 1..(a + b)
       PROVE  raw[k] = left[k]
  <2>1. CASE k = 1
    BY <1>8, <1>12, <2>1 DEF StartsWithHeader
  <2>2. CASE k \in 2..a
    BY <1>9, <1>12, <2>2 DEF StartsWithHeader
  <2>3. CASE k > a
    <3>1. PICK j \in 1..b : k = a + j
      <4>1. k - a \in 1..b /\ k = a + (k - a)
        BY <1>4, <2>3
      <4> QED
        BY <4>1
    <3> QED
      BY <1>10, <1>12, <3>1
  <2> QED
    BY <1>4, <2>1, <2>2, <2>3
<1>15. ASSUME NEW k \in 1..Len(left)
       PROVE  whole[k] = left[k]
  <2>1. CASE k <= a + b
    <3>1. k \in 1..(a + b)
      BY <1>4, <2>1
    <3> QED
      BY <1>12, <1>13, <1>14, <3>1
  <2>2. CASE k > a + b
    <3>1. PICK j \in 1..(Len(left) - (a + b)) : k = (a + b) + j
      <4>1. k - (a + b) \in 1..(Len(left) - (a + b)) /\ k = (a + b) + (k - (a + b))
        BY <1>4, <1>5, <2>2
      <4> QED
        BY <4>1
    <3> QED
      BY <1>6, <1>12, <1>13, <3>1
  <2> QED
    BY <1>4, <2>1, <2>2
<1>16. whole = left
  <2>1. Len(whole) = Len(left)
    BY <1>4, <1>5, <1>6, <1>12, <1>13
  <2> QED
    BY <1>13, <1>15, <2>1, SeqEqual
<1> QED
  BY <1>6, <1>7, <1>11, <1>16 DEF RawInFront

Raws(d) == [i \in 1..Len(d) |-> RawFragment(d[i])]

OfThisSize(d) == \A i \in 1..Len(d) : d[i].header.header_size = FragmentHeaderSize

(* The fragments decoded and the bytes left are the bytes there were. *)
Covers(flat, st, bytes, H) ==
  /\ IsFlattening(flat, Raws(st.decoded), Len(st.decoded), Cells(H))
  /\ bytes = flat[Len(st.decoded)] \o st.left

NoneSmaller(d) == \A i \in 1..Len(d) : d[i].header.header_size >= FragmentHeaderSize

Walked(st, bytes, H) ==
  /\ Packed(st.left) /\ NoneSmaller(st.decoded)
  /\ OfThisSize(st.decoded) => \E flat : Covers(flat, st, bytes, H)

LEMMA WalkStart ==
  ASSUME NEW H, NEW bytes \in Seq(Cells(H)), Packed(bytes)
  PROVE  Walked([decoded |-> <<>>, left |-> bytes], bytes, H)
<1> DEFINE flat == [n \in 0..0 |-> <<>>]
<1>1. /\ \A n \in 0..0 : flat[n] \in Seq(Cells(H))
      /\ flat[0] = <<>>
  OBVIOUS
<1>2. \A raws : IsFlattening(flat, raws, 0, Cells(H))
  <2> HIDE DEF flat
  <2> QED
    BY <1>1 DEF IsFlattening
<1>3. bytes = flat[0] \o bytes
  BY ConcatEmptySeq
<1> HIDE DEF flat
<1>4. Covers(flat, [decoded |-> <<>>, left |-> bytes], bytes, H)
  BY <1>2, <1>3 DEF Covers
<1> QED
  BY <1>4 DEF Walked, NoneSmaller

LEMMA WalkNext ==
  ASSUME NEW H, Loadable(H), NEW st, NEW n \in Nat, NEW size \in Nat,
         LoadedSoFar(st, n, size, H), FragmentDecodes(st.left, TRUE), size < SizeModulus,
         NEW bytes, Walked(st, bytes, H)
  PROVE  Walked(AfterFragment(st), bytes, H)
<1> DEFINE f == DecodedFragment(st.left)
           rest == SubSeq(st.left, FragmentSize(f) + 1, Len(st.left))
           d == st.decoded
           e == Append(st.decoded, f)
<1>1. AfterFragment(st) = [decoded |-> e, left |-> rest]
  BY DEF AfterFragment
<1>2. d \in Seq(Parsed(H)) /\ Len(d) = n /\ st.left \in Seq(Cells(H))
  BY DEF LoadedSoFar
<1>0. Len(st.left) < SizeModulus
  BY LeftIsSmall
<1>3. f \in Parsed(H)
  BY <1>0, <1>2, ParsedOne
<1>4. /\ e \in Seq(Parsed(H)) /\ Len(e) = n + 1 /\ e[n + 1] = f
      /\ \A i \in 1..n : e[i] = d[i]
  BY <1>2, <1>3, AppendProperties
<1>6. NoneSmaller(e)
  <2>1. /\ f.header = Head(st.left).header /\ FragmentSize(f) \in Nat
        /\ FragmentSize(f) <= Len(st.left)
    BY <1>0, <1>2, ParsedOne
  <2>2. /\ Head(st.left).kind = "header" /\ Head(st.left).header.marker = FragmentMarker
        /\ Len(st.left) >= MinFragmentSize
    BY DEF FragmentDecodes, FragmentAccepted, HeaderIs
  <2>3. 1 \in 1..Len(st.left) /\ Head(st.left) = st.left[1]
    BY <1>2, <2>2, SizesAssumption
  <2>4. Packed(st.left)
    BY DEF Walked
  <2>5. f.header.header_size >= FragmentHeaderSize
    BY <2>1, <2>2, <2>3, <2>4 DEF Packed
  <2>6. NoneSmaller(d)
    BY DEF Walked
  <2>7. \A i \in 1..Len(e) : i = n + 1 \/ i \in 1..n
    BY <1>4
  <2> HIDE DEF e, f
  <2> QED
    BY <1>2, <1>4, <2>5, <2>6, <2>7 DEF NoneSmaller
<1>7. Packed(rest)
  <2>1. /\ FragmentSize(f) \in Nat /\ FragmentSize(f) <= Len(st.left)
    BY <1>0, <1>2, ParsedOne
  <2>2. PICK size1, r, l : size1 = FragmentSize(f) /\ l = st.left /\ r = SubSeq(l, size1 + 1, Len(l))
    OBVIOUS
  <2>3. size1 \in 0..Len(l) /\ l \in Seq(Cells(H)) /\ Packed(l)
    BY <1>2, <2>1, <2>2 DEF Walked
  <2>4. Packed(r)
    BY <2>2, <2>3, PackedRest
  <2> QED
    BY <2>2, <2>4
<1> HIDE DEF e
<1>5. ASSUME OfThisSize(e)
      PROVE  \E flat : Covers(flat, [decoded |-> e, left |-> rest], bytes, H)
  <2>1. OfThisSize(d) /\ f.header.header_size = FragmentHeaderSize
    <3>1. n + 1 \in 1..Len(e) /\ \A i \in 1..n : i \in 1..Len(e)
      BY <1>4
    <3> QED
      BY <1>2, <1>4, <1>5, <3>1 DEF OfThisSize
  <2>2. PICK flat : Covers(flat, st, bytes, H)
    BY <2>1 DEF Walked
  <2>3. Packed(st.left)
    BY <2>1 DEF Walked
  <2>4. /\ st.left = RawFragment(f) \o rest
        /\ rest \in Seq(Cells(H)) /\ Packed(rest)
    <3>1. PICK l : l = st.left
      OBVIOUS
    <3>2. PICK g : g = DecodedFragment(l)
      OBVIOUS
    <3>3. PICK r : r = SubSeq(l, FragmentSize(g) + 1, Len(l))
      OBVIOUS
    <3>4. g.header.header_size = FragmentHeaderSize /\ FragmentDecodes(l, TRUE)
          /\ l \in Seq(Cells(H)) /\ Packed(l) /\ Len(l) < SizeModulus
      BY <1>0, <1>2, <2>1, <2>3, <3>1, <3>2
    <3>5. RawInFront(l, g, r, H)
      BY <3>2, <3>3, <3>4, DecodedIsRaw
    <3> QED
      BY <3>1, <3>2, <3>3, <3>5 DEF RawInFront
  <2> HIDE DEF f, rest
  <2>5. /\ IsFlattening(flat, Raws(d), n, Cells(H))
        /\ bytes = flat[n] \o st.left
    BY <1>2, <2>2 DEF Covers
  <2>6. RawFragment(f) \in Seq(Cells(H))
    BY <1>3, RawOfParsed
  <2>7. \A i \in 1..n : Raws(e)[i] = Raws(d)[i]
    BY <1>2, <1>4 DEF Raws
  <2>8. Raws(e)[n + 1] = RawFragment(f)
    BY <1>4 DEF Raws
  <2>9. PICK longer : Longer(longer, flat, RawFragment(f), Raws(e), n, Cells(H))
    <3>1. PICK a, b, s, D : a = Raws(d) /\ b = Raws(e) /\ s = RawFragment(f) /\ D = Cells(H)
      OBVIOUS
    <3>2. IsFlattening(flat, a, n, D) /\ s \in Seq(D)
      BY <2>5, <2>6, <3>1
    <3>3. (\A i \in 1..n : b[i] = a[i]) /\ b[n + 1] = s
      BY <2>7, <2>8, <3>1
    <3>4. \E longer : Longer(longer, flat, s, b, n, D)
      BY <3>2, <3>3, FlattenMore
    <3> QED
      BY <3>1, <3>4
  <2>10. flat[n] \in Seq(Cells(H))
    BY <2>5 DEF IsFlattening
  <2>11. bytes = longer[n + 1] \o rest
    <3>1. PICK D, u, v, w : D = Cells(H) /\ u = flat[n] /\ v = RawFragment(f) /\ w = rest
      OBVIOUS
    <3>2. u \in Seq(D) /\ v \in Seq(D) /\ w \in Seq(D)
      BY <2>4, <2>6, <2>10, <3>1
    <3>3. (u \o v) \o w = u \o (v \o w)
      BY <3>2, ConcatAssociative
    <3>4. longer[n + 1] = u \o v
      BY <2>9, <3>1 DEF Longer
    <3> QED
      BY <2>4, <2>5, <3>1, <3>3, <3>4
  <2>12. Covers(longer, [decoded |-> e, left |-> rest], bytes, H)
    BY <1>4, <2>9, <2>11 DEF Covers, Longer
  <2> QED
    BY <2>12, Zenon
<1> HIDE DEF f, rest
<1> QED
  BY <1>1, <1>5, <1>6, <1>7 DEF Walked

LEMMA WalkEnd ==
  ASSUME NEW H, Loadable(H), NEW bytes \in Seq(Cells(H)), Packed(bytes),
         Len(bytes) < SizeModulus, NEW count \in Nat, NEW st \in LoadLoop(bytes, count)
  PROVE  Walked(st, bytes, H)
<1>1. PICK round : IsLoading(round, bytes, count)
  BY LoadRounds
<1> DEFINE Q == {n \in 0..count : \A s \in round[n] :
                   LoadedSoFar(s, n, Len(bytes), H) /\ Walked(s, bytes, H)}
<1>2. 0 \in Q
  BY <1>1, LoadedStart, WalkStart DEF IsLoading
<1>3. ASSUME NEW n \in 0..(count - 1), n \in Q
      PROVE  n + 1 \in Q
  <2>1. n + 1 \in 1..count /\ (n + 1) - 1 = n /\ n \in Nat /\ Len(bytes) \in Nat
    OBVIOUS
  <2>2. round[n + 1] = AfterRound(round[n])
    BY <1>1, <2>1 DEF IsLoading
  <2>3. ASSUME NEW s \in round[n + 1]
        PROVE  LoadedSoFar(s, n + 1, Len(bytes), H) /\ Walked(s, bytes, H)
    <3>1. PICK t \in round[n] : FragmentDecodes(t.left, TRUE) /\ s = AfterFragment(t)
      BY <2>2 DEF AfterRound
    <3>2. LoadedSoFar(t, n, Len(bytes), H) /\ Walked(t, bytes, H)
      BY <1>3
    <3>3. LoadedSoFar(s, n + 1, Len(bytes), H)
      BY <2>1, <3>1, <3>2, LoadedNext
    <3>4. Walked(s, bytes, H)
      BY <2>1, <3>1, <3>2, WalkNext
    <3> QED
      BY <3>3, <3>4
  <2> QED
    BY <2>1, <2>3
<1>4. count \in Q
  <2> HIDE DEF Q
  <2>1. 0..count \subseteq Q
    BY <1>2, <1>3, UpTo
  <2> QED
    BY <2>1
<1> QED
  BY <1>1, <1>4 DEF IsLoading

(* What an event was loaded from, and what the loop left. *)
LoadedFrom(e, bytes, loaded, H) ==
  /\ e.header \in H
  /\ e.header.marker = EventMarker
  /\ e.header.version_number = EventVersionLatest
  /\ e.header.fragment_count \in Nat
  /\ bytes \in Seq(Cells(H))
  /\ e.header.payload_size = Len(bytes) /\ Len(bytes) < SizeModulus
  /\ loaded \in LoadLoop(bytes, e.header.fragment_count)
  /\ e \in LoadedEvents(e.header, bytes)

(* An event whose bytes are laid out as raw() does is written as it was    *)
(* read.                                                                   *)
LEMMA LaidOutIsCopied ==
  ASSUME NEW H, Loadable(H), NEW e, NEW bytes, NEW loaded, LoadedFrom(e, bytes, loaded, H),
         Packed(bytes), LaidOut(loaded), e.header.header_size = EventHeaderSize
  PROVE  RawEvent(e) = HeaderBytes(e.header, EventHeaderSize) \o bytes
<1> DEFINE N == e.header.fragment_count
           S == DOMAIN e.fragments
           d == loaded.decoded
           ids == KeysInOrder(S)
<1>0. N \in Nat
  BY DEF LoadedFrom
<1>1. /\ WrittenEvent(e, H)
      /\ Lists(Sources(d), N, S)
      /\ \A i \in 1..N : e.fragments[Sources(d)[i]] = d[i]
  <2>1. PICK header : header = e.header
    OBVIOUS
  <2>2. /\ header \in H /\ header.marker = EventMarker
        /\ header.version_number = EventVersionLatest /\ header.header_size = EventHeaderSize
        /\ header.fragment_count \in Nat /\ bytes \in Seq(Cells(H))
        /\ header.payload_size = Len(bytes) /\ Len(bytes) < SizeModulus
        /\ loaded \in LoadLoop(bytes, header.fragment_count)
        /\ e \in LoadedEvents(header, bytes)
    BY <2>1 DEF LoadedFrom
  <2>3. /\ WrittenEvent(e, H)
        /\ Lists(Sources(d), header.fragment_count, S)
        /\ \A i \in 1..header.fragment_count : e.fragments[Sources(d)[i]] = d[i]
    BY <2>2, LoadedIsWritten
  <2> QED
    BY <2>1, <2>3
<1>2. S \subseteq Int /\ IsFiniteSet(S) /\ Cardinality(S) = N
  BY <1>1, CountOfListed DEF Lists, WrittenEvent, LoadedFrom
<1>3. \A i \in 1..N : ids[i] = Sources(d)[i]
  <2>1. Lists(ids, N, S)
    BY <1>2, KeysListed
  <2>2. PICK a, b, n, T : a = ids /\ b = Sources(d) /\ n = N /\ T = S
    OBVIOUS
  <2>3. Lists(a, n, T) /\ Lists(b, n, T) /\ n \in Nat /\ T \subseteq Int
    BY <1>0, <1>1, <1>2, <2>1, <2>2
  <2>4. SameList(a, b, n)
    BY <2>3, ListedOnce
  <2> QED
    BY <2>2, <2>4 DEF SameList
<1>4. LoadedSoFar(loaded, N, Len(bytes), H) /\ Walked(loaded, bytes, H)
  BY LoadedEnd, WalkEnd DEF LoadedFrom
<1>5. Len(d) = N /\ d \in Seq(Parsed(H))
  BY <1>4 DEF LoadedSoFar
<1>6. RawsInOrder(e) = Raws(d)
  <2>1. \A i \in 1..N : e.fragments[ids[i]] = d[i]
    BY <1>1, <1>3
  <2> HIDE DEF ids, d
  <2> QED
    BY <1>2, <1>5, <2>1 DEF RawsInOrder, Raws, ids
<1>7. PICK flat : IsFlattening(flat, Raws(d), N, Cells(H)) /\ bytes = flat[N] \o <<>>
  <2>1. DOMAIN d = 1..Len(d)
    BY <1>5
  <2>2. OfThisSize(d) /\ loaded.left = <<>>
    BY <2>1 DEF LaidOut, OfThisSize
  <2> QED
    BY <1>4, <1>5, <2>2 DEF Walked, Covers
<1>8. bytes = flat[N]
  <2>1. flat[N] \in Seq(Cells(H))
    BY <1>0, <1>7 DEF IsFlattening
  <2> QED
    BY <1>7, <2>1, ConcatEmptySeq
<1>9. PICK other, M : RawIs(e, other, M, H)
  BY <1>1, RawOfWrittenEvent
<1>10. /\ M = N /\ IsFlattening(other, Raws(d), N, Cells(H))
       /\ RawEvent(e) = HeaderBytes(e.header, EventHeaderSize) \o other[N]
  BY <1>2, <1>6, <1>9 DEF RawIs
<1>11. PICK raws : raws = Raws(d)
  OBVIOUS
<1>12. Len(raws) = N /\ raws = [i \in 1..Len(raws) |-> raws[i]] /\ AreSeqs(raws, N, Cells(H))
  <2>1. raws = [i \in 1..N |-> RawFragment(d[i])]
    BY <1>5, <1>11 DEF Raws
  <2>2. \A i \in 1..N : d[i] \in Parsed(H)
    BY <1>5, ElementOfSeq
  <2>3. \A i \in 1..N : RawFragment(d[i]) \in Seq(Cells(H))
    BY <2>2, RawOfParsed
  <2> HIDE DEF d
  <2>4. Len(raws) = N
    BY <1>0, <2>1
  <2> QED
    BY <2>1, <2>3, <2>4 DEF AreSeqs
<1>13. flat[N] = other[N]
  <2>1. FlattenSeq(raws) = flat[N]
    BY <1>7, <1>11, <1>12, FlattenIs
  <2>2. FlattenSeq(raws) = other[N]
    BY <1>10, <1>11, <1>12, FlattenIs
  <2> QED
    BY <2>1, <2>2
<1> QED
  BY <1>8, <1>10, <1>13

(* Every fragment of the map is one of those decoded, from its source. *)
IsSomeOf(f, s, d, i) == f = d[i] /\ d[i].header.source_id = s

LEMMA MapOfAny ==
  ASSUME NEW d, NEW N \in Nat, DOMAIN d = 1..N
  PROVE  /\ IsFiniteSet(DOMAIN FragmentMap(d))
         /\ FragmentMap(d) = [s \in DOMAIN FragmentMap(d) |-> FragmentMap(d)[s]]
         /\ \A s \in DOMAIN FragmentMap(d) : \E i \in 1..N : IsSomeOf(FragmentMap(d)[s], s, d, i)
<1> DEFINE source(i) == d[i].header.source_id
           At(s) == {i \in DOMAIN d : source(i) = s}
           S == {source(i) : i \in DOMAIN d}
<1>1. FragmentMap(d) = [s \in S |-> d[Max(At(s))]]
  BY Zenon DEF FragmentMap, At, source, S
<1>2. IsFiniteSet(S)
  <2>1. IsFiniteSet(1..N)
    BY FS_Interval
  <2> DEFINE f == [i \in 1..N |-> source(i)]
  <2>2. f \in Surjection(1..N, S)
    <3> HIDE DEF source
    <3> QED
      BY DEF Surjection
  <2> HIDE DEF f, S
  <2> QED
    BY <2>1, <2>2, FS_Surjection
<1>3. ASSUME NEW s \in S
      PROVE  \E i \in 1..N : IsSomeOf(d[Max(At(s))], s, d, i)
  <2>1. At(s) \in SUBSET (1..N) /\ At(s) # {}
    OBVIOUS
  <2>2. Max(At(s)) \in At(s)
    <3> HIDE DEF At
    <3> QED
      BY <2>1, MaxOfFirst
  <2>3. PICK i : i = Max(At(s))
    OBVIOUS
  <2>4. i \in 1..N /\ d[i].header.source_id = s
    BY <2>2, <2>3
  <2>5. IsSomeOf(d[Max(At(s))], s, d, i)
    BY <2>3, <2>4 DEF IsSomeOf
  <2> QED
    BY <2>4, <2>5
<1> HIDE DEF source, At, S
<1> QED
  BY <1>1, <1>2, <1>3

(* The bytes behind the header are the first that raw() puts behind it. *)
StartsAs(raw, bytes) ==
  /\ Len(raw) >= EventHeaderSize + Len(bytes)
  /\ \A k \in 1..Len(bytes) : raw[EventHeaderSize + k] = bytes[k]

(* A byte string of that length behind the header is those bytes. *)
IsBehind(p, raw, bytes) ==
  /\ Len(raw) = EventHeaderSize + Len(p)
  /\ Len(p) >= Len(bytes)
  /\ Len(p) = Len(bytes) => p = bytes

LEMMA BehindHeader ==
  ASSUME NEW H, NEW h \in H, NEW bytes \in Seq(Cells(H)), NEW p \in Seq(Cells(H)),
         NEW raw, raw = HeaderBytes(h, EventHeaderSize) \o p, StartsAs(raw, bytes)
  PROVE  IsBehind(p, raw, bytes)
<1>1. PICK n \in Nat \ {0} : n = EventHeaderSize
  BY SizesAssumption
<1>2. HeaderAnd(p, raw, h, n, H)
  BY <1>1, HeaderTail
<1>3. /\ Len(raw) = n + Len(p) /\ Len(p) \in Nat /\ Len(bytes) \in Nat
      /\ \A k \in 1..Len(p) : raw[n + k] = p[k]
  BY <1>2 DEF HeaderAnd
<1>4. Len(p) >= Len(bytes) /\ \A k \in 1..Len(bytes) : raw[n + k] = bytes[k]
  BY <1>1, <1>3 DEF StartsAs
<1>5. ASSUME Len(p) = Len(bytes)
      PROVE  p = bytes
  <2>1. \A k \in 1..Len(p) : p[k] = bytes[k]
    BY <1>3, <1>4, <1>5
  <2> QED
    BY <1>5, <2>1, SeqEqual
<1> QED
  BY <1>1, <1>3, <1>4, <1>5 DEF IsBehind

(* The lengths of the fragments that raw() writes are those of fragments   *)
(* decoded, no two of them of the same.                                    *)
RawLengths(d) == [i \in 1..Len(d) |-> FragmentHeaderSize + Len(d[i].payload)]

Picks(c, C, e, d, M, N) ==
  /\ C \in SUBSET (1..N) /\ Enumerates(c, M, C)
  /\ Lengths(RawsInOrder(e), M) = ValuesInOrder(RawLengths(d), c, M)
  /\ \A s \in DOMAIN e.fragments :
       \E j \in 1..M : e.fragments[s] = d[c[j]] /\ d[c[j]].header.source_id = s

LEMMA PicksExist ==
  ASSUME NEW H, NEW N \in Nat, NEW d \in Seq(Parsed(H)), Len(d) = N,
         NEW e, e.fragments = FragmentMap(d)
  PROVE  \E c, C : Picks(c, C, e, d, Cardinality(DOMAIN e.fragments), N)
<1> DEFINE S == DOMAIN e.fragments
           M == Cardinality(S)
           ids == KeysInOrder(S)
           c == [j \in 1..M |->
                   CHOOSE i \in 1..N : IsSomeOf(e.fragments[ids[j]], ids[j], d, i)]
           C == {c[j] : j \in 1..M}
<1>1. DOMAIN d = 1..N /\ \A i \in 1..N : d[i] \in Parsed(H)
  BY ElementOfSeq
<1>2. /\ IsFiniteSet(S)
      /\ \A s \in S : \E i \in 1..N : IsSomeOf(e.fragments[s], s, d, i)
  BY <1>1, MapOfAny
<1>3. S \subseteq Int
  <2>1. ASSUME NEW s \in S
        PROVE  s \in Int
    <3>1. PICK i \in 1..N : IsSomeOf(e.fragments[s], s, d, i)
      BY <1>2
    <3>2. d[i] \in Parsed(H) /\ d[i].header.source_id = s
      BY <1>1, <3>1 DEF IsSomeOf
    <3> QED
      BY <3>2 DEF Parsed
  <2> QED
    BY <2>1
<1>4. /\ M \in Nat /\ ids \in [1..M -> S]
      /\ S = {ids[j] : j \in 1..M}
      /\ \A i, j \in 1..M : i # j => ids[i] # ids[j]
  BY <1>2, <1>3, KeysOnce
<1>5. \A j \in 1..M : ids[j] \in S
  BY <1>4
<1>6. ASSUME NEW j \in 1..M
      PROVE  c[j] \in 1..N /\ IsSomeOf(e.fragments[ids[j]], ids[j], d, c[j])
  <2>1. \E i \in 1..N : IsSomeOf(e.fragments[ids[j]], ids[j], d, i)
    BY <1>2, <1>5
  <2>2. c[j] = CHOOSE i \in 1..N : IsSomeOf(e.fragments[ids[j]], ids[j], d, i)
    OBVIOUS
  <2> HIDE DEF c, ids, S
  <2> QED
    BY <2>1, <2>2
<1> HIDE DEF S, M, ids, c
<1>7. \A j \in 1..M : /\ c[j] \in 1..N /\ e.fragments[ids[j]] = d[c[j]]
                      /\ d[c[j]].header.source_id = ids[j]
  BY <1>6 DEF IsSomeOf
<1>8. C \in SUBSET (1..N)
  BY <1>7
<1>9. Enumerates(c, M, C)
  <2>1. ASSUME NEW i \in 1..M, NEW j \in 1..M, i # j
        PROVE  c[i] # c[j]
    BY <1>4, <1>7, <2>1
  <2> QED
    BY <2>1 DEF Enumerates
<1>10. Lengths(RawsInOrder(e), M) = ValuesInOrder(RawLengths(d), c, M)
  <2>1. ASSUME NEW j \in 1..M
        PROVE  Len(RawsInOrder(e)[j]) = RawLengths(d)[c[j]]
    <3>1. RawsInOrder(e)[j] = RawFragment(e.fragments[ids[j]])
      BY DEF RawsInOrder, ids, M, S
    <3>2. PICK i \in 1..N : i = c[j]
      BY <1>7
    <3>3. RawsInOrder(e)[j] = RawFragment(d[i])
      BY <1>7, <3>1, <3>2
    <3>4. Len(RawFragment(d[i])) = FragmentHeaderSize + Len(d[i].payload)
      BY <1>1, RawOfParsed
    <3> QED
      BY <3>2, <3>3, <3>4 DEF RawLengths
  <2> QED
    BY <2>1 DEF Lengths, ValuesInOrder
<1>11. ASSUME NEW s \in S
       PROVE  \E j \in 1..M : e.fragments[s] = d[c[j]] /\ d[c[j]].header.source_id = s
  <2>1. PICK j \in 1..M : s = ids[j]
    BY <1>4
  <2> QED
    BY <1>7, <2>1
<1>12. Picks(c, C, e, d, M, N)
  <2> HIDE DEF C
  <2> QED
    BY <1>8, <1>9, <1>10, <1>11 DEF Picks, S
<1> QED
  BY <1>12, Zenon DEF M, S

(* An event that raw() writes as it was read was laid out like that.       *)
LEMMA CopiedIsLaidOut ==
  ASSUME NEW H, Loadable(H), NEW e, NEW bytes, NEW loaded, LoadedFrom(e, bytes, loaded, H),
         Packed(bytes), e.header.header_size = EventHeaderSize, StartsAs(RawEvent(e), bytes)
  PROVE  LaidOut(loaded)
<1> DEFINE N == e.header.fragment_count
           S == DOMAIN e.fragments
           d == loaded.decoded
           M == Cardinality(S)
           r == RawLengths(d)
           g == SizesInOrder(d)
<1>0. N \in Nat /\ bytes \in Seq(Cells(H)) /\ e.header \in H /\ Len(bytes) \in Nat
  BY DEF LoadedFrom
<1>1. LoadedSoFar(loaded, N, Len(bytes), H) /\ Walked(loaded, bytes, H)
  BY LoadedEnd, WalkEnd DEF LoadedFrom
<1>2. /\ d \in Seq(Parsed(H)) /\ Len(d) = N
      /\ loaded.left \in Seq(Cells(H)) /\ Total(g) + Len(loaded.left) = Len(bytes)
      /\ DOMAIN d = 1..N /\ \A i \in 1..N : d[i] \in Parsed(H)
  <2>1. d \in Seq(Parsed(H)) /\ Len(d) = N
    BY <1>1 DEF LoadedSoFar
  <2>2. loaded.left \in Seq(Cells(H)) /\ Total(g) + Len(loaded.left) = Len(bytes)
    BY <1>1 DEF LoadedSoFar
  <2>3. \A i \in 1..N : d[i] \in Parsed(H)
    BY <2>1, ElementOfSeq
  <2> QED
    BY <2>1, <2>2, <2>3
<1>3. e = [header |-> e.header, fragments |-> FragmentMap(d)]
  <2>1. PICK l \in LoadLoop(bytes, N) : e = [header |-> e.header, fragments |-> FragmentMap(l.decoded)]
    BY DEF LoadedFrom, LoadedEvents
  <2>2. l = loaded
    BY <1>0, OneState DEF LoadedFrom
  <2> QED
    BY <2>1, <2>2
<1>4. e.fragments = FragmentMap(d)
  BY <1>3
<1>5. PICK c, C : Picks(c, C, e, d, M, N)
  BY <1>0, <1>2, <1>4, PicksExist
<1> HIDE DEF N, S, d, M, r, g
<1>6. \A i \in 1..N : /\ d[i].header.source_id \in Int /\ d[i].header.header_size \in Nat
                      /\ d[i].header \in H
                      /\ d[i].payload \in Seq(Cells(H)) /\ Len(d[i].payload) \in Nat
                      /\ d[i].header.payload_size = Len(d[i].payload)
                      /\ d[i].header.marker = FragmentMarker
                      /\ d[i].header.version_number = FragmentVersionLatest
                      /\ d[i] \in [header : H, payload : Seq(Cells(H))]
                      /\ d[i].header.header_size >= FragmentHeaderSize
  <2> SUFFICES ASSUME NEW i \in 1..N
               PROVE  /\ d[i].header.source_id \in Int /\ d[i].header.header_size \in Nat
                      /\ d[i].header \in H
                      /\ d[i].payload \in Seq(Cells(H)) /\ Len(d[i].payload) \in Nat
                      /\ d[i].header.payload_size = Len(d[i].payload)
                      /\ d[i].header.marker = FragmentMarker
                      /\ d[i].header.version_number = FragmentVersionLatest
                      /\ d[i] \in [header : H, payload : Seq(Cells(H))]
                      /\ d[i].header.header_size >= FragmentHeaderSize
    OBVIOUS
  <2>1. d[i] \in Parsed(H)
    BY <1>2
  <2>2. d[i].payload \in Seq(Cells(H))
    BY <2>1 DEF Parsed
  <2>3. d[i].header.header_size >= FragmentHeaderSize
    BY <1>1, <1>2 DEF Walked, NoneSmaller, d
  <2> QED
    BY <2>1, <2>2, <2>3 DEF Parsed
<1>7. \A s \in S : \E j \in 1..M : e.fragments[s] = d[c[j]] /\ d[c[j]].header.source_id = s
                                    /\ c[j] \in 1..N
  BY <1>5 DEF Picks, Enumerates, S
<1>8. IsFiniteSet(S) /\ S \subseteq Int /\ M \in Nat
  <2>1. IsFiniteSet(S)
    BY <1>0, <1>2, <1>4, MapOfAny DEF S
  <2>2. S \subseteq Int
    BY <1>6, <1>7
  <2> QED
    BY <2>1, <2>2, FS_CardinalityType DEF M
<1>9. \A s \in S : RawFragment(e.fragments[s]) \in Seq(Cells(H))
  BY <1>2, <1>7, RawOfParsed
<1>10. PICK flat, m : FlatIs(e, flat, m, H)
  BY <1>8, <1>9, FlatOfMap DEF S
<1>11. /\ m = M /\ IsFlattening(flat, RawsInOrder(e), M, Cells(H))
       /\ RawEvent(e) = HeaderBytes(e.header, EventHeaderSize) \o flat[M]
       /\ Len(flat[M]) = Total(ValuesInOrder(r, c, M))
  BY <1>5, <1>10 DEF FlatIs, Picks, M, S, r
<1>12. /\ flat[M] \in Seq(Cells(H)) /\ Len(flat[M]) \in Nat
  <2>1. flat[M] \in Seq(Cells(H))
    BY <1>8, <1>11 DEF IsFlattening
  <2> QED
    BY <2>1, LenProperties
<1>13. Len(flat[M]) >= Len(bytes) /\ Len(RawEvent(e)) = EventHeaderSize + Len(flat[M])
  <2>1. PICK p, raw, h : p = flat[M] /\ raw = RawEvent(e) /\ h = e.header
    OBVIOUS
  <2>2. /\ p \in Seq(Cells(H)) /\ h \in H /\ raw = HeaderBytes(h, EventHeaderSize) \o p
        /\ StartsAs(raw, bytes)
    BY <1>0, <1>11, <1>12, <2>1
  <2>3. IsBehind(p, raw, bytes)
    BY <1>0, <2>2, BehindHeader
  <2> QED
    BY <2>1, <2>3 DEF IsBehind
<1>14. /\ r \in [1..N -> Nat] /\ g \in [1..N -> Nat]
       /\ \A i \in 1..N : r[i] >= 1 /\ r[i] <= g[i]
       /\ \A i \in 1..N : r[i] = g[i] => d[i].header.header_size = FragmentHeaderSize
  <2>1. \A i \in 1..N : /\ r[i] = FragmentHeaderSize + Len(d[i].payload)
                        /\ g[i] = d[i].header.header_size + Len(d[i].payload)
    <3> SUFFICES ASSUME NEW i \in 1..N
                 PROVE  /\ r[i] = FragmentHeaderSize + Len(d[i].payload)
                        /\ g[i] = d[i].header.header_size + Len(d[i].payload)
      OBVIOUS
    <3>1. PICK f \in Parsed(H) : f = d[i]
      BY <1>2
    <3>2. FragmentSize(f) = f.header.header_size + Len(f.payload)
      BY ParsedSize
    <3> QED
      BY <1>2, <3>1, <3>2 DEF r, g, RawLengths, SizesInOrder
  <2>2. FragmentHeaderSize \in Nat \ {0}
    BY SizesAssumption
  <2>3. r = [i \in 1..N |-> r[i]] /\ g = [i \in 1..N |-> g[i]]
    BY <1>2 DEF r, g, RawLengths, SizesInOrder
  <2>4. ASSUME NEW i \in 1..N
        PROVE  /\ r[i] \in Nat /\ g[i] \in Nat /\ r[i] >= 1 /\ r[i] <= g[i]
               /\ r[i] = g[i] => d[i].header.header_size = FragmentHeaderSize
    BY <1>6, <2>1, <2>2
  <2>5. r \in [1..N -> Nat]
    BY <2>3, <2>4
  <2>6. g \in [1..N -> Nat]
    BY <2>3, <2>4
  <2> QED
    BY <2>4, <2>5, <2>6
<1>15. Total(g) \in Nat
  <2>1. IsFiniteSet(1..N)
    BY <1>0, FS_Interval
  <2> QED
    BY <1>14, <2>1, TotalNat
<1>16. Len(loaded.left) \in Nat
  BY <1>2
<1>17. Total(ValuesInOrder(r, c, M)) >= Total(g)
  BY <1>0, <1>2, <1>11, <1>12, <1>13, <1>15, <1>16
<1>18. AllTaken(c, M, C, r, g, N)
  <2>1. C \in SUBSET (1..N) /\ Enumerates(c, M, C)
    BY <1>5 DEF Picks
  <2> QED
    BY <1>0, <1>8, <1>14, <1>17, <2>1, TakenAll
<1>19. Len(flat[M]) = Total(g) /\ M = N
  BY <1>11, <1>18 DEF AllTaken
<1>20. Len(loaded.left) = 0 /\ Len(flat[M]) = Len(bytes)
  BY <1>0, <1>2, <1>13, <1>15, <1>16, <1>19
<1>21. \A i \in 1..N : d[i].header.header_size = FragmentHeaderSize
  BY <1>14, <1>18 DEF AllTaken
<1>22. WrittenEvent(e, H)
  <2>1. ASSUME NEW s \in S
        PROVE  Written(e.fragments[s], H) /\ e.fragments[s].header.source_id = s
    <3>1. PICK i \in 1..N : e.fragments[s] = d[i] /\ d[i].header.source_id = s
      BY <1>7
    <3>2. PICK f \in Parsed(H) : f = d[i]
      BY <1>2
    <3>3. Written(f, H)
      BY <1>21, <3>2, ParsedWritten
    <3> QED
      BY <3>1, <3>2, <3>3
  <2>2. e.fragments = [s \in S |-> e.fragments[s]]
    BY <1>0, <1>2, <1>4, MapOfAny DEF S
  <2>3. e = [header |-> e.header, fragments |-> e.fragments]
    BY <1>3, <1>4
  <2>4. e.header.marker = EventMarker /\ e.header.version_number = EventVersionLatest
    BY DEF LoadedFrom
  <2> QED
    BY <1>0, <1>8, <2>1, <2>2, <2>3, <2>4 DEF WrittenEvent, S
<1>23. PICK other, n : RawIs(e, other, n, H)
  BY <1>22, RawOfWrittenEvent
<1>24. /\ n = M /\ other[M] \in Seq(Cells(H))
       /\ RawEvent(e) = HeaderBytes(e.header, EventHeaderSize) \o other[M]
  BY <1>8, <1>23 DEF RawIs, IsFlattening, M, S
<1>25. other[M] = bytes
  <2>1. PICK p, raw, h : p = other[M] /\ raw = RawEvent(e) /\ h = e.header
    OBVIOUS
  <2>2. /\ p \in Seq(Cells(H)) /\ h \in H /\ raw = HeaderBytes(h, EventHeaderSize) \o p
        /\ StartsAs(raw, bytes)
    BY <1>0, <1>24, <2>1
  <2>3. IsBehind(p, raw, bytes)
    BY <1>0, <2>2, BehindHeader
  <2>4. Len(p) \in Nat /\ EventHeaderSize \in Nat
    BY <2>2, SizesAssumption
  <2>5. Len(raw) = EventHeaderSize + Len(bytes)
    BY <1>13, <1>20, <2>1
  <2>6. Len(p) = Len(bytes)
    BY <1>0, <2>3, <2>4, <2>5 DEF IsBehind
  <2> QED
    BY <2>1, <2>3, <2>6 DEF IsBehind
<1>26. loaded.decoded = FragmentsInOrder(e)
  <2>0. Len(other[M]) < SizeModulus
    BY <1>25 DEF LoadedFrom
  <2>1. LoopLoads(e, other, M)
    BY <1>22, <1>23, <1>24, <2>0, LoopOfWritten
  <2>2. LoadLoop(bytes, N) = {[decoded |-> FragmentsInOrder(e), left |-> <<>>]}
    BY <1>19, <1>25, <2>1 DEF LoopLoads
  <2>3. loaded = [decoded |-> FragmentsInOrder(e), left |-> <<>>]
    BY <2>2 DEF LoadedFrom, N
  <2> QED
    BY <2>3
<1> DEFINE ids == KeysInOrder(S)
<1>27. Lists(ids, M, S)
  BY <1>8, KeysListed DEF M
<1>28. \A i \in 1..N : ids[i] \in S /\ d[i] = e.fragments[ids[i]] /\ d[i].header.source_id = ids[i]
  <2>1. \A i \in 1..N : ids[i] \in S
    BY <1>19, <1>27 DEF Lists, Enumerates
  <2>2. d = [i \in 1..N |-> e.fragments[ids[i]]]
    BY <1>19, <1>26 DEF FragmentsInOrder, d, M, S
  <2>3. \A s \in S : e.fragments[s].header.source_id = s
    BY <1>22 DEF WrittenEvent, S
  <2> HIDE DEF ids
  <2> QED
    BY <2>1, <2>2, <2>3
<1> HIDE DEF ids
<1>29. ASSUME NEW i \in 1..N, NEW j \in 1..N, i < j
       PROVE  d[i].header.source_id < d[j].header.source_id
  BY <1>19, <1>27, <1>28, <1>29 DEF Lists, Ascending, KeyOrder
<1>30. loaded.left = <<>>
  BY <1>2, <1>20
<1> QED
  BY <1>2, <1>21, <1>29, <1>30 DEF LaidOut, d

===============================================================================
