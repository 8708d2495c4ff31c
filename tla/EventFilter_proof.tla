--------------------------- MODULE EventFilter_proof ---------------------------
(***************************************************************************)
(* Proofs about EventFilter for any input, intact or not, and any command  *)
(* line: its type invariant, that it implements EventSelection, that a     *)
(* reader of the output gets what was copied, and which copies are exact.  *)
(***************************************************************************)
EXTENDS EventFilter, DAQFormats_proof

LEMMA HeaderSizes ==
  EventHeaderSize \in Nat \ {0} /\ FragmentHeaderSize \in Nat \ {0} /\ MaxFilePayload \in Nat
BY SizesAssumption

LEMMA HeaderNumbers ==
  ASSUME NEW h \in AnyEventHeader
  PROVE  /\ h.header_size \in Nat /\ h.payload_size \in Nat /\ h.fragment_count \in Nat
         /\ h.header_size < HeaderSizeModulus
BY SizesAssumption DEF AnyEventHeader

-------------------------------------------------------------------------------
(* A reader's view of a file, round by round. *)

IsReading(state, bytes) ==
  /\ state[0] = [events |-> <<>>, left |-> bytes]
  /\ \A n \in 1..Len(bytes) : state[n] = AfterEvent(state[n - 1])
  /\ Reading(bytes) = state[Len(bytes) \div EventHeaderSize]

NextStates(states) == {AfterEvent(state) : state \in states}

LEMMA RoundsInside ==
  ASSUME NEW n \in Nat
  PROVE  n \div EventHeaderSize \in 0..n
BY SizesAssumption

LEMMA ReadingRounds ==
  ASSUME NEW bytes, Len(bytes) \in Nat
  PROVE  \E state : IsReading(state, bytes)
<1> DEFINE N == Len(bytes)
           start == {[events |-> <<>>, left |-> bytes]}
           round[n \in 0..Len(bytes)] ==
             IF n = 0 THEN {[events |-> <<>>, left |-> bytes]}
             ELSE {AfterEvent(state) : state \in round[n - 1]}
           Rounds(m, g) == g = [n \in 0..m |-> IF n = 0 THEN start ELSE NextStates(g[n - 1])]
           S == {m \in 0..N : \E g : Rounds(m, g)}
<1>1. Reading(bytes) = CHOOSE state \in round[Len(bytes) \div EventHeaderSize] : TRUE
  BY Zenon DEF Reading
<1>2. round = CHOOSE g : Rounds(N, g)
  BY Zenon DEF round, NextStates
<1>3. 0 \in S
  <2>1. Rounds(0, [n \in 0..0 |-> start])
    OBVIOUS
  <2> HIDE DEF Rounds
  <2> QED
    BY <2>1
<1>4. ASSUME NEW m \in 0..(N - 1), m \in S
      PROVE  m + 1 \in S
  <2>1. PICK g : Rounds(m, g)
    BY <1>4
  <2> DEFINE h == [n \in 0..(m + 1) |-> IF n = m + 1 THEN NextStates(g[m]) ELSE g[n]]
  <2> HIDE DEF start
  <2>2. ASSUME NEW n \in 0..(m + 1)
        PROVE  h[n] = IF n = 0 THEN start ELSE NextStates(h[n - 1])
    <3>1. CASE n = m + 1
      BY <3>1
    <3>2. CASE n # m + 1
      BY <2>1, <3>2
    <3> QED
      BY <3>1, <3>2
  <2>3. Rounds(m + 1, h)
    <3>1. h = [n \in 0..(m + 1) |-> h[n]]
      OBVIOUS
    <3> HIDE DEF h
    <3> QED
      BY <2>2, <3>1
  <2> HIDE DEF Rounds
  <2> QED
    BY <2>3
<1>5. \E g : Rounds(N, g)
  <2> HIDE DEF S
  <2>1. 0..N \subseteq S
    BY <1>3, <1>4, UpTo
  <2> QED
    BY <2>1 DEF S
<1>6. Rounds(N, round)
  <2> HIDE DEF round, Rounds
  <2> QED
    BY <1>2, <1>5, Zenon
<1>7. round[0] = start /\ \A n \in 1..N : round[n] = NextStates(round[n - 1])
  <2> HIDE DEF round, start
  <2> QED
    BY <1>6
<1> HIDE DEF round
<1> DEFINE state == [n \in 0..N |-> CHOOSE s \in round[n] : TRUE]
           T == {n \in 0..N : \E s : round[n] = {s}}
<1>8. 0 \in T
  <2>1. \E s : round[0] = {s}
    BY <1>7, Zenon
  <2> QED
    BY <2>1
<1>9. ASSUME NEW n \in 0..(N - 1), n \in T
      PROVE  n + 1 \in T
  <2>1. n + 1 \in 1..N /\ n + 1 \in 0..N /\ (n + 1) - 1 = n
    OBVIOUS
  <2>2. PICK s : round[n] = {s}
    BY <1>9
  <2>3. round[n + 1] = {AfterEvent(s)}
    BY <1>7, <2>1, <2>2 DEF NextStates
  <2>4. \E t : round[n + 1] = {t}
    BY <2>3, Zenon
  <2> QED
    BY <2>1, <2>4
<1>10. \A n \in 0..N : round[n] = {state[n]}
  <2>1. 0..N \subseteq T
    <3> HIDE DEF T
    <3> QED
      BY <1>8, <1>9, UpTo
  <2>2. ASSUME NEW n \in 0..N
        PROVE  round[n] = {state[n]}
    <3>1. PICK s : round[n] = {s}
      BY <2>1
    <3>2. (CHOOSE t \in {s} : TRUE) = s
      OBVIOUS
    <3> QED
      BY <3>1, <3>2
  <2> QED
    BY <2>2
<1>11. state[0] = [events |-> <<>>, left |-> bytes]
  BY <1>7, <1>10
<1>12. ASSUME NEW n \in 1..N
       PROVE  state[n] = AfterEvent(state[n - 1])
  <2>1. round[n] = {state[n]} /\ round[n - 1] = {state[n - 1]}
    BY <1>10
  <2> HIDE DEF state
  <2> QED
    BY <1>7, <2>1 DEF NextStates
<1>13. Reading(bytes) = state[N \div EventHeaderSize]
  <2>1. N \div EventHeaderSize \in 0..N
    BY RoundsInside
  <2>2. round[N \div EventHeaderSize] = {state[N \div EventHeaderSize]}
    BY <1>10, <2>1
  <2> HIDE DEF state
  <2> QED
    BY <1>1, <2>2
<1>14. IsReading(state, bytes)
  <2> HIDE DEF state
  <2> QED
    BY <1>11, <1>12, <1>13 DEF IsReading
<1> QED
  BY <1>14, Zenon

-------------------------------------------------------------------------------
(* Sequences of events. *)

LEMMA WithLast ==
  ASSUME NEW x, NEW y, NEW s, IsSequence(s)
  PROVE  /\ IsSequence(s \o <<x>>)
         /\ (<<y>> \o s) \o <<x>> = <<y>> \o (s \o <<x>>)
<1>1. PICK S : s \in Seq(S)
  BY DEF IsSequence
<1>2. /\ s \in Seq(S \cup {x, y}) /\ <<x>> \in Seq(S \cup {x, y})
      /\ <<y>> \in Seq(S \cup {x, y})
  BY <1>1
<1>3. s \o <<x>> \in Seq(S \cup {x, y})
  BY <1>2
<1> QED
  BY <1>2, <1>3 DEF IsSequence

-------------------------------------------------------------------------------
(* What the constructor of EventFull makes of a stream. *)

LEMMA StreamEvent ==
  ASSUME NEW bytes \in Seq(FileBytes), EventsOfStream(bytes) # {}
  PROVE  /\ Head(bytes).header \in AnyEventHeader
         /\ EventHeaderSize + Head(bytes).header.payload_size <= Len(bytes)
         /\ \E e : EventsOfStream(bytes) = {e} /\ e.header = Head(bytes).header
<1> DEFINE h == Head(bytes).header
<1>1. /\ Len(bytes) >= EventHeaderSize
      /\ Head(bytes).kind = "header"
      /\ h.marker = EventMarker
      /\ Len(bytes) >= EventHeaderSize + h.payload_size
      /\ EventsOfStream(bytes) = LoadedEvents(h, StreamPayload(bytes))
  BY DEF EventsOfStream, PayloadRead, HeaderIs
<1>2. Head(bytes) \in FileBytes
  BY <1>1, HeaderSizes
<1>3. h \in AnyFragmentHeader \cup AnyEventHeader
  BY <1>1, <1>2 DEF FileBytes, TailByte, DataBytes
<1>4. h \in AnyEventHeader
  BY <1>1, <1>3 DEF AnyFragmentHeader
<1>5. h.payload_size \in Nat /\ h.fragment_count \in Nat
  BY <1>4, HeaderNumbers
<1>6. PICK e : e \in EventsOfStream(bytes)
  OBVIOUS
<1>7. EventsOfStream(bytes) = {e} /\ e.header = h
  BY <1>1, <1>5, <1>6, OneLoaded
<1> QED
  BY <1>1, <1>4, <1>5, <1>7, HeaderSizes

LEMMA RestOfStream ==
  ASSUME NEW bytes \in Seq(FileBytes), EventsOfStream(bytes) # {}
  PROVE  /\ StreamRest(bytes) \in Seq(FileBytes)
         /\ Len(StreamRest(bytes)) \in Nat
         /\ Len(StreamRest(bytes)) + EventHeaderSize <= Len(bytes)
<1>0. /\ Head(bytes).header.payload_size \in Nat
      /\ EventHeaderSize + Head(bytes).header.payload_size <= Len(bytes)
  BY StreamEvent, HeaderNumbers
<1>1. PICK n \in Nat : n = EventHeaderSize + Head(bytes).header.payload_size
  BY <1>0, HeaderSizes
<1>2. n >= EventHeaderSize /\ n <= Len(bytes)
  BY <1>0, <1>1, HeaderSizes
<1>3. StreamRest(bytes) = SubSeq(bytes, n + 1, Len(bytes))
  BY <1>1 DEF StreamRest
<1>4. SubSeq(bytes, n + 1, Len(bytes)) \in Seq(FileBytes)
      /\ Len(SubSeq(bytes, n + 1, Len(bytes))) = Len(bytes) - n
  BY <1>2
<1> QED
  BY <1>2, <1>3, <1>4, HeaderSizes

-------------------------------------------------------------------------------
(* Reading an event and then the rest is reading the whole. *)

LEMMA NextProduct ==
  ASSUME NEW n \in Nat
  PROVE  n * EventHeaderSize \in Nat
         /\ (n + 1) * EventHeaderSize = n * EventHeaderSize + EventHeaderSize
BY SizesAssumption

LEMMA Quotient ==
  ASSUME NEW n \in Nat
  PROVE  n < (n \div EventHeaderSize) * EventHeaderSize + EventHeaderSize
BY SizesAssumption

LEMMA QuotientOfRest ==
  ASSUME NEW n \in Nat, NEW m \in Nat, m + EventHeaderSize <= n
  PROVE  (m \div EventHeaderSize) + 1 <= n \div EventHeaderSize
BY SizesAssumption

(* A state in the middle of the reading of bytes, before round n + 1.      *)
Middle(s, bytes, n) ==
  /\ s = [events |-> s.events, left |-> s.left]
  /\ IsSequence(s.events)
  /\ s.left \in Seq(FileBytes)
  /\ EventsOfStream(s.left) = {} \/ Len(s.left) + n * EventHeaderSize <= Len(bytes)

LEMMA AfterEventStuck ==
  ASSUME NEW s, EventsOfStream(s.left) = {}
  PROVE  AfterEvent(s) = s
BY DEF AfterEvent

LEMMA AfterEventGoesOn ==
  ASSUME NEW bytes, NEW n \in Nat, NEW s, Middle(s, bytes, n), EventsOfStream(s.left) # {}
  PROVE  \E e : /\ EventsOfStream(s.left) = {e}
               /\ AfterEvent(s) = [events |-> s.events \o <<e>>, left |-> StreamRest(s.left)]
<1>1. s.left \in Seq(FileBytes)
  BY DEF Middle
<1>2. PICK e : EventsOfStream(s.left) = {e}
  BY <1>1, StreamEvent
<1>3. AfterEvent(s) = [events |-> s.events \o <<e>>, left |-> StreamRest(s.left)]
  BY <1>2, SetToSeqOne DEF AfterEvent
<1> QED
  BY <1>2, <1>3

LEMMA MiddleNext ==
  ASSUME NEW bytes \in Seq(FileBytes), NEW n \in Nat, NEW s, Middle(s, bytes, n)
  PROVE  Middle(AfterEvent(s), bytes, n + 1)
<1>1. CASE EventsOfStream(s.left) = {}
  BY <1>1, AfterEventStuck DEF Middle
<1>2. CASE EventsOfStream(s.left) # {}
  <2>1. PICK e : AfterEvent(s) = [events |-> s.events \o <<e>>, left |-> StreamRest(s.left)]
    BY <1>2, AfterEventGoesOn
  <2>2. IsSequence(s.events \o <<e>>)
    BY WithLast DEF Middle
  <2>3. /\ StreamRest(s.left) \in Seq(FileBytes)
        /\ Len(StreamRest(s.left)) \in Nat
        /\ Len(StreamRest(s.left)) + EventHeaderSize <= Len(s.left)
    BY <1>2, RestOfStream DEF Middle
  <2>4. Len(s.left) + n * EventHeaderSize <= Len(bytes)
    BY <1>2 DEF Middle
  <2>5. Len(StreamRest(s.left)) + (n + 1) * EventHeaderSize <= Len(bytes)
    <3>1. Len(s.left) \in Nat /\ Len(bytes) \in Nat
      BY DEF Middle
    <3>2. n * EventHeaderSize \in Nat
          /\ (n + 1) * EventHeaderSize = n * EventHeaderSize + EventHeaderSize
      BY NextProduct
    <3>3. PICK p \in Nat : p = n * EventHeaderSize
      BY <3>2
    <3>4. Len(s.left) + p <= Len(bytes)
      BY <2>4, <3>3
    <3>5. Len(StreamRest(s.left)) + (p + EventHeaderSize) <= Len(bytes)
      BY <2>3, <3>1, <3>4, SizesAssumption
    <3> QED
      BY <3>2, <3>3, <3>5
  <2> QED
    BY <2>1, <2>2, <2>3, <2>5 DEF Middle
<1> QED
  BY <1>1, <1>2

LEMMA MiddleStates ==
  ASSUME NEW bytes \in Seq(FileBytes), NEW state, IsReading(state, bytes)
  PROVE  \A n \in 0..Len(bytes) : Middle(state[n], bytes, n)
<1> DEFINE S == {n \in 0..Len(bytes) : Middle(state[n], bytes, n)}
<1>1. 0 \in S
  <2>1. state[0] = [events |-> <<>>, left |-> bytes]
    BY DEF IsReading
  <2>2. IsSequence(<<>>)
    <3>1. <<>> \in Seq({})
      OBVIOUS
    <3> QED
      BY <3>1 DEF IsSequence
  <2>3. 0 * EventHeaderSize = 0
    BY SizesAssumption
  <2> QED
    BY <2>1, <2>2, <2>3 DEF Middle
<1>2. ASSUME NEW n \in 0..(Len(bytes) - 1), n \in S
      PROVE  n + 1 \in S
  <2>1. n + 1 \in 1..Len(bytes) /\ n + 1 \in 0..Len(bytes) /\ (n + 1) - 1 = n
    OBVIOUS
  <2>2. state[n + 1] = AfterEvent(state[n])
    BY <2>1 DEF IsReading
  <2> QED
    BY <1>2, <2>1, <2>2, MiddleNext
<1>3. 0..Len(bytes) \subseteq S
  <2> HIDE DEF S
  <2> QED
    BY <1>1, <1>2, UpTo
<1> QED
  BY <1>3

(* Once stuck, a reading stays as it is. *)
LEMMA StuckStates ==
  ASSUME NEW bytes \in Seq(FileBytes), NEW state, IsReading(state, bytes),
         NEW n \in 0..Len(bytes), EventsOfStream(state[n].left) = {},
         NEW m \in n..Len(bytes)
  PROVE  state[m] = state[n]
<1> DEFINE S == {k \in 0..(Len(bytes) - n) : state[n + k] = state[n]}
<1>1. 0 \in S
  OBVIOUS
<1>2. ASSUME NEW k \in 0..(Len(bytes) - n - 1), k \in S
      PROVE  k + 1 \in S
  <2>1. /\ n + (k + 1) \in 1..Len(bytes) /\ (n + (k + 1)) - 1 = n + k
        /\ k + 1 \in 0..(Len(bytes) - n)
    OBVIOUS
  <2>2. state[n + (k + 1)] = AfterEvent(state[n + k])
    BY <2>1 DEF IsReading
  <2> QED
    BY <1>2, <2>1, <2>2, AfterEventStuck
<1>3. 0..(Len(bytes) - n) \subseteq S
  <2> HIDE DEF S
  <2> QED
    BY <1>1, <1>2, UpTo
<1>4. m - n \in 0..(Len(bytes) - n) /\ n + (m - n) = m
  OBVIOUS
<1>5. m - n \in S
  <2> HIDE DEF S
  <2> QED
    BY <1>3, <1>4
<1> QED
  BY <1>4, <1>5

(* The rounds are enough: the last state is stuck. *)
LEMMA ReadingEnds ==
  ASSUME NEW bytes \in Seq(FileBytes)
  PROVE  /\ Reading(bytes) = [events |-> Reading(bytes).events, left |-> Reading(bytes).left]
         /\ IsSequence(Reading(bytes).events)
         /\ EventsOfStream(Reading(bytes).left) = {}
<1>1. PICK state : IsReading(state, bytes)
  BY ReadingRounds
<1> DEFINE q == Len(bytes) \div EventHeaderSize
<1>2. q \in 0..Len(bytes) /\ q \in Nat
  BY RoundsInside
<1>3. Middle(state[q], bytes, q) /\ Reading(bytes) = state[q]
  BY <1>1, <1>2, MiddleStates DEF IsReading
<1>4. EventsOfStream(state[q].left) = {}
  <2> SUFFICES ASSUME EventsOfStream(state[q].left) # {}
               PROVE  FALSE
    OBVIOUS
  <2>1. state[q].left \in Seq(FileBytes)
        /\ Len(state[q].left) + q * EventHeaderSize <= Len(bytes)
    BY <1>3 DEF Middle
  <2>2. EventHeaderSize <= Len(state[q].left)
    BY <2>1 DEF EventsOfStream, PayloadRead
  <2>3. Len(bytes) < q * EventHeaderSize + EventHeaderSize
    BY Quotient
  <2>4. q * EventHeaderSize \in Nat
    BY <1>2, NextProduct
  <2> HIDE DEF q
  <2> QED
    BY <2>1, <2>2, <2>3, <2>4, HeaderSizes
<1> QED
  BY <1>3, <1>4 DEF Middle

LEMMA ReadingStuck ==
  ASSUME NEW bytes \in Seq(FileBytes), EventsOfStream(bytes) = {}
  PROVE  Reading(bytes) = [events |-> <<>>, left |-> bytes]
<1>1. PICK state : IsReading(state, bytes)
  BY ReadingRounds
<1> DEFINE q == Len(bytes) \div EventHeaderSize
<1>2. q \in 0..Len(bytes)
  BY RoundsInside
<1>3. state[0] = [events |-> <<>>, left |-> bytes] /\ Reading(bytes) = state[q]
  BY <1>1 DEF IsReading
<1> HIDE DEF q
<1>4. state[q] = state[0]
  BY <1>1, <1>2, <1>3, StuckStates
<1> QED
  BY <1>3, <1>4

Behind(e, s) == [events |-> <<e>> \o s.events, left |-> s.left]

(* The states of the rest are those of the whole, a round later and with   *)
(* the first event in front.                                               *)
LEMMA LaterStates ==
  ASSUME NEW bytes \in Seq(FileBytes), NEW e, EventsOfStream(bytes) = {e},
         NEW state, IsReading(state, bytes), NEW rest, IsReading(rest, StreamRest(bytes)),
         NEW n \in 0..Len(StreamRest(bytes))
  PROVE  state[n + 1] = Behind(e, rest[n])
<1> USE DEF Behind
<1> DEFINE L == Len(StreamRest(bytes))
           S == {k \in 0..L :
                   state[k + 1] = [events |-> <<e>> \o rest[k].events, left |-> rest[k].left]}
<1>1. /\ StreamRest(bytes) \in Seq(FileBytes)
      /\ L \in Nat /\ Len(bytes) \in Nat /\ L + 1 <= Len(bytes)
  BY RestOfStream, HeaderSizes
<1> HIDE DEF L
<1>2. 0 \in S
  <2>1. state[1] = AfterEvent([events |-> <<>>, left |-> bytes])
    <3>1. 1 \in 1..Len(bytes) /\ 1 - 1 = 0
      BY <1>1
    <3> QED
      BY <3>1 DEF IsReading
  <2>2. AfterEvent([events |-> <<>>, left |-> bytes])
          = [events |-> <<>> \o <<e>>, left |-> StreamRest(bytes)]
    BY SetToSeqOne DEF AfterEvent
  <2>3. rest[0] = [events |-> <<>>, left |-> StreamRest(bytes)]
    BY DEF IsReading
  <2>4. <<>> \o <<e>> = <<e>> /\ <<e>> \o <<>> = <<e>>
    OBVIOUS
  <2>5. 0 + 1 = 1 /\ 0 \in 0..L
    BY <1>1
  <2> QED
    BY <2>1, <2>2, <2>3, <2>4, <2>5
<1>3. ASSUME NEW k \in 0..(L - 1), k \in S
      PROVE  k + 1 \in S
  <2>1. /\ k + 1 \in 1..L /\ k + 1 \in 0..L /\ (k + 1) - 1 = k
        /\ (k + 1) + 1 \in 1..Len(bytes) /\ ((k + 1) + 1) - 1 = k + 1
        /\ k \in 0..L /\ k \in Nat
    BY <1>1
  <2>2. rest[k + 1] = AfterEvent(rest[k])
    BY <2>1 DEF IsReading, L
  <2>3. state[(k + 1) + 1] = AfterEvent(state[k + 1])
    BY <2>1 DEF IsReading
  <2>4. state[k + 1] = [events |-> <<e>> \o rest[k].events, left |-> rest[k].left]
    BY <1>3
  <2>5. Middle(rest[k], StreamRest(bytes), k)
    BY <1>1, <2>1, MiddleStates DEF L
  <2>6. CASE EventsOfStream(rest[k].left) = {}
    <3>1. state[k + 1].left = rest[k].left
      BY <2>4
    <3>2. AfterEvent(state[k + 1]) = state[k + 1]
      BY <2>6, <3>1, AfterEventStuck
    <3>3. AfterEvent(rest[k]) = rest[k]
      BY <2>6, AfterEventStuck
    <3>4. state[(k + 1) + 1] = [events |-> <<e>> \o rest[k + 1].events, left |-> rest[k + 1].left]
      BY <2>2, <2>3, <2>4, <3>2, <3>3
    <3> QED
      BY <2>1, <3>4
  <2>7. CASE EventsOfStream(rest[k].left) # {}
    <3>1. PICK f : /\ EventsOfStream(rest[k].left) = {f}
                   /\ AfterEvent(rest[k]) = [events |-> rest[k].events \o <<f>>,
                                             left   |-> StreamRest(rest[k].left)]
      BY <2>1, <2>5, <2>7, AfterEventGoesOn
    <3>2. AfterEvent(state[k + 1]) = [events |-> (<<e>> \o rest[k].events) \o <<f>>,
                                      left   |-> StreamRest(rest[k].left)]
      <4>1. /\ state[k + 1].left = rest[k].left
            /\ state[k + 1].events = <<e>> \o rest[k].events
        BY <2>4
      <4>2. SetToSeq(EventsOfStream(state[k + 1].left)) = <<f>>
        BY <3>1, <4>1, SetToSeqOne
      <4>3. EventsOfStream(state[k + 1].left) # {}
        BY <2>7, <4>1
      <4> QED
        BY <4>1, <4>2, <4>3 DEF AfterEvent
    <3>3. (<<e>> \o rest[k].events) \o <<f>> = <<e>> \o (rest[k].events \o <<f>>)
      BY <2>5, WithLast DEF Middle
    <3>4. /\ rest[k + 1].events = rest[k].events \o <<f>>
          /\ rest[k + 1].left = StreamRest(rest[k].left)
      BY <2>2, <3>1
    <3>5. state[(k + 1) + 1] = [events |-> <<e>> \o rest[k + 1].events, left |-> rest[k + 1].left]
      BY <2>3, <3>2, <3>3, <3>4
    <3> QED
      BY <2>1, <3>5
  <2> QED
    BY <2>6, <2>7
<1>4. 0..L \subseteq S
  <2> HIDE DEF S
  <2> QED
    BY <1>1, <1>2, <1>3, UpTo
<1> QED
  BY <1>4 DEF L

LEMMA ReadingStep ==
  ASSUME NEW bytes \in Seq(FileBytes), NEW e, EventsOfStream(bytes) = {e}
  PROVE  Reading(bytes) = [events |-> <<e>> \o Reading(StreamRest(bytes)).events,
                           left   |-> Reading(StreamRest(bytes)).left]
<1> DEFINE B == Len(bytes)
           L == Len(StreamRest(bytes))
           q == L \div EventHeaderSize
           p == B \div EventHeaderSize
<1>1. StreamRest(bytes) \in Seq(FileBytes) /\ L \in Nat /\ B \in Nat /\ L + EventHeaderSize <= B
  BY RestOfStream
<1>2. PICK state : IsReading(state, bytes)
  BY ReadingRounds
<1>3. PICK rest : IsReading(rest, StreamRest(bytes))
  BY <1>1, ReadingRounds
<1>4. q \in 0..L /\ p \in 0..B /\ q + 1 <= p
  BY <1>1, RoundsInside, QuotientOfRest
<1>5. Reading(bytes) = state[p] /\ Reading(StreamRest(bytes)) = rest[q]
  BY <1>2, <1>3 DEF IsReading
<1> HIDE DEF p, q
<1>6. state[q + 1] = Behind(e, rest[q])
  <2>1. EventsOfStream(bytes) = {e}
    OBVIOUS
  <2>2. q \in 0..Len(StreamRest(bytes))
    BY <1>4
  <2>3. bytes \in Seq(FileBytes)
    OBVIOUS
  <2> QED
    BY <2>1, <2>2, <2>3, <1>2, <1>3, LaterStates, SMTT(30)
<1>7. EventsOfStream(rest[q].left) = {}
  BY <1>1, <1>5, ReadingEnds
<1>8. q + 1 \in 0..B /\ p \in (q + 1)..B
  BY <1>1, <1>4
<1>9. state[p] = state[q + 1]
  <2>1. EventsOfStream(state[q + 1].left) = {}
    BY <1>6, <1>7 DEF Behind
  <2> QED
    BY <1>2, <1>8, <2>1, StuckStates
<1> QED
  BY <1>5, <1>6, <1>9 DEF Behind

-------------------------------------------------------------------------------
(* The invariant. *)

LEMMA Joined ==
  ASSUME NEW s, NEW t, IsSequence(s), IsSequence(t)
  PROVE  IsSequence(s \o t)
<1>1. PICK S : s \in Seq(S)
  BY DEF IsSequence
<1>2. PICK T : t \in Seq(T)
  BY DEF IsSequence
<1>3. s \in Seq(S \cup T) /\ t \in Seq(S \cup T)
  BY <1>1, <1>2
<1>4. s \o t \in Seq(S \cup T)
  BY <1>3
<1> QED
  BY <1>4 DEF IsSequence

LEMMA WrittenType ==
  ASSUME NEW e, EventSize(e) \in Nat
  PROVE  IsSequence(WrittenBytes(e))
<1> DEFINE w == WrittenBytes(e)
           n == EventSize(e)
<1>1. w = [i \in 1..n |-> w[i]]
  BY DEF WrittenBytes
<1> HIDE DEF w, n
<1>2. w \in Seq({w[i] : i \in 1..n})
  <2>1. n \in Nat
    BY DEF n
  <2> QED
    BY <1>1, <2>1
<1> QED
  BY <1>2 DEF IsSequence, w

(* The event of a round was read from a stream, and the limit of -n lies   *)
(* ahead while the program goes on.                                        *)
IInv ==
  /\ options \in CommandLine
  /\ \E run \in Invocations : options = run.options
  /\ in \in Seq(FileBytes)
  /\ IsSequence(out)
  /\ pc \in {"open", "read", "select", "done", "failed", "crashed"}
  /\ pc # "select" => event = {}
  /\ pc = "select" => \E e : event = {e} /\ EventSize(e) \in Nat
  /\ nEventsWritten \in Nat
  /\ pc = "open" => nEventsWritten = 0
  /\ pc \in {"read", "select"} /\ options.nEventsMax > 0 => nEventsWritten < options.nEventsMax

LEMMA InvInit == Init => IInv
<1> SUFFICES ASSUME Init
             PROVE  IInv
  OBVIOUS
<1>1. PICK run \in Invocations : options = run.options /\ in = run.in /\ out = run.out
  BY DEF Init
<1>2. IsSequence(out)
  BY <1>1, InvocationsAssumption DEF IsSequence
<1> QED
  BY <1>1, <1>2, InvocationsAssumption DEF Init, IInv

LEMMA InvNext == IInv /\ [Next]_vars => IInv'
<1> SUFFICES ASSUME IInv, [Next]_vars
             PROVE  IInv'
  OBVIOUS
<1> USE DEF IInv
<1>1. CASE Open
  <2>1. IsSequence(<<>>)
    <3>1. <<>> \in Seq({})
      OBVIOUS
    <3> QED
      BY <3>1 DEF IsSequence
  <2>2. IsSequence(out')
    BY <1>1, <2>1 DEF Open
  <2> QED
    BY <1>1, <2>2 DEF Open, CommandLine
<1>2. CASE OpenFails
  BY <1>2 DEF OpenFails
<1>3. CASE ReadEvent
  <2>1. EventsOfStream(in) # {} /\ event' = EventsOfStream(in) /\ in' = StreamRest(in)
    BY <1>3 DEF ReadEvent
  <2>2. PICK e : event' = {e} /\ e.header = Head(in).header
    BY <2>1, StreamEvent
  <2>3. EventSize(e) \in Nat
    <3>1. Head(in).header \in AnyEventHeader
      BY <2>1, StreamEvent
    <3>2. Head(in).header.header_size \in Nat /\ Head(in).header.payload_size \in Nat
      BY <3>1, HeaderNumbers
    <3> QED
      BY <2>2, <3>2, SizeModuli DEF EventSize
  <2>4. in' \in Seq(FileBytes)
    BY <2>1, RestOfStream
  <2> QED
    BY <1>3, <2>2, <2>3, <2>4 DEF ReadEvent
<1>4. CASE ReadFails
  BY <1>4 DEF ReadFails
<1>9. CASE ReadOverruns
  BY <1>9 DEF ReadOverruns
<1>5. CASE EndOfFile
  BY <1>5 DEF EndOfFile
<1>6. CASE SkipEvent
  BY <1>6 DEF SkipEvent
<1>7. CASE WriteEvent
  <2>1. PICK e \in event : out' = out \o WrittenBytes(e)
    BY <1>7 DEF WriteEvent
  <2>2. EventSize(e) \in Nat
    BY <1>7, <2>1 DEF WriteEvent
  <2>3. IsSequence(out')
    BY <2>1, <2>2, WrittenType, Joined
  <2>4. pc' \in {"read", "select"} /\ options'.nEventsMax > 0
          => nEventsWritten' < options'.nEventsMax
    BY <1>7 DEF WriteEvent, LimitReached, CommandLine
  <2> QED
    BY <1>7, <2>3, <2>4 DEF WriteEvent
<1>8. CASE UNCHANGED vars
  BY <1>8 DEF vars
<1> QED
  BY <1>1, <1>2, <1>3, <1>4, <1>5, <1>6, <1>7, <1>8, <1>9 DEF Next

LEMMA Invariant == Spec => []IInv
BY InvInit, InvNext, PTL DEF Spec

(* There is an event exactly between its reading and its selection, and    *)
(* the output is a string of bytes, whatever the input.                    *)
THEOREM TypeCorrect == Spec => []TypeOK
<1>1. IInv => TypeOK
  <2> SUFFICES ASSUME IInv
               PROVE  TypeOK
    OBVIOUS
  <2>1. Cardinality(event) = IF pc = "select" THEN 1 ELSE 0
    BY FS_Singleton, FS_EmptySet DEF IInv
  <2>2. DOMAIN in = 1..Len(in)
    BY DEF IInv
  <2>3. DOMAIN out = 1..Len(out)
    <3>1. PICK S : out \in Seq(S)
      BY DEF IInv, IsSequence
    <3> QED
      BY <3>1
  <2> QED
    BY <2>1, <2>2, <2>3 DEF IInv, TypeOK
<1> QED
  BY <1>1, Invariant, PTL

-------------------------------------------------------------------------------
(* The program implements EventSelection. *)

(* No -e consists of nothing but ranges from high to low. *)
RangesForward ==
  \A run \in Invocations :
    run.options.ranges # <<>> =>
      \E i \in DOMAIN run.options.ranges :
        run.options.ranges[i][1] <= run.options.ranges[i][2]

LEMMA SelectedIsWanted ==
  ASSUME RangesForward, IInv
  PROVE  \A e : Selected(e) <=> WantedByOptions(options, e)
<1> SUFFICES ASSUME NEW e
             PROVE  Selected(e) <=> WantedByOptions(options, e)
  OBVIOUS
<1> DEFINE r == options.ranges
<1>1. r \in Seq(Int \X Int)
  BY DEF IInv, CommandLine
<1>2. EventList = {} <=> r = <<>>
  <2>1. CASE r = <<>>
    BY <2>1 DEF EventList
  <2>2. CASE r # <<>>
    <3>1. PICK i \in DOMAIN r : r[i][1] <= r[i][2]
      BY <2>2 DEF RangesForward, IInv
    <3>2. r[i][1] \in Int /\ r[i][2] \in Int
      BY <1>1
    <3>3. r[i][1] \in EventList
      BY <3>1, <3>2 DEF EventList
    <3> QED
      BY <2>2, <3>3
  <2> QED
    BY <2>1, <2>2
<1>3. e.header.event_counter \in EventList <=> Asked(options, e)
  BY DEF EventList, Asked
<1>4. InEventList(e) <=> (r # <<>> => Asked(options, e))
  BY <1>2, <1>3 DEF InEventList
<1>5. PassesMask(e) <=> (options.mask # {} => options.mask \cap e.header.trigger_bits # {})
  BY DEF PassesMask
<1> QED
  BY <1>4, <1>5 DEF Selected, WantedByOptions

(* What the refinement maps the variables to. *)
Todo    == SetToSeq(event) \o Reading(in).events
Damaged == Reading(in).left # <<>>
Result  == CASE pc = "open" -> "idle"
             [] pc \in {"read", "select"} -> "running"
             [] pc = "done" -> "done"
             [] OTHER -> "failed"

(* What is to do, by where the program is. *)
LEMMA TodoIs ==
  ASSUME IInv
  PROVE  /\ pc # "select" => Todo = Reading(in).events
         /\ \A e : event = {e} => /\ Todo # <<>> /\ Head(Todo) = e
                                 /\ Tail(Todo) = Reading(in).events
<1>1. IsSequence(Reading(in).events)
  BY ReadingEnds DEF IInv
<1>2. <<>> \o Reading(in).events = Reading(in).events
  BY <1>1, WithFirst
<1>3. pc # "select" => Todo = Reading(in).events
  BY <1>2, SetToSeqEmpty DEF IInv, Todo
<1>4. ASSUME NEW e, event = {e}
      PROVE  Todo # <<>> /\ Head(Todo) = e /\ Tail(Todo) = Reading(in).events
  <2>1. Todo = <<e>> \o Reading(in).events
    BY <1>4, SetToSeqOne DEF Todo
  <2> QED
    BY <1>1, <2>1, WithFirst
<1> QED
  BY <1>3, <1>4

LEMMA SelectionStep ==
  ASSUME RangesForward, IInv, IInv', [Next]_vars,
         pc' # "select" => Todo' = Reading(in').events
  PROVE  [Selection!Next]_<<options, Todo, Damaged, copied, nEventsWritten, Result>>
<1> USE DEF Result
<1>1. CASE Open
  <2>1. Todo' = Todo /\ Damaged' = Damaged
    BY <1>1 DEF Open, Todo, Damaged
  <2>2. Selection!Start
    BY <1>1, <2>1 DEF Open, Selection!Start, KeepsOutput, Todo, Damaged
  <2> QED
    BY <2>2 DEF Selection!Next
<1>2. CASE OpenFails
  <2>1. Todo' = Todo /\ Damaged' = Damaged
    BY <1>2 DEF OpenFails, Todo, Damaged
  <2>2. Selection!Start
    BY <1>2, <2>1 DEF OpenFails, history, Selection!Start, Todo, Damaged
  <2> QED
    BY <2>2 DEF Selection!Next
<1>3. CASE ReadEvent
  <2>1. pc = "read" /\ EventsOfStream(in) # {} /\ event' = EventsOfStream(in)
        /\ in' = StreamRest(in) /\ in \in Seq(FileBytes)
    BY <1>3 DEF ReadEvent, IInv
  <2>2. PICK e : EventsOfStream(in) = {e}
    BY <2>1, StreamEvent
  <2>3. Reading(in) = [events |-> <<e>> \o Reading(in').events, left |-> Reading(in').left]
    BY <2>1, <2>2, ReadingStep
  <2>4. Todo' = <<e>> \o Reading(in').events
    BY <2>1, <2>2, SetToSeqOne DEF Todo
  <2>5. Todo = Reading(in).events
    BY <2>1, TodoIs
  <2>6. Todo' = Todo /\ Damaged' = Damaged
    BY <2>3, <2>4, <2>5 DEF Damaged
  <2> QED
    BY <1>3, <2>6 DEF ReadEvent, history
<1>4. CASE ReadFails
  <2>1. /\ pc = "read" /\ in # <<>> /\ EventsOfStream(in) = {} /\ in \in Seq(FileBytes)
        /\ in' = in /\ event' = event
    BY <1>4 DEF ReadFails, IInv
  <2>2. Reading(in) = [events |-> <<>>, left |-> in]
    BY <2>1, ReadingStuck
  <2>3. Todo = <<>> /\ Damaged
    BY <2>1, <2>2, TodoIs DEF Damaged
  <2>4. Todo' = Todo /\ Damaged' = Damaged
    BY <2>1 DEF Todo, Damaged
  <2>5. Selection!Finish
    BY <1>4, <2>3, <2>4 DEF ReadFails, history, Selection!Finish, Todo, Damaged
  <2> QED
    BY <2>5 DEF Selection!Next
<1>9. CASE ReadOverruns
  <2>1. /\ pc = "read" /\ in # <<>> /\ EventsOfStream(in) = {} /\ in \in Seq(FileBytes)
        /\ in' = in /\ event' = event
    BY <1>9 DEF ReadOverruns, IInv
  <2>2. Reading(in) = [events |-> <<>>, left |-> in]
    BY <2>1, ReadingStuck
  <2>3. Todo = <<>> /\ Damaged
    BY <2>1, <2>2, TodoIs DEF Damaged
  <2>4. Todo' = Todo /\ Damaged' = Damaged
    BY <2>1 DEF Todo, Damaged
  <2>5. Selection!Finish
    BY <1>9, <2>3, <2>4 DEF ReadOverruns, history, Selection!Finish, Todo, Damaged
  <2> QED
    BY <2>5 DEF Selection!Next
<1>5. CASE EndOfFile
  <2>1. /\ pc = "read" /\ in = <<>> /\ in \in Seq(FileBytes)
        /\ in' = in /\ event' = event
    BY <1>5 DEF EndOfFile, IInv
  <2>2. EventsOfStream(in) = {}
    BY <2>1, HeaderSizes DEF EventsOfStream, PayloadRead
  <2>3. Reading(in) = [events |-> <<>>, left |-> in]
    BY <2>1, <2>2, ReadingStuck
  <2>4. Todo = <<>> /\ ~Damaged
    BY <2>1, <2>3, TodoIs DEF Damaged
  <2>5. Todo' = Todo /\ Damaged' = Damaged
    BY <2>1 DEF Todo, Damaged
  <2>6. Selection!Finish
    BY <1>5, <2>4, <2>5 DEF EndOfFile, history, Selection!Finish, Todo, Damaged
  <2> QED
    BY <2>6 DEF Selection!Next
<1>6. CASE SkipEvent
  <2>1. PICK e : event = {e}
    BY <1>6 DEF SkipEvent, IInv
  <2>2. ~WantedByOptions(options, e)
    BY <1>6, <2>1, SelectedIsWanted DEF SkipEvent
  <2>3. Todo # <<>> /\ Head(Todo) = e /\ Tail(Todo) = Reading(in).events
    BY <2>1, TodoIs
  <2>4. Todo' = Tail(Todo) /\ Damaged' = Damaged
    BY <1>6, <2>3 DEF SkipEvent, Damaged
  <2>5. Selection!Pass
    BY <1>6, <2>2, <2>3, <2>4 DEF SkipEvent, history, Selection!Pass, Todo, Damaged
  <2> QED
    BY <2>5 DEF Selection!Next
<1>7. CASE WriteEvent
  <2>1. PICK e : event = {e}
    BY <1>7 DEF WriteEvent, IInv
  <2>2. Selected(e) /\ copied' = Append(copied, e)
    BY <1>7, <2>1 DEF WriteEvent
  <2>3. WantedByOptions(options, e)
    BY <2>2, SelectedIsWanted
  <2>4. Todo # <<>> /\ Head(Todo) = e /\ Tail(Todo) = Reading(in).events
    BY <2>1, TodoIs
  <2>5. pc' # "select" /\ in' = in /\ options' = options
        /\ nEventsWritten' = nEventsWritten + 1 /\ pc = "select"
    BY <1>7 DEF WriteEvent
  <2>6. Todo' = Tail(Todo) /\ Damaged' = Damaged
    BY <2>4, <2>5 DEF Damaged
  <2>7. pc' = IF nEventsWritten + 1 = options.nEventsMax THEN "done" ELSE "read"
    <3>1. pc' = IF options.nEventsMax > 0 /\ nEventsWritten + 1 >= options.nEventsMax
                THEN "done" ELSE "read"
      BY <1>7 DEF WriteEvent, LimitReached
    <3>2. /\ options.nEventsMax \in Int /\ nEventsWritten \in Nat
          /\ options.nEventsMax > 0 => nEventsWritten < options.nEventsMax
      BY <2>5 DEF IInv, CommandLine
    <3> QED
      BY <3>1, <3>2
  <2>8. Result' = IF nEventsWritten' = LimitOfOptions(options) THEN "done" ELSE "running"
    BY <2>5, <2>7 DEF LimitOfOptions
  <2>9. Selection!Take
    <3>1. Result = "running"
      BY <2>5
    <3> QED
      BY <2>2, <2>3, <2>4, <2>5, <2>6, <2>8, <3>1 DEF Selection!Take, Todo, Damaged
  <2> QED
    BY <2>9 DEF Selection!Next
<1>8. CASE UNCHANGED vars
  BY <1>8 DEF vars, history, Todo, Damaged
<1> QED
  BY <1>1, <1>2, <1>3, <1>4, <1>5, <1>6, <1>7, <1>8, <1>9 DEF Next

(* On every input, intact or not, the program copies what EventSelection   *)
(* says: the events asked for, in order, up to the limit, and exit code 0  *)
(* exactly if it got that far; where a damaged size makes the constructor  *)
(* read behind its buffer, the program crashes, which counts as failing.   *)
(* A command line of -e with nothing but backward ranges is left out: it   *)
(* restricts nothing.                                                      *)
THEOREM SelectionImplemented == ASSUME RangesForward PROVE Spec => ImplementsSelection
<1>1. Init => Selection!Init
  BY DEF Init, Selection!Init
<1>2. IInv => (pc # "select" => Todo = Reading(in).events)
  BY TodoIs
<1>3. (IInv => (pc # "select" => Todo = Reading(in).events))'
  BY <1>2, PTL
<1>4. IInv /\ IInv' /\ [Next]_vars => [Selection!Next]_(Selection!vars)
  BY <1>3, SelectionStep DEF Selection!vars, Todo, Damaged, Result
<1> QED
  BY <1>1, <1>4, InvInit, InvNext, PTL DEF Spec, ImplementsSelection, Selection!Spec

-------------------------------------------------------------------------------
(* What a reader gets of a copy. *)

Headers == AnyFragmentHeader \cup AnyEventHeader

LEMMA FileBytesAreCells ==
  /\ FileBytes = Cells(Headers)
  /\ Loadable(Headers)
<1>1. [kind : {"header"}, header : Headers] = {[kind |-> "header", header |-> h] : h \in Headers}
  <2>1. ASSUME NEW x \in [kind : {"header"}, header : Headers]
        PROVE  x = [kind |-> "header", header |-> x.header] /\ x.header \in Headers
    OBVIOUS
  <2>2. \A h \in Headers :
          [kind |-> "header", header |-> h] \in [kind : {"header"}, header : Headers]
    OBVIOUS
  <2> QED
    BY <2>1, <2>2
<1>2. FileBytes = Cells(Headers)
  BY <1>1 DEF FileBytes, Cells, Headers
<1>3. Loadable(Headers)
  BY DEF Loadable, Headers, AnyFragmentHeader, AnyEventHeader
<1> QED
  BY <1>2, <1>3

(* The constructor looks at the bytes of the event only. *)
SameStart(s, t, n) ==
  /\ n = EventHeaderSize + Head(s).header.payload_size
  /\ n <= Len(s) /\ n <= Len(t)
  /\ \A k \in 1..n : s[k] = t[k]

LEMMA SameEvent ==
  ASSUME NEW s \in Seq(FileBytes), NEW t \in Seq(FileBytes), EventsOfStream(s) # {},
         NEW n, SameStart(s, t, n)
  PROVE  /\ EventsOfStream(t) = EventsOfStream(s)
         /\ StreamPayload(t) = StreamPayload(s)
         /\ Head(t) = Head(s)
<1>1. /\ HeaderIs(s, EventMarker, EventVersionLatest)
      /\ Head(s).header.payload_size <= MaxFilePayload
      /\ EventsOfStream(s) = LoadedEvents(Head(s).header, StreamPayload(s))
  BY DEF EventsOfStream, PayloadRead
<1>2. PICK m \in Nat : m = Head(s).header.payload_size
  BY StreamEvent, HeaderNumbers
<1>3. /\ n = EventHeaderSize + m /\ n \in Nat /\ n >= 1 /\ EventHeaderSize \in Nat
      /\ n <= Len(s) /\ n <= Len(t) /\ \A k \in 1..n : s[k] = t[k]
      /\ Len(s) \in Nat /\ Len(t) \in Nat
  BY <1>2, HeaderSizes DEF SameStart
<1>4. Head(t) = Head(s)
  <2>1. Head(s) = s[1] /\ Head(t) = t[1]
    BY <1>3
  <2> QED
    BY <1>3, <2>1
<1>5. StreamPayload(t) = StreamPayload(s)
  <2>1. PICK u, v : u = SubSeq(s, EventHeaderSize + 1, n) /\ v = SubSeq(t, EventHeaderSize + 1, n)
    OBVIOUS
  <2>2. u = StreamPayload(s) /\ v = StreamPayload(t)
    BY <1>2, <1>3, <1>4, <2>1 DEF StreamPayload
  <2>3. /\ u \in Seq(FileBytes) /\ Len(u) = n - EventHeaderSize
        /\ \A k \in 1..(n - EventHeaderSize) : u[k] = s[EventHeaderSize + k]
    BY <1>3, <2>1
  <2>4. /\ v \in Seq(FileBytes) /\ Len(v) = n - EventHeaderSize
        /\ \A k \in 1..(n - EventHeaderSize) : v[k] = t[EventHeaderSize + k]
    BY <1>3, <2>1
  <2>5. \A k \in 1..Len(u) : u[k] = v[k]
    <3> SUFFICES ASSUME NEW k \in 1..Len(u)
                 PROVE  u[k] = v[k]
      OBVIOUS
    <3>1. k \in 1..(n - EventHeaderSize) /\ EventHeaderSize + k \in 1..n
      BY <1>3, <2>3
    <3>2. u[k] = s[EventHeaderSize + k] /\ v[k] = t[EventHeaderSize + k]
      BY <2>3, <2>4, <3>1
    <3> QED
      BY <1>3, <3>1, <3>2
  <2>6. u = v
    BY <2>3, <2>4, <2>5, SeqEqual
  <2> QED
    BY <2>2, <2>6
<1>6. HeaderIs(t, EventMarker, EventVersionLatest)
  BY <1>1, <1>4 DEF HeaderIs
<1>7. Len(t) >= EventHeaderSize /\ Len(t) >= EventHeaderSize + Head(t).header.payload_size
  BY <1>2, <1>3, <1>4
<1>8. EventsOfStream(t) = LoadedEvents(Head(t).header, StreamPayload(t))
  BY <1>1, <1>4, <1>6, <1>7 DEF EventsOfStream, PayloadRead
<1> QED
  BY <1>1, <1>4, <1>5, <1>8

(* The bytes an event was read from, by themselves. *)
IsTaken(t, s) ==
  /\ t \in Seq(FileBytes)
  /\ EventsOfStream(t) = EventsOfStream(s)
  /\ Len(t) = EventHeaderSize + Head(t).header.payload_size
  /\ Len(t) <= Len(s) /\ \A k \in 1..Len(t) : t[k] = s[k]

LEMMA TakenFromStream ==
  ASSUME NEW s \in Seq(FileBytes), EventsOfStream(s) # {},
         NEW t, t = SubSeq(s, 1, Len(s) - Len(StreamRest(s)))
  PROVE  IsTaken(t, s)
<1>1. PICK n \in Nat : n = EventHeaderSize + Head(s).header.payload_size
  BY StreamEvent, SizesAssumption, SMTT(30) DEF AnyEventHeader
<1>2. n <= Len(s) /\ Len(s) \in Nat
  BY <1>1, StreamEvent
<1>3. StreamRest(s) = SubSeq(s, n + 1, Len(s))
  BY <1>1 DEF StreamRest
<1>4. Len(s) - Len(StreamRest(s)) = n
  BY <1>2, <1>3
<1>5. t \in Seq(FileBytes) /\ Len(t) = n /\ \A k \in 1..n : t[k] = s[k]
  BY <1>2, <1>4
<1>6. SameStart(s, t, n)
  BY <1>1, <1>2, <1>5 DEF SameStart
<1>7. EventsOfStream(t) = EventsOfStream(s) /\ Head(t) = Head(s)
  BY <1>5, <1>6, SameEvent
<1> QED
  BY <1>1, <1>2, <1>5, <1>7 DEF IsTaken

LEMMA StreamAndMore ==
  ASSUME NEW a \in Seq(FileBytes), NEW b \in Seq(FileBytes), EventsOfStream(a) # {}
  PROVE  /\ a \o b \in Seq(FileBytes)
         /\ EventsOfStream(a \o b) = EventsOfStream(a)
         /\ StreamRest(a \o b) = StreamRest(a) \o b
<1>0. Head(a).header.payload_size \in Nat
      /\ EventHeaderSize + Head(a).header.payload_size <= Len(a)
  BY StreamEvent DEF AnyEventHeader
<1>1. PICK n \in Nat : n = EventHeaderSize + Head(a).header.payload_size
  BY <1>0, SizesAssumption
<1>2. PICK c : c = a \o b
  OBVIOUS
<1>3. /\ Len(a) \in Nat /\ Len(b) \in Nat /\ Len(c) = Len(a) + Len(b) /\ Len(c) \in Nat
      /\ \A k \in 1..Len(a) : c[k] = a[k]
      /\ \A k \in 1..Len(b) : c[Len(a) + k] = b[k]
  BY <1>2, Concatenated
<1>4. c \in Seq(FileBytes)
  BY <1>2, ConcatProperties
<1>5. n <= Len(a) /\ n <= Len(c)
  BY <1>0, <1>1, <1>3
<1>6. SameStart(a, c, n)
  BY <1>1, <1>3, <1>5 DEF SameStart
<1>7. EventsOfStream(c) = EventsOfStream(a) /\ Head(c) = Head(a)
  BY <1>4, <1>6, SameEvent
<1>8. PICK u, v : u = StreamRest(a) /\ v = StreamRest(c)
  OBVIOUS
<1>9. u = SubSeq(a, n + 1, Len(a)) /\ v = SubSeq(c, n + 1, Len(c))
  BY <1>1, <1>7, <1>8 DEF StreamRest
<1>10. n \in 0..Len(a) /\ n \in 0..Len(c)
  BY <1>3, <1>5
<1>11. /\ u \in Seq(FileBytes) /\ Len(u) = Len(a) - n
       /\ \A k \in 1..(Len(a) - n) : u[k] = a[n + k]
  BY <1>9, <1>10, Suffix
<1>12. /\ v \in Seq(FileBytes) /\ Len(v) = Len(c) - n
       /\ \A k \in 1..(Len(c) - n) : v[k] = c[n + k]
  BY <1>4, <1>9, <1>10, Suffix
<1>13. PICK w : w = u \o b
  OBVIOUS
<1>14. /\ Len(w) = Len(u) + Len(b)
       /\ \A k \in 1..Len(u) : w[k] = u[k]
       /\ \A k \in 1..Len(b) : w[Len(u) + k] = b[k]
  <2>1. u \in Seq(FileBytes) /\ b \in Seq(FileBytes) /\ w = u \o b
    BY <1>11, <1>13
  <2> QED
    BY <2>1, Concatenated
<1>17. w \in Seq(FileBytes)
  BY <1>11, <1>13, ConcatProperties
<1>15. ASSUME NEW k \in 1..Len(w)
       PROVE  w[k] = v[k]
  <2>1. k \in 1..(Len(c) - n) /\ v[k] = c[n + k]
    BY <1>3, <1>11, <1>12, <1>14
  <2>2. CASE k <= Len(u)
    <3>1. k \in 1..Len(u) /\ k \in 1..(Len(a) - n) /\ n + k \in 1..Len(a)
      BY <1>3, <1>11, <1>14, <2>2
    <3> QED
      BY <1>3, <1>11, <1>14, <2>1, <3>1
  <2>3. CASE k > Len(u)
    <3>1. PICK j \in 1..Len(b) : k = Len(u) + j
      <4>1. k - Len(u) \in 1..Len(b) /\ k = Len(u) + (k - Len(u))
        <5>1. Len(u) \in Nat /\ Len(b) \in Nat
          BY <1>11, LenProperties
        <5> QED
          BY <1>14, <2>3, <5>1
      <4> QED
        BY <4>1
    <3>2. n + k = Len(a) + j
      BY <1>3, <1>11, <3>1
    <3> QED
      BY <1>3, <1>14, <2>1, <3>1, <3>2
  <2> QED
    BY <1>11, <1>3, <2>2, <2>3
<1>16. w = v
  <2>1. Len(w) = Len(v)
    BY <1>3, <1>11, <1>12, <1>14
  <2> QED
    BY <1>12, <1>15, <1>17, <2>1, SeqEqual
<1> QED
  BY <1>2, <1>4, <1>7, <1>8, <1>13, <1>16

LEMMA ReadingNothing ==
  Reading(<<>>) = [events |-> <<>>, left |-> <<>>]
<1>1. EventsOfStream(<<>>) = {} /\ <<>> \in Seq(FileBytes)
  BY HeaderSizes DEF EventsOfStream, PayloadRead
<1> QED
  BY <1>1, ReadingStuck

(* A readable file with an event behind it is readable. *)
ReadsWith(a, b, e) ==
  Reading(a \o b) = [events |-> Reading(a).events \o <<e>>, left |-> <<>>]

LEMMA ReadingMore ==
  ASSUME NEW b \in Seq(FileBytes), NEW e, EventsOfStream(b) = {e}, StreamRest(b) = <<>>
  PROVE  \A a \in Seq(FileBytes) : Reading(a).left = <<>> => ReadsWith(a, b, e)
<1> DEFINE Q == {n \in Nat : \A a \in Seq(FileBytes) :
                   Len(a) <= n /\ Reading(a).left = <<>> => ReadsWith(a, b, e)}
<1>1. ReadsWith(<<>>, b, e)
  <2>1. Reading(b) = [events |-> <<e>> \o Reading(<<>>).events, left |-> Reading(<<>>).left]
    BY ReadingStep
  <2>2. <<e>> \o <<>> = <<e>> /\ <<>> \o <<e>> = <<e>> /\ <<>> \o b = b
    BY ConcatEmptySeq
  <2> QED
    BY <2>1, <2>2, ReadingNothing DEF ReadsWith
<1>2. 0 \in Q
  <2>1. \A a \in Seq(FileBytes) : Len(a) <= 0 => a = <<>>
    OBVIOUS
  <2> QED
    BY <1>1, <2>1
<1>3. ASSUME NEW n \in Nat, n \in Q
      PROVE  n + 1 \in Q
  <2> SUFFICES ASSUME NEW a \in Seq(FileBytes), Len(a) <= n + 1, Reading(a).left = <<>>
               PROVE  ReadsWith(a, b, e)
    OBVIOUS
  <2>1. CASE a = <<>>
    BY <1>1, <2>1
  <2>2. CASE a # <<>>
    <3>1. EventsOfStream(a) # {}
      BY <2>2, ReadingStuck
    <3>2. PICK f : EventsOfStream(a) = {f}
      BY <3>1, StreamEvent
    <3>3. PICK r : r = StreamRest(a)
      OBVIOUS
    <3>4. r \in Seq(FileBytes) /\ Len(r) \in Nat /\ Len(r) + EventHeaderSize <= Len(a)
      BY <3>1, <3>3, RestOfStream
    <3>5. Reading(a) = [events |-> <<f>> \o Reading(r).events, left |-> Reading(r).left]
      BY <3>2, <3>3, ReadingStep
    <3>6. Len(r) <= n
      BY <3>4, SizesAssumption
    <3>7. Reading(r \o b) = [events |-> Reading(r).events \o <<e>>, left |-> <<>>]
      BY <1>3, <3>4, <3>5, <3>6 DEF ReadsWith
    <3>8. /\ a \o b \in Seq(FileBytes)
          /\ EventsOfStream(a \o b) = {f}
          /\ StreamRest(a \o b) = r \o b
      BY <3>1, <3>2, <3>3, StreamAndMore
    <3>9. Reading(a \o b) = [events |-> <<f>> \o Reading(r \o b).events,
                             left   |-> Reading(r \o b).left]
      BY <3>8, ReadingStep
    <3>10. (<<f>> \o Reading(r).events) \o <<e>> = <<f>> \o (Reading(r).events \o <<e>>)
      BY <3>4, ReadingEnds, WithLast
    <3>11. Reading(a).events = <<f>> \o Reading(r).events
      BY <3>5
    <3>12. Reading(r \o b).events = Reading(r).events \o <<e>> /\ Reading(r \o b).left = <<>>
      BY <3>7
    <3>13. Reading(a \o b) = [events |-> <<f>> \o (Reading(r).events \o <<e>>), left |-> <<>>]
      BY <3>9, <3>12
    <3>14. Reading(a \o b) = [events |-> Reading(a).events \o <<e>>, left |-> <<>>]
      BY <3>10, <3>11, <3>13
    <3> QED
      BY <3>14 DEF ReadsWith
  <2> QED
    BY <2>1, <2>2
<1>4. ASSUME NEW a \in Seq(FileBytes), Reading(a).left = <<>>
      PROVE  ReadsWith(a, b, e)
  <2>1. Nat \subseteq Q
    <3> HIDE DEF Q
    <3> QED
      BY <1>2, <1>3, AllNaturals
  <2>2. Len(a) \in Q /\ Len(a) <= Len(a)
    BY <2>1
  <2> QED
    BY <1>4, <2>2
<1> QED
  BY <1>4

(* Bytes of one event and no more. *)
WholeStream(e, t) ==
  /\ t \in Seq(FileBytes)
  /\ EventsOfStream(t) = {e}
  /\ Len(t) = EventHeaderSize + Head(t).header.payload_size

LEMMA PayloadOfStream ==
  ASSUME NEW e, NEW t, WholeStream(e, t)
  PROVE  /\ Head(t).header \in AnyEventHeader /\ e.header = Head(t).header
         /\ e.header.marker = EventMarker /\ e.header.version_number = EventVersionLatest
         /\ e.header.payload_size \in Nat /\ e.header.payload_size <= MaxFilePayload
         /\ e.header.fragment_count \in Nat /\ e.header.header_size \in Nat
         /\ e.header.header_size + e.header.payload_size < SizeModulus
         /\ e.header.payload_size < SizeModulus
         /\ StreamPayload(t) \in Seq(FileBytes)
         /\ Len(StreamPayload(t)) = e.header.payload_size
         /\ \A k \in 1..Len(StreamPayload(t)) : StreamPayload(t)[k] = t[EventHeaderSize + k]
         /\ e \in LoadedEvents(e.header, StreamPayload(t))
<1> USE DEF WholeStream
<1>1. Head(t).header \in AnyEventHeader
  BY StreamEvent
<1>2. \E f : EventsOfStream(t) = {f} /\ f.header = Head(t).header
  BY StreamEvent
<1>3. e.header = Head(t).header
  BY <1>2
<1>4. /\ e.header.payload_size \in Nat /\ e.header.fragment_count \in Nat
      /\ e.header.header_size \in Nat /\ e.header.header_size < HeaderSizeModulus
  BY <1>1, <1>3, HeaderNumbers
<1>5. /\ e.header.marker = EventMarker /\ e.header.version_number = EventVersionLatest
      /\ e.header.payload_size <= MaxFilePayload
      /\ e \in LoadedEvents(e.header, StreamPayload(t))
  BY <1>3 DEF EventsOfStream, PayloadRead, HeaderIs
<1>6. PICK m \in Nat : m = e.header.payload_size
  BY <1>4
<1>7. EventHeaderSize \in Nat /\ Len(t) = EventHeaderSize + m
  BY <1>3, <1>6, HeaderSizes
<1>8. PICK u : u = SubSeq(t, EventHeaderSize + 1, EventHeaderSize + m)
  OBVIOUS
<1>9. StreamPayload(t) = u
  BY <1>3, <1>6, <1>8 DEF StreamPayload
<1>10. /\ u \in Seq(FileBytes) /\ Len(u) = m
       /\ \A k \in 1..m : u[k] = t[EventHeaderSize + k]
  <2>1. PICK a \in Nat, z \in Nat : a = EventHeaderSize + 1 /\ z = EventHeaderSize + m
    BY <1>7
  <2>2. \A i \in a..z : t[i] \in FileBytes
    <3>1. a..z \subseteq 1..Len(t)
      BY <1>7, <2>1
    <3> QED
      BY <3>1, ElementOfSeq
  <2>3. /\ u \in Seq(FileBytes) /\ Len(u) = IF a <= z THEN z - a + 1 ELSE 0
        /\ \A i \in 1..(z - a + 1) : u[i] = t[a + i - 1]
    BY <1>8, <2>1, <2>2, SubSeqProperties
  <2>4. z - a + 1 = m /\ Len(u) = m
    BY <1>7, <2>1, <2>3
  <2>5. ASSUME NEW k \in 1..m
        PROVE  u[k] = t[EventHeaderSize + k]
    <3>1. a + k - 1 = EventHeaderSize + k
      BY <1>7, <2>1
    <3>2. u[k] = t[a + k - 1]
      BY <2>3, <2>4
    <3> QED
      BY <3>1, <3>2
  <2> QED
    BY <2>3, <2>4, <2>5
<1>11. /\ e.header.header_size + e.header.payload_size < SizeModulus
       /\ e.header.payload_size < SizeModulus
  BY <1>4, <1>5, SizesAssumption
<1> QED
  BY <1>1, <1>3, <1>4, <1>5, <1>6, <1>9, <1>10, <1>11

(* Neither limit of the reader lets the size of an event wrap. *)
LEMMA SizeOfStream ==
  ASSUME NEW e, NEW t, WholeStream(e, t)
  PROVE  /\ EventSize(e) \in Nat
         /\ EventSize(e) = e.header.header_size + e.header.payload_size
<1>1. PICK n \in Nat : n = e.header.header_size + e.header.payload_size /\ n < SizeModulus
  BY PayloadOfStream
<1>2. n % SizeModulus = n
  BY <1>1, SizeModuli, ModSmall
<1> QED
  BY <1>1, <1>2 DEF EventSize

(* An event whose bytes are as raw() lays them out is one that this build  *)
(* could have written.                                                     *)
LEMMA LaidOutIsWritten ==
  ASSUME NEW e, NEW t, WholeStream(e, t), LaidOutAsRaw(e, t)
  PROVE  WrittenEvent(e, Headers) /\ HeaderFits(e)
<1>1. PICK loaded \in LoadLoop(StreamPayload(t), e.header.fragment_count) :
        e.header.header_size = EventHeaderSize /\ LaidOut(loaded)
  BY DEF LaidOutAsRaw, LaidOut
<1>2. PICK header, bytes : header = e.header /\ bytes = StreamPayload(t)
  OBVIOUS
<1>3. /\ header \in Headers
      /\ header.marker = EventMarker /\ header.version_number = EventVersionLatest
      /\ header.header_size = EventHeaderSize /\ header.fragment_count \in Nat
      /\ bytes \in Seq(Cells(Headers)) /\ header.payload_size = Len(bytes)
      /\ header.payload_size < SizeModulus
      /\ loaded \in LoadLoop(bytes, header.fragment_count)
      /\ e \in LoadedEvents(header, bytes)
  BY <1>1, <1>2, PayloadOfStream, FileBytesAreCells DEF Headers
<1>4. Len(bytes) < SizeModulus
  BY <1>3
<1> QED
  BY <1>1, <1>3, <1>4, LoadedIsWritten, FileBytesAreCells

LEMMA WrittenIsRaw ==
  ASSUME NEW e, WrittenEvent(e, Headers), HeaderFits(e),
         EventSize(e) = e.header.header_size + e.header.payload_size
  PROVE  WrittenBytes(e) = RawEvent(e)
<1>1. RawEvent(e) \in Seq(Cells(Headers))
      /\ Len(RawEvent(e)) = EventHeaderSize + Total(FragmentSizes(e))
  BY LengthOfRaw
<1>2. EventSize(e) = Len(RawEvent(e))
  BY <1>1 DEF WrittenEvent, HeaderFits
<1>3. PICK raw : raw = RawEvent(e)
  OBVIOUS
<1>4. raw = [i \in 1..Len(raw) |-> raw[i]]
  BY <1>1, <1>3
<1>5. WrittenBytes(e) = [i \in 1..Len(raw) |-> IF i <= Len(raw) THEN raw[i] ELSE Beyond]
  BY <1>2, <1>3 DEF WrittenBytes
<1>6. \A i \in 1..Len(raw) : i <= Len(raw)
  BY <1>1, <1>3
<1> QED
  BY <1>3, <1>4, <1>5, <1>6

LEMMA CopyIsRead ==
  ASSUME NEW e, NEW t, WholeStream(e, t), LaidOutAsRaw(e, t)
  PROVE  /\ WrittenBytes(e) \in Seq(FileBytes)
         /\ EventsOfStream(WrittenBytes(e)) = {e}
         /\ StreamRest(WrittenBytes(e)) = <<>>
<1>1. WrittenEvent(e, Headers) /\ HeaderFits(e)
  BY LaidOutIsWritten
<1>2. PICK raw : raw = RawEvent(e)
  OBVIOUS
<1>3. WrittenBytes(e) = raw /\ raw \in Seq(Cells(Headers))
  BY <1>1, <1>2, SizeOfStream, WrittenIsRaw, LengthOfRaw
<1>4. <<>> \in Seq(Cells(Headers)) /\ raw \o <<>> = raw
  BY <1>3, ConcatEmptySeq
<1>5. ReadsBack(e, <<>>)
  BY <1>1, <1>4, ReadBack
<1>6. e.header.payload_size <= MaxFilePayload
  BY PayloadOfStream
<1> QED
  BY <1>2, <1>3, <1>4, <1>5, <1>6, FileBytesAreCells DEF ReadsBack

LEMMA TakenWhole ==
  IInv /\ ReadEvent => IsTaken(taken', in) /\ \A e \in event' : WholeStream(e, taken')
<1> SUFFICES ASSUME IInv, ReadEvent
             PROVE  IsTaken(taken', in) /\ \A e \in event' : WholeStream(e, taken')
  OBVIOUS
<1>1. /\ in \in Seq(FileBytes) /\ EventsOfStream(in) # {} /\ event' = EventsOfStream(in)
      /\ taken' = SubSeq(in, 1, Len(in) - Len(StreamRest(in)))
  BY DEF ReadEvent, IInv
<1>2. IsTaken(taken', in)
  BY <1>1, TakenFromStream
<1>3. PICK f : EventsOfStream(in) = {f}
  BY <1>1, StreamEvent
<1> QED
  BY <1>1, <1>2, <1>3 DEF IsTaken, WholeStream

-------------------------------------------------------------------------------
(* The output file before is one that a reader gets through: what -a adds  *)
(* behind a file that is cut short is not found again.                     *)
OutputsReadable == \A run \in Invocations : Reading(run.out).left = <<>>

(* What was copied exactly so far is what a reader of the output gets, and *)
(* the event of the round is what its bytes by themselves say.             *)
CopyInv ==
  /\ IInv
  /\ pc = "select" => \A e \in event : WholeStream(e, taken)
  /\ exact => /\ out \in Seq(FileBytes)
              /\ Reading(out) = [events |-> copied, left |-> <<>>]

LEMMA CopyInit == ASSUME OutputsReadable PROVE Init => CopyInv
<1> SUFFICES ASSUME Init
             PROVE  CopyInv
  OBVIOUS
<1>1. PICK run \in Invocations : options = run.options /\ in = run.in /\ out = run.out
  BY DEF Init
<1>2. out \in Seq(FileBytes)
  BY <1>1, InvocationsAssumption
<1>3. Reading(out) = [events |-> Reading(out).events, left |-> Reading(out).left]
  BY <1>2, ReadingEnds
<1>4. Reading(out).left = <<>> /\ copied = Reading(out).events
  BY <1>1 DEF OutputsReadable, Init
<1>5. Reading(out) = [events |-> copied, left |-> <<>>]
  BY <1>3, <1>4
<1>6. pc # "select"
  BY DEF Init
<1> QED
  BY <1>2, <1>5, <1>6, InvInit DEF CopyInv

LEMMA CopyNext == CopyInv /\ [Next]_vars => CopyInv'
<1> SUFFICES ASSUME CopyInv, [Next]_vars
             PROVE  CopyInv'
  OBVIOUS
<1>0. IInv /\ IInv'
  BY InvNext DEF CopyInv
<1>1. CASE Open
  <2>1. <<>> \in Seq(FileBytes)
    OBVIOUS
  <2> QED
    BY <1>0, <1>1, <2>1, ReadingNothing DEF Open, CopyInv
<1>2. CASE OpenFails
  BY <1>0, <1>2 DEF OpenFails, history, CopyInv
<1>3. CASE ReadEvent
  <2>1. \A e \in event' : WholeStream(e, taken')
    BY <1>0, <1>3, TakenWhole
  <2> QED
    BY <1>0, <1>3, <2>1 DEF ReadEvent, history, CopyInv
<1>4. CASE ReadFails
  BY <1>0, <1>4 DEF ReadFails, history, CopyInv
<1>9. CASE ReadOverruns
  BY <1>0, <1>9 DEF ReadOverruns, history, CopyInv
<1>5. CASE EndOfFile
  BY <1>0, <1>5 DEF EndOfFile, history, CopyInv
<1>6. CASE SkipEvent
  BY <1>0, <1>6 DEF SkipEvent, history, CopyInv
<1>7. CASE WriteEvent
  <2>1. PICK e \in event : /\ out' = out \o WrittenBytes(e)
                           /\ copied' = Append(copied, e)
                           /\ exact' = (exact /\ LaidOutAsRaw(e, taken))
    BY <1>7 DEF WriteEvent
  <2>2. WholeStream(e, taken) /\ pc' # "select"
    BY <1>7, <2>1 DEF WriteEvent, CopyInv
  <2>3. ASSUME exact'
        PROVE  out' \in Seq(FileBytes) /\ Reading(out') = [events |-> copied', left |-> <<>>]
    <3>1. exact /\ LaidOutAsRaw(e, taken)
      BY <2>1, <2>3
    <3>2. out \in Seq(FileBytes) /\ Reading(out) = [events |-> copied, left |-> <<>>]
      BY <3>1 DEF CopyInv
    <3>3. PICK b : b = WrittenBytes(e)
      OBVIOUS
    <3>4. b \in Seq(FileBytes) /\ EventsOfStream(b) = {e} /\ StreamRest(b) = <<>>
      BY <2>2, <3>1, <3>3, CopyIsRead
    <3>5. ReadsWith(out, b, e)
      BY <3>2, <3>4, ReadingMore
    <3>6. Reading(out').events = copied \o <<e>> /\ Reading(out').left = <<>>
          /\ Reading(out') = [events |-> copied \o <<e>>, left |-> <<>>]
      BY <2>1, <3>2, <3>3, <3>5 DEF ReadsWith
    <3>7. copied \o <<e>> = Append(copied, e)
      <4>1. IsSequence(copied)
        BY <3>2, ReadingEnds
      <4>2. PICK S : copied \in Seq(S)
        BY <4>1 DEF IsSequence
      <4>3. copied \in Seq(S \cup {e})
        BY <4>2
      <4> QED
        BY <4>3, AppendIsConcat
    <3>8. out' \in Seq(FileBytes)
      BY <2>1, <3>2, <3>3, <3>4, ConcatProperties
    <3> QED
      BY <2>1, <3>6, <3>7, <3>8
  <2> QED
    BY <1>0, <2>2, <2>3 DEF CopyInv
<1>8. CASE UNCHANGED vars
  BY <1>0, <1>8 DEF vars, history, CopyInv
<1> QED
  BY <1>1, <1>2, <1>3, <1>4, <1>5, <1>6, <1>7, <1>8, <1>9 DEF Next

(* OutputReadable, whatever the input and the options: a reader of the     *)
(* output file gets what was in it before, if it was kept, and then the    *)
(* events that WriteEvent copied, in order and each as it was read, as     *)
(* long as all were laid out as raw() does.                                *)
THEOREM OutputCorrect == ASSUME OutputsReadable PROVE Spec => []OutputReadable
<1>1. Init => CopyInv
  BY CopyInit
<1>2. CopyInv => OutputReadable
  BY DEF CopyInv, OutputReadable
<1> QED
  BY <1>1, <1>2, CopyNext, PTL DEF Spec

-------------------------------------------------------------------------------
(* Whether a copy is exact. *)

(* The bytes of an event are its header and its payload. *)
LEMMA StreamIsBytes ==
  ASSUME NEW e, NEW t, WholeStream(e, t), Packed(t)
  PROVE  /\ t = HeaderBytes(e.header, EventHeaderSize) \o StreamPayload(t)
         /\ Packed(StreamPayload(t))
<1>1. PICK n, p, h : n = EventHeaderSize /\ p = StreamPayload(t) /\ h = e.header
  OBVIOUS
<1>2. /\ n \in Nat \ {0} /\ h \in Headers /\ h = Head(t).header /\ h.marker = EventMarker
      /\ p \in Seq(Cells(Headers)) /\ Len(p) = h.payload_size /\ Len(p) \in Nat
      /\ \A k \in 1..Len(p) : p[k] = t[n + k]
  <2>1. h \in Headers
    BY <1>1, PayloadOfStream DEF Headers
  <2>2. p \in Seq(Cells(Headers)) /\ Len(p) = h.payload_size /\ Len(p) \in Nat
    BY <1>1, PayloadOfStream, FileBytesAreCells
  <2>3. \A k \in 1..Len(p) : p[k] = t[n + k]
    BY <1>1, PayloadOfStream
  <2>4. h = Head(t).header /\ h.marker = EventMarker
    BY <1>1, PayloadOfStream
  <2>5. n \in Nat \ {0}
    BY <1>1, HeaderSizes
  <2> QED
    BY <2>1, <2>2, <2>3, <2>4, <2>5
<1>3. t \in Seq(Cells(Headers)) /\ Len(t) = n + Len(p) /\ Len(t) \in Nat
  <2>1. t \in Seq(FileBytes) /\ Len(t) = n + Len(p)
    BY <1>1, <1>2 DEF WholeStream
  <2> QED
    BY <1>2, <2>1, FileBytesAreCells
<1>4. t[1] = [kind |-> "header", header |-> h]
  <2>1. t[1] = Head(t) /\ t[1] \in Cells(Headers)
    BY <1>2, <1>3
  <2>2. t[1].kind = "header"
    BY <2>1 DEF WholeStream, EventsOfStream, PayloadRead, HeaderIs
  <2> QED
    BY <1>2, <2>1, <2>2 DEF Cells, TailByte, DataBytes
<1>5. \A j \in 2..n : t[j] = TailByte
  <2>1. 1 \in 1..Len(t) /\ t[1].kind = "header" /\ t[1].header.marker = EventMarker
    BY <1>2, <1>3, <1>4
  <2>2. TailAt(t, 1, n)
    BY <1>1, <2>1 DEF Packed
  <2>3. \A j \in 2..n : (1 - 1) + j = j /\ j <= Len(t)
    BY <1>2, <1>3
  <2> QED
    BY <2>2, <2>3 DEF TailAt
<1>6. PICK u : u = HeaderBytes(h, n) \o p
  OBVIOUS
<1>7. HeaderAnd(p, u, h, n, Headers)
  BY <1>2, <1>6, HeaderTail
<1>8. /\ u \in Seq(Cells(Headers)) /\ Len(u) = Len(t)
      /\ u[1] = t[1] /\ \A j \in 2..n : u[j] = t[j]
      /\ \A k \in 1..Len(p) : u[n + k] = t[n + k]
  BY <1>2, <1>3, <1>4, <1>5, <1>7 DEF HeaderAnd, StartsWithHeader
<1>9. ASSUME NEW k \in 1..Len(u)
      PROVE  u[k] = t[k]
  <2>1. CASE k <= n
    BY <1>2, <1>8, <2>1
  <2>2. CASE k > n
    <3>1. PICK j \in 1..Len(p) : k = n + j
      <4>1. k - n \in 1..Len(p) /\ k = n + (k - n)
        BY <1>2, <1>3, <1>8, <2>2
      <4> QED
        BY <4>1
    <3> QED
      BY <1>8, <3>1
  <2> QED
    BY <1>2, <2>1, <2>2
<1>10. u = t
  BY <1>3, <1>8, <1>9, SeqEqual
<1>11. Packed(p)
  <2>1. p = SubSeq(t, n + 1, Len(t))
    BY <1>1, <1>2, <1>3 DEF StreamPayload
  <2>2. n \in 0..Len(t)
    BY <1>2, <1>3
  <2> QED
    BY <1>3, <2>1, <2>2, PackedRest
<1> QED
  BY <1>1, <1>6, <1>10, <1>11

LEMMA StreamLoaded ==
  ASSUME NEW e, NEW t, WholeStream(e, t),
         NEW loaded \in LoadLoop(StreamPayload(t), e.header.fragment_count)
  PROVE  LoadedFrom(e, StreamPayload(t), loaded, Headers)
<1>1. Len(StreamPayload(t)) < SizeModulus /\ e.header \in Headers
  BY PayloadOfStream DEF Headers
<1> QED
  BY <1>1, PayloadOfStream, FileBytesAreCells DEF LoadedFrom

LEMMA ExactWhenLaidOut ==
  ASSUME NEW e, NEW t, WholeStream(e, t), Packed(t), LaidOutAsRaw(e, t)
  PROVE  WrittenBytes(e) = t
<1>1. PICK loaded \in LoadLoop(StreamPayload(t), e.header.fragment_count) :
        e.header.header_size = EventHeaderSize /\ LaidOut(loaded)
  BY DEF LaidOutAsRaw, LaidOut
<1>2. PICK bytes : bytes = StreamPayload(t)
  OBVIOUS
<1>3. LoadedFrom(e, bytes, loaded, Headers) /\ Packed(bytes)
  BY <1>2, StreamLoaded, StreamIsBytes
<1>4. RawEvent(e) = HeaderBytes(e.header, EventHeaderSize) \o bytes
  BY <1>1, <1>3, LaidOutIsCopied, FileBytesAreCells
<1>5. WrittenBytes(e) = RawEvent(e)
  BY LaidOutIsWritten, SizeOfStream, WrittenIsRaw
<1> QED
  BY <1>2, <1>4, <1>5, StreamIsBytes

LEMMA LaidOutWhenExact ==
  ASSUME NEW e, NEW t, WholeStream(e, t), Packed(t), WrittenBytes(e) = t
  PROVE  LaidOutAsRaw(e, t)
<1>1. PICK n, p, raw : n = EventHeaderSize /\ p = StreamPayload(t) /\ raw = RawEvent(e)
  OBVIOUS
<1>2. /\ n \in Nat \ {0} /\ e.header.payload_size = Len(p) /\ Len(p) \in Nat
      /\ e.header.header_size \in Nat
      /\ \A k \in 1..Len(p) : p[k] = t[n + k]
  BY <1>1, PayloadOfStream, HeaderSizes
<1>3. t \in Seq(FileBytes) /\ Len(t) = n + Len(p)
  <2>1. e.header = Head(t).header
    BY PayloadOfStream
  <2> QED
    BY <1>1, <1>2, <2>1 DEF WholeStream
<1>4. PICK size \in Nat : size = EventSize(e) /\ size = e.header.header_size + e.header.payload_size
  BY SizeOfStream
<1>5. t = [i \in 1..size |-> IF i <= Len(raw) THEN raw[i] ELSE Beyond]
  BY <1>1, <1>4 DEF WrittenBytes
<1>6. Len(t) = size
  BY <1>4, <1>5
<1>7. e.header.header_size = EventHeaderSize
  BY <1>1, <1>2, <1>3, <1>4, <1>6
<1>8. ASSUME NEW k \in 1..Len(t)
      PROVE  k <= Len(raw) /\ raw[k] = t[k]
  <2>1. t[k] \in FileBytes
    BY <1>3, ElementOfSeq
  <2>2. t[k] # Beyond
    BY <2>1 DEF FileBytes, Beyond, TailByte, DataBytes
  <2>3. t[k] = IF k <= Len(raw) THEN raw[k] ELSE Beyond
    BY <1>5, <1>6
  <2> QED
    BY <2>2, <2>3
<1>9. StartsAs(raw, p)
  <2>1. Len(t) \in 1..Len(t)
    BY <1>2, <1>3
  <2>2. EventHeaderSize + Len(p) <= Len(raw)
    BY <1>1, <1>3, <1>8, <2>1
  <2>3. ASSUME NEW k \in 1..Len(p)
        PROVE  raw[EventHeaderSize + k] = p[k]
    <3>1. n + k \in 1..Len(t)
      BY <1>2, <1>3
    <3> QED
      BY <1>1, <1>2, <1>8, <3>1
  <2> QED
    BY <2>2, <2>3 DEF StartsAs
<1>10. e \in LoadedEvents(e.header, p)
  BY <1>1, PayloadOfStream
<1>11. PICK loaded \in LoadLoop(p, e.header.fragment_count) : TRUE
  BY <1>10 DEF LoadedEvents
<1>12. LoadedFrom(e, p, loaded, Headers) /\ Packed(p)
  BY <1>1, StreamLoaded, StreamIsBytes
<1>13. LaidOut(loaded)
  BY <1>1, <1>7, <1>9, <1>12, CopiedIsLaidOut, FileBytesAreCells
<1> QED
  BY <1>1, <1>7, <1>11, <1>13 DEF LaidOutAsRaw, LaidOut

(* In the input every header is its own bytes and no others: where one is  *)
(* cut off, or claims to be smaller than it is, the code reads fields and  *)
(* payloads from bytes that lie inside another header.                     *)
InputsPacked == \A run \in Invocations : Packed(run.in)

(* The event of the round is what its bytes by themselves say. *)
PackedInv ==
  /\ IInv
  /\ Packed(in)
  /\ pc = "select" => Packed(taken) /\ \A e \in event : WholeStream(e, taken)

LEMMA PackedNext == PackedInv /\ [Next]_vars => PackedInv'
<1> SUFFICES ASSUME PackedInv, [Next]_vars
             PROVE  PackedInv'
  OBVIOUS
<1>0. IInv /\ IInv'
  BY InvNext DEF PackedInv
<1>1. CASE Open
  BY <1>0, <1>1 DEF Open, PackedInv
<1>2. CASE OpenFails
  BY <1>0, <1>2 DEF OpenFails, history, PackedInv
<1>3. CASE ReadEvent
  <2>1. /\ in \in Seq(FileBytes) /\ EventsOfStream(in) # {} /\ event' = EventsOfStream(in)
        /\ in' = StreamRest(in)
    BY <1>0, <1>3 DEF ReadEvent, IInv
  <2>2. IsTaken(taken', in) /\ \A e \in event' : WholeStream(e, taken')
    BY <1>0, <1>3, TakenWhole
  <2>3. Packed(taken')
    <3>1. PICK s, t : s = in /\ t = taken'
      OBVIOUS
    <3>2. /\ Packed(s) /\ Len(s) \in Nat /\ Len(t) \in Nat /\ Len(t) <= Len(s)
          /\ \A k \in 1..Len(t) : t[k] = s[k]
      BY <2>1, <2>2, <3>1 DEF IsTaken, PackedInv
    <3>3. Packed(t)
      BY <3>2, PackedFront
    <3> QED
      BY <3>1, <3>3
  <2>4. Packed(in')
    <3>1. PICK n \in Nat : n = EventHeaderSize + Head(in).header.payload_size
      BY <2>1, StreamEvent, SizesAssumption DEF AnyEventHeader
    <3>2. n \in 0..Len(in) /\ in' = SubSeq(in, n + 1, Len(in))
      BY <2>1, <3>1, StreamEvent DEF StreamRest
    <3> QED
      BY <2>1, <3>2, PackedRest DEF PackedInv
  <2> QED
    BY <1>0, <2>2, <2>3, <2>4 DEF PackedInv
<1>4. CASE ReadFails
  BY <1>0, <1>4 DEF ReadFails, history, PackedInv
<1>9. CASE ReadOverruns
  BY <1>0, <1>9 DEF ReadOverruns, history, PackedInv
<1>5. CASE EndOfFile
  BY <1>0, <1>5 DEF EndOfFile, history, PackedInv
<1>6. CASE SkipEvent
  BY <1>0, <1>6 DEF SkipEvent, history, PackedInv
<1>7. CASE WriteEvent
  BY <1>0, <1>7 DEF WriteEvent, PackedInv
<1>8. CASE UNCHANGED vars
  BY <1>0, <1>8 DEF vars, history, PackedInv
<1> QED
  BY <1>1, <1>2, <1>3, <1>4, <1>5, <1>6, <1>7, <1>8, <1>9 DEF Next

(* CopyIsExact, for any input whose headers are whole: an event is written *)
(* as the bytes it was read from exactly when those are as raw() lays them *)
(* out.                                                                    *)
THEOREM CopyCorrect == ASSUME InputsPacked PROVE Spec => []CopyIsExact
<1>1. Init => PackedInv
  <2> SUFFICES ASSUME Init
               PROVE  PackedInv
    OBVIOUS
  <2>1. Packed(in) /\ pc # "select"
    BY DEF Init, InputsPacked
  <2> QED
    BY <2>1, InvInit DEF PackedInv
<1>2. PackedInv => CopyIsExact
  <2> SUFFICES ASSUME PackedInv, NEW e \in event
               PROVE  WrittenBytes(e) = taken <=> LaidOutAsRaw(e, taken)
    BY DEF CopyIsExact
  <2>1. pc = "select"
    BY DEF PackedInv, IInv
  <2>2. WholeStream(e, taken) /\ Packed(taken)
    BY <2>1 DEF PackedInv
  <2> QED
    BY <2>2, ExactWhenLaidOut, LaidOutWhenExact
<1> QED
  BY <1>1, <1>2, PackedNext, PTL DEF Spec

===============================================================================
