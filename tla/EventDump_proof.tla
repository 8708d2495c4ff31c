---------------------------- MODULE EventDump_proof ----------------------------
(***************************************************************************)
(* Proofs about EventDump for any file, any payloads and any command line: *)
(* its type invariant, that it implements EventSelection, and that what is *)
(* printed of digitizers and trigger boards is what they sent.             *)
(***************************************************************************)
EXTENDS EventDump, Recursion

-------------------------------------------------------------------------------
(* What the command line comes to. *)

(* Data are asked for only together with fragments. *)
Options ==
  {o \in [showFragments : BOOLEAN, showData : BOOLEAN, systems : SUBSET Systems,
          nEventsMax : Int, debug : BOOLEAN, usage : BOOLEAN] :
     o.systems # {} => o.showFragments /\ o.showData}

LEMMA NoOptionsType == NoOptions \in Options
BY DEF NoOptions, Options

LEMMA ParseOptionType ==
  ASSUME NEW o \in Options, NEW option, option.opt = "n" => option.number \in Int
  PROVE  ParseOption(o, option) \in Options
<1>1. CASE option.opt = "f"
  BY <1>1 DEF ParseOption, Options
<1>2. CASE option.opt = "n"
  BY <1>2 DEF ParseOption, Options
<1>3. CASE option.opt = "debug"
  BY <1>3 DEF ParseOption, Options
<1>4. CASE option.opt = "d" /\ option.arg \in Systems \cup {"all"}
  <2> DEFINE named == IF option.arg = "all" THEN Systems ELSE {option.arg}
  <2>1. named \subseteq Systems
    BY <1>4
  <2>2. ParseOption(o, option) = [o EXCEPT !.showFragments = TRUE, !.showData = TRUE,
                                           !.systems = @ \cup named]
    BY <1>4 DEF ParseOption
  <2> HIDE DEF named
  <2> QED
    BY <2>1, <2>2 DEF Options
<1>5. CASE /\ option.opt \notin {"f", "n", "debug"}
           /\ ~(option.opt = "d" /\ option.arg \in Systems \cup {"all"})
  <2>1. ParseOption(o, option) = [o EXCEPT !.usage = TRUE]
    BY <1>5 DEF ParseOption
  <2> QED
    BY <2>1 DEF Options
<1> QED
  BY <1>1, <1>2, <1>3, <1>4, <1>5

LEMMA RequestedType ==
  ASSUME NEW args, args \in Seq(Range(args)),
         \A option \in Range(args) : option.opt = "n" => option.number \in Int
  PROVE  Requested(args) \in Options
<1> DEFINE N == Len(args)
           step == [n \in 1..N |-> [o \in Options |-> ParseOption(o, args[n])]]
           iter[T \in SUBSET DOMAIN args] ==
             IF T = {} THEN NoOptions
             ELSE LET x == Max(T) IN ParseOption(iter[T \ {x}], args[x])
           P(g) == g = [T \in SUBSET DOMAIN args |->
                          IF T = {} THEN NoOptions
                          ELSE LET x == Max(T) IN ParseOption(g[T \ {x}], args[x])]
<1>1. Requested(args) = iter[DOMAIN args]
  BY Zenon DEF Requested, FoldLeft, MapThenFoldSet
<1>2. iter = CHOOSE g : P(g)
  BY Zenon DEF iter
<1> HIDE DEF iter
<1>3. N \in Nat /\ DOMAIN args = 1..N
  OBVIOUS
<1>4. ASSUME NEW n \in 1..N, NEW o \in Options
      PROVE  ParseOption(o, args[n]) \in Options
  <2>1. args[n] \in Range(args)
    BY <1>3 DEF Range
  <2> QED
    BY <2>1, ParseOptionType
<1>5. step \in [1..N -> [Options -> Options]]
  <2> HIDE DEF N
  <2> QED
    BY <1>4
<1>6. PICK g \in [SUBSET (1..N) -> Options] : IsSequenceFold(N, NoOptions, step, g)
  <2> HIDE DEF N, step
  <2> QED
    BY <1>3, <1>5, NoOptionsType, SequenceFoldExists
<1>7. P(g)
  <2>1. ASSUME NEW T \in SUBSET (1..N)
        PROVE  g[T] = IF T = {} THEN NoOptions
                      ELSE LET x == Max(T) IN ParseOption(g[T \ {x}], args[x])
    <3> HIDE DEF N
    <3>1. g[T] = IF T = {} THEN NoOptions ELSE step[Largest(T)][g[T \ {Largest(T)}]]
      <4> HIDE DEF step
      <4> QED
        BY <1>6 DEF IsSequenceFold
    <3>2. CASE T = {}
      BY <3>1, <3>2
    <3>3. CASE T # {}
      <4>1. Max(T) = Largest(T) /\ Max(T) \in T
        BY <1>3, <3>3, MaxOfFirst
      <4>2. g[T \ {Max(T)}] \in Options /\ Max(T) \in 1..N
        BY <1>6, <4>1
      <4>3. step[Max(T)][g[T \ {Max(T)}]] = ParseOption(g[T \ {Max(T)}], args[Max(T)])
        BY <4>2
      <4> HIDE DEF step
      <4> QED
        BY <3>1, <3>3, <4>1, <4>3
    <3> QED
      BY <3>2, <3>3
  <2> HIDE DEF N, step
  <2> QED
    BY <1>3, <1>6, <2>1
<1>8. P(iter)
  <2> HIDE DEF P
  <2> QED
    BY <1>2, <1>7, Zenon
<1> DEFINE S == {n \in 0..N : iter[1..n] \in Options}
<1>9. 0 \in S
  <2>1. 1..0 = {}
    OBVIOUS
  <2>2. iter[1..0] = NoOptions
    BY <1>8, <2>1
  <2> QED
    BY <1>3, <2>2, NoOptionsType
<1>10. ASSUME NEW n \in 0..(N - 1), n \in S
       PROVE  n + 1 \in S
  <2> DEFINE m == n + 1
  <2>1. m \in 1..N /\ m - 1 = n /\ m \in 0..N
    BY <1>3
  <2>2. /\ Max(1..m) = m /\ 1..m # {} /\ (1..m) \ {m} = 1..(m - 1)
        /\ 1..m \in SUBSET DOMAIN args
    BY <1>3, <2>1, MaxOfFirst
  <2>3. \A T \in SUBSET DOMAIN args :
          T # {} => iter[T] = ParseOption(iter[T \ {Max(T)}], args[Max(T)])
    BY <1>8
  <2>4. iter[1..n] \in Options
    BY <1>10
  <2> HIDE DEF m, N, P
  <2>5. iter[1..m] = ParseOption(iter[1..n], args[m])
    BY <2>1, <2>2, <2>3
  <2>6. m \in S
    BY <1>4, <2>1, <2>4, <2>5
  <2> HIDE DEF S
  <2> QED
    BY <2>6 DEF m
<1>11. N \in S
  <2> HIDE DEF S, N
  <2>1. 0..N \subseteq S
    BY <1>3, <1>9, <1>10, UpTo
  <2> QED
    BY <1>3, <2>1
<1> QED
  BY <1>1, <1>3, <1>11

-------------------------------------------------------------------------------
(* Ends of sequences. *)

LEMMA SuffixIs ==
  ASSUME NEW s, IsSequence(s), NEW k \in 0..Len(s)
  PROVE  LET t == SubSeq(s, k + 1, Len(s))
         IN  /\ Len(t) = Len(s) - k
             /\ IsSuffix(t, s)
             /\ t # <<>> => /\ Head(t) = s[k + 1] /\ k + 1 \in 1..Len(s)
                            /\ Tail(t) = SubSeq(s, (k + 1) + 1, Len(s))
             /\ t = <<>> => k = Len(s)
<1> DEFINE N == Len(s)
           t == SubSeq(s, k + 1, N)
<1>1. PICK S : s \in Seq(S)
  BY DEF IsSequence
<1>2. N \in Nat /\ k \in 0..N
  BY <1>1
<1>3. t \in Seq(S) /\ Len(t) = N - k /\ \A i \in 1..(N - k) : t[i] = s[k + i]
  BY <1>1, <1>2
<1>4. t # <<>> => /\ Head(t) = s[k + 1] /\ k + 1 \in 1..N
                  /\ Tail(t) = SubSeq(s, (k + 1) + 1, N)
  BY <1>1, <1>2, <1>3
<1>5. t = <<>> => k = N
  <2> HIDE DEF t
  <2> QED
    BY <1>2, <1>3
<1>6. IsSuffix(t, s)
  <2> DEFINE r == Reverse(t)
             q == Reverse(s)
  <2> HIDE DEF t, N
  <2>1. r = [i \in 1..(N - k) |-> t[((N - k) - i) + 1]]
    BY <1>3 DEF Reverse
  <2>2. q = [i \in 1..N |-> s[(N - i) + 1]]
    BY DEF Reverse, N
  <2>3. q \in Seq(S) /\ Len(q) = N
    <3>1. \A i \in 1..N : s[(N - i) + 1] \in S
      BY <1>1, <1>2 DEF N
    <3> QED
      BY <1>2, <2>2, <3>1
  <2>4. r \in Seq(S) /\ Len(r) = N - k
    <3>1. \A i \in 1..(N - k) : t[((N - k) - i) + 1] \in S
      BY <1>2, <1>3
    <3> QED
      BY <1>2, <2>1, <3>1
  <2>5. \A i \in 1..(N - k) : r[i] = q[i]
    <3> TAKE i \in 1..(N - k)
    <3>1. /\ ((N - k) - i) + 1 \in 1..(N - k) /\ i \in 1..N
          /\ k + (((N - k) - i) + 1) = (N - i) + 1
      BY <1>2
    <3>2. t[((N - k) - i) + 1] = s[(N - i) + 1]
      BY <1>3, <3>1
    <3> QED
      BY <2>1, <2>2, <3>1, <3>2
  <2>6. Len(r) <= Len(q)
    BY <1>2, <2>3, <2>4
  <2>7. SubSeq(r, 1, Len(r)) = SubSeq(q, 1, Len(r))
    <3> HIDE DEF r, q
    <3> QED
      BY <1>2, <2>3, <2>4, <2>5
  <2> QED
    BY <2>6, <2>7 DEF IsSuffix, IsPrefix
<1> QED
  BY <1>3, <1>4, <1>5, <1>6

-------------------------------------------------------------------------------
(* The events before the first that ends the program. *)

DeadlyIn(args, s) == {i \in 1..Len(s) : Deadly(Requested(args), s[i])}
FirstIn(S)        == IF S # {} THEN Min(S) ELSE 0
Before(args, s)   ==
  IF DeadlyIn(args, s) = {} THEN s ELSE SubSeq(s, 1, FirstIn(DeadlyIn(args, s)) - 1)

LEMMA LeastDeadly ==
  ASSUME NEW args, NEW s, IsSequence(s), DeadlyIn(args, s) # {}
  PROVE  \E n \in 1..Len(s) : /\ FirstIn(DeadlyIn(args, s)) = n
                              /\ n \in DeadlyIn(args, s)
                              /\ \A i \in DeadlyIn(args, s) : n <= i
<1>1. DeadlyIn(args, s) \subseteq 1..Len(s) /\ Len(s) \in Nat
  BY DEF DeadlyIn, IsSequence
<1>2. DeadlyIn(args, s) \subseteq Nat
  BY <1>1
<1>3. PICK n \in DeadlyIn(args, s) : \A i \in DeadlyIn(args, s) : n <= i
  BY <1>2, LeastNatural
<1>4. Min(DeadlyIn(args, s)) = n
  <2>1. DeadlyIn(args, s) \subseteq Int
    BY <1>2
  <2> QED
    BY <1>3, <2>1, MinIs
<1> QED
  BY <1>1, <1>3, <1>4 DEF FirstIn

LEMMA BeforeEmpty ==
  ASSUME NEW args
  PROVE  DeadlyIn(args, <<>>) = {} /\ Before(args, <<>>) = <<>>
BY DEF DeadlyIn, Before

LEMMA BeforeDeadly ==
  ASSUME NEW args, NEW e, NEW s, IsSequence(s), Deadly(Requested(args), e)
  PROVE  Before(args, <<e>> \o s) = <<>> /\ DeadlyIn(args, <<e>> \o s) # {}
<1> DEFINE t == <<e>> \o s
<1>1. PICK S : s \in Seq(S)
  BY DEF IsSequence
<1>2. s \in Seq(S \cup {e}) /\ <<e>> \in Seq(S \cup {e})
  BY <1>1
<1>3. t \in Seq(S \cup {e}) /\ Len(t) = Len(s) + 1 /\ t[1] = e /\ Len(s) \in Nat
  BY <1>2
<1> HIDE DEF t
<1>4. 1 \in DeadlyIn(args, t)
  BY <1>3 DEF DeadlyIn
<1>5. PICK n \in 1..Len(t) : FirstIn(DeadlyIn(args, t)) = n
                             /\ \A i \in DeadlyIn(args, t) : n <= i
  <2>1. IsSequence(t)
    BY <1>3 DEF IsSequence
  <2> QED
    BY <1>4, <2>1, LeastDeadly
<1>6. n = 1
  BY <1>3, <1>4, <1>5
<1>7. SubSeq(t, 1, 0) = <<>>
  BY <1>3
<1> QED
  BY <1>4, <1>5, <1>6, <1>7 DEF Before, t

LEMMA BeforeWith ==
  ASSUME NEW args, NEW e, NEW s, IsSequence(s), ~Deadly(Requested(args), e)
  PROVE  /\ Before(args, <<e>> \o s) # <<>>
         /\ Head(Before(args, <<e>> \o s)) = e
         /\ Tail(Before(args, <<e>> \o s)) = Before(args, s)
         /\ DeadlyIn(args, <<e>> \o s) = {} <=> DeadlyIn(args, s) = {}
<1> DEFINE t == <<e>> \o s
<1>1. PICK S : s \in Seq(S)
  BY DEF IsSequence
<1>2. s \in Seq(S \cup {e}) /\ <<e>> \in Seq(S \cup {e})
  BY <1>1
<1>3. /\ t \in Seq(S \cup {e}) /\ Len(t) = Len(s) + 1 /\ Len(s) \in Nat
      /\ t[1] = e /\ \A i \in 1..Len(s) : t[i + 1] = s[i]
  BY <1>2
<1>4. t # <<>> /\ Head(t) = e /\ Tail(t) = s
  BY WithFirst
<1> HIDE DEF t
<1>5. ASSUME NEW i \in 1..Len(s)
      PROVE  i + 1 \in DeadlyIn(args, t) <=> i \in DeadlyIn(args, s)
  BY <1>3 DEF DeadlyIn
<1>6. ASSUME NEW i \in DeadlyIn(args, t)
      PROVE  i - 1 \in 1..Len(s) /\ i - 1 \in DeadlyIn(args, s)
  <2>1. i \in 1..Len(t) /\ i # 1
    BY <1>3 DEF DeadlyIn
  <2>2. i - 1 \in 1..Len(s) /\ (i - 1) + 1 = i
    BY <1>3, <2>1
  <2> QED
    BY <1>5, <2>2
<1>7. \A i \in DeadlyIn(args, s) : i \in 1..Len(s)
  BY DEF DeadlyIn
<1>8. DeadlyIn(args, t) = {} <=> DeadlyIn(args, s) = {}
  <2>1. DeadlyIn(args, s) = {} => DeadlyIn(args, t) = {}
    BY <1>6
  <2>2. DeadlyIn(args, t) = {} => DeadlyIn(args, s) = {}
    BY <1>5, <1>7
  <2> QED
    BY <2>1, <2>2
<1>9. CASE DeadlyIn(args, s) = {}
  BY <1>4, <1>8, <1>9 DEF Before, t
<1>10. CASE DeadlyIn(args, s) # {}
  <2>1. PICK n \in 1..Len(s) : /\ FirstIn(DeadlyIn(args, s)) = n
                               /\ n \in DeadlyIn(args, s)
                               /\ \A i \in DeadlyIn(args, s) : n <= i
    BY <1>10, LeastDeadly
  <2>2. IsSequence(t)
    BY <1>3 DEF IsSequence
  <2>3. PICK m \in 1..Len(t) : /\ FirstIn(DeadlyIn(args, t)) = m
                               /\ m \in DeadlyIn(args, t)
                               /\ \A i \in DeadlyIn(args, t) : m <= i
    BY <1>8, <1>10, <2>2, LeastDeadly
  <2>4. m = n + 1
    <3>1. m <= n + 1
      BY <1>5, <2>1, <2>3
    <3>2. n <= m - 1
      BY <1>6, <2>1, <2>3
    <3> QED
      BY <3>1, <3>2
  <2>5. Before(args, t) = SubSeq(t, 1, n)
    <3>1. (n + 1) - 1 = n
      OBVIOUS
    <3> QED
      BY <1>8, <1>10, <2>3, <2>4, <3>1 DEF Before
  <2>6. Before(args, s) = SubSeq(s, 1, n - 1)
    BY <1>10, <2>1 DEF Before
  <2>7. /\ SubSeq(t, 1, n) # <<>> /\ Head(SubSeq(t, 1, n)) = e
        /\ Tail(SubSeq(t, 1, n)) = SubSeq(s, 1, n - 1)
    <3> DEFINE u == SubSeq(t, 1, n)
    <3>1. n \in Nat /\ 1 <= n /\ n <= Len(t)
      BY <1>3
    <3>2. u \in Seq(S \cup {e}) /\ Len(u) = n /\ \A i \in 1..n : u[i] = t[i]
      BY <1>3, <3>1
    <3> HIDE DEF u
    <3>3. u # <<>> /\ Head(u) = e
      BY <1>3, <3>1, <3>2
    <3>4. /\ Tail(u) \in Seq(S \cup {e}) /\ Len(Tail(u)) = n - 1
          /\ \A i \in 1..(n - 1) : Tail(u)[i] = t[i + 1]
      BY <3>1, <3>2, <3>3
    <3>5. /\ SubSeq(s, 1, n - 1) \in Seq(S \cup {e}) /\ Len(SubSeq(s, 1, n - 1)) = n - 1
          /\ \A i \in 1..(n - 1) : SubSeq(s, 1, n - 1)[i] = s[i]
      BY <1>2, <1>3, <3>1
    <3>6. \A i \in 1..(n - 1) : Tail(u)[i] = SubSeq(s, 1, n - 1)[i]
      BY <1>3, <3>4, <3>5
    <3>7. Tail(u) = SubSeq(s, 1, n - 1)
      BY <3>4, <3>5, <3>6
    <3> QED
      BY <3>3, <3>7 DEF u
  <2> QED
    BY <1>8, <2>5, <2>6, <2>7 DEF t
<1> QED
  BY <1>9, <1>10

-------------------------------------------------------------------------------
(* The invariant. *)

(* A fragment whose decoder ends the program. *)
EndsProgram(o, tag, f) ==
  \/ /\ f.source = "pmt" /\ "Digitizer" \in o.systems /\ tag = PhysicsTag
     /\ DigitizerThrows(f.payload) \/ DividesByZero(f.payload)
  \/ f.source = "bobr" /\ "BOBR" \in o.systems /\ BOBRThrows(f.payload)

LEMMA DeadlyIs ==
  ASSUME NEW o, NEW e, IsSequence(e.fragments)
  PROVE  Deadly(o, e) <=>
           \E i \in 1..Len(e.fragments) : EndsProgram(o, e.tag, e.fragments[i])
<1>1. DOMAIN e.fragments = 1..Len(e.fragments)
  BY DEF IsSequence
<1>2. Deadly(o, e) <=> \E f \in Range(e.fragments) : EndsProgram(o, e.tag, f)
  BY Zenon DEF Deadly, EndsProgram
<1> QED
  BY <1>1, <1>2 DEF Range

(* The first fragments of e are dealt with, and harmless. *)
DealtWith(e) ==
  \E k \in 0..Len(e.fragments) :
    /\ fragments = SubSeq(e.fragments, k + 1, Len(e.fragments))
    /\ \A i \in 1..k : ~EndsProgram(options, e.tag, e.fragments[i])

Round == {"dump", "terminated", "crashed"}

(* The options are those asked for once they are parsed, what is dealt     *)
(* with of an event did not end the program, and the limit lies ahead      *)
(* while it goes on.                                                       *)
IInv ==
  /\ \E run \in Invocations : argv = run.argv
  /\ pc # "start" => options = Requested(argv)
  /\ IsSequence(in)
  /\ \A n \in 1..Len(in) : IsSequence(in[n].fragments)
  /\ damaged \in BOOLEAN
  /\ pc \in {"start", "open", "read", "done", "failed", "overrun"} \cup Round
  /\ pc \in Round => \E e : event = {e} /\ IsSequence(e.fragments) /\ DealtWith(e)
  /\ pc \notin Round => event = {} /\ fragments = <<>> /\ shown = {}
  /\ IsSequence(dumped)
  /\ nEventsRead = Len(dumped)
  /\ pc \in {"start", "open"} => dumped = <<>>
  /\ pc \in {"read", "dump"} /\ LimitOfOptions(argv) # 0 => nEventsRead < LimitOfOptions(argv)

LEMMA InvInit == Init => IInv
<1> SUFFICES ASSUME Init
             PROVE  IInv
  OBVIOUS
<1>1. PICK run \in Invocations : argv = run.argv /\ in = run.in /\ damaged = run.damaged
  BY DEF Init
<1>2. /\ in \in Seq(Range(in)) /\ damaged \in BOOLEAN
      /\ \A e \in Range(in) : e.fragments \in Seq(Range(e.fragments))
  BY <1>1, InvocationsAssumption
<1>3. IsSequence(in) /\ \A n \in 1..Len(in) : IsSequence(in[n].fragments)
  <2>1. \A n \in 1..Len(in) : in[n] \in Range(in)
    BY <1>2 DEF Range
  <2> QED
    BY <1>2, <2>1 DEF IsSequence
<1>4. IsSequence(<<>>) /\ Len(<<>>) = 0
  <2>1. <<>> \in Seq({})
    OBVIOUS
  <2> QED
    BY <2>1 DEF IsSequence
<1> QED
  BY <1>1, <1>2, <1>3, <1>4 DEF Init, IInv, Round

LEMMA OptionsType ==
  ASSUME IInv
  PROVE  Requested(argv) \in Options
<1>1. PICK run \in Invocations : argv = run.argv
  BY DEF IInv
<1>2. argv \in Seq(Range(argv)) /\ \A option \in Range(argv) : option.opt = "n" => option.number \in Int
  BY <1>1, InvocationsAssumption
<1> QED
  BY <1>2, RequestedType

LEMMA LimitType ==
  ASSUME IInv
  PROVE  LimitOfOptions(argv) \in Nat
BY OptionsType DEF Options, LimitOfOptions

(* The steps that go on to the next fragment. *)
Dump ==
  \/ DumpTLBData \/ DumpTLBMonitoring \/ DumpTracker \/ DumpDigitizer
  \/ DumpBOBR \/ DumpWords \/ DumpHeader

(* They do so only past a harmless one. *)
LEMMA DumpIs ==
  ASSUME IInv, Dump
  PROVE  /\ pc = "dump" /\ fragments # <<>> /\ GoOn
         /\ \A e \in event : ~EndsProgram(options, e.tag, Head(fragments))
<1>1. CASE DumpTLBData
  BY <1>1 DEF DumpTLBData, DataOf, Shows, EndsProgram
<1>2. CASE DumpTLBMonitoring
  BY <1>2 DEF DumpTLBMonitoring, DataOf, Shows, EndsProgram
<1>3. CASE DumpTracker
  BY <1>3 DEF DumpTracker, DataOf, Shows, EndsProgram
<1>4. CASE DumpDigitizer
  BY <1>4 DEF DumpDigitizer, DataOf, Shows, EndsProgram
<1>5. CASE DumpBOBR
  BY <1>5 DEF DumpBOBR, DataOf, Shows, EndsProgram
<1>6. CASE DumpWords
  BY <1>6 DEF DumpWords, Shows, EndsProgram
<1>7. CASE DumpHeader
  <2>1. pc = "dump" /\ fragments # <<>> /\ GoOn
    BY <1>7 DEF DumpHeader
  <2>2. options \in Options
    BY <2>1, OptionsType DEF IInv
  <2>3. /\ "Digitizer" \in options.systems => options.showData
        /\ "BOBR" \in options.systems => options.showData
    BY <2>2 DEF Options
  <2> DEFINE source == Head(fragments).source
  <2>4. \/ ~options.showData
        \/ source \in DOMAIN SystemOf /\ SystemOf[source] \notin options.systems
        \/ source = "trigger"
        \/ source = "pmt" /\ ~Tagged(PhysicsTag)
    BY <1>7 DEF DumpHeader
  <2>5. SystemOf["pmt"] = "Digitizer" /\ SystemOf["bobr"] = "BOBR"
    BY DEF SystemOf
  <2>6. ASSUME NEW e \in event
        PROVE  ~EndsProgram(options, e.tag, Head(fragments))
    BY <2>3, <2>4, <2>5 DEF EndsProgram, Tagged
  <2> QED
    BY <2>1, <2>6
<1> QED
  BY <1>1, <1>2, <1>3, <1>4, <1>5, <1>6, <1>7 DEF Dump

LEMMA DumpDealsWith ==
  ASSUME IInv, Dump
  PROVE  \E e : event = {e} /\ IsSequence(e.fragments) /\ DealtWith(e)'
<1>1. /\ pc = "dump" /\ fragments # <<>> /\ GoOn
      /\ \A e \in event : ~EndsProgram(options, e.tag, Head(fragments))
  BY DumpIs
<1>2. PICK e : event = {e} /\ IsSequence(e.fragments) /\ DealtWith(e)
  BY <1>1 DEF IInv, Round
<1> DEFINE s == e.fragments
<1>3. PICK k \in 0..Len(s) : /\ fragments = SubSeq(s, k + 1, Len(s))
                             /\ \A i \in 1..k : ~EndsProgram(options, e.tag, s[i])
  BY <1>2 DEF DealtWith
<1>4. /\ Head(fragments) = s[k + 1] /\ k + 1 \in 1..Len(s)
      /\ Tail(fragments) = SubSeq(s, (k + 1) + 1, Len(s))
  BY <1>1, <1>2, <1>3, SuffixIs
<1>5. fragments' = SubSeq(s, (k + 1) + 1, Len(s)) /\ options' = options
  BY <1>1, <1>4 DEF GoOn
<1>6. \A i \in 1..(k + 1) : ~EndsProgram(options, e.tag, s[i])
  BY <1>1, <1>2, <1>3, <1>4
<1>7. k + 1 \in 0..Len(s)
  BY <1>4
<1>8. DealtWith(e)'
  BY <1>5, <1>6, <1>7 DEF DealtWith
<1> QED
  BY <1>2, <1>8

(* At the end of an event none of its fragments was deadly. *)
LEMMA EndIsHarmless ==
  ASSUME IInv, pc = "dump", fragments = <<>>
  PROVE  \A e \in event : ~Deadly(Requested(argv), e)
<1>1. PICK e : event = {e} /\ IsSequence(e.fragments) /\ DealtWith(e)
  BY DEF IInv, Round
<1>2. PICK k \in 0..Len(e.fragments) :
         /\ fragments = SubSeq(e.fragments, k + 1, Len(e.fragments))
         /\ \A i \in 1..k : ~EndsProgram(options, e.tag, e.fragments[i])
  BY <1>1 DEF DealtWith
<1>3. k = Len(e.fragments)
  BY <1>1, <1>2, SuffixIs
<1>4. options = Requested(argv)
  BY DEF IInv
<1>5. ~Deadly(Requested(argv), e)
  BY <1>1, <1>2, <1>3, <1>4, DeadlyIs
<1> QED
  BY <1>1, <1>5

LEMMA TailOfFile ==
  ASSUME IInv, in # <<>>
  PROVE  /\ IsSequence(Tail(in)) /\ IsSequence(Head(in).fragments)
         /\ \A n \in 1..Len(Tail(in)) : IsSequence(Tail(in)[n].fragments)
         /\ in = <<Head(in)>> \o Tail(in)
<1>1. PICK S : in \in Seq(S)
  BY DEF IInv, IsSequence
<1>2. Tail(in) \in Seq(S) /\ Len(Tail(in)) = Len(in) - 1 /\ Len(in) \in Nat \ {0}
      /\ Head(in) = in[1] /\ \A n \in 1..Len(Tail(in)) : Tail(in)[n] = in[n + 1]
  BY <1>1
<1>3. \A n \in 1..Len(in) : IsSequence(in[n].fragments)
  BY DEF IInv
<1>4. in = <<Head(in)>> \o Tail(in)
  BY <1>1
<1>5. \A n \in 1..Len(Tail(in)) : n + 1 \in 1..Len(in)
  BY <1>2
<1>6. IsSequence(Tail(in))
  BY <1>2 DEF IsSequence
<1>7. 1 \in 1..Len(in)
  BY <1>2
<1> QED
  BY <1>2, <1>3, <1>4, <1>5, <1>6, <1>7

LEMMA InvNext == IInv /\ [Next]_vars => IInv'
<1> SUFFICES ASSUME IInv, [Next]_vars
             PROVE  IInv'
  OBVIOUS
<1> USE DEF IInv, Round
<1>1. CASE ParseOptions
  <2>1. options' = Requested(argv)
    BY <1>1, Zenon DEF ParseOptions, Requested
  <2> QED
    BY <1>1, <2>1 DEF ParseOptions, file
<1>2. CASE Open
  <2>1. LimitOfOptions(argv) \in Nat
    BY LimitType
  <2>2. Len(dumped) = 0
    BY <1>2 DEF Open
  <2> QED
    BY <1>2, <2>1, <2>2 DEF Open, file
<1>3. CASE ReadEvent
  <2>1. PICK e : e = Head(in) /\ event' = {e}
    BY <1>3 DEF ReadEvent
  <2>2. IsSequence(e.fragments) /\ Len(e.fragments) \in Nat
    BY <1>3, <2>1, TailOfFile DEF ReadEvent, IsSequence
  <2>3. DealtWith(e)'
    <3>1. CASE options.showFragments
      <4>1. SubSeq(e.fragments, 0 + 1, Len(e.fragments)) = e.fragments
        BY <2>2 DEF IsSequence
      <4>2. fragments' = e.fragments
        BY <1>3, <2>1, <3>1 DEF ReadEvent
      <4>3. 0 \in 0..Len(e.fragments) /\ 1..0 = {}
        BY <2>2
      <4> QED
        BY <4>1, <4>2, <4>3 DEF DealtWith
    <3>2. CASE ~options.showFragments
      <4>1. fragments' = <<>> /\ options' = options
        BY <1>3, <3>2 DEF ReadEvent
      <4>2. SubSeq(e.fragments, Len(e.fragments) + 1, Len(e.fragments)) = <<>>
        BY <2>2 DEF IsSequence
      <4>3. options.systems = {}
        <5>1. options \in Options
          BY <1>3, OptionsType DEF ReadEvent
        <5> QED
          BY <3>2, <5>1 DEF Options
      <4>4. \A i \in 1..Len(e.fragments) : ~EndsProgram(options', e.tag, e.fragments[i])
        BY <4>1, <4>3 DEF EndsProgram
      <4>5. Len(e.fragments) \in 0..Len(e.fragments)
        BY <2>2
      <4> QED
        BY <4>1, <4>2, <4>4, <4>5 DEF DealtWith
    <3> QED
      BY <3>1, <3>2
  <2>4. in # <<>> /\ in' = Tail(in)
    BY <1>3 DEF ReadEvent
  <2>5. IsSequence(in') /\ \A n \in 1..Len(in') : IsSequence(in'[n].fragments)
    BY <2>4, TailOfFile
  <2> QED
    BY <1>3, <2>1, <2>2, <2>3, <2>5 DEF ReadEvent
<1>4. CASE ReadFails
  BY <1>4 DEF ReadFails, file
<1>5. CASE EndOfFile
  BY <1>5 DEF EndOfFile, file
<1>6. CASE Dump
  <2>1. pc = "dump" /\ GoOn
    BY <1>6, DumpIs
  <2>2. \E e : event = {e} /\ IsSequence(e.fragments) /\ DealtWith(e)'
    BY <1>6, DumpDealsWith
  <2>3. UNCHANGED <<argv, options, file, event, nEventsRead, dumped, pc>>
    BY <2>1 DEF GoOn
  <2> QED
    BY <2>1, <2>2, <2>3 DEF file
<1>7. CASE \E how \in {"terminated", "crashed"} : Ends(how) /\ pc = "dump"
  <2>1. PICK e : event = {e} /\ IsSequence(e.fragments) /\ DealtWith(e)
    BY <1>7
  <2>2. UNCHANGED <<argv, options, file, event, fragments, shown, nEventsRead, dumped>>
    BY <1>7 DEF Ends
  <2>3. DealtWith(e)'
    BY <2>1, <2>2 DEF DealtWith
  <2>4. pc = "dump" /\ pc' \in {"terminated", "crashed"}
    BY <1>7 DEF Ends
  <2> QED
    BY <2>1, <2>2, <2>3, <2>4 DEF file
<1>8. CASE EndOfEvent
  <2>1. PICK e : event = {e}
    BY <1>8 DEF EndOfEvent
  <2>2. dumped' = dumped \o <<e>>
    BY <1>8, <2>1, SetToSeqOne DEF EndOfEvent
  <2>3. IsSequence(dumped') /\ Len(dumped') = Len(dumped) + 1
    <3>1. PICK S : dumped \in Seq(S)
      BY DEF IsSequence
    <3>2. dumped \in Seq(S \cup {e}) /\ <<e>> \in Seq(S \cup {e})
      BY <3>1
    <3>3. dumped \o <<e>> \in Seq(S \cup {e}) /\ Len(dumped \o <<e>>) = Len(dumped) + 1
      BY <3>2
    <3> QED
      BY <2>2, <3>3 DEF IsSequence
  <2>4. pc' \in {"read", "done"} /\ event' = {} /\ shown' = {} /\ fragments' = <<>>
        /\ nEventsRead' = nEventsRead + 1 /\ UNCHANGED <<argv, options, in, damaged>>
    BY <1>8 DEF EndOfEvent, file
  <2>5. pc' = "read" /\ LimitOfOptions(argv) # 0 => nEventsRead' < LimitOfOptions(argv)
    <3>1. options = Requested(argv) /\ options.nEventsMax \in Int
      BY <1>8, OptionsType DEF EndOfEvent, Options
    <3>2. nEventsRead' \in Nat /\ nEventsRead' >= 1
      BY <2>4 DEF IsSequence
    <3>3. pc' = "read" => ~(options.nEventsMax # -1 /\ nEventsRead' >= options.nEventsMax)
      BY <1>8 DEF EndOfEvent, LimitReached
    <3> QED
      BY <3>1, <3>2, <3>3 DEF LimitOfOptions
  <2>6. nEventsRead' = Len(dumped')
    BY <2>3, <2>4
  <2>7. /\ \E run \in Invocations : argv' = run.argv
        /\ options' = Requested(argv')
        /\ IsSequence(in') /\ \A n \in 1..Len(in') : IsSequence(in'[n].fragments)
        /\ damaged' \in BOOLEAN
    BY <1>8, <2>4 DEF EndOfEvent
  <2>8. pc' = "read" /\ LimitOfOptions(argv') # 0 => nEventsRead' < LimitOfOptions(argv')
    BY <2>4, <2>5
  <2> QED
    BY <2>3, <2>4, <2>6, <2>7, <2>8
<1>9. CASE UNCHANGED vars
  BY <1>9 DEF vars, file, DealtWith
<1>10. DecoderThrows \/ DigitizerCrashes
         => \E how \in {"terminated", "crashed"} : Ends(how) /\ pc = "dump"
  BY DEF DecoderThrows, DigitizerCrashes, DataOf
<1> QED
  BY <1>1, <1>2, <1>3, <1>4, <1>5, <1>6, <1>7, <1>8, <1>9, <1>10 DEF Next, Dump

LEMMA Invariant == Spec => []IInv
BY InvInit, InvNext, PTL DEF Spec

(* There is an event exactly during its round, or if it ended the program; *)
(* what is left of its fragments is a suffix of them; and the count is     *)
(* that of the events printed completely.                                  *)
THEOREM TypeCorrect == Spec => []TypeOK
<1>1. IInv => TypeOK
  <2> SUFFICES ASSUME IInv
               PROVE  TypeOK
    OBVIOUS
  <2>1. pc \in {"start", "open", "read", "done", "failed", "overrun"} \cup Round
    BY DEF IInv
  <2>2. CASE pc \in Round
    <3>1. PICK e : event = {e} /\ IsSequence(e.fragments) /\ DealtWith(e)
      BY <2>2 DEF IInv
    <3>2. IsSuffix(fragments, e.fragments)
      BY <3>1, SuffixIs DEF DealtWith
    <3>3. Cardinality(event) = 1 /\ event # {}
      BY <3>1, FS_Singleton
    <3> QED
      BY <2>1, <2>2, <3>1, <3>2, <3>3 DEF IInv, TypeOK, Ended, Round
  <2>3. CASE pc \notin Round
    <3>1. event = {} /\ fragments = <<>> /\ shown = {}
      BY <2>3 DEF IInv
    <3>2. Cardinality(event) = 0
      BY <3>1, FS_EmptySet
    <3> QED
      BY <2>1, <2>3, <3>1, <3>2 DEF IInv, TypeOK, Ended, Round
  <2> QED
    BY <2>2, <2>3
<1> QED
  BY <1>1, Invariant, PTL

-------------------------------------------------------------------------------
(* The program implements EventSelection. *)

(* What the refinement maps the variables to. *)
Todo    == IF FirstDeadly = 0 THEN Left ELSE SubSeq(Left, 1, FirstDeadly - 1)
Damaged == damaged \/ FirstDeadly # 0
Result  == CASE pc \in {"start", "open"} -> "idle"
             [] pc \in {"read", "dump"} -> "running"
             [] pc = "done" -> "done"
             [] OTHER -> "failed"

LEMMA FirstDeadlyIs == FirstDeadly = FirstIn(DeadlyIn(argv, Left))
BY Zenon DEF FirstDeadly, SelectInSeq, FirstIn, DeadlyIn

LEMMA FirstDeadlyKept == UNCHANGED <<argv, Left>> => FirstDeadly' = FirstDeadly
<1>1. FirstDeadly = FirstIn(DeadlyIn(argv, Left))
  BY FirstDeadlyIs
<1>2. (FirstDeadly = FirstIn(DeadlyIn(argv, Left)))'
  BY <1>1, PTL
<1> QED
  BY <1>1, <1>2

LEMMA MappedIs ==
  ASSUME IsSequence(Left)
  PROVE  /\ Todo = Before(argv, Left)
         /\ Damaged <=> (damaged \/ DeadlyIn(argv, Left) # {})
<1>1. CASE DeadlyIn(argv, Left) = {}
  BY <1>1, FirstDeadlyIs DEF Todo, Damaged, Before, FirstIn
<1>2. CASE DeadlyIn(argv, Left) # {}
  <2>1. FirstIn(DeadlyIn(argv, Left)) # 0
    BY <1>2, LeastDeadly
  <2> QED
    BY <1>2, <2>1, FirstDeadlyIs DEF Todo, Damaged, Before
<1> QED
  BY <1>1, <1>2

LEMMA LeftIs ==
  ASSUME IInv
  PROVE  /\ IsSequence(Left)
         /\ event = {} => Left = in
         /\ \A e : event = {e} => Left = <<e>> \o in
<1>1. IsSequence(in) /\ (event = {} \/ \E e : event = {e})
  BY DEF IInv, Round
<1>2. event = {} => Left = in
  BY <1>1, WithFirst, SetToSeqEmpty DEF Left
<1>3. \A e : event = {e} => Left = <<e>> \o in
  BY SetToSeqOne DEF Left
<1> QED
  BY <1>1, <1>2, <1>3, WithFirst

(* What is to do, by where the program is. *)
LEMMA TodoIs ==
  ASSUME IInv
  PROVE  /\ event = {} => /\ Todo = Before(argv, in)
                          /\ Damaged <=> (damaged \/ DeadlyIn(argv, in) # {})
         /\ \A e : event = {e} /\ Deadly(Requested(argv), e) => Todo = <<>> /\ Damaged
         /\ \A e : event = {e} /\ ~Deadly(Requested(argv), e) =>
                     /\ Todo # <<>> /\ Head(Todo) = e /\ Tail(Todo) = Before(argv, in)
                     /\ Damaged <=> (damaged \/ DeadlyIn(argv, in) # {})
<1>1. /\ IsSequence(Left) /\ IsSequence(in)
      /\ Todo = Before(argv, Left)
      /\ Damaged <=> (damaged \/ DeadlyIn(argv, Left) # {})
  BY LeftIs, MappedIs DEF IInv
<1>2. event = {} => Left = in
  BY LeftIs
<1>3. ASSUME NEW e, event = {e}
      PROVE  Left = <<e>> \o in
  BY <1>3, LeftIs
<1>4. ASSUME NEW e, event = {e}, Deadly(Requested(argv), e)
      PROVE  Todo = <<>> /\ Damaged
  <2>1. Left = <<e>> \o in
    BY <1>3, <1>4
  <2>2. Before(argv, <<e>> \o in) = <<>> /\ DeadlyIn(argv, <<e>> \o in) # {}
    BY <1>1, <1>4, BeforeDeadly
  <2> QED
    BY <1>1, <2>1, <2>2
<1>5. ASSUME NEW e, event = {e}, ~Deadly(Requested(argv), e)
      PROVE  /\ Todo # <<>> /\ Head(Todo) = e /\ Tail(Todo) = Before(argv, in)
             /\ Damaged <=> (damaged \/ DeadlyIn(argv, in) # {})
  <2>1. Left = <<e>> \o in
    BY <1>3, <1>5
  <2>2. /\ Before(argv, <<e>> \o in) # <<>> /\ Head(Before(argv, <<e>> \o in)) = e
        /\ Tail(Before(argv, <<e>> \o in)) = Before(argv, in)
        /\ DeadlyIn(argv, <<e>> \o in) = {} <=> DeadlyIn(argv, in) = {}
    BY <1>1, <1>5, BeforeWith
  <2> QED
    BY <1>1, <2>1, <2>2
<1> QED
  BY <1>1, <1>2, <1>4, <1>5

(* A fragment whose decoder ends the program makes its event deadly. *)
LEMMA EndsIsDeadly ==
  ASSUME IInv, pc = "dump", fragments # <<>>,
         NEW e \in event, EndsProgram(options, e.tag, Head(fragments))
  PROVE  Deadly(Requested(argv), e)
<1>1. event = {e} /\ IsSequence(e.fragments) /\ DealtWith(e)
  BY DEF IInv, Round
<1>2. PICK k \in 0..Len(e.fragments) : fragments = SubSeq(e.fragments, k + 1, Len(e.fragments))
  BY <1>1 DEF DealtWith
<1>3. Head(fragments) = e.fragments[k + 1] /\ k + 1 \in 1..Len(e.fragments)
  BY <1>1, <1>2, SuffixIs
<1>4. options = Requested(argv)
  BY DEF IInv
<1> QED
  BY <1>1, <1>3, <1>4, DeadlyIs

LEMMA SelectionStep ==
  ASSUME IInv, [Next]_vars,
         event' = {} => /\ Todo' = Before(argv', in')
                        /\ Damaged' <=> (damaged' \/ DeadlyIn(argv', in') # {})
  PROVE  [Selection!Next]_<<argv, Todo, Damaged, dumped, nEventsRead, Result>>
<1> USE DEF Result
<1> DEFINE kept == Todo' = Todo /\ Damaged' = Damaged
<1>0. UNCHANGED <<argv, file, event>> => kept
  BY FirstDeadlyKept DEF file, Todo, Damaged, Left
<1>1. CASE ParseOptions
  <2>1. kept /\ UNCHANGED <<argv, dumped, nEventsRead>> /\ Result = "idle"
    BY <1>0, <1>1 DEF ParseOptions
  <2>2. Result' = "idle" \/ Result' = "failed"
    BY <1>1 DEF ParseOptions
  <2>3. Result' = "failed" => Selection!Start
    BY <2>1 DEF Selection!Start, Todo, Damaged
  <2> QED
    BY <2>1, <2>2, <2>3 DEF Selection!Next
<1>2. CASE Open
  <2>1. kept /\ UNCHANGED <<argv, dumped, nEventsRead>> /\ Result = "idle" /\ dumped = <<>>
    BY <1>0, <1>2 DEF Open, IInv
  <2>2. Result' \in {"running", "failed"}
    BY <1>2 DEF Open
  <2>3. Selection!Start
    BY <2>1, <2>2 DEF Selection!Start, KeepsNothing, Todo, Damaged
  <2> QED
    BY <2>3 DEF Selection!Next
<1>3. CASE ReadEvent
  <2>1. /\ pc = "read" /\ in # <<>> /\ event' = {Head(in)} /\ in' = Tail(in) /\ event = {}
        /\ UNCHANGED <<argv, damaged, dumped, nEventsRead>>
    BY <1>3 DEF ReadEvent, IInv, Round
  <2>2. Left' = <<Head(in)>> \o Tail(in)
    BY <2>1, SetToSeqOne DEF Left
  <2>3. Left' = Left
    BY <2>1, <2>2, LeftIs, TailOfFile
  <2>4. kept
    BY <2>1, <2>3, FirstDeadlyKept DEF Todo, Damaged
  <2> QED
    BY <1>3, <2>1, <2>4 DEF ReadEvent
<1>4. CASE ReadFails \/ EndOfFile
  <2>1. /\ kept /\ UNCHANGED <<argv, damaged, dumped, nEventsRead>>
        /\ pc = "read" /\ in = <<>> /\ event = {}
    BY <1>0, <1>4 DEF ReadFails, EndOfFile, file, IInv, Round
  <2>2. Todo = <<>> /\ (Damaged <=> damaged)
    BY <2>1, TodoIs, BeforeEmpty
  <2>3. Result' = IF Damaged THEN "failed" ELSE "done"
    BY <1>4, <2>2 DEF ReadFails, EndOfFile
  <2>4. Selection!Finish
    BY <2>1, <2>2, <2>3 DEF Selection!Finish, Todo, Damaged
  <2> QED
    BY <2>4 DEF Selection!Next
<1>5. CASE Dump
  <2>1. pc = "dump" /\ UNCHANGED <<argv, file, event, dumped, nEventsRead, pc>>
    BY <1>5, DumpIs DEF GoOn
  <2> QED
    BY <1>0, <2>1
<1>6. CASE DecoderThrows \/ DigitizerCrashes
  <2>1. /\ pc = "dump" /\ fragments # <<>> /\ Result' = "failed"
        /\ UNCHANGED <<argv, file, event, dumped, nEventsRead>>
    BY <1>6 DEF DecoderThrows, DigitizerCrashes, DataOf, Ends
  <2>2. PICK e : event = {e}
    BY <2>1 DEF IInv, Round
  <2>3. EndsProgram(options, e.tag, Head(fragments))
    BY <1>6, <2>2 DEF DecoderThrows, DigitizerCrashes, DataOf, Tagged, EndsProgram
  <2>4. Deadly(Requested(argv), e)
    BY <2>1, <2>2, <2>3, EndsIsDeadly
  <2>5. Todo = <<>> /\ Damaged
    BY <2>2, <2>4, TodoIs
  <2>6. Selection!Finish
    BY <1>0, <2>1, <2>5 DEF Selection!Finish, Todo, Damaged
  <2> QED
    BY <2>6 DEF Selection!Next
<1>7. CASE EndOfEvent
  <2>1. /\ pc = "dump" /\ fragments = <<>> /\ event' = {}
        /\ nEventsRead' = nEventsRead + 1
        /\ dumped' = dumped \o SetToSeq(event)
        /\ UNCHANGED <<argv, options, in, damaged>>
    BY <1>7 DEF EndOfEvent, file
  <2>2. PICK e : event = {e}
    BY <2>1 DEF IInv, Round
  <2>3. ~Deadly(Requested(argv), e)
    BY <2>1, <2>2, EndIsHarmless
  <2>4. /\ Todo # <<>> /\ Head(Todo) = e /\ Tail(Todo) = Before(argv, in)
        /\ Damaged <=> (damaged \/ DeadlyIn(argv, in) # {})
    BY <2>2, <2>3, TodoIs
  <2>5. Todo' = Tail(Todo) /\ (Damaged' <=> Damaged)
    BY <2>1, <2>4
  <2>6. dumped' = Append(dumped, Head(Todo))
    <3>1. PICK S : dumped \in Seq(S)
      BY DEF IInv, IsSequence
    <3>2. dumped \in Seq(S \cup {e})
      BY <3>1
    <3>3. dumped \o <<e>> = Append(dumped, e)
      BY <3>2
    <3> QED
      BY <2>1, <2>2, <2>4, <3>3, SetToSeqOne
  <2>7. Result' = IF nEventsRead' = LimitOfOptions(argv) THEN "done" ELSE "running"
    <3>1. pc' = IF options.nEventsMax # -1 /\ nEventsRead' >= options.nEventsMax
                THEN "done" ELSE "read"
      BY <1>7 DEF EndOfEvent, LimitReached
    <3>2. options = Requested(argv) /\ options.nEventsMax \in Int
      BY <2>1, OptionsType DEF IInv, Options
    <3>3. /\ nEventsRead \in Nat
          /\ LimitOfOptions(argv) # 0 => nEventsRead < LimitOfOptions(argv)
      BY <2>1 DEF IInv, IsSequence
    <3>4. pc' = IF nEventsRead' = LimitOfOptions(argv) THEN "done" ELSE "read"
      BY <2>1, <3>1, <3>2, <3>3 DEF LimitOfOptions
    <3> QED
      BY <3>4
  <2>8. Selection!Take
    <3>1. Result = "running" /\ EveryEvent(argv, Head(Todo))
      BY <2>1 DEF EveryEvent
    <3>2. Damaged' = Damaged
      BY <2>5 DEF Damaged
    <3> QED
      BY <2>1, <2>4, <2>5, <2>6, <2>7, <3>1, <3>2 DEF Selection!Take, Todo, Damaged
  <2> QED
    BY <2>8 DEF Selection!Next
<1>8. CASE UNCHANGED vars
  BY <1>0, <1>8 DEF vars
<1> QED
  BY <1>1, <1>2, <1>3, <1>4, <1>5, <1>6, <1>7, <1>8 DEF Next, Dump

(* On every file and for every command line the program prints what        *)
(* EventSelection says: the events up to the limit, the end, or the first  *)
(* that cannot be read or decoded, each completely, in order and once; and *)
(* its exit code tells whether it got that far.                            *)
THEOREM SelectionImplemented == Spec => ImplementsSelection
<1>1. Init => Selection!Init
  BY DEF Init, Selection!Init
<1>2. IInv => (event = {} => /\ Todo = Before(argv, in)
                             /\ Damaged <=> (damaged \/ DeadlyIn(argv, in) # {}))
  BY TodoIs
<1>3. (IInv => (event = {} => /\ Todo = Before(argv, in)
                              /\ Damaged <=> (damaged \/ DeadlyIn(argv, in) # {})))'
  BY <1>2, PTL
<1>4. IInv /\ IInv' /\ [Next]_vars => [Selection!Next]_(Selection!vars)
  BY <1>3, SelectionStep DEF Selection!vars, Todo, Damaged, Result
<1> QED
  BY <1>1, <1>4, InvInit, InvNext, PTL DEF Spec, ImplementsSelection, Selection!Spec

-------------------------------------------------------------------------------
(* What was printed, of what was sent. *)

Labelled(f) ==
  /\ f.source = "trigger" =>
       SentByTrigger(f.sent) /\ DamagedTrigger(f.fault, f.sent, f.payload)
  /\ f.source = "pmt" =>
       DigitizerWords(f.payload) /\ (f.fault = "none" => SentByDigitizer(f.sent, f.payload))

AllLabelled(e) == \A f \in Range(e.fragments) : Labelled(f)

PrintOf(s) ==
  /\ s.of.source = "trigger" =>
       \E garbage :
         s.print = TLBPrint(TLBFragment(FormatOfTag, s.of.payload, garbage), options.debug)
  /\ s.of.source = "pmt" =>
       /\ ~DigitizerThrows(s.of.payload) /\ ~DividesByZero(s.of.payload)
       /\ s.print = DigitizerPrint(Decoded(s.of.payload))

(* Whatever is shown was printed of a fragment with its label. *)
ShownInv ==
  /\ IInv
  /\ \A n \in 1..Len(in) : AllLabelled(in[n])
  /\ \A e \in event : AllLabelled(e)
  /\ \A s \in shown : Labelled(s.of) /\ PrintOf(s)

LEMMA ShownInit == Init => ShownInv
<1> SUFFICES ASSUME Init
             PROVE  ShownInv
  OBVIOUS
<1>1. PICK run \in Invocations : in = run.in
  BY DEF Init
<1>2. \A n \in 1..Len(in) : in[n] \in Range(in)
  <2>1. in \in Seq(Range(in))
    BY <1>1, InvocationsAssumption
  <2> QED
    BY <2>1 DEF Range
<1>3. \A e \in Range(in) : AllLabelled(e)
  BY <1>1, FragmentsAssumption, Zenon DEF AllLabelled, Labelled
<1>4. event = {} /\ shown = {}
  BY DEF Init
<1> QED
  BY <1>2, <1>3, <1>4, InvInit DEF ShownInv

(* The fragment that is next is one of the event. *)
LEMMA NextLabelled ==
  ASSUME ShownInv, pc = "dump", fragments # <<>>
  PROVE  Labelled(Head(fragments))
<1>1. PICK e : event = {e} /\ IsSequence(e.fragments) /\ DealtWith(e)
  BY DEF ShownInv, IInv, Round
<1>2. PICK k \in 0..Len(e.fragments) : fragments = SubSeq(e.fragments, k + 1, Len(e.fragments))
  BY <1>1 DEF DealtWith
<1>3. Head(fragments) = e.fragments[k + 1] /\ k + 1 \in 1..Len(e.fragments)
  BY <1>1, <1>2, SuffixIs
<1>4. Head(fragments) \in Range(e.fragments)
  BY <1>1, <1>3 DEF IsSequence, Range
<1> QED
  BY <1>1, <1>4 DEF ShownInv, AllLabelled

LEMMA DumpShows ==
  ASSUME ShownInv, Dump
  PROVE  \A s \in shown' : Labelled(s.of) /\ PrintOf(s)'
<1>1. pc = "dump" /\ fragments # <<>> /\ GoOn
  BY DumpIs DEF ShownInv
<1>2. UNCHANGED <<options, event>>
  BY <1>1 DEF GoOn
<1>3. FormatOfTag' = FormatOfTag
  BY <1>2 DEF FormatOfTag, Tagged
<1> DEFINE f == Head(fragments)
<1>4. Labelled(f)
  BY <1>1, NextLabelled
<1>5. PICK e : event = {e}
  BY <1>1 DEF ShownInv, IInv, Round
<1>6. ASSUME NEW print, shown' = {[of |-> f, print |-> print]},
             f.source = "trigger" =>
               \E garbage :
                 print = TLBPrint(TLBFragment(FormatOfTag, f.payload, garbage), options.debug),
             f.source = "pmt" =>
               /\ ~DigitizerThrows(f.payload) /\ ~DividesByZero(f.payload)
               /\ print = DigitizerPrint(Decoded(f.payload))
      PROVE  \A s \in shown' : Labelled(s.of) /\ PrintOf(s)'
  <2> HIDE DEF f
  <2> SUFFICES ASSUME NEW s, s = [of |-> f, print |-> print]
               PROVE  Labelled(s.of) /\ PrintOf(s)'
    BY <1>6
  <2>1. s.of = f /\ s.print = print
    OBVIOUS
  <2> QED
    BY <1>2, <1>3, <1>4, <1>6, <2>1 DEF PrintOf
<1> HIDE DEF f
<1>7. CASE DumpTLBData
  <2>1. PICK garbage \in Garbage :
          \E g \in {TLBFragment("data", f.payload, garbage)} : Shows(TLBPrint(g, options.debug))
    BY <1>7 DEF DumpTLBData, f
  <2>2. shown' = {[of |-> f, print |-> TLBPrint(TLBFragment("data", f.payload, garbage), options.debug)]}
    BY <2>1, Zenon DEF Shows, f
  <2>3. FormatOfTag = "data" /\ f.source = "trigger"
    BY <1>7, Zenon DEF DumpTLBData, DataOf, FormatOfTag, f
  <2>4. f.source # "pmt"
    BY <2>3
  <2> QED
    BY <1>6, <2>2, <2>3, <2>4, Zenon
<1>8. CASE DumpTLBMonitoring
  <2>2. shown' = {[of |-> f, print |-> TLBPrint(TLBFragment("monitoring", f.payload, Word(0, 0)), options.debug)]}
    BY <1>8, Zenon DEF DumpTLBMonitoring, Shows, f
  <2>3. FormatOfTag = "monitoring" /\ f.source = "trigger"
    <3>1. Tagged(TLBMonitoringTag) /\ f.source = "trigger"
      BY <1>8, Zenon DEF DumpTLBMonitoring, DataOf, f
    <3>2. ~Tagged(PhysicsTag)
      BY <1>5, <3>1 DEF Tagged, TLBMonitoringTag, PhysicsTag
    <3> QED
      BY <3>1, <3>2 DEF FormatOfTag
  <2>4. f.source # "pmt"
    BY <2>3
  <2> QED
    BY <1>6, <2>2, <2>3, <2>4, Zenon
<1>9. CASE DumpDigitizer
  <2>1. shown' = {[of |-> f, print |-> DigitizerPrint(Decoded(f.payload))]}
        /\ f.source = "pmt" /\ ~DigitizerThrows(f.payload) /\ ~DividesByZero(f.payload)
    BY <1>9, Zenon DEF DumpDigitizer, DataOf, Shows, f
  <2>2. f.source # "trigger"
    BY <2>1
  <2> QED
    BY <1>6, <2>1, <2>2, Zenon
<1>10. CASE DumpTracker \/ DumpBOBR \/ DumpWords
  <2>1. /\ f.source # "trigger" /\ f.source # "pmt"
    BY <1>10 DEF DumpTracker, DumpBOBR, DumpWords, DataOf, f
  <2>2. \E print : Shows(print)
    BY <1>10, Zenon DEF DumpTracker, DumpBOBR, DumpWords
  <2>3. PICK print : shown' = {[of |-> f, print |-> print]}
    BY <2>2, Zenon DEF Shows, f
  <2> QED
    BY <1>6, <2>1, <2>3, Zenon
<1>11. CASE DumpHeader
  <2>1. shown' = shown
    BY <1>11 DEF DumpHeader
  <2> QED
    BY <1>2, <1>3, <2>1 DEF ShownInv, PrintOf
<1> QED
  BY <1>7, <1>8, <1>9, <1>10, <1>11 DEF Dump

LEMMA ShownNext == ShownInv /\ [Next]_vars => ShownInv'
<1> SUFFICES ASSUME ShownInv, [Next]_vars
             PROVE  ShownInv'
  OBVIOUS
<1>0. IInv /\ IInv'
  BY InvNext DEF ShownInv
<1>1. CASE ReadEvent
  <2>1. shown' = {}
    BY <1>0, <1>1 DEF ReadEvent, IInv, Round
  <2>2. in # <<>> /\ in' = Tail(in) /\ event' = {Head(in)}
    BY <1>1 DEF ReadEvent
  <2>3. PICK S : in \in Seq(S)
    BY <1>0 DEF IInv, IsSequence
  <2>4. /\ Len(in) \in Nat \ {0} /\ Len(Tail(in)) = Len(in) - 1 /\ Head(in) = in[1]
        /\ \A n \in 1..Len(Tail(in)) : Tail(in)[n] = in[n + 1]
    BY <2>2, <2>3
  <2>5. 1 \in 1..Len(in) /\ \A n \in 1..Len(Tail(in)) : n + 1 \in 1..Len(in)
    BY <2>4
  <2> QED
    BY <1>0, <2>1, <2>2, <2>4, <2>5 DEF ShownInv
<1>2. CASE Dump
  <2>1. GoOn
    BY <1>0, <1>2, DumpIs
  <2> QED
    BY <1>0, <1>2, <2>1, DumpShows DEF ShownInv, GoOn, file
<1>3. CASE ParseOptions
  BY <1>0, <1>3 DEF ShownInv, ParseOptions, file, IInv, Round
<1>4. CASE EndOfEvent
  BY <1>0, <1>4 DEF ShownInv, EndOfEvent, file
<1>5. CASE UNCHANGED <<options, in, event, shown>>
  <2>1. \A s \in shown : PrintOf(s)' <=> PrintOf(s)
    BY <1>5 DEF PrintOf, FormatOfTag, Tagged
  <2> QED
    BY <1>0, <1>5, <2>1 DEF ShownInv
<1>6. Open \/ ReadFails \/ EndOfFile \/ DecoderThrows \/ DigitizerCrashes \/ UNCHANGED vars
        => UNCHANGED <<options, in, event, shown>>
  BY DEF Open, ReadFails, EndOfFile, DecoderThrows, DigitizerCrashes, Ends, vars, file
<1> QED
  BY <1>1, <1>2, <1>3, <1>4, <1>5, <1>6 DEF Next, Dump

LEMMA ShownInvariant == Spec => []ShownInv
BY ShownInit, ShownNext, PTL DEF Spec

-------------------------------------------------------------------------------
(* The samples of words, by their number. *)

SampleAt(words, start, k) ==
  IF k % 2 = 1 THEN words[start + (k + 1) \div 2].low ELSE words[start + k \div 2].high

FirstSamples(words, start, count) == [k \in 1..(2 * count) |-> SampleAt(words, start, k)]

LEMMA Halves ==
  \A n \in Nat : /\ (2 * n + 1) % 2 = 1 /\ (2 * n + 2) % 2 = 0
                 /\ (2 * n + 2) \div 2 = n + 1
OBVIOUS

LEMMA TwoMore ==
  ASSUME NEW n \in Nat, NEW s, s = [k \in 1..(2 * n) |-> s[k]], NEW a, NEW b
  PROVE  s \o <<a, b>> = [k \in 1..(2 * (n + 1)) |->
                            IF k = 2 * n + 1 THEN a ELSE IF k = 2 * n + 2 THEN b ELSE s[k]]
<1>1. PICK m \in Nat : m = 2 * n
  OBVIOUS
<1>2. 2 * (n + 1) = m + 2
  BY <1>1
<1> DEFINE t == [k \in 1..(m + 2) |-> IF k = m + 1 THEN a ELSE IF k = m + 2 THEN b ELSE s[k]]
<1> DEFINE T == {s[k] : k \in 1..m} \cup {a, b}
<1>3. s \in Seq(T) /\ Len(s) = m
  BY <1>1
<1>4. t \in Seq(T) /\ Len(t) = m + 2
  <2>0. a \in T /\ b \in T /\ \A k \in 1..m : s[k] \in T
    OBVIOUS
  <2>1. t \in [1..(m + 2) -> T]
    <3> HIDE DEF T
    <3>1. \A k \in 1..(m + 2) : k = m + 1 \/ k = m + 2 \/ k \in 1..m
      OBVIOUS
    <3> QED
      BY <2>0, <3>1
  <2> HIDE DEF T, t
  <2> QED
    BY <2>1
<1>5. s \o <<a, b>> \in Seq(T) /\ Len(s \o <<a, b>>) = m + 2
  <2>1. <<a, b>> \in Seq(T) /\ Len(<<a, b>>) = 2
    OBVIOUS
  <2> HIDE DEF T
  <2> QED
    BY <1>3, <2>1
<1>6. \A k \in 1..(m + 2) : (s \o <<a, b>>)[k] = t[k]
  BY <1>3
<1>7. s \o <<a, b>> = t
  <2> HIDE DEF T, t
  <2> QED
    BY <1>4, <1>5, <1>6, SeqEqual
<1> QED
  BY <1>1, <1>2, <1>7

LEMMA SamplesAre ==
  ASSUME NEW words, NEW start \in Nat, NEW count \in Nat
  PROVE  Samples(words, start, count) = FirstSamples(words, start, count)
<1> DEFINE pair(n) == <<words[start + n].low, words[start + n].high>>
           D == {words[start + n].low : n \in 1..count} \cup {words[start + n].high : n \in 1..count}
<1>1. PICK seqs : seqs = [n \in 1..count |-> pair(n)]
  OBVIOUS
<1>2. ASSUME NEW n \in 1..count
      PROVE  pair(n) \in Seq(D)
  <2>1. words[start + n].low \in D /\ words[start + n].high \in D
    OBVIOUS
  <2> HIDE DEF D
  <2> QED
    BY <2>1
<1>3. \A n \in 1..count : seqs[n] = pair(n)
  BY <1>1
<1>4. AreSeqs(seqs, count, D)
  BY <1>2, <1>3 DEF AreSeqs
<1>5. PICK flat : /\ IsFlattening(flat, seqs, count, D)
                  /\ \A n \in 0..count : FlattenSeq([i \in 1..n |-> seqs[i]]) = flat[n]
  <2> HIDE DEF D
  <2> QED
    BY <1>4, FirstFlattened
<1> DEFINE S == {n \in 0..count : flat[n] = FirstSamples(words, start, n)}
<1>6. 0 \in S
  <2>1. flat[0] = <<>>
    BY <1>5 DEF IsFlattening
  <2>2. FirstSamples(words, start, 0) = <<>>
    BY DEF FirstSamples
  <2> QED
    BY <2>1, <2>2
<1>7. ASSUME NEW n \in 0..(count - 1), n \in S
      PROVE  n + 1 \in S
  <2>1. n \in Nat /\ n + 1 \in 1..count /\ n + 1 \in 0..count /\ (n + 1) - 1 = n
    OBVIOUS
  <2>2. flat[n + 1] = flat[n] \o pair(n + 1)
    <3> HIDE DEF D, pair
    <3> QED
      BY <1>3, <1>5, <2>1 DEF IsFlattening
  <2>3. PICK s : s = FirstSamples(words, start, n)
    OBVIOUS
  <2>4. /\ s = [k \in 1..(2 * n) |-> s[k]]
        /\ \A k \in 1..(2 * n) : s[k] = SampleAt(words, start, k)
    BY <2>3 DEF FirstSamples
  <2>5. flat[n + 1] = [k \in 1..(2 * (n + 1)) |->
                         IF k = 2 * n + 1 THEN words[start + (n + 1)].low
                         ELSE IF k = 2 * n + 2 THEN words[start + (n + 1)].high ELSE s[k]]
    <3>1. flat[n] = s
      BY <1>7, <2>3
    <3>2. flat[n + 1] = s \o <<words[start + (n + 1)].low, words[start + (n + 1)].high>>
      BY <2>2, <3>1
    <3>3. PICK a, b : a = words[start + (n + 1)].low /\ b = words[start + (n + 1)].high
      OBVIOUS
    <3> HIDE DEF S, D, pair
    <3>4. s \o <<a, b>> = [k \in 1..(2 * (n + 1)) |->
                             IF k = 2 * n + 1 THEN a ELSE IF k = 2 * n + 2 THEN b ELSE s[k]]
      BY <2>1, <2>4, TwoMore, SMTT(30)
    <3> QED
      BY <3>2, <3>3, <3>4
  <2>6. /\ SampleAt(words, start, 2 * n + 1) = words[start + (n + 1)].low
        /\ SampleAt(words, start, 2 * n + 2) = words[start + (n + 1)].high
    <3>1. (2 * n + 1) + 1 = 2 * n + 2
      BY <2>1
    <3> QED
      BY <2>1, <3>1, Halves DEF SampleAt
  <2>7. \A k \in 1..(2 * (n + 1)) : k = 2 * n + 1 \/ k = 2 * n + 2 \/ k \in 1..(2 * n)
    BY <2>1
  <2>8. flat[n + 1] = FirstSamples(words, start, n + 1)
    BY <2>4, <2>5, <2>6, <2>7 DEF FirstSamples
  <2> QED
    BY <2>1, <2>8
<1>8. count \in S
  <2> HIDE DEF S
  <2> QED
    BY <1>6, <1>7, UpTo
<1>9. [i \in 1..count |-> seqs[i]] = [n \in 1..count |-> <<words[start + n].low, words[start + n].high>>]
  BY <1>3
<1>10. FlattenSeq([i \in 1..count |-> seqs[i]]) = flat[count]
  BY <1>5
<1> QED
  BY <1>8, <1>9, <1>10 DEF Samples

(* Samples further on. *)
SameSample(words, start, n, k) ==
  SampleAt(words, start + n, k) = SampleAt(words, start, 2 * n + k)

LEMMA SamplesOn ==
  ASSUME NEW words, NEW start \in Nat, NEW n \in Nat, NEW k \in Nat
  PROVE  SameSample(words, start, n, k)
<1>1. (2 * n + k) % 2 = k % 2 /\ (2 * n + k + 1) \div 2 = n + (k + 1) \div 2
      /\ (2 * n + k) \div 2 = n + k \div 2
  OBVIOUS
<1>2. PICK a \in Nat : a = k \div 2
  OBVIOUS
<1>3. PICK b \in Nat : b = (k + 1) \div 2
  OBVIOUS
<1>4. start + n + a = start + (n + a) /\ start + n + b = start + (n + b)
  OBVIOUS
<1> QED
  BY <1>1, <1>2, <1>3, <1>4 DEF SampleAt, SameSample

-------------------------------------------------------------------------------
(* Sequences of one element, or of none, one behind the other. *)

LEMMA Singles ==
  ASSUME NEW M \in Nat, NEW x
  PROVE  FlattenSeq([n \in 1..M |-> <<x[n]>>]) = [n \in 1..M |-> x[n]]
<1> DEFINE D == {x[n] : n \in 1..M}
<1>1. PICK seqs : seqs = [n \in 1..M |-> <<x[n]>>]
  OBVIOUS
<1>2. ASSUME NEW n \in 1..M
      PROVE  seqs[n] = <<x[n]>> /\ <<x[n]>> \in Seq(D)
  <2>1. x[n] \in D
    OBVIOUS
  <2> HIDE DEF D
  <2> QED
    BY <1>1, <2>1
<1>3. PICK flat : /\ IsFlattening(flat, seqs, M, D)
                  /\ \A n \in 0..M : FlattenSeq([i \in 1..n |-> seqs[i]]) = flat[n]
  <2>1. AreSeqs(seqs, M, D)
    BY <1>2 DEF AreSeqs
  <2> HIDE DEF D
  <2> QED
    BY <2>1, FirstFlattened
<1> DEFINE first(n) == [i \in 1..n |-> x[i]]
           S == {n \in 0..M : flat[n] = first(n)}
<1>4. 0 \in S
  <2>1. flat[0] = <<>>
    BY <1>3 DEF IsFlattening
  <2> QED
    BY <2>1
<1>5. ASSUME NEW n \in 0..(M - 1), n \in S
      PROVE  n + 1 \in S
  <2>1. n + 1 \in 1..M /\ n + 1 \in 0..M /\ (n + 1) - 1 = n
    OBVIOUS
  <2>2. flat[n + 1] = first(n) \o <<x[n + 1]>>
    <3>1. flat[n] = first(n)
      BY <1>5
    <3> HIDE DEF D, first
    <3> QED
      BY <1>2, <1>3, <2>1, <3>1 DEF IsFlattening
  <2>3. first(n) \in Seq(D) /\ Len(first(n)) = n
    <3>1. first(n) \in [1..n -> D]
      BY <2>1
    <3> HIDE DEF D
    <3> QED
      BY <2>1, <3>1
  <2>4. first(n + 1) \in Seq(D) /\ Len(first(n + 1)) = n + 1
    <3>1. first(n + 1) \in [1..(n + 1) -> D]
      BY <2>1
    <3> HIDE DEF D
    <3> QED
      BY <2>1, <3>1
  <2>5. <<x[n + 1]>> \in Seq(D)
    BY <1>2, <2>1
  <2>6. PICK t : t = first(n) \o <<x[n + 1]>>
    OBVIOUS
  <2>7. t \in Seq(D) /\ Len(t) = n + 1
    <3> HIDE DEF D, first
    <3> QED
      BY <2>1, <2>3, <2>5, <2>6
  <2>8. \A i \in 1..(n + 1) : t[i] = x[i]
    <3>1. \A i \in 1..n : first(n)[i] = x[i]
      BY <2>1
    <3> HIDE DEF D, first
    <3> QED
      BY <2>1, <2>3, <2>5, <2>6, <3>1
  <2>9. t = first(n + 1)
    <3>1. \A i \in 1..(n + 1) : first(n + 1)[i] = x[i]
      BY <2>1
    <3> HIDE DEF D, first
    <3> QED
      BY <2>1, <2>4, <2>7, <2>8, <3>1, SeqEqual
  <2> QED
    BY <2>1, <2>2, <2>6, <2>9
<1>6. M \in S
  <2> HIDE DEF S
  <2> QED
    BY <1>4, <1>5, UpTo
<1>7. [i \in 1..M |-> seqs[i]] = [n \in 1..M |-> <<x[n]>>]
  BY <1>2
<1>8. FlattenSeq([i \in 1..M |-> seqs[i]]) = flat[M]
  BY <1>3
<1> QED
  BY <1>6, <1>7, <1>8

LEMMA Empties ==
  ASSUME NEW M \in Nat
  PROVE  FlattenSeq([n \in 1..M |-> <<>>]) = <<>>
<1>1. PICK seqs : seqs = [n \in 1..M |-> <<>>]
  OBVIOUS
<1>2. AreSeqs(seqs, M, {})
  BY <1>1 DEF AreSeqs
<1>3. PICK flat : /\ IsFlattening(flat, seqs, M, {})
                  /\ \A n \in 0..M : FlattenSeq([i \in 1..n |-> seqs[i]]) = flat[n]
  BY <1>2, FirstFlattened
<1>4. flat[M] = <<>>
  <2>1. flat[M] \in Seq({})
    BY <1>3 DEF IsFlattening
  <2> QED
    BY <2>1
<1>5. [i \in 1..M |-> seqs[i]] = [n \in 1..M |-> <<>>]
  BY <1>1
<1> QED
  BY <1>3, <1>4, <1>5

-------------------------------------------------------------------------------
(* Channels below one. *)

Below(mask, n) == Cardinality({c \in mask : c < n})

LEMMA BelowStep ==
  ASSUME NEW mask, mask \subseteq Channels
  PROVE  /\ \A n \in 0..16 : Below(mask, n) \in Nat
         /\ Below(mask, 0) = 0 /\ Below(mask, 16) = Cardinality(mask)
         /\ \A n \in Channels : Below(mask, n + 1) = Below(mask, n) + IF n \in mask THEN 1 ELSE 0
<1>1. IsFiniteSet(mask)
  <2>1. PICK a \in Int : a = 0
    OBVIOUS
  <2>2. PICK b \in Int : b = 15
    OBVIOUS
  <2>3. IsFiniteSet(a..b)
    BY FS_Interval
  <2> QED
    BY <2>1, <2>2, <2>3, FS_Subset DEF Channels
<1>2. \A n : IsFiniteSet({c \in mask : c < n})
  <2>1. \A n : {c \in mask : c < n} \in SUBSET mask
    OBVIOUS
  <2> QED
    BY <1>1, <2>1, FS_Subset
<1>3. \A n \in 0..16 : Below(mask, n) \in Nat
  BY <1>2, FS_CardinalityType DEF Below
<1>0. \A c \in mask : c \in Nat /\ c < 16
  BY DEF Channels
<1>4. {c \in mask : c < 0} = {} /\ {c \in mask : c < 16} = mask
  BY <1>0
<1>5. ASSUME NEW n \in Channels
      PROVE  Below(mask, n + 1) = Below(mask, n) + IF n \in mask THEN 1 ELSE 0
  <2> DEFINE T == {c \in mask : c < n}
             U == {c \in mask : c < n + 1}
  <2>1. CASE n \in mask
    <3>1. U = T \cup {n} /\ n \notin T
      <4>1. \A c \in mask : c < n + 1 <=> c < n \/ c = n
        BY <1>0 DEF Channels
      <4>2. n \in Nat /\ n < n + 1 /\ ~(n < n)
        BY DEF Channels
      <4> QED
        BY <2>1, <4>1, <4>2, Zenon
    <3>2. Cardinality(U) = Cardinality(T) + 1
      <4>1. IsFiniteSet(T)
        BY <1>2
      <4> HIDE DEF T, U
      <4> QED
        BY <3>1, <4>1, FS_AddElement
    <3> QED
      BY <2>1, <3>2 DEF Below
  <2>2. CASE n \notin mask
    <3>1. U = T
      <4>1. \A c \in mask : c < n + 1 <=> c < n \/ c = n
        BY <1>0 DEF Channels
      <4> QED
        BY <2>2, <4>1, Zenon
    <3>2. Cardinality(T) \in Nat
      BY <1>2, FS_CardinalityType
    <3> HIDE DEF T, U
    <3>3. Cardinality(U) = Cardinality(T) + 0
      BY <3>1, <3>2
    <3> QED
      BY <2>2, <3>3 DEF Below, T, U
  <2> QED
    BY <2>1, <2>2
<1> QED
  BY <1>3, <1>4, <1>5, FS_EmptySet DEF Below

LEMMA OneMoreTimes ==
  \A b, L \in Nat : b * L \in Nat /\ (b + 1) * L = b * L + L /\ (b + 0) * L = b * L /\ 0 * L = 0
OBVIOUS

(* Parts of the same length for every enabled channel, and empty ones. *)
EvenParts(seqs, mask, L) ==
  \A n \in 1..16 : Len(seqs[n]) = IF n - 1 \in mask THEN L ELSE 0

LEMMA LengthBelow ==
  ASSUME NEW mask, mask \subseteq Channels, NEW L \in Nat, NEW D, NEW seqs,
         AreSeqs(seqs, 16, D), EvenParts(seqs, mask, L), NEW flat, IsFlattening(flat, seqs, 16, D)
  PROVE  \A n \in 0..16 : Len(flat[n]) = Below(mask, n) * L
<1>1. /\ \A n \in 1..16 : Len(flat[n]) = Len(flat[n - 1]) + Len(seqs[n])
      /\ flat[0] = <<>>
  <2>1. PICK N \in Nat : N = 16
    OBVIOUS
  <2>2. Placed(flat, seqs, N)
    BY <2>1, InFlattening
  <2> QED
    BY <2>1, <2>2 DEF Placed, IsFlattening
<1> DEFINE S == {n \in 0..16 : Len(flat[n]) = Below(mask, n) * L}
<1>2. 0 \in S
  <2>1. Below(mask, 0) * L = 0
    BY BelowStep, OneMoreTimes
  <2> QED
    BY <1>1, <2>1
<1>3. ASSUME NEW n \in 0..(16 - 1), n \in S
      PROVE  n + 1 \in S
  <2>1. n + 1 \in 1..16 /\ n + 1 \in 0..16 /\ (n + 1) - 1 = n /\ n \in Channels /\ n \in 0..16
    BY DEF Channels
  <2>2. Len(flat[n + 1]) = Below(mask, n) * L + IF n \in mask THEN L ELSE 0
    BY <1>1, <1>3, <2>1 DEF EvenParts
  <2>3. PICK b \in Nat : b = Below(mask, n)
    BY <2>1, BelowStep
  <2>4. Below(mask, n + 1) = b + IF n \in mask THEN 1 ELSE 0
    BY <2>1, <2>3, BelowStep
  <2>5. Below(mask, n + 1) * L = b * L + IF n \in mask THEN L ELSE 0
    <3>1. CASE n \in mask
      BY <2>4, <3>1, OneMoreTimes
    <3>2. CASE n \notin mask
      <4>1. b * L + 0 = b * L /\ b + 0 = b
        BY OneMoreTimes
      <4>2. Below(mask, n + 1) = b
        BY <2>4, <3>2, <4>1
      <4> QED
        BY <3>2, <4>1, <4>2
    <3> QED
      BY <3>1, <3>2
  <2> QED
    BY <2>1, <2>2, <2>3, <2>5
<1>4. \A n \in 0..16 : n \in S
  <2> HIDE DEF S
  <2>1. 0..16 \subseteq S
    BY <1>2, <1>3, UpTo
  <2> QED
    BY <2>1
<1> QED
  BY <1>4

-------------------------------------------------------------------------------
(* A digitizer payload that is accepted, and what is printed of it. *)

Divided(N, m, w) == w \in Nat /\ w = N \div m /\ N = m * w

LEMMA DividedIs ==
  ASSUME NEW N \in Nat, NEW m \in Nat \ {0}, N % m = 0
  PROVE  Divided(N, m, N \div m)
<1>1. N = m * (N \div m) + (N % m) /\ N \div m \in Int /\ N \div m >= 0
  OBVIOUS
<1>2. PICK w \in Nat : w = N \div m
  BY <1>1
<1>3. N = m * w + 0 /\ m * w \in Nat
  BY <1>1, <1>2
<1> QED
  BY <1>2, <1>3 DEF Divided

Accepts(payload) == ~DigitizerThrows(payload) /\ ~DividesByZero(payload)

(* Words of the payload behind its header, and of each enabled channel. *)
DataWords(payload) == payload.size \div 4 - 4
ChannelWords(payload) == DataWords(payload) \div Cardinality(ChannelMask(payload.words))

LEMMA Accepted ==
  ASSUME NEW payload, DigitizerWords(payload), Accepts(payload)
  PROVE  /\ ChannelMask(payload.words) \subseteq Channels
         /\ DataWords(payload) \in Nat /\ DataWords(payload) = Len(payload.words) - HeaderWords
         /\ payload.words[1].event_size - HeaderWords = DataWords(payload)
         /\ Divided(DataWords(payload), Cardinality(ChannelMask(payload.words)),
                    ChannelWords(payload))
<1> DEFINE mask == ChannelMask(payload.words)
           size == payload.words[1].event_size
<1>1. /\ ~(payload.size < 16) /\ size * 4 = payload.size /\ mask # {}
      /\ (size - 4) % Cardinality(mask) = 0
  <2>1. ~TooShort(payload) /\ ~OtherSize(payload) /\ mask # {} /\ ~Indivisible(payload)
    BY Zenon DEF Accepts, DigitizerThrows, DividesByZero
  <2>2. 4 * HeaderWords = 16 /\ HeaderWords = 4
    BY DEF HeaderWords
  <2> QED
    BY <2>1, <2>2, Zenon DEF TooShort, OtherSize, Indivisible
<1>2. /\ payload.size \in Nat /\ size \in Nat /\ mask \subseteq Channels
      /\ Len(payload.words) = payload.size \div 4
  <2>1. ~TooShort(payload)
    BY Zenon DEF Accepts, DigitizerThrows
  <2> QED
    BY <2>1, Zenon DEF DigitizerWords
<1> HIDE DEF size
<1>3. DataWords(payload) = size - 4 /\ DataWords(payload) \in Nat /\ payload.size \div 4 = size
  BY <1>1, <1>2 DEF DataWords
<1>4. Cardinality(mask) \in Nat \ {0}
  <2>1. PICK a \in Int : a = 0
    OBVIOUS
  <2>2. PICK b \in Int : b = 15
    OBVIOUS
  <2>3. IsFiniteSet(a..b)
    BY FS_Interval
  <2>4. IsFiniteSet(mask)
    BY <1>2, <2>1, <2>2, <2>3, FS_Subset DEF Channels
  <2> HIDE DEF mask
  <2> QED
    BY <1>1, <2>4, FS_CardinalityType, FS_EmptySet
<1>5. Divided(DataWords(payload), Cardinality(mask), ChannelWords(payload))
  <2>1. DataWords(payload) % Cardinality(mask) = 0
    BY <1>1, <1>3
  <2> HIDE DEF mask
  <2>2. Divided(DataWords(payload), Cardinality(mask), DataWords(payload) \div Cardinality(mask))
    BY <1>3, <1>4, <2>1, DividedIs
  <2> QED
    BY <2>2 DEF ChannelWords, mask
<1> QED
  BY <1>2, <1>3, <1>5 DEF HeaderWords, size

(* Its samples, as the columns have them. *)
ColumnOf(payload, c) ==
  IF c \in ChannelMask(payload.words)
  THEN [k \in 1..(2 * ChannelWords(payload)) |->
          SampleAt(payload.words,
                   4 + Below(ChannelMask(payload.words), c) * ChannelWords(payload), k)]
  ELSE <<>>

LEMMA DecodedIs ==
  ASSUME NEW payload, DigitizerWords(payload), Accepts(payload)
  PROVE  /\ Decoded(payload).n_samples = 2 * ChannelWords(payload)
         /\ Decoded(payload).channels = ChannelMask(payload.words)
         /\ \A c \in Channels : Decoded(payload).adc_counts[c] = ColumnOf(payload, c)
<1> DEFINE mask == ChannelMask(payload.words)
           w == ChannelWords(payload)
<1>1. (payload.words[1].event_size - HeaderWords) \div Cardinality(mask) = w
  BY Accepted DEF ChannelWords
<1>2. w \in Nat /\ mask \subseteq Channels
  BY Accepted DEF Divided
<1>3. ASSUME NEW c \in mask
      PROVE  Samples(payload.words, StartLocation(mask, c, w), w) = ColumnOf(payload, c)
  <2>1. StartLocation(mask, c, w) = 4 + Below(mask, c) * w
    BY DEF StartLocation, Below, HeaderWords
  <2>2. Below(mask, c) \in Nat
    <3>1. c \in 0..16
      BY <1>2 DEF Channels
    <3> QED
      BY <1>2, <3>1, BelowStep
  <2> HIDE DEF mask, w
  <2>3. PICK start \in Nat : start = 4 + Below(mask, c) * w
    BY <1>2, <2>2
  <2>4. Samples(payload.words, start, w) = FirstSamples(payload.words, start, w)
    BY <1>2, SamplesAre
  <2> QED
    BY <2>1, <2>3, <2>4 DEF FirstSamples, ColumnOf, mask, w
<1>4. Decoded(payload) =
        [header |-> SubSeq(payload.words, 1, HeaderWords), channels |-> mask, n_samples |-> 2 * w,
         adc_counts |-> [c \in Channels |->
                           IF c \in mask
                           THEN Samples(payload.words, StartLocation(mask, c, w), w) ELSE <<>>]]
  BY <1>1, Zenon DEF Decoded
<1>5. \A c \in Channels : Decoded(payload).adc_counts[c] =
                            IF c \in mask
                            THEN Samples(payload.words, StartLocation(mask, c, w), w) ELSE <<>>
  <2> HIDE DEF mask, w
  <2> QED
    BY <1>4
<1>6. \A c \in Channels : Decoded(payload).adc_counts[c] = ColumnOf(payload, c)
  <2> SUFFICES ASSUME NEW c \in Channels
               PROVE  Decoded(payload).adc_counts[c] = ColumnOf(payload, c)
    OBVIOUS
  <2>1. CASE c \in mask
    <3> HIDE DEF w
    <3> QED
      BY <1>3, <1>5, <2>1, Zenon
  <2>2. CASE c \notin mask
    BY <1>5, <2>2, Zenon DEF ColumnOf
  <2> QED
    BY <2>1, <2>2
<1>7. Decoded(payload).n_samples = 2 * w /\ Decoded(payload).channels = mask
  <2> HIDE DEF mask, w
  <2> QED
    BY <1>4
<1> QED
  BY <1>6, <1>7

LEMMA ColumnIs ==
  ASSUME NEW payload, DigitizerWords(payload), Accepts(payload), NEW c \in Channels
  PROVE  Column(DigitizerPrint(Decoded(payload)), c) = ColumnOf(payload, c)
<1>1. PICK f : f = Decoded(payload)
  OBVIOUS
<1>2. PICK M \in Nat : M = 2 * ChannelWords(payload)
  BY Accepted DEF Divided
<1>3. f.n_samples = M /\ f.channels = ChannelMask(payload.words)
      /\ f.adc_counts[c] = ColumnOf(payload, c)
  BY <1>1, <1>2, DecodedIs
<1>4. PICK lines : lines = DigitizerPrint(f).lines
  OBVIOUS
<1>5. lines = [n \in 1..M |-> [d \in Channels |-> IF d \in f.channels THEN {f.adc_counts[d][n]} ELSE {}]]
  BY <1>3, <1>4 DEF DigitizerPrint
<1>6. DOMAIN lines = 1..M
      /\ \A n \in 1..M : lines[n][c] = IF c \in f.channels THEN {f.adc_counts[c][n]} ELSE {}
  BY <1>5
<1>7. Column(DigitizerPrint(f), c) = FlattenSeq([n \in 1..M |-> SetToSeq(lines[n][c])])
  BY <1>4, <1>6 DEF Column
<1>8. CASE c \in f.channels
  <2>1. \A n \in 1..M : SetToSeq(lines[n][c]) = <<f.adc_counts[c][n]>>
    BY <1>6, <1>8, SetToSeqOne
  <2>2. PICK x : x = f.adc_counts[c]
    OBVIOUS
  <2>3. [n \in 1..M |-> SetToSeq(lines[n][c])] = [n \in 1..M |-> <<x[n]>>]
    BY <2>1, <2>2
  <2>4. FlattenSeq([n \in 1..M |-> <<x[n]>>]) = [n \in 1..M |-> x[n]]
    BY Singles
  <2>5. x = [n \in 1..M |-> x[n]]
    BY <1>2, <1>3, <1>8, <2>2 DEF ColumnOf
  <2> QED
    BY <1>1, <1>3, <1>7, <2>2, <2>3, <2>4, <2>5
<1>9. CASE c \notin f.channels
  <2>1. \A n \in 1..M : SetToSeq(lines[n][c]) = <<>>
    BY <1>6, <1>9, SetToSeqEmpty
  <2>2. [n \in 1..M |-> SetToSeq(lines[n][c])] = [n \in 1..M |-> <<>>]
    BY <2>1
  <2> QED
    BY <1>1, <1>3, <1>7, <1>9, <2>2, Empties DEF ColumnOf
<1> QED
  BY <1>8, <1>9

LEMMA TwiceTimes ==
  \A b, w, N, m \in Nat : /\ b * w \in Nat /\ b * (2 * w) = 2 * (b * w)
                          /\ N = m * w => m * (2 * w) = 2 * N
OBVIOUS

AllColumns(payload) == [n \in 1..16 |-> ColumnOf(payload, n - 1)]

LEMMA ColumnsAre ==
  ASSUME NEW payload, DigitizerWords(payload), Accepts(payload)
  PROVE  /\ EvenParts(AllColumns(payload), ChannelMask(payload.words), 2 * ChannelWords(payload))
         /\ \E D : AreSeqs(AllColumns(payload), 16, D)
         /\ FlattenSeq(AllColumns(payload)) = FirstSamples(payload.words, 4, DataWords(payload))
<1>1. PICK words : words = payload.words
  OBVIOUS
<1>2. PICK mask : mask = ChannelMask(words)
  OBVIOUS
<1>3. PICK w \in Nat : w = ChannelWords(payload)
  BY Accepted DEF Divided
<1>4. mask \subseteq Channels
  BY <1>1, <1>2, Accepted
<1>5. PICK N \in Nat : N = DataWords(payload) /\ N = Cardinality(mask) * w
  BY <1>1, <1>2, <1>3, Accepted DEF Divided
<1>6. PICK seqs : seqs = AllColumns(payload)
  OBVIOUS
<1>7. /\ seqs = [n \in 1..16 |-> seqs[n]]
      /\ \A n \in Channels : seqs[n + 1] = ColumnOf(payload, n)
      /\ \A n \in 1..16 : n - 1 \in Channels /\ seqs[n] = ColumnOf(payload, n - 1)
  BY <1>6 DEF AllColumns, Channels
<1> DEFINE D == {SampleAt(words, 4, k) : k \in Nat}
<1>8. ASSUME NEW c \in mask
      PROVE  /\ ColumnOf(payload, c) \in Seq(D) /\ Len(ColumnOf(payload, c)) = 2 * w
             /\ \A k \in 1..(2 * w) :
                  ColumnOf(payload, c)[k] = SampleAt(words, 4, Below(mask, c) * (2 * w) + k)
  <2>1. PICK b \in Nat : b = Below(mask, c)
    <3>1. c \in 0..16
      BY <1>4 DEF Channels
    <3> QED
      BY <1>4, <3>1, BelowStep
  <2>2. ColumnOf(payload, c) = [k \in 1..(2 * w) |-> SampleAt(words, 4 + b * w, k)]
    BY <1>1, <1>2, <1>3, <2>1 DEF ColumnOf
  <2>3. ASSUME NEW k \in 1..(2 * w)
        PROVE  /\ SampleAt(words, 4 + b * w, k) = SampleAt(words, 4, b * (2 * w) + k)
               /\ SampleAt(words, 4 + b * w, k) \in D
    <3>1. PICK n \in Nat : n = b * w
      BY TwiceTimes
    <3>2. b * (2 * w) = 2 * n
      BY <3>1, TwiceTimes
    <3>0. k \in Nat
      OBVIOUS
    <3>3. SampleAt(words, 4 + n, k) = SampleAt(words, 4, 2 * n + k)
      <4>1. SameSample(words, 4, n, k)
        BY <3>0, SamplesOn
      <4> QED
        BY <4>1, Zenon DEF SameSample
    <3>4. 2 * n + k \in Nat
      OBVIOUS
    <3> QED
      BY <3>1, <3>2, <3>3, <3>4
  <2>4. ColumnOf(payload, c) \in [1..(2 * w) -> D]
    BY <2>2, <2>3
  <2>5. ColumnOf(payload, c) \in Seq(D) /\ Len(ColumnOf(payload, c)) = 2 * w
    <3>1. 2 * w \in Nat
      OBVIOUS
    <3> HIDE DEF D
    <3> QED
      BY <2>4, <3>1
  <2>6. \A k \in 1..(2 * w) :
          ColumnOf(payload, c)[k] = SampleAt(words, 4, Below(mask, c) * (2 * w) + k)
    BY <2>1, <2>2, <2>3
  <2> QED
    BY <2>5, <2>6
<1>9. ASSUME NEW c \in Channels, c \notin mask
      PROVE  ColumnOf(payload, c) = <<>>
  BY <1>1, <1>2, <1>9 DEF ColumnOf
<1> HIDE DEF D
<1>10. AreSeqs(seqs, 16, D) /\ EvenParts(seqs, mask, 2 * w)
  <2> SUFFICES ASSUME NEW n \in 1..16
               PROVE  seqs[n] \in Seq(D) /\ Len(seqs[n]) = IF n - 1 \in mask THEN 2 * w ELSE 0
    BY DEF AreSeqs, EvenParts
  <2>1. n - 1 \in Channels /\ seqs[n] = ColumnOf(payload, n - 1)
    BY <1>7
  <2>2. CASE n - 1 \in mask
    BY <1>8, <2>1, <2>2
  <2>3. CASE n - 1 \notin mask
    <3>1. seqs[n] = <<>>
      BY <1>9, <2>1, <2>3
    <3> QED
      BY <2>3, <3>1
  <2> QED
    BY <2>2, <2>3
<1>11. PICK flat : /\ IsFlattening(flat, seqs, 16, D)
                   /\ \A n \in 0..16 : FlattenSeq([i \in 1..n |-> seqs[i]]) = flat[n]
  <2>1. PICK M \in Nat : M = 16
    OBVIOUS
  <2>2. AreSeqs(seqs, M, D)
    BY <1>10, <2>1, Zenon
  <2>3. \E flat : /\ IsFlattening(flat, seqs, M, D)
                  /\ \A n \in 0..M : FlattenSeq([i \in 1..n |-> seqs[i]]) = flat[n]
    BY <2>2, FirstFlattened, SMTT(30)
  <2> QED
    BY <2>1, <2>3, Zenon
<1>12. \A n \in 0..16 : Len(flat[n]) = Below(mask, n) * (2 * w)
  <2>1. PICK L \in Nat : L = 2 * w
    OBVIOUS
  <2>2. EvenParts(seqs, mask, L)
    BY <1>10, <2>1, Zenon
  <2>3. \A n \in 0..16 : Len(flat[n]) = Below(mask, n) * L
    BY <1>4, <1>10, <1>11, <2>2, LengthBelow, ZenonT(30)
  <2> QED
    BY <2>1, <2>3, Zenon
<1> DEFINE Right(s) == \A k \in 1..Len(s) : s[k] = SampleAt(words, 4, k)
           S == {n \in 0..16 : Right(flat[n])}
<1>13. 0 \in S
  <2>1. flat[0] = <<>>
    BY <1>11 DEF IsFlattening
  <2> QED
    BY <2>1
<1>14. ASSUME NEW n \in 0..(16 - 1), n \in S
       PROVE  n + 1 \in S
  <2>1. n \in Channels /\ n \in 0..16 /\ n + 1 \in 1..16 /\ n + 1 \in 0..16 /\ (n + 1) - 1 = n
    BY DEF Channels
  <2>2. /\ flat[n] \in Seq(D) /\ flat[n + 1] = flat[n] \o seqs[n + 1]
        /\ seqs[n + 1] \in Seq(D) /\ seqs[n + 1] = ColumnOf(payload, n)
    BY <1>7, <1>10, <1>11, <2>1 DEF IsFlattening, AreSeqs
  <2>3. Right(flat[n])
    BY <1>14
  <2>4. \A k \in 1..Len(seqs[n + 1]) : seqs[n + 1][k] = SampleAt(words, 4, Len(flat[n]) + k)
    <3>1. CASE n \in mask
      BY <1>8, <1>12, <2>1, <2>2, <3>1
    <3>2. CASE n \notin mask
      BY <1>9, <2>1, <2>2, <3>2
    <3> QED
      BY <3>1, <3>2
  <2>5. Right(flat[n + 1])
    <3>1. PICK s \in Seq(D) : s = flat[n]
      BY <2>2
    <3>2. PICK t \in Seq(D) : t = seqs[n + 1]
      BY <2>2
    <3>3. PICK u : u = s \o t
      OBVIOUS
    <3>4. /\ Len(u) = Len(s) + Len(t) /\ Len(s) \in Nat /\ Len(t) \in Nat
          /\ \A k \in 1..(Len(s) + Len(t)) : u[k] = IF k <= Len(s) THEN s[k] ELSE t[k - Len(s)]
      BY <3>3, ConcatProperties
    <3>5. Right(s) /\ \A k \in 1..Len(t) : t[k] = SampleAt(words, 4, Len(s) + k)
      BY <2>3, <2>4, <3>1, <3>2
    <3>6. ASSUME NEW k \in 1..Len(u)
          PROVE  u[k] = SampleAt(words, 4, k)
      <4>1. CASE k <= Len(s)
        <5>1. k \in 1..Len(s)
          BY <3>4, <4>1
        <5> QED
          BY <3>4, <3>5, <4>1, <5>1
      <4>2. CASE ~(k <= Len(s))
        <5>1. k - Len(s) \in 1..Len(t) /\ Len(s) + (k - Len(s)) = k
          BY <3>4, <4>2
        <5>2. t[k - Len(s)] = SampleAt(words, 4, k)
          BY <3>5, <5>1
        <5> QED
          BY <3>4, <4>2, <5>2
      <4> QED
        BY <4>1, <4>2
    <3> QED
      BY <2>2, <3>1, <3>2, <3>3, <3>6
  <2> HIDE DEF Right
  <2> QED
    BY <2>1, <2>5
<1>15. Right(flat[16])
  <2> HIDE DEF S
  <2>1. 0..16 \subseteq S
    BY <1>13, <1>14, UpTo
  <2>2. 16 \in S
    BY <2>1
  <2> QED
    BY <2>2 DEF S
<1>16. Len(flat[16]) = 2 * N
  <2>1. PICK m \in Nat : m = Below(mask, 16) /\ m = Cardinality(mask)
    BY <1>4, BelowStep
  <2> QED
    BY <1>5, <1>12, <2>1, TwiceTimes, SMTT(30)
<1>17. flat[16] = FirstSamples(words, 4, N)
  <2>1. flat[16] \in Seq(D)
    BY <1>11 DEF IsFlattening
  <2>2. \E t : t = flat[16]
    OBVIOUS
  <2>3. PICK t : t = flat[16]
    BY <2>2
  <2>4. t \in Seq(D) /\ Len(t) = 2 * N
    BY <1>16, <2>1, <2>3
  <2>5. t = [k \in 1..(2 * N) |-> t[k]]
    BY <2>4
  <2>6. \A k \in 1..(2 * N) : t[k] = SampleAt(words, 4, k)
    BY <1>15, <2>3, <2>4
  <2> QED
    BY <2>3, <2>5, <2>6 DEF FirstSamples
<1>18. FlattenSeq(seqs) = flat[16]
  <2>1. FlattenSeq([i \in 1..16 |-> seqs[i]]) = flat[16]
    BY <1>11
  <2> QED
    BY <1>7, <2>1
<1> QED
  BY <1>1, <1>2, <1>3, <1>5, <1>6, <1>10, <1>17, <1>18

(* The same whole, cut at the same places, has the same parts. *)
LEMMA EqualParts ==
  ASSUME NEW N \in Nat, NEW D, NEW s, NEW t, AreSeqs(s, N, D), AreSeqs(t, N, D),
         NEW wholes, NEW wholet, IsFlattening(wholes, s, N, D), IsFlattening(wholet, t, N, D),
         \A n \in 1..N : Len(s[n]) = Len(t[n]), wholes[N] = wholet[N]
  PROVE  \A n \in 1..N : s[n] = t[n]
<1>1. Placed(wholes, s, N) /\ Placed(wholet, t, N)
  BY InFlattening
<1> DEFINE S == {n \in 0..N : Len(wholes[n]) = Len(wholet[n])}
<1>2. 0 \in S
  BY DEF IsFlattening
<1>3. ASSUME NEW n \in 0..(N - 1), n \in S
      PROVE  n + 1 \in S
  <2>1. n + 1 \in 1..N /\ n + 1 \in 0..N /\ (n + 1) - 1 = n
    OBVIOUS
  <2>2. Len(wholes[n]) = Len(wholet[n]) /\ Len(s[n + 1]) = Len(t[n + 1])
    BY <1>3, <2>1
  <2>3. /\ Len(wholes[n + 1]) = Len(wholes[n]) + Len(s[n + 1])
        /\ Len(wholet[n + 1]) = Len(wholet[n]) + Len(t[n + 1])
    BY <1>1, <2>1 DEF Placed
  <2> QED
    BY <2>1, <2>2, <2>3
<1>4. 0..N \subseteq S
  <2> HIDE DEF S
  <2> QED
    BY <1>2, <1>3, UpTo
<1>5. ASSUME NEW n \in 1..N
      PROVE  s[n] = t[n]
  <2>1. n - 1 \in 0..N
    OBVIOUS
  <2>2. Len(wholes[n - 1]) = Len(wholet[n - 1])
    BY <1>4, <2>1
  <2>3. ASSUME NEW k \in 1..Len(s[n])
        PROVE  s[n][k] = t[n][k]
    <3>1. wholes[N][Len(wholes[n - 1]) + k] = s[n][k]
      BY <1>1 DEF Placed
    <3>2. k \in 1..Len(t[n])
      OBVIOUS
    <3>3. wholet[N][Len(wholet[n - 1]) + k] = t[n][k]
      BY <1>1, <3>2 DEF Placed
    <3> QED
      BY <2>2, <3>1, <3>3
  <2>4. s[n] \in Seq(D) /\ t[n] \in Seq(D)
    BY DEF AreSeqs
  <2> QED
    BY <2>3, <2>4, SeqEqual
<1> QED
  BY <1>5

LEMMA SameShare ==
  ASSUME NEW m \in Nat \ {0}, NEW w \in Nat, NEW L \in Nat, m * L = m * w
  PROVE  L = w
OBVIOUS

(* Intact words have the samples sent, by number. *)
LEMMA SentNumbered ==
  ASSUME NEW words, NEW N \in Nat, NEW D, NEW samples \in Seq(D), Len(samples) = 2 * N,
         \A n \in 1..N : /\ words[4 + n].low = samples[2 * n - 1]
                         /\ words[4 + n].high = samples[2 * n]
  PROVE  samples = FirstSamples(words, 4, N)
<1>1. ASSUME NEW k \in 1..(2 * N)
      PROVE  SampleAt(words, 4, k) = samples[k]
  <2>1. CASE k % 2 = 1
    <3>1. PICK n \in 1..N : n = (k + 1) \div 2 /\ k = 2 * n - 1
      BY <2>1
    <3> QED
      BY <2>1, <3>1 DEF SampleAt
  <2>2. CASE k % 2 # 1
    <3>1. PICK n \in 1..N : n = k \div 2 /\ k = 2 * n
      BY <2>2
    <3> QED
      BY <2>2, <3>1 DEF SampleAt
  <2> QED
    BY <2>1, <2>2
<1>2. samples = [k \in 1..(2 * N) |-> samples[k]]
  OBVIOUS
<1> QED
  BY <1>1, <1>2 DEF FirstSamples

LEMMA IntactColumns ==
  ASSUME NEW payload, DigitizerWords(payload), Accepts(payload),
         NEW sent, SentByDigitizer(sent, payload)
  PROVE  \A c \in Channels : ColumnOf(payload, c) = sent[c]
<1>1. PICK words : words = payload.words
  OBVIOUS
<1>2. PICK mask : mask = ChannelMask(words)
  OBVIOUS
<1>3. PICK w \in Nat : w = ChannelWords(payload)
  BY Accepted DEF Divided
<1>4. mask \subseteq Channels
  BY <1>1, <1>2, Accepted
<1>5. PICK N \in Nat : /\ N = DataWords(payload) /\ N = Cardinality(mask) * w
                       /\ N = Len(words) - HeaderWords
  BY <1>1, <1>2, <1>3, Accepted DEF Divided
<1>6. PICK N16 \in Nat : N16 = 16
  OBVIOUS
<1>7. /\ \A c \in Channels : sent[c] \in Seq(Range(sent[c]))
      /\ \A c \in Channels \ mask : sent[c] = <<>>
      /\ \A c, d \in mask : Len(sent[c]) = Len(sent[d])
      /\ Len(SamplesOf(sent)) = 2 * N
      /\ \A n \in 1..N : /\ words[4 + n].low = SamplesOf(sent)[2 * n - 1]
                         /\ words[4 + n].high = SamplesOf(sent)[2 * n]
  BY <1>1, <1>2, <1>5 DEF SentByDigitizer, HeaderWords
<1>8. PICK columns : columns = AllColumns(payload)
  OBVIOUS
<1>9. PICK parts : parts = [n \in 1..16 |-> sent[n - 1]]
  OBVIOUS
<1>10. PICK E : AreSeqs(columns, 16, E)
  BY <1>8, ColumnsAre
<1> DEFINE F == UNION {Range(sent[c]) : c \in Channels}
           D == E \cup F
<1>11. AreSeqs(columns, 16, D)
  <2>1. ASSUME NEW n \in 1..16
        PROVE  columns[n] \in Seq(D)
    <3>1. columns[n] \in Seq(E)
      BY <1>10 DEF AreSeqs
    <3>2. E \subseteq D
      OBVIOUS
    <3> HIDE DEF D
    <3> QED
      BY <3>1, <3>2, SeqMonotonic
  <2> HIDE DEF D
  <2> QED
    BY <2>1 DEF AreSeqs
<1>12. AreSeqs(parts, 16, D)
  <2>1. ASSUME NEW n \in 1..16
        PROVE  parts[n] \in Seq(D)
    <3>1. n - 1 \in Channels
      BY DEF Channels
    <3>2. sent[n - 1] \in Seq(Range(sent[n - 1]))
      BY <1>7, <3>1
    <3>3. Range(sent[n - 1]) \subseteq D
      BY <3>1
    <3> HIDE DEF D
    <3>4. sent[n - 1] \in Seq(D)
      BY <3>2, <3>3, SeqMonotonic
    <3> QED
      BY <1>9, <3>4
  <2> HIDE DEF D
  <2> QED
    BY <2>1 DEF AreSeqs
<1> HIDE DEF D
<1>13. PICK ofcolumns : /\ IsFlattening(ofcolumns, columns, N16, D)
                        /\ \A n \in 0..N16 : FlattenSeq([i \in 1..n |-> columns[i]]) = ofcolumns[n]
  <2>1. AreSeqs(columns, N16, D)
    BY <1>6, <1>11, Zenon
  <2>2. \E flat : /\ IsFlattening(flat, columns, N16, D)
                  /\ \A n \in 0..N16 : FlattenSeq([i \in 1..n |-> columns[i]]) = flat[n]
    BY <2>1, FirstFlattened
  <2> QED
    BY <2>2, Zenon
<1>14. PICK ofparts : /\ IsFlattening(ofparts, parts, N16, D)
                      /\ \A n \in 0..N16 : FlattenSeq([i \in 1..n |-> parts[i]]) = ofparts[n]
  <2>1. AreSeqs(parts, N16, D)
    BY <1>6, <1>12, Zenon
  <2>2. \E flat : /\ IsFlattening(flat, parts, N16, D)
                  /\ \A n \in 0..N16 : FlattenSeq([i \in 1..n |-> parts[i]]) = flat[n]
    BY <2>1, FirstFlattened
  <2> QED
    BY <2>2, Zenon
<1>15. ofcolumns[16] = FirstSamples(words, 4, N)
  <2>1. columns = [i \in 1..16 |-> columns[i]]
    BY <1>8 DEF AllColumns
  <2>2. FlattenSeq([i \in 1..16 |-> columns[i]]) = ofcolumns[16]
    <3>1. 16 \in 0..N16
      BY <1>6
    <3> QED
      BY <1>13, <3>1
  <2>3. FlattenSeq(columns) = FirstSamples(words, 4, N)
    BY <1>1, <1>5, <1>8, ColumnsAre
  <2> QED
    BY <2>1, <2>2, <2>3, Zenon
<1>16. ofparts[16] = SamplesOf(sent)
  <2>1. parts = [i \in 1..16 |-> parts[i]]
    BY <1>9
  <2>2. FlattenSeq([i \in 1..16 |-> parts[i]]) = ofparts[16]
    <3>1. 16 \in 0..N16
      BY <1>6
    <3> QED
      BY <1>14, <3>1
  <2>3. FlattenSeq(parts) = SamplesOf(sent)
    BY <1>9, Zenon DEF SamplesOf
  <2> QED
    BY <2>1, <2>2, <2>3, Zenon
<1>17. ofparts[16] \in Seq(D)
  <2>1. 16 \in 0..N16
    BY <1>6
  <2> QED
    BY <1>14, <2>1 DEF IsFlattening
<1>18. ofparts[16] = ofcolumns[16]
  <2>1. PICK samples \in Seq(D) : samples = SamplesOf(sent)
    BY <1>16, <1>17
  <2>2. samples = FirstSamples(words, 4, N)
    BY <1>7, <2>1, SentNumbered
  <2> QED
    BY <1>15, <1>16, <2>1, <2>2
<1>19. PICK c0 : c0 \in mask
  <2>1. mask # {}
    BY <1>1, <1>2 DEF Accepts, DigitizerThrows, DividesByZero
  <2> QED
    BY <2>1
<1>20. PICK L \in Nat : L = Len(sent[c0])
  <2>1. sent[c0] \in Seq(Range(sent[c0]))
    BY <1>4, <1>7, <1>19
  <2> QED
    BY <2>1, LenProperties
<1>21. \A n \in 1..16 : n - 1 \in Channels /\ parts[n] = sent[n - 1] /\ columns[n] = ColumnOf(payload, n - 1)
  BY <1>8, <1>9 DEF Channels, AllColumns
<1>22. EvenParts(parts, mask, L)
  <2> SUFFICES ASSUME NEW n \in 1..16
               PROVE  Len(parts[n]) = IF n - 1 \in mask THEN L ELSE 0
    BY DEF EvenParts
  <2>1. CASE n - 1 \in mask
    BY <1>7, <1>19, <1>20, <1>21, <2>1
  <2>2. CASE n - 1 \notin mask
    <3>1. parts[n] = <<>>
      BY <1>7, <1>21, <2>2
    <3> QED
      BY <2>2, <3>1
  <2> QED
    BY <2>1, <2>2
<1>23. L = 2 * w
  <2>1. PICK m \in Nat \ {0} : m = Cardinality(mask)
    <3>1. IsFiniteSet(mask) /\ mask # {}
      <4>1. PICK a \in Int : a = 0
        OBVIOUS
      <4>2. PICK b \in Int : b = 15
        OBVIOUS
      <4>3. IsFiniteSet(a..b)
        BY FS_Interval
      <4> QED
        BY <1>4, <1>19, <4>1, <4>2, <4>3, FS_Subset DEF Channels
    <3> QED
      BY <3>1, FS_CardinalityType, FS_EmptySet
  <2>2. Len(ofparts[16]) = m * L
    <3>1. IsFlattening(ofparts, parts, 16, D)
      BY <1>6, <1>14, Zenon
    <3>2. Len(ofparts[16]) = Below(mask, 16) * L
      BY <1>4, <1>12, <1>22, <3>1, LengthBelow
    <3> QED
      BY <1>4, <2>1, <3>2, BelowStep
  <2>3. Len(ofparts[16]) = 2 * N
    BY <1>7, <1>16
  <2>4. 2 * N = m * (2 * w)
    BY <1>5, <2>1, TwiceTimes
  <2>5. PICK v \in Nat : v = 2 * w
    OBVIOUS
  <2> QED
    BY <2>2, <2>3, <2>4, <2>5, SameShare
<1>24. \A n \in 1..N16 : Len(columns[n]) = Len(parts[n])
  <2>1. EvenParts(columns, mask, 2 * w)
    BY <1>1, <1>2, <1>3, <1>8, ColumnsAre
  <2> QED
    BY <1>6, <1>22, <1>23, <2>1 DEF EvenParts
<1>25. \A n \in 1..N16 : columns[n] = parts[n]
  <2>1. AreSeqs(columns, N16, D) /\ AreSeqs(parts, N16, D) /\ ofcolumns[N16] = ofparts[N16]
    BY <1>6, <1>11, <1>12, <1>18, Zenon
  <2> QED
    BY <1>13, <1>14, <1>24, <2>1, EqualParts
<1>26. ASSUME NEW c \in Channels
       PROVE  ColumnOf(payload, c) = sent[c]
  <2>1. PICK n \in 1..16 : n - 1 = c
    <3>1. c + 1 \in 1..16 /\ (c + 1) - 1 = c
      BY DEF Channels
    <3> QED
      BY <3>1
  <2> QED
    BY <1>6, <1>21, <1>25, <2>1
<1> QED
  BY <1>26

(* Whatever the mask and the sizes of a digitizer payload say, if it is    *)
(* accepted the samples of its words are printed in order, each once, none *)
(* from behind it, as many for each enabled channel; and of an intact one  *)
(* each channel shows its own.                                             *)
THEOREM SamplesCorrect == Spec => []SamplesAsSent
<1>1. ShownInv => SamplesAsSent
  <2> SUFFICES ASSUME ShownInv, NEW s \in shown, s.of.source = "pmt"
               PROVE  /\ FlattenSeq([n \in 1..16 |-> Column(s.print, n - 1)])
                           = FlattenSeq([n \in 1..(s.of.payload.size \div 4 - 4) |->
                                           <<s.of.payload.words[4 + n].low,
                                             s.of.payload.words[4 + n].high>>])
                      /\ DigitizerValid(Decoded(s.of.payload))
                      /\ s.of.fault = "none" =>
                           \A c \in Channels : Column(s.print, c) = s.of.sent[c]
    BY DEF SamplesAsSent
  <2> DEFINE payload == s.of.payload
  <2>1. DigitizerWords(payload) /\ Accepts(payload)
        /\ s.print = DigitizerPrint(Decoded(payload))
        /\ (s.of.fault = "none" => SentByDigitizer(s.of.sent, payload))
    BY DEF ShownInv, Labelled, PrintOf, Accepts
  <2> HIDE DEF payload
  <2>2. \A c \in Channels : Column(s.print, c) = ColumnOf(payload, c)
    BY <2>1, ColumnIs
  <2>3. [n \in 1..16 |-> Column(s.print, n - 1)] = AllColumns(payload)
    <3>1. \A n \in 1..16 : n - 1 \in Channels
      BY DEF Channels
    <3> QED
      BY <2>2, <3>1 DEF AllColumns
  <2>4. PICK N \in Nat : N = DataWords(payload)
    BY <2>1, Accepted
  <2>5. FlattenSeq([n \in 1..N |-> <<payload.words[4 + n].low, payload.words[4 + n].high>>])
          = FirstSamples(payload.words, 4, N)
    <3>1. PICK start \in Nat : start = 4
      OBVIOUS
    <3>2. Samples(payload.words, start, N) = FirstSamples(payload.words, start, N)
      BY SamplesAre
    <3> QED
      BY <3>1, <3>2, Zenon DEF Samples
  <2>6. FlattenSeq(AllColumns(payload)) = FirstSamples(payload.words, 4, N)
    BY <2>1, <2>4, ColumnsAre
  <2>7. DigitizerValid(Decoded(payload))
    <3>1. ASSUME NEW c \in ChannelMask(payload.words)
          PROVE  Len(Decoded(payload).adc_counts[c]) = 2 * ChannelWords(payload)
      <4>1. c \in Channels
        BY <2>1, Accepted
      <4>2. Decoded(payload).adc_counts[c] = ColumnOf(payload, c)
        BY <2>1, <4>1, DecodedIs
      <4>3. PICK v \in Nat : v = 2 * ChannelWords(payload)
        BY <2>1, Accepted DEF Divided
      <4>4. ColumnOf(payload, c)
              = [k \in 1..v |-> SampleAt(payload.words,
                   4 + Below(ChannelMask(payload.words), c) * ChannelWords(payload), k)]
        BY <4>3 DEF ColumnOf
      <4> QED
        BY <4>2, <4>3, <4>4
    <3> QED
      BY <2>1, <3>1, DecodedIs DEF DigitizerValid
  <2>8. s.of.fault = "none" => \A c \in Channels : Column(s.print, c) = s.of.sent[c]
    BY <2>1, <2>2, IntactColumns
  <2> QED
    BY <2>3, <2>4, <2>5, <2>6, <2>7, <2>8, Zenon DEF DataWords, payload
<1> QED
  BY <1>1, ShownInvariant, PTL

-------------------------------------------------------------------------------
(* Widths. *)

LEMMA PowerEquation == ArePowers(PowerOf2)
BY PowersExist, Zenon DEF PowerOf2

LEMMA RangesType ==
  /\ WordModulus \in Nat \ {0} /\ FieldRange \in Nat \ {0} /\ ContentRange \in Nat \ {0}
  /\ \E q \in Nat : WordModulus = q * FieldRange
  /\ \E q \in Nat : ContentRange = q * FieldRange
<1>1. /\ WordBits \in Nat /\ FieldBits \in Nat /\ 2 * FieldBits \in Nat
      /\ FieldBits <= WordBits /\ FieldBits <= 2 * FieldBits
  BY WidthsAssumption
<1>2. \E q \in Nat : WordModulus = q * FieldRange
  BY <1>1, PowerEquation, PowersDivide DEF WordModulus, FieldRange
<1>3. \E q \in Nat : ContentRange = q * FieldRange
  BY <1>1, PowerEquation, PowersDivide DEF ContentRange, FieldRange
<1>4. WordModulus \in Nat \ {0} /\ FieldRange \in Nat \ {0} /\ ContentRange \in Nat \ {0}
  BY <1>1, PowerEquation DEF ArePowers, WordModulus, FieldRange, ContentRange
<1> QED
  BY <1>2, <1>3, <1>4

(* The content of a word has at least six bits. *)
LEMMA ContentSixBits == \E q \in Nat : ContentRange = q * 64
<1>1. /\ 2 * FieldBits \in Nat /\ 6 <= 2 * FieldBits
  BY WidthsAssumption, BytesAssumption
<1>2. PICK six \in Nat : six = 6
  OBVIOUS
<1>3. \E q \in Nat : PowerOf2[2 * FieldBits] = q * PowerOf2[six]
  BY <1>1, <1>2, PowerEquation, PowersDivide
<1>4. PowerOf2[6] = 64
  <2>1. /\ PowerOf2[0] = 1 /\ PowerOf2[0 + 1] = 2 * PowerOf2[0] /\ PowerOf2[1 + 1] = 2 * PowerOf2[1]
        /\ PowerOf2[2 + 1] = 2 * PowerOf2[2] /\ PowerOf2[3 + 1] = 2 * PowerOf2[3]
        /\ PowerOf2[4 + 1] = 2 * PowerOf2[4] /\ PowerOf2[5 + 1] = 2 * PowerOf2[5]
    BY PowerEquation DEF ArePowers
  <2> QED
    BY <2>1
<1> QED
  BY <1>2, <1>3, <1>4 DEF ContentRange

LEMMA NumberType ==
  ASSUME NEW w \in TriggerWords
  PROVE  NumberOf(w) \in Nat /\ NumberOf(w) % FieldRange = w.content % FieldRange
<1>1. w.frame \in Nat /\ w.content \in Nat
  BY RangesType DEF TriggerWords
<1>2. PICK q \in Nat : ContentRange = q * FieldRange
  BY RangesType
<1>3. PICK p \in Nat : WordModulus = p * FieldRange
  BY RangesType
<1>4. PICK frame \in Nat : frame = w.frame
  BY <1>1
<1>5. PICK a \in Nat : a = frame * ContentRange + w.content
  <2>1. frame * ContentRange \in Nat
    BY RangesType
  <2> QED
    BY <1>1, <2>1
<1>6. (a % WordModulus) % FieldRange = a % FieldRange
  BY <1>3, RangesType, ModMod, ZenonT(30)
<1>7. a % FieldRange = w.content % FieldRange
  <2>1. frame * (q * FieldRange) = FieldRange * (frame * q)
    BY RangesType
  <2>2. PICK k \in Nat : k = frame * q
    OBVIOUS
  <2>3. FieldRange * k \in Nat
    BY RangesType
  <2>4. a = w.content + FieldRange * k
    BY <1>1, <1>2, <1>5, <2>1, <2>2, <2>3
  <2>5. (w.content + FieldRange * k) % FieldRange = w.content % FieldRange
    BY <1>1, RangesType, ModShift
  <2> QED
    BY <2>4, <2>5
<1>8. a % WordModulus \in 0..(WordModulus - 1)
  BY RangesType, Remainder
<1>9. NumberOf(w) = a % WordModulus
  BY <1>4, <1>5 DEF NumberOf
<1> QED
  BY <1>6, <1>7, <1>8, <1>9

-------------------------------------------------------------------------------
(* The sums of a checksum after each number. *)

SumPairs == [L : 0..(WordModulus - 1), H : 0..(WordModulus - 1)]

IsAdding(h, numbers, count) ==
  /\ h \in [0..count -> SumPairs]
  /\ h[0] = [L |-> 0, H |-> 0]
  /\ \A n \in 1..count : h[n] = AddData(h[n - 1], numbers[n])
  /\ ChecksumOfFirst(numbers, count) = ComputeFletcherChecksum(h[count].H, h[count].L)

LEMMA AddDataType ==
  ASSUME NEW s \in SumPairs, NEW n \in Nat
  PROVE  AddData(s, n) \in SumPairs
<1>1. (s.L + n) % WordModulus \in 0..(WordModulus - 1)
  <2>1. s.L + n \in Nat
    BY RangesType DEF SumPairs
  <2> QED
    BY <2>1, RangesType, Remainder
<1>2. PICK l \in 0..(WordModulus - 1) : l = (s.L + n) % WordModulus
  BY <1>1
<1>3. (s.H + l) % WordModulus \in 0..(WordModulus - 1)
  <2>1. s.H + l \in Nat
    BY RangesType DEF SumPairs
  <2> QED
    BY <2>1, RangesType, Remainder
<1>4. PICK h \in 0..(WordModulus - 1) : h = (s.H + l) % WordModulus
  BY <1>3
<1>5. AddData(s, n) = [L |-> l, H |-> h]
  BY <1>2, <1>4 DEF AddData
<1> QED
  BY <1>5 DEF SumPairs

LEMMA AddingExists ==
  ASSUME NEW numbers \in Seq(Nat), NEW count \in 0..Len(numbers)
  PROVE  \E h : IsAdding(h, numbers, count)
<1> DEFINE start == [L |-> 0, H |-> 0]
           step == [n \in 1..count |-> [s \in SumPairs |-> AddData(s, numbers[n])]]
           sums[n \in 0..count] ==
             IF n = 0 THEN {[L |-> 0, H |-> 0]}
             ELSE {AddData(s, numbers[n]) : s \in sums[n - 1]}
           P(g) == g = [n \in 0..count |-> IF n = 0 THEN {[L |-> 0, H |-> 0]}
                                           ELSE {AddData(s, numbers[n]) : s \in g[n - 1]}]
<1>0. count \in Nat /\ 1..count \subseteq 1..Len(numbers)
  OBVIOUS
<1>1. ChecksumOfFirst(numbers, count)
        = CHOOSE c \in {ComputeFletcherChecksum(s.H, s.L) : s \in sums[count]} : TRUE
  BY Zenon DEF ChecksumOfFirst
<1>2. start \in SumPairs /\ step \in [1..count -> [SumPairs -> SumPairs]]
  <2>1. \A n \in 1..count : numbers[n] \in Nat
    BY <1>0
  <2>2. start \in SumPairs
    BY RangesType DEF SumPairs
  <2>3. \A n \in 1..count : \A s \in SumPairs : AddData(s, numbers[n]) \in SumPairs
    BY <2>1, AddDataType
  <2> QED
    BY <2>2, <2>3
<1>3. PICK h \in [0..count -> SumPairs] : IsLoop(count, start, step, h)
  <2>1. start \in SumPairs
    BY <1>2
  <2>2. step \in [1..count -> [SumPairs -> SumPairs]]
    BY <1>2
  <2> HIDE DEF start, step, sums, P
  <2> QED
    BY <1>0, <2>1, <2>2, LoopExists
<1>4. h[0] = start /\ \A n \in 1..count : h[n] = AddData(h[n - 1], numbers[n])
  <2>1. h[0] = start
    BY <1>3 DEF IsLoop
  <2>2. ASSUME NEW n \in 1..count
        PROVE  h[n] = AddData(h[n - 1], numbers[n])
    <3>1. h[n - 1] \in SumPairs
      <4>1. n - 1 \in 0..count
        BY <1>0
      <4> QED
        BY <1>3, <4>1
    <3>2. h[n] = step[n][h[n - 1]]
      <4> HIDE DEF step, start
      <4> QED
        BY <1>3 DEF IsLoop
    <3> QED
      BY <3>1, <3>2
  <2> QED
    BY <2>1, <2>2
<1>5. P([n \in 0..count |-> {h[n]}])
  <2> DEFINE g == [n \in 0..count |-> {h[n]}]
  <2>1. ASSUME NEW n \in 0..count
        PROVE  g[n] = IF n = 0 THEN {[L |-> 0, H |-> 0]}
                      ELSE {AddData(s, numbers[n]) : s \in g[n - 1]}
    <3>1. CASE n = 0
      BY <1>4, <3>1
    <3>2. CASE n # 0
      <4>1. g[n - 1] = {h[n - 1]} /\ h[n] = AddData(h[n - 1], numbers[n])
        BY <1>4, <3>2
      <4> QED
        BY <3>2, <4>1
    <3> QED
      BY <3>1, <3>2
  <2>2. g = [n \in 0..count |-> g[n]]
    OBVIOUS
  <2> HIDE DEF g
  <2>3. P(g)
    BY <2>1, <2>2
  <2> QED
    BY <2>3, Zenon DEF g
<1>6. sums = CHOOSE g : P(g)
  BY Zenon DEF sums
<1>7. P(sums)
  <2> HIDE DEF sums, P
  <2> QED
    BY <1>5, <1>6, Zenon
<1> DEFINE S == {n \in 0..count : sums[n] = {h[n]}}
<1>8. 0..count \subseteq S
  <2> HIDE DEF sums
  <2>1. 0 \in S
    BY <1>4, <1>7
  <2>2. ASSUME NEW n \in 0..(count - 1), n \in S
        PROVE  n + 1 \in S
    <3>1. n + 1 \in 1..count /\ (n + 1) - 1 = n /\ n + 1 # 0 /\ n + 1 \in 0..count
      BY <1>0
    <3>2. \A m \in 0..count :
            sums[m] = IF m = 0 THEN {[L |-> 0, H |-> 0]}
                      ELSE {AddData(s, numbers[m]) : s \in sums[m - 1]}
      BY <1>7
    <3>3. sums[n + 1] = {AddData(s, numbers[n + 1]) : s \in sums[n]}
      BY <3>1, <3>2
    <3>4. sums[n] = {h[n]}
      BY <2>2
    <3>5. sums[n + 1] = {AddData(h[n], numbers[n + 1])}
      BY <3>3, <3>4
    <3> QED
      BY <1>4, <3>1, <3>5
  <2> HIDE DEF S
  <2> QED
    BY <1>0, <2>1, <2>2, UpTo
<1>9. sums[count] = {h[count]}
  <2> HIDE DEF sums
  <2> QED
    BY <1>8
<1>10. ChecksumOfFirst(numbers, count) = ComputeFletcherChecksum(h[count].H, h[count].L)
  <2> HIDE DEF sums
  <2>1. {ComputeFletcherChecksum(s.H, s.L) : s \in sums[count]}
          = {ComputeFletcherChecksum(h[count].H, h[count].L)}
    BY <1>9
  <2> QED
    BY <1>1, <2>1
<1>11. IsAdding(h, numbers, count)
  <2> HIDE DEF sums, step
  <2> QED
    BY <1>3, <1>4, <1>10 DEF IsAdding
<1> QED
  BY <1>11, Zenon

(* A checksum has the lower bits of the plain sum. *)
IsLowSum(l, numbers, count) ==
  /\ l[0] = 0
  /\ \A n \in 0..count : l[n] \in Nat
  /\ \A n \in 1..count : l[n] % FieldRange = (l[n - 1] + numbers[n]) % FieldRange
  /\ ChecksumOfFirst(numbers, count) % FieldRange = l[count] % FieldRange

LEMMA LowerHalf ==
  ASSUME NEW H \in Nat, NEW L \in Nat
  PROVE  ComputeFletcherChecksum(H, L) % FieldRange = L % FieldRange
<1>1. PICK d \in Int : ComputeFletcherChecksum(H, L) = d * FieldRange + (L % FieldRange)
  <2>1. /\ WordBits - (FieldBits - KeptBits) \in Nat /\ KeptBits \in Nat
    BY WidthsAssumption
  <2>2. /\ PowerOf2[WordBits - (FieldBits - KeptBits)] \in Nat \ {0}
        /\ PowerOf2[KeptBits] \in Nat \ {0}
    BY <2>1, PowerEquation DEF ArePowers
  <2>3. H \div PowerOf2[WordBits - (FieldBits - KeptBits)] \in Int
    BY <2>2
  <2>4. (H \div FieldRange) % PowerOf2[KeptBits] \in Int
    BY <2>2, RangesType
  <2>5. PICK top \in Int, middle \in Int, kept \in Int :
          /\ top = H \div PowerOf2[WordBits - (FieldBits - KeptBits)]
          /\ middle = (H \div FieldRange) % PowerOf2[KeptBits]
          /\ kept = PowerOf2[KeptBits]
    BY <2>2, <2>3, <2>4
  <2>6. top * kept + middle \in Int
    OBVIOUS
  <2>7. ComputeFletcherChecksum(H, L) = (top * kept + middle) * FieldRange + (L % FieldRange)
    BY <2>5, Zenon DEF ComputeFletcherChecksum
  <2> QED
    BY <2>6, <2>7
<1>2. (FieldRange * d + (L % FieldRange)) % FieldRange = L % FieldRange
  <2>1. L % FieldRange \in 0..(FieldRange - 1)
    BY RangesType, Remainder
  <2> QED
    BY <2>1, RangesType, RemainderIs
<1>3. d * FieldRange = FieldRange * d
  BY RangesType
<1> QED
  BY <1>1, <1>2, <1>3

LEMMA LowSumExists ==
  ASSUME NEW numbers \in Seq(Nat), NEW count \in 0..Len(numbers)
  PROVE  \E l : IsLowSum(l, numbers, count)
<1>1. PICK h : IsAdding(h, numbers, count)
  BY AddingExists
<1>2. PICK l : l = [n \in 0..count |-> h[n].L]
  OBVIOUS
<1>3. ASSUME NEW n \in 0..count
      PROVE  h[n].L \in Nat /\ h[n].H \in Nat /\ l[n] = h[n].L
  BY <1>1, <1>2, RangesType DEF IsAdding, SumPairs
<1>4. 0 \in 0..count /\ count \in 0..count
  OBVIOUS
<1>5. l[0] = 0
  BY <1>1, <1>3, <1>4 DEF IsAdding
<1>6. ASSUME NEW n \in 1..count
      PROVE  l[n] % FieldRange = (l[n - 1] + numbers[n]) % FieldRange
  <2>1. n - 1 \in 0..count /\ n \in 0..count /\ numbers[n] \in Nat
    OBVIOUS
  <2>2. h[n].L = (h[n - 1].L + numbers[n]) % WordModulus
    <3>1. h[n] = AddData(h[n - 1], numbers[n])
      BY <1>1 DEF IsAdding
    <3>2. \A s, x : AddData(s, x).L = (s.L + x) % WordModulus
      BY DEF AddData
    <3> QED
      BY <3>1, <3>2
  <2>3. l[n - 1] \in Nat /\ l[n] = (l[n - 1] + numbers[n]) % WordModulus
    BY <1>3, <2>1, <2>2
  <2>4. PICK x \in Nat : x = l[n - 1] + numbers[n]
    BY <2>1, <2>3
  <2>5. PICK q \in Nat : WordModulus = q * FieldRange
    BY RangesType
  <2>6. (x % WordModulus) % FieldRange = x % FieldRange
    BY <2>5, RangesType, ModMod, ZenonT(30)
  <2> QED
    BY <2>3, <2>4, <2>6
<1>7. ChecksumOfFirst(numbers, count) % FieldRange = l[count] % FieldRange
  <2>1. ChecksumOfFirst(numbers, count) = ComputeFletcherChecksum(h[count].H, h[count].L)
    BY <1>1 DEF IsAdding
  <2> QED
    BY <1>3, <1>4, <2>1, LowerHalf
<1> QED
  BY <1>3, <1>5, <1>6, <1>7 DEF IsLowSum

(* A change of the lower bits of one number shows in those of the checksum,*)
(* unless it is the last, which is left out.                               *)
ShowsBelow(k, count, x, y) ==
  IF k <= count THEN x % FieldRange # y % FieldRange ELSE x % FieldRange = y % FieldRange

LEMMA SumsApart ==
  ASSUME NEW A \in Seq(Nat), NEW B \in Seq(Nat), Len(A) = Len(B),
         NEW k \in 1..Len(A), A[k] % FieldRange # B[k] % FieldRange,
         \A j \in 1..Len(A) : j # k => A[j] = B[j],
         NEW count \in 0..Len(A)
  PROVE  ShowsBelow(k, count, ChecksumOfFirst(A, count), ChecksumOfFirst(B, count))
<1> DEFINE F == FieldRange
<1>1. PICK a : IsLowSum(a, A, count)
  BY LowSumExists
<1>2. PICK b : IsLowSum(b, B, count)
  BY LowSumExists
<1>3. F \in Nat \ {0} /\ count \in Nat /\ \A n \in 1..count : A[n] \in Nat /\ B[n] \in Nat
  <2>1. \A n \in 1..count : n \in 1..Len(A) /\ n \in 1..Len(B)
    OBVIOUS
  <2>2. \A n \in 1..Len(A) : A[n] \in Nat
    OBVIOUS
  <2>3. \A n \in 1..Len(B) : B[n] \in Nat
    OBVIOUS
  <2> QED
    BY <2>1, <2>2, <2>3, RangesType, SMTT(30)
<1>4. /\ a[0] = 0 /\ b[0] = 0
      /\ \A n \in 0..count : a[n] \in Nat /\ b[n] \in Nat
      /\ \A n \in 1..count : /\ a[n] % F = (a[n - 1] + A[n]) % F
                             /\ b[n] % F = (b[n - 1] + B[n]) % F
  BY <1>1, <1>2 DEF IsLowSum
<1>10. A[k] % F # B[k] % F
  OBVIOUS
<1> HIDE DEF F
<1> DEFINE Apart(n) == IF k <= n THEN a[n] % F # b[n] % F ELSE a[n] % F = b[n] % F
           S == {n \in 0..count : Apart(n)}
<1>5. 0 \in S
  <2>1. ~(k <= 0) /\ 0 \in 0..count
    BY <1>3
  <2> QED
    BY <1>4, <2>1
<1>6. ASSUME NEW n \in 0..(count - 1), n \in S
      PROVE  n + 1 \in S
  <2>1. n + 1 \in 1..count /\ n + 1 \in 0..count /\ (n + 1) - 1 = n /\ n \in 0..count
    BY <1>3
  <2>2. PICK an \in Nat, bn \in Nat, x \in Nat, y \in Nat :
          an = a[n] /\ bn = b[n] /\ x = A[n + 1] /\ y = B[n + 1]
    BY <1>3, <1>4, <2>1
  <2>3. a[n + 1] % F = (an + x) % F /\ b[n + 1] % F = (bn + y) % F
    BY <1>4, <2>1, <2>2
  <2>4. Apart(n)
    BY <1>6
  <2>5. n + 1 \in 1..Len(A)
    BY <2>1
  <2>6. CASE n + 1 < k
    <3>1. an % F = bn % F /\ x = y /\ ~(k <= n + 1)
      BY <2>1, <2>2, <2>4, <2>5, <2>6
    <3>2. (x + (an % F)) % F = (x + an) % F /\ (x + (bn % F)) % F = (x + bn) % F
      BY <1>3, ModPlus
    <3>3. x + an = an + x /\ x + bn = bn + x
      OBVIOUS
    <3>4. a[n + 1] % F = b[n + 1] % F
      BY <2>3, <3>1, <3>2, <3>3
    <3> QED
      BY <2>1, <3>1, <3>4
  <2>7. CASE n + 1 = k
    <3>1. an % F = bn % F /\ x % F # y % F /\ k <= n + 1
      <4>1. ~(k <= n)
        BY <2>1, <2>7
      <4>2. a[n] % F = b[n] % F
        BY <2>4, <4>1
      <4>3. an % F = bn % F
        BY <2>2, <4>2
      <4>4. A[n + 1] % F # B[n + 1] % F
        BY <1>10, <2>7, Zenon
      <4>5. x % F # y % F
        BY <2>2, <4>4
      <4>6. k <= n + 1
        BY <2>1, <2>7
      <4> QED
        BY <4>3, <4>5, <4>6
    <3>2. (an + x) % F # (an + y) % F
      <4>1. Cancels(an, x, y, F)
        BY <1>3, ModCancel
      <4> QED
        BY <3>1, <4>1 DEF Cancels
    <3>3. (y + (an % F)) % F = (y + an) % F /\ (y + (bn % F)) % F = (y + bn) % F
      BY <1>3, ModPlus
    <3>4. y + an = an + y /\ y + bn = bn + y
      OBVIOUS
    <3>5. a[n + 1] % F # b[n + 1] % F
      BY <2>3, <3>1, <3>2, <3>3, <3>4
    <3> QED
      BY <2>1, <3>1, <3>5
  <2>8. CASE n + 1 > k
    <3>1. an % F # bn % F /\ x = y /\ k <= n + 1
      <4>1. k <= n
        BY <2>1, <2>8
      <4> QED
        BY <2>1, <2>2, <2>4, <2>5, <2>8, <4>1
    <3>2. (x + an) % F # (x + bn) % F
      <4>1. Cancels(x, an, bn, F)
        BY <1>3, ModCancel
      <4> QED
        BY <3>1, <4>1 DEF Cancels
    <3>3. x + an = an + x /\ x + bn = bn + x
      OBVIOUS
    <3>4. a[n + 1] % F # b[n + 1] % F
      BY <2>3, <3>1, <3>2, <3>3
    <3> QED
      BY <2>1, <3>1, <3>4
  <2> QED
    BY <2>1, <2>6, <2>7, <2>8
<1>7. Apart(count)
  <2>1. 0..count \subseteq S
    <3> HIDE DEF S
    <3> QED
      BY <1>3, <1>5, <1>6, UpTo
  <2>2. count \in S
    BY <1>3, <2>1
  <2> QED
    BY <2>2
<1>8. /\ ChecksumOfFirst(A, count) % F = a[count] % F
      /\ ChecksumOfFirst(B, count) % F = b[count] % F
  BY <1>1, <1>2 DEF IsLowSum, F
<1> QED
  BY <1>7, <1>8 DEF ShowsBelow, F

LEMMA ChecksumShows ==
  ASSUME NEW A \in Seq(Nat), NEW B \in Seq(Nat), Len(A) = Len(B), Len(A) >= 2,
         NEW k \in 1..Len(A), A[k] % FieldRange # B[k] % FieldRange,
         \A j \in 1..Len(A) : j # k => A[j] = B[j]
  PROVE  IF k < Len(A)
         THEN ReturnFletcherChecksum(A) % FieldRange # ReturnFletcherChecksum(B) % FieldRange
         ELSE ReturnFletcherChecksum(A) % FieldRange = ReturnFletcherChecksum(B) % FieldRange
<1>1. PICK count \in 0..Len(A) : count = Len(A) - 1
  <2>1. Len(A) \in Nat
    OBVIOUS
  <2>2. Len(A) - 1 \in 0..Len(A)
    BY <2>1
  <2> QED
    BY <2>2
<1>2. ShowsBelow(k, count, ChecksumOfFirst(A, count), ChecksumOfFirst(B, count))
  BY SumsApart
<1>3. ~(Len(A) <= 1) /\ (k <= count <=> k < Len(A))
  BY <1>1
<1>4. /\ ReturnFletcherChecksum(A) = ChecksumOfFirst(A, count)
      /\ ReturnFletcherChecksum(B) = ChecksumOfFirst(B, count)
  BY <1>1, <1>3, Zenon DEF ReturnFletcherChecksum
<1> QED
  BY <1>2, <1>3, <1>4, Zenon DEF ShowsBelow

-------------------------------------------------------------------------------
(* Formats and versions: no two have the same first word or size. *)

LowOf(format, version) ==
  CASE format = "data"       -> IF version = 1 THEN 10 ELSE 160
    [] format = "monitoring" -> IF version = 1 THEN 80 ELSE 5

LEMMA HeaderLow ==
  ASSUME NEW low \in Nat
  PROVE  HeaderWord(low).content % 64 = low % 64
<1>1. PICK q \in Nat : ContentRange = q * 64
  BY ContentSixBits
<1>2. PICK a \in Nat : a = 173 * 65536 + low
  OBVIOUS
<1>3. PICK d \in Nat \ {0} : d = 64
  OBVIOUS
<1>4. (a % ContentRange) % d = a % d
  <2>1. PICK m \in Nat \ {0} : m = ContentRange
    BY RangesType
  <2>2. m = q * d
    BY <1>1, <1>3, <2>1
  <2>3. (a % m) % d = a % d
    BY <2>2, ModMod
  <2> QED
    BY <2>1, <2>3
<1>5. a % 64 = low % 64
  BY <1>2
<1>6. HeaderWord(low).content = a % ContentRange
  BY <1>2 DEF HeaderWord
<1> QED
  BY <1>3, <1>4, <1>5, <1>6

LEMMA HeadersAre ==
  ASSUME NEW format \in Formats, NEW version \in {1, 2}
  PROVE  /\ LowOf(format, version) \in {5, 10, 80, 160}
         /\ Headers(format)[version] = HeaderWord(LowOf(format, version))
<1>1. CASE format = "data"
  BY <1>1 DEF Headers, LowOf
<1>2. CASE format = "monitoring"
  BY <1>2 DEF Headers, LowOf
<1> QED
  BY <1>1, <1>2 DEF Formats

LEMMA HeadersApart ==
  ASSUME NEW f \in Formats, NEW g \in Formats, NEW v \in {1, 2}, NEW w \in {1, 2},
         Headers(f)[v] = Headers(g)[w]
  PROVE  f = g /\ v = w
<1>1. PICK a \in {5, 10, 80, 160} : a = LowOf(f, v) /\ Headers(f)[v] = HeaderWord(a)
  BY HeadersAre
<1>2. PICK b \in {5, 10, 80, 160} : b = LowOf(g, w) /\ Headers(g)[w] = HeaderWord(b)
  BY HeadersAre
<1>3. HeaderWord(a) = HeaderWord(b)
  BY <1>1, <1>2
<1>4. a % 64 = b % 64
  <2>1. HeaderWord(a).content % 64 = a % 64
    BY HeaderLow
  <2>2. HeaderWord(b).content % 64 = b % 64
    BY HeaderLow
  <2> QED
    BY <1>3, <2>1, <2>2, Zenon
<1>5. a = b
  BY <1>4
<1>6. LowOf(f, v) = LowOf(g, w)
  BY <1>1, <1>2, <1>5
<1> QED
  BY <1>6 DEF LowOf, Formats

(* The first words of the last counters, and words of a payload. *)
LEMMA Layout ==
  \E t \in Nat :
    /\ t = 3 * MaxTrigLine /\ t >= 3
    /\ \A n \in Nat : Veto(n) = 4 + t + n /\ ORed(n) = 9 + t + n
    /\ LengthOf("data", 1) = 5 /\ LengthOf("data", 2) = 6
    /\ LengthOf("monitoring", 1) = 8 + t /\ LengthOf("monitoring", 2) = 12 + t
    /\ ChecksumAt("data") = 6 /\ ChecksumAt("monitoring") = 12 + t
    /\ Sizes("data", 1) = {20} /\ Sizes("data", 2) = {24}
    /\ Sizes("monitoring", 1) = {4 * (8 + t)}
    /\ Sizes("monitoring", 2) = {4 * (12 + t), 4 * (10 + t)}
<1>1. PICK t \in Nat : t = 3 * MaxTrigLine /\ t >= 3
  BY BytesAssumption
<1>2. \A n \in Nat : Veto(n) = 4 + t + n
  BY <1>1 DEF Veto
<1>3. \A n \in Nat : ORed(n) = 9 + t + n
  BY <1>2 DEF ORed
<1>4. /\ LengthOf("data", 1) = 5 /\ LengthOf("data", 2) = 6
      /\ LengthOf("monitoring", 1) = 8 + t /\ LengthOf("monitoring", 2) = 12 + t
  <2>1. Veto(4) = 8 + t /\ ORed(3) = 12 + t
    BY <1>2, <1>3
  <2> QED
    BY <2>1 DEF LengthOf, TBPTAP
<1>5. ORed(1) = 10 + t
  BY <1>3
<1> QED
  <2>1. ChecksumAt("data") = 6 /\ ChecksumAt("monitoring") = 12 + t
    BY <1>4 DEF ChecksumAt
  <2>2. Sizes("data", 1) = {20} /\ Sizes("data", 2) = {24}
    BY <1>4 DEF Sizes, WordSize
  <2>3. Sizes("monitoring", 1) = {4 * (8 + t)}
    BY <1>4 DEF Sizes, WordSize
  <2>4. Sizes("monitoring", 2) = {4 * (12 + t), 4 * (10 + t)}
    BY <1>4, <1>5 DEF Sizes, WordSize
  <2> HIDE DEF Sizes
  <2> QED
    BY <1>1, <1>2, <1>3, <1>4, <2>1, <2>2, <2>3, <2>4

LEMMA SizesApart ==
  ASSUME NEW f \in Formats, NEW g \in Formats, NEW v \in {1, 2}, NEW w \in {1, 2},
         NEW size, size \in Sizes(f, v), size \in Sizes(g, w)
  PROVE  f = g /\ v = w
BY Layout DEF Formats

(* The words of a payload of a size of its format and version. *)
LastWord(format, version, last) ==
  /\ last \in Nat /\ last >= 5 /\ last <= ChecksumAt(format)
  /\ version = 1 => last < ChecksumAt(format)

LEMMA SizeWords ==
  ASSUME NEW format \in Formats, NEW version \in {1, 2}, NEW size, size \in Sizes(format, version)
  PROVE  \E last : LastWord(format, version, last) /\ size = 4 * last /\ size \div 4 = last
BY Layout DEF Formats, LastWord

LEMMA VersionIs ==
  ASSUME NEW format \in Formats, NEW payload, NEW version \in {1, 2},
         payload.words[1] = Headers(format)[version]
  PROVE  VersionOf(format, payload) = version
<1>1. ASSUME NEW v \in {1, 2}, payload.words[1] = Headers(format)[v]
      PROVE  v = version
  <2>1. Headers(format)[v] = Headers(format)[version]
    BY <1>1
  <2> QED
    BY <2>1, HeadersApart
<1> QED
  BY <1>1 DEF VersionOf

LEMMA VersionKnown ==
  ASSUME NEW format \in Formats, NEW payload, VersionOf(format, payload) # UnknownVersion
  PROVE  /\ VersionOf(format, payload) \in {1, 2}
         /\ payload.words[1] = Headers(format)[VersionOf(format, payload)]
BY DEF VersionOf

-------------------------------------------------------------------------------
(* What the structs hold after a payload of a size of its format and       *)
(* version.                                                                *)

LEMMA CopiedWord ==
  ASSUME NEW struct, NEW payload, NEW bytes \in Nat, NEW k \in Nat, k \in DOMAIN struct
  PROVE  /\ DOMAIN CopiedOver(struct, payload, bytes) = DOMAIN struct
         /\ 4 * k <= bytes => CopiedOver(struct, payload, bytes)[k] = payload.words[k]
         /\ 4 * (k - 1) >= bytes => CopiedOver(struct, payload, bytes)[k] = struct[k]
<1>1. CopiedOver(struct, payload, bytes)[k]
        = IF 4 * k <= bytes THEN payload.words[k]
          ELSE IF 4 * (k - 1) < bytes
               THEN LowBytesOver(struct[k], payload.words[k], bytes - 4 * (k - 1))
               ELSE struct[k]
  BY DEF CopiedOver, WordSize
<1>2. 4 * (k - 1) >= bytes => ~(4 * k <= bytes) /\ ~(4 * (k - 1) < bytes)
  OBVIOUS
<1>3. DOMAIN CopiedOver(struct, payload, bytes) = DOMAIN struct
  BY DEF CopiedOver
<1> QED
  BY <1>1, <1>2, <1>3, Zenon

Taken(struct, format, version, words, last) ==
  /\ DOMAIN struct = 1..ChecksumAt(format)
  /\ \A k \in 1..last : k < last \/ version = 1 => struct[k] = words[k]
  /\ version = 2 => /\ struct[ChecksumAt(format)] = words[last]
                    /\ \A k \in last..(ChecksumAt(format) - 1) : struct[k].frame = 240

LEMMA DataTaken ==
  ASSUME NEW payload, NEW garbage, NEW version \in {1, 2},
         NEW last, LastWord("data", version, last), payload.size = 4 * last,
         payload.size \in Sizes("data", version)
  PROVE  Taken(DataStruct(payload, garbage), "data", version, payload.words, last)
<1>1. ChecksumAt("data") = 6 /\ last = IF version = 1 THEN 5 ELSE 6
  BY Layout DEF LastWord
<1>2. Smaller(payload.size, WordSize * ChecksumAt("data")) = 4 * last
  BY <1>1 DEF Smaller, WordSize
<1>3. PICK struct : /\ DOMAIN struct = 1..6
                    /\ DataStruct(payload, garbage) = CopiedOver(struct, payload, 4 * last)
  <2>1. DOMAIN Blank("data") = 1..6
    BY <1>1 DEF Blank
  <2>2. DOMAIN [Blank("data") EXCEPT ![ChecksumAt("data")] = garbage] = 1..6
    BY <2>1
  <2> QED
    BY <1>2, <2>2, Zenon DEF DataStruct
<1>4. PICK bytes \in Nat : bytes = 4 * last
  BY DEF LastWord
<1>5. ASSUME NEW k \in 1..last
      PROVE  DataStruct(payload, garbage)[k] = payload.words[k]
  <2>1. k \in Nat /\ k \in DOMAIN struct /\ 4 * k <= bytes
    BY <1>1, <1>3, <1>4
  <2> QED
    BY <1>3, <1>4, <2>1, CopiedWord
<1>6. DOMAIN DataStruct(payload, garbage) = 1..6
  BY <1>3 DEF CopiedOver
<1>7. version = 2 => DataStruct(payload, garbage)[6] = payload.words[last]
  BY <1>1, <1>5
<1>8. version = 2 => last..(6 - 1) = {}
  BY <1>1
<1> QED
  BY <1>1, <1>5, <1>6, <1>7, <1>8 DEF Taken

LEMMA BlankORed ==
  ASSUME NEW k \in ORed(1)..ORed(2)
  PROVE  k \in DOMAIN Blank("monitoring") /\ Blank("monitoring")[k].frame = 240
<1>1. PICK t \in Nat : /\ t >= 3 /\ ORed(1) = 10 + t /\ ORed(2) = 11 + t
                       /\ Veto(1) = 5 + t /\ Veto(5) = 9 + t /\ ChecksumAt("monitoring") = 12 + t
  BY Layout
<1>2. /\ k \in 1..ChecksumAt("monitoring") /\ k # 2 /\ k # 3 /\ k # 4
      /\ k \notin Veto(1)..Veto(5)
  BY <1>1
<1>3. Blank("monitoring")[k] = Word(240, AllOnes)
  BY <1>2, Zenon DEF Blank, EventID, OrbitID, BCID
<1>4. DOMAIN Blank("monitoring") = 1..ChecksumAt("monitoring")
  BY DEF Blank
<1>5. Word(240, AllOnes).frame = 240
  BY DEF Word
<1> QED
  BY <1>2, <1>3, <1>4, <1>5, ZenonT(60)

LEMMA MonitoringTaken ==
  ASSUME NEW payload, NEW version \in {1, 2},
         NEW last, LastWord("monitoring", version, last), payload.size = 4 * last,
         payload.size \in Sizes("monitoring", version),
         VersionOf("monitoring", payload) = version
  PROVE  Taken(MonitoringStruct(payload), "monitoring", version, payload.words, last)
<1>1. PICK t \in Nat : /\ t >= 3 /\ ORed(1) = 10 + t /\ ORed(2) = 11 + t
                       /\ LengthOf("monitoring", 1) = 8 + t /\ LengthOf("monitoring", 2) = 12 + t
                       /\ ChecksumAt("monitoring") = 12 + t
                       /\ Sizes("monitoring", 1) = {4 * (8 + t)}
                       /\ Sizes("monitoring", 2) = {4 * (12 + t), 4 * (10 + t)}
  BY Layout
<1>2. IF version = 1 THEN last = 8 + t ELSE last = 12 + t \/ last = 10 + t
  BY <1>1 DEF LastWord
<1>3. last \in Nat /\ payload.size \div WordSize = last
  BY DEF LastWord, WordSize
<1> DEFINE bytes == IF version = 1 THEN 4 * last ELSE 4 * (last - 1)
           struct == Blank("monitoring")
           copied == CopiedOver(struct, payload, bytes)
<1>4. MonitoringStruct(payload) = [copied EXCEPT ![12 + t] = payload.words[last]]
  <2>1. CASE version = 1
    <3>1. Smaller(payload.size, WordSize * LengthOf("monitoring", version)) = bytes
      BY <1>1, <1>2, <2>1 DEF Smaller, WordSize
    <3> HIDE DEF bytes
    <3> QED
      BY <1>1, <1>3, <2>1, <3>1 DEF MonitoringStruct
  <2>2. CASE version = 2
    <3>1. Smaller(payload.size, WordSize * LengthOf("monitoring", version)) - WordSize = bytes
      BY <1>1, <1>2, <2>2 DEF Smaller, WordSize
    <3> HIDE DEF bytes
    <3> QED
      BY <1>1, <1>3, <2>2, <3>1 DEF MonitoringStruct
  <2> QED
    BY <2>1, <2>2
<1>5. DOMAIN struct = 1..(12 + t)
  BY <1>1 DEF Blank
<1>6. bytes \in Nat
  BY <1>2, <1>3
<1>7. DOMAIN copied = 1..(12 + t)
  BY <1>5 DEF CopiedOver
<1> HIDE DEF bytes, struct, copied
<1>8. ASSUME NEW k \in 1..(12 + t), k # 12 + t, 4 * k <= bytes
      PROVE  MonitoringStruct(payload)[k] = payload.words[k]
  <2>1. copied[k] = payload.words[k]
    <3>1. k \in Nat /\ k \in DOMAIN struct
      BY <1>5
    <3> QED
      BY <1>6, <1>8, <3>1, CopiedWord DEF copied
  <2> QED
    BY <1>4, <1>7, <1>8, <2>1
<1>9. ASSUME NEW k \in 1..(12 + t), k # 12 + t, 4 * (k - 1) >= bytes
      PROVE  MonitoringStruct(payload)[k] = struct[k]
  <2>1. copied[k] = struct[k]
    <3>1. k \in Nat /\ k \in DOMAIN struct
      BY <1>5
    <3> QED
      BY <1>6, <1>9, <3>1, CopiedWord DEF copied
  <2> QED
    BY <1>4, <1>7, <1>9, <2>1
<1>10. ASSUME NEW k \in 1..last, k < last \/ version = 1
       PROVE  MonitoringStruct(payload)[k] = payload.words[k]
  <2>1. k \in 1..(12 + t) /\ k # 12 + t /\ 4 * k <= bytes
    BY <1>2, <1>3, <1>10 DEF bytes
  <2> QED
    BY <1>8, <2>1
<1>11. ASSUME version = 2, NEW k \in last..(12 + t - 1)
       PROVE  MonitoringStruct(payload)[k].frame = 240
  <2>1. k \in 1..(12 + t) /\ k # 12 + t /\ 4 * (k - 1) >= bytes /\ k \in ORed(1)..ORed(2)
    BY <1>1, <1>2, <1>3, <1>11 DEF bytes
  <2>2. struct[k].frame = 240
    BY <2>1, BlankORed DEF struct
  <2> QED
    BY <1>9, <2>1, <2>2
<1>12. /\ DOMAIN MonitoringStruct(payload) = 1..(12 + t)
       /\ MonitoringStruct(payload)[12 + t] = payload.words[last]
  BY <1>4, <1>7
<1> QED
  BY <1>1, <1>10, <1>11, <1>12 DEF Taken

LEMMA FragmentTaken ==
  ASSUME NEW format \in Formats, NEW payload, NEW garbage, NEW version \in {1, 2},
         NEW last, LastWord(format, version, last), payload.size = 4 * last,
         payload.size \in Sizes(format, version),
         payload.words[1] = Headers(format)[version]
  PROVE  Taken(TLBFragment(format, payload, garbage).event, format, version, payload.words, last)
<1>1. VersionOf(format, payload) = version
  BY VersionIs
<1>2. CASE format = "data"
  BY <1>2, DataTaken DEF TLBFragment
<1>3. CASE format = "monitoring"
  BY <1>1, <1>3, MonitoringTaken DEF TLBFragment
<1> QED
  BY <1>2, <1>3 DEF Formats

-------------------------------------------------------------------------------
(* Frame ids of the last words. *)

LEMMA LastFrames ==
  /\ \A frame : RightFrame("data", ChecksumAt("data"), frame) <=> Nibble(frame, 14)
  /\ \A frame : RightFrame("monitoring", ChecksumAt("monitoring"), frame) <=> Nibble(frame, 13)
  /\ \A k \in ORed(1)..ORed(2) : \A frame :
       RightFrame("monitoring", k, frame) <=> Nibble(frame, 15)
<1>1. PICK t \in Nat : /\ t = 3 * MaxTrigLine /\ t >= 3
                       /\ ORed(1) = 10 + t /\ ORed(2) = 11 + t /\ Veto(1) = 5 + t
                       /\ ChecksumAt("monitoring") = 12 + t /\ ChecksumAt("data") = 6
  BY Layout
<1>2. TBP(0) = 5 /\ TAP(0) = 5 + MaxTrigLine /\ TAV(0) = 5 + 2 * MaxTrigLine /\ MaxTrigLine \in Nat
  BY BytesAssumption DEF TBP, TAP, TAV
<1>3. \A frame : RightFrame("data", ChecksumAt("data"), frame) <=> Nibble(frame, 14)
  BY <1>1 DEF RightFrame, EventID, BCID, TBPTAP
<1>4. \A frame : RightFrame("monitoring", ChecksumAt("monitoring"), frame) <=> Nibble(frame, 13)
  <2>1. ChecksumAt("monitoring") # EventID /\ ChecksumAt("monitoring") # BCID
    BY <1>1 DEF EventID, BCID
  <2>2. /\ ChecksumAt("monitoring") \notin TBP(0)..(TAP(0) - 1)
        /\ ChecksumAt("monitoring") \notin TAP(0)..(TAV(0) - 1)
        /\ ChecksumAt("monitoring") \notin TAV(0)..(Veto(1) - 1)
        /\ ChecksumAt("monitoring") \notin ORed(1)..ORed(2)
    BY <1>1, <1>2
  <2> QED
    BY <2>1, <2>2 DEF RightFrame
<1>5. ASSUME NEW k \in ORed(1)..ORed(2)
      PROVE  \A frame : RightFrame("monitoring", k, frame) <=> Nibble(frame, 15)
  <2>1. k # EventID /\ k # BCID /\ k # ChecksumAt("monitoring")
    BY <1>1 DEF EventID, BCID
  <2>2. /\ k \notin TBP(0)..(TAP(0) - 1)
        /\ k \notin TAP(0)..(TAV(0) - 1)
        /\ k \notin TAV(0)..(Veto(1) - 1)
    BY <1>1, <1>2
  <2> QED
    BY <2>1, <2>2 DEF RightFrame
<1> QED
  BY <1>3, <1>4, <1>5

LEMMA NibblesApart ==
  ASSUME NEW frame, NEW a, NEW b, Nibble(frame, a), Nibble(frame, b)
  PROVE  a = b
BY DEF Nibble

-------------------------------------------------------------------------------
(* A payload that a trigger board sent. *)

LEMMA SentIs ==
  ASSUME NEW sent, SentByTrigger(sent)
  PROVE  /\ sent.format \in Formats /\ sent.version \in {1, 2}
         /\ sent.payload.words \in Seq(TriggerWords)
         /\ LastWord(sent.format, sent.version, Len(sent.payload.words))
         /\ sent.payload.size = 4 * Len(sent.payload.words)
         /\ sent.payload.size \div 4 = Len(sent.payload.words)
         /\ sent.payload.size \in Sizes(sent.format, sent.version)
         /\ sent.payload.words[1] = Headers(sent.format)[sent.version]
<1>1. /\ sent.format \in Formats /\ sent.version \in {1, 2}
      /\ sent.payload.words \in Seq(TriggerWords)
      /\ sent.payload.size = 4 * Len(sent.payload.words)
      /\ sent.payload.size \in Sizes(sent.format, sent.version)
      /\ sent.payload.words[1] = Headers(sent.format)[sent.version]
  BY DEF SentByTrigger, WordSize
<1>2. PICK last : /\ LastWord(sent.format, sent.version, last)
                  /\ sent.payload.size = 4 * last /\ sent.payload.size \div 4 = last
  <2>1. PICK format \in Formats, version \in {1, 2} : format = sent.format /\ version = sent.version
    BY <1>1
  <2>2. PICK size : size = sent.payload.size /\ size \in Sizes(format, version)
    BY <1>1, <2>1
  <2>3. \E last : LastWord(format, version, last) /\ size = 4 * last /\ size \div 4 = last
    BY <2>2, SizeWords
  <2> QED
    BY <2>1, <2>2, <2>3
<1>3. last = Len(sent.payload.words)
  BY <1>1, <1>2 DEF LastWord
<1> QED
  BY <1>1, <1>2, <1>3

LEMMA SentFrames ==
  ASSUME NEW sent, SentByTrigger(sent), sent.version = 2, NEW k \in 1..Len(sent.payload.words)
  PROVE  RightFrame(sent.format, PlaceOf(sent, k), sent.payload.words[k].frame)
BY Zenon DEF SentByTrigger

(* What is valid has the first word and a size of its format and version. *)
LEMMA ValidHas ==
  ASSUME NEW F \in Formats, NEW payload, NEW garbage,
         TLBValid(TLBFragment(F, payload, garbage))
  PROVE  \E v \in {1, 2} :
           /\ payload.words[1] = Headers(F)[v]
           /\ payload.size \in Sizes(F, v)
           /\ TLBFragment(F, payload, garbage).version = v
           /\ v = 2 =>
                /\ ChecksumCalculated(payload) = checksum(TLBFragment(F, payload, garbage))
                /\ frame_check(TLBFragment(F, payload, garbage))
<1>1. PICK f : f = TLBFragment(F, payload, garbage)
  OBVIOUS
<1>2. /\ f.format = F /\ f.size = payload.size /\ f.version = VersionOf(F, payload)
      /\ f.crc_calculated = ChecksumCalculated(payload)
  BY <1>1 DEF TLBFragment
<1>3. f.version \in {1, 2} /\ payload.words[1] = Headers(F)[f.version]
  BY <1>1, <1>2, VersionKnown DEF TLBValid
<1>4. f.size \in Sizes(f.format, f.version)
      /\ (f.version = 2 => f.crc_calculated = checksum(f) /\ frame_check(f))
  <2>1. f.version = 2 => f.version > 1
    OBVIOUS
  <2> QED
    BY <1>1, <2>1, Zenon DEF TLBValid
<1> QED
  BY <1>1, <1>2, <1>3, <1>4

LEMMA SameKind ==
  ASSUME NEW F \in Formats, NEW sent, SentByTrigger(sent), NEW payload,
         payload.words[1] = sent.payload.words[1], NEW garbage,
         TLBValid(TLBFragment(F, payload, garbage))
  PROVE  /\ F = sent.format
         /\ payload.size \in Sizes(F, sent.version)
         /\ payload.words[1] = Headers(F)[sent.version]
         /\ sent.version = 2 =>
              /\ ChecksumCalculated(payload) = checksum(TLBFragment(F, payload, garbage))
              /\ frame_check(TLBFragment(F, payload, garbage))
              /\ TLBFragment(F, payload, garbage).version = 2
<1>1. PICK v \in {1, 2} :
           /\ payload.words[1] = Headers(F)[v]
           /\ payload.size \in Sizes(F, v)
           /\ TLBFragment(F, payload, garbage).version = v
           /\ v = 2 =>
                /\ ChecksumCalculated(payload) = checksum(TLBFragment(F, payload, garbage))
                /\ frame_check(TLBFragment(F, payload, garbage))
  BY ValidHas
<1>2. sent.format \in Formats /\ sent.version \in {1, 2}
      /\ sent.payload.words[1] = Headers(sent.format)[sent.version]
  BY SentIs
<1>3. F = sent.format /\ v = sent.version
  <2>1. PICK format \in Formats, version \in {1, 2} : format = sent.format /\ version = sent.version
    BY <1>2
  <2>2. Headers(F)[v] = Headers(format)[version]
    BY <1>1, <1>2, <2>1
  <2>3. F = format /\ v = version
    BY <2>2, HeadersApart
  <2> QED
    BY <2>1, <2>3
<1> QED
  BY <1>1, <1>3

(* Every frame of a valid fragment of version 2 is right. *)
LEMMA ValidFrames ==
  ASSUME NEW f, frame_check(f), f.version = 2, NEW k \in DOMAIN f.event
  PROVE  RightFrame(f.format, k, f.event[k].frame)
BY DEF frame_check

-------------------------------------------------------------------------------
(* What is refused. *)

Refuses(F, payload, garbage) == ~TLBValid(TLBFragment(F, payload, garbage))

LEMMA OtherKindRefused ==
  ASSUME NEW F \in Formats, NEW sent, SentByTrigger(sent), F # sent.format, NEW garbage
  PROVE  Refuses(F, sent.payload, garbage)
BY SameKind DEF Refuses

LEMMA HeaderRefused ==
  ASSUME NEW F \in Formats, NEW sent, SentByTrigger(sent), NEW payload, NEW garbage,
         DamagedTrigger("header", sent, payload)
  PROVE  Refuses(F, payload, garbage)
<1> SUFFICES ASSUME TLBValid(TLBFragment(F, payload, garbage))
             PROVE  FALSE
  BY DEF Refuses
<1>1. PICK format \in Formats, version \in {1, 2} :
        /\ <<format, version>> # <<sent.format, sent.version>>
        /\ payload.words = [sent.payload.words EXCEPT ![1] = Headers(format)[version]]
        /\ payload.size = sent.payload.size
  BY DEF DamagedTrigger
<1>2. PICK sf \in Formats, sv \in {1, 2} : sf = sent.format /\ sv = sent.version
  BY SentIs
<1>3. payload.size \in Sizes(sf, sv)
  BY <1>1, <1>2, SentIs
<1>4. payload.words[1] = Headers(format)[version]
  <2>1. 1 \in 1..Len(sent.payload.words) /\ sent.payload.words \in Seq(TriggerWords)
    BY SentIs DEF LastWord
  <2>2. 1 \in DOMAIN sent.payload.words
    BY <2>1
  <2> QED
    BY <1>1, <2>2
<1>5. PICK v \in {1, 2} : payload.words[1] = Headers(F)[v] /\ payload.size \in Sizes(F, v)
  BY ValidHas
<1>6. F = format /\ v = version
  <2>1. Headers(F)[v] = Headers(format)[version]
    BY <1>4, <1>5
  <2> QED
    BY <2>1, HeadersApart
<1>7. F = sf /\ v = sv
  BY <1>3, <1>5, SizesApart
<1> QED
  BY <1>1, <1>2, <1>6, <1>7

LEMMA SizeRefused ==
  ASSUME NEW F \in Formats, NEW sent, SentByTrigger(sent), NEW payload, NEW garbage,
         DamagedTrigger("size", sent, payload)
  PROVE  Refuses(F, payload, garbage)
<1> SUFFICES ASSUME TLBValid(TLBFragment(F, payload, garbage))
             PROVE  FALSE
  BY DEF Refuses
<1>1. PICK words : words = sent.payload.words
  OBVIOUS
<1>2. PICK last \in Nat : last = Len(words) /\ last >= 5 /\ sent.payload.size = 4 * last
  BY <1>1, SentIs DEF LastWord
<1>3. /\ payload.size \in Nat /\ payload.size >= 4 /\ payload.size # sent.payload.size
      /\ \A k \in 1..last : 4 * k <= payload.size => payload.words[k] = words[k]
  BY <1>1, <1>2 DEF DamagedTrigger, WordSize
<1>4. payload.words[1] = words[1]
  <2>1. 1 \in 1..last /\ 4 * 1 <= payload.size
    BY <1>2, <1>3
  <2> QED
    BY <1>3, <2>1
<1>5. F = sent.format /\ payload.size \in Sizes(F, sent.version)
      /\ payload.words[1] = Headers(F)[sent.version]
      /\ (sent.version = 2 =>
            /\ frame_check(TLBFragment(F, payload, garbage))
            /\ TLBFragment(F, payload, garbage).version = 2)
  BY <1>1, <1>4, SameKind
<1>6. PICK t \in Nat : /\ ORed(1) = 10 + t /\ ORed(2) = 11 + t /\ t >= 3
                       /\ ChecksumAt("monitoring") = 12 + t
                       /\ Sizes("data", 1) = {20} /\ Sizes("data", 2) = {24}
                       /\ Sizes("monitoring", 1) = {4 * (8 + t)}
                       /\ Sizes("monitoring", 2) = {4 * (12 + t), 4 * (10 + t)}
  BY Layout
<1>7. /\ sent.version = 2 /\ F = "monitoring"
      /\ \/ last = 12 + t /\ payload.size = 4 * (10 + t)
         \/ last = 10 + t /\ payload.size = 4 * (12 + t)
  <2>1. sent.payload.size \in Sizes(F, sent.version) /\ sent.version \in {1, 2}
    BY <1>5, SentIs
  <2>2. payload.size \in Sizes(F, sent.version) /\ payload.size # sent.payload.size
    BY <1>3, <1>5
  <2>3. F = "monitoring" /\ sent.version = 2
    BY <1>6, <2>1, <2>2 DEF Formats
  <2> QED
    BY <1>2, <1>6, <2>1, <2>2, <2>3
<1>8. PICK f : f = TLBFragment(F, payload, garbage)
  OBVIOUS
<1>9. f.format = F
  BY <1>8 DEF TLBFragment
<1>10. PICK lp \in Nat : lp \in {10 + t, 12 + t} /\ lp # last /\ payload.size = 4 * lp
  BY <1>7
<1>11. Taken(f.event, "monitoring", 2, payload.words, lp)
  <2>1. LastWord("monitoring", 2, lp)
    BY <1>6, <1>10 DEF LastWord
  <2>2. "monitoring" \in Formats /\ 2 \in {1, 2}
    BY DEF Formats
  <2> QED
    BY <1>5, <1>7, <1>8, <1>10, <2>1, <2>2, FragmentTaken
<1>12. \A k \in 1..(12 + t) : RightFrame("monitoring", k, f.event[k].frame)
  BY <1>5, <1>6, <1>7, <1>8, <1>9, <1>11, ValidFrames DEF Taken
<1>13. 10 + t \in 1..last /\ payload.words[10 + t] = words[10 + t]
  <2>1. 10 + t \in 1..last /\ 4 * (10 + t) <= payload.size
    BY <1>2, <1>7
  <2> QED
    BY <1>3, <2>1
<1>14. RightFrame("monitoring", PlaceOf(sent, 10 + t), words[10 + t].frame)
  BY <1>1, <1>2, <1>5, <1>7, <1>13, SentFrames
<1>15. CASE last = 12 + t
  <2>1. f.event[12 + t] = words[10 + t]
    BY <1>6, <1>10, <1>11, <1>13, <1>15 DEF Taken
  <2>2. Nibble(words[10 + t].frame, 13)
    <3>1. RightFrame("monitoring", 12 + t, f.event[12 + t].frame)
      BY <1>12
    <3> QED
      BY <1>6, <2>1, <3>1, LastFrames
  <2>3. PlaceOf(sent, 10 + t) = 10 + t /\ 10 + t \in ORed(1)..ORed(2)
    BY <1>1, <1>2, <1>6, <1>15 DEF PlaceOf
  <2>4. Nibble(words[10 + t].frame, 15)
    BY <1>14, <2>3, LastFrames
  <2> QED
    BY <2>2, <2>4, NibblesApart
<1>16. CASE last = 10 + t
  <2>1. f.event[10 + t] = words[10 + t]
    <3>1. 10 + t \in 1..lp /\ 10 + t < lp
      BY <1>10, <1>16
    <3> QED
      BY <1>11, <1>13, <3>1 DEF Taken
  <2>2. Nibble(words[10 + t].frame, 15)
    <3>1. RightFrame("monitoring", 10 + t, f.event[10 + t].frame) /\ 10 + t \in ORed(1)..ORed(2)
      BY <1>6, <1>12
    <3> QED
      BY <2>1, <3>1, LastFrames
  <2>3. PlaceOf(sent, 10 + t) = ChecksumAt("monitoring")
    BY <1>1, <1>2, <1>5, <1>7, <1>16 DEF PlaceOf
  <2>4. Nibble(words[10 + t].frame, 13)
    BY <1>14, <2>3, LastFrames
  <2> QED
    BY <2>2, <2>4, NibblesApart
<1> QED
  BY <1>7, <1>15, <1>16

(* The struct of a payload of the size and with the first word sent. *)
LEMMA SentTaken ==
  ASSUME NEW F \in Formats, NEW sent, SentByTrigger(sent), F = sent.format,
         NEW payload, payload.size = sent.payload.size,
         payload.words[1] = sent.payload.words[1], NEW garbage
  PROVE  Taken(TLBFragment(F, payload, garbage).event, F, sent.version, payload.words,
               Len(sent.payload.words))
<1>1. PICK version \in {1, 2} : version = sent.version
  BY SentIs
<1>2. PICK last : last = Len(sent.payload.words)
  OBVIOUS
<1>3. /\ LastWord(F, version, last) /\ payload.size = 4 * last
      /\ payload.size \in Sizes(F, version)
      /\ payload.words[1] = Headers(F)[version]
  BY <1>1, <1>2, SentIs
<1>4. Taken(TLBFragment(F, payload, garbage).event, F, version, payload.words, last)
  BY <1>3, FragmentTaken
<1> QED
  BY <1>1, <1>2, <1>4

LEMMA FrameRefused ==
  ASSUME NEW F \in Formats, NEW sent, SentByTrigger(sent), sent.version = 2,
         NEW payload, NEW garbage, DamagedTrigger("frame", sent, payload)
  PROVE  Refuses(F, payload, garbage)
<1> SUFFICES ASSUME TLBValid(TLBFragment(F, payload, garbage))
             PROVE  FALSE
  BY DEF Refuses
<1>1. PICK last : last = Len(sent.payload.words)
  OBVIOUS
<1>2. /\ payload.size = sent.payload.size /\ payload.words[1] = sent.payload.words[1]
      /\ \E k \in 2..last : ~RightFrame(sent.format, PlaceOf(sent, k), payload.words[k].frame)
  BY <1>1 DEF DamagedTrigger
<1>3. PICK k \in 2..last : ~RightFrame(sent.format, PlaceOf(sent, k), payload.words[k].frame)
  BY <1>2
<1>4. PICK f : f = TLBFragment(F, payload, garbage)
  OBVIOUS
<1>5. F = sent.format /\ frame_check(f) /\ f.version = 2 /\ f.format = F
  BY <1>2, <1>4, SameKind DEF TLBFragment
<1>6. Taken(f.event, F, 2, payload.words, last)
  BY <1>1, <1>2, <1>4, <1>5, SentTaken
<1>7. last \in Nat /\ last <= ChecksumAt(F) /\ last >= 5 /\ ChecksumAt(F) \in Nat
  <2>1. ChecksumAt(F) \in Nat
    BY Layout DEF Formats
  <2> QED
    BY <1>1, <1>5, <2>1, SentIs DEF LastWord
<1>8. PlaceOf(sent, k) \in DOMAIN f.event /\ f.event[PlaceOf(sent, k)] = payload.words[k]
  <2>1. CASE k = last
    <3>1. PlaceOf(sent, k) = ChecksumAt(F)
      BY <1>1, <1>5, <2>1 DEF PlaceOf
    <3> QED
      BY <1>6, <1>7, <2>1, <3>1 DEF Taken
  <2>2. CASE k # last
    <3>1. PlaceOf(sent, k) = k
      BY <1>1, <2>2 DEF PlaceOf
    <3>2. k \in 1..last /\ k < last /\ k \in 1..ChecksumAt(F)
      BY <1>7, <2>2
    <3> QED
      BY <1>6, <3>1, <3>2 DEF Taken
  <2> QED
    BY <2>1, <2>2
<1> QED
  BY <1>3, <1>5, <1>8, ValidFrames

(* The numbers of words, and the checksum calculated of them. *)
NumbersOf(words) == [k \in 1..Len(words) |-> NumberOf(words[k])]

LEMMA NumbersType ==
  ASSUME NEW words \in Seq(TriggerWords)
  PROVE  /\ NumbersOf(words) \in Seq(Nat) /\ Len(NumbersOf(words)) = Len(words)
         /\ \A k \in 1..Len(words) : /\ NumbersOf(words)[k] = NumberOf(words[k])
                                     /\ NumberOf(words[k]) % FieldRange = words[k].content % FieldRange
<1>1. \A k \in 1..Len(words) : words[k] \in TriggerWords
  OBVIOUS
<1>2. \A k \in 1..Len(words) : NumberOf(words[k]) \in Nat
  BY <1>1, NumberType
<1>3. NumbersOf(words) \in [1..Len(words) -> Nat]
  BY <1>2 DEF NumbersOf
<1>4. Len(words) \in Nat
  OBVIOUS
<1>5. NumbersOf(words) \in Seq(Nat) /\ Len(NumbersOf(words)) = Len(words)
  BY <1>3, <1>4
<1>6. \A k \in 1..Len(words) : /\ NumbersOf(words)[k] = NumberOf(words[k])
                               /\ NumberOf(words[k]) % FieldRange = words[k].content % FieldRange
  BY <1>1, NumberType DEF NumbersOf
<1> QED
  BY <1>5, <1>6

LEMMA CalculatedIs ==
  ASSUME NEW payload, payload.words \in Seq(TriggerWords),
         payload.size \div 4 = Len(payload.words)
  PROVE  ChecksumCalculated(payload) = ReturnFletcherChecksum(NumbersOf(payload.words))
<1>1. PICK words \in Seq(TriggerWords) : words = payload.words
  OBVIOUS
<1>2. WholeWords(payload) = words
  <2>1. WholeWords(payload) = SubSeq(words, 1, Len(words))
    BY <1>1 DEF WholeWords, WordSize
  <2> QED
    BY <2>1
<1>3. DOMAIN words = 1..Len(words)
  BY LenProperties
<1> QED
  BY <1>1, <1>2, <1>3, Zenon DEF ChecksumCalculated, NumbersOf

LEMMA SentChecksum ==
  ASSUME NEW sent, SentByTrigger(sent), sent.version = 2
  PROVE  ReturnFletcherChecksum(NumbersOf(sent.payload.words))
           = sent.payload.words[Len(sent.payload.words)].content
BY Zenon DEF SentByTrigger, NumbersOf

LEMMA LowRefused ==
  ASSUME NEW F \in Formats, NEW sent, SentByTrigger(sent), sent.version = 2,
         NEW payload, NEW garbage, DamagedTrigger("low", sent, payload)
  PROVE  Refuses(F, payload, garbage)
<1> SUFFICES ASSUME TLBValid(TLBFragment(F, payload, garbage))
             PROVE  FALSE
  BY DEF Refuses
<1>1. PICK words \in Seq(TriggerWords) : words = sent.payload.words
  BY SentIs
<1>2. PICK last \in Nat : last = Len(words) /\ last >= 5
  BY <1>1, SentIs DEF LastWord
<1>3. /\ payload.size = sent.payload.size
      /\ \E k \in 2..last :
           /\ payload.words[k] \in TriggerWords
           /\ payload.words = [words EXCEPT ![k] = payload.words[k]]
           /\ payload.words[k].content % FieldRange # words[k].content % FieldRange
  BY <1>1, <1>2 DEF DamagedTrigger
<1>4. PICK k \in 2..last :
           /\ payload.words[k] \in TriggerWords
           /\ payload.words = [words EXCEPT ![k] = payload.words[k]]
           /\ payload.words[k].content % FieldRange # words[k].content % FieldRange
  BY <1>3
<1>5. PICK changed \in Seq(TriggerWords) :
        /\ changed = payload.words /\ Len(changed) = last
        /\ \A j \in 1..last : j # k => changed[j] = words[j]
        /\ changed[k].content % FieldRange # words[k].content % FieldRange
  <2>1. PICK new \in TriggerWords : new = payload.words[k]
    BY <1>4
  <2>2. k \in 1..Len(words)
    BY <1>2
  <2>3. PICK changed : changed = [words EXCEPT ![k] = new]
    OBVIOUS
  <2>4. /\ changed \in Seq(TriggerWords) /\ Len(changed) = Len(words)
        /\ \A j \in 1..Len(words) : changed[j] = IF j = k THEN new ELSE words[j]
    BY <2>2, <2>3, ExceptSeq
  <2>5. changed = payload.words
    BY <1>4, <2>1, <2>3
  <2> QED
    BY <1>2, <1>4, <2>1, <2>4, <2>5
<1>6. changed[1] = words[1]
  BY <1>2, <1>5
<1>7. PICK f : f = TLBFragment(F, payload, garbage)
  OBVIOUS
<1>8. F = sent.format /\ ChecksumCalculated(payload) = checksum(f) /\ f.format = F
  <2>1. payload.words[1] = sent.payload.words[1]
    BY <1>1, <1>5, <1>6
  <2>2. TLBValid(TLBFragment(F, payload, garbage))
    OBVIOUS
  <2>3. /\ F = sent.format
        /\ ChecksumCalculated(payload) = checksum(TLBFragment(F, payload, garbage))
    BY <2>1, <2>2, SameKind
  <2>4. f.format = F
    BY <1>7 DEF TLBFragment
  <2> QED
    BY <1>7, <2>3, <2>4
<1>9. Taken(f.event, F, 2, changed, last)
  BY <1>1, <1>2, <1>3, <1>5, <1>6, <1>7, <1>8, SentTaken
<1>10. checksum(f) = changed[last].content
  BY <1>8, <1>9 DEF checksum, Taken
<1>11. ChecksumCalculated(payload) = ReturnFletcherChecksum(NumbersOf(changed))
  <2>1. payload.size \div 4 = Len(payload.words)
    BY <1>1, <1>2, <1>3, <1>5, SentIs
  <2> QED
    BY <1>5, <2>1, CalculatedIs
<1>12. ReturnFletcherChecksum(NumbersOf(words)) = words[last].content
  BY <1>1, <1>2, SentChecksum
<1>13. PICK A \in Seq(Nat) : A = NumbersOf(words) /\ Len(A) = last
                             /\ \A j \in 1..last : /\ A[j] = NumberOf(words[j])
                                                   /\ A[j] % FieldRange = words[j].content % FieldRange
  BY <1>2, NumbersType
<1>14. PICK B \in Seq(Nat) : B = NumbersOf(changed) /\ Len(B) = last
                             /\ \A j \in 1..last : /\ B[j] = NumberOf(changed[j])
                                                   /\ B[j] % FieldRange = changed[j].content % FieldRange
  BY <1>5, NumbersType
<1>15. /\ k \in 1..Len(A) /\ Len(A) = Len(B) /\ Len(A) >= 2
       /\ A[k] % FieldRange # B[k] % FieldRange
       /\ \A j \in 1..Len(A) : j # k => A[j] = B[j]
  BY <1>2, <1>5, <1>13, <1>14
<1>16. IF k < last
       THEN ReturnFletcherChecksum(A) % FieldRange # ReturnFletcherChecksum(B) % FieldRange
       ELSE ReturnFletcherChecksum(A) % FieldRange = ReturnFletcherChecksum(B) % FieldRange
  BY <1>13, <1>15, ChecksumShows
<1>17. /\ ReturnFletcherChecksum(A) = words[last].content
       /\ ReturnFletcherChecksum(B) = changed[last].content
  BY <1>8, <1>10, <1>11, <1>12, <1>13, <1>14
<1>18. CASE k < last
  <2>1. changed[last] = words[last]
    BY <1>2, <1>5, <1>18
  <2> QED
    BY <1>16, <1>17, <1>18, <2>1
<1>19. CASE ~(k < last)
  <2>1. k = last
    BY <1>2, <1>19
  <2> QED
    BY <1>5, <1>16, <1>17, <1>19, <2>1
<1> QED
  BY <1>18, <1>19

(* All damage that should be found is. *)
LEMMA DamageRefused ==
  ASSUME NEW F \in Formats, NEW sent, SentByTrigger(sent), NEW fault, NEW payload, NEW garbage,
         DamagedTrigger(fault, sent, payload), ~(fault = "none" /\ sent.format = F),
         sent.version = 2 \/ fault \in {"none", "size", "header"}
  PROVE  Refuses(F, payload, garbage)
<1>1. fault \in {"none", "size", "header", "low", "frame"}
  BY DEF DamagedTrigger
<1>2. CASE fault = "none"
  <2>1. payload = sent.payload
    BY <1>2 DEF DamagedTrigger
  <2> QED
    BY <1>2, <2>1, OtherKindRefused
<1>3. CASE fault # "none"
  BY <1>1, <1>3, HeaderRefused, SizeRefused, LowRefused, FrameRefused
<1> QED
  BY <1>2, <1>3

(* And nothing but the first field is shown of what is refused. *)
LEMMA RefusedShows ==
  ASSUME NEW f, ~TLBValid(f), NEW debug, ~debug
  PROVE  TLBPrint(f, debug).corrupted # {} /\ Len(TLBPrint(f, debug).shown) = 1
<1>1. ~Readable(f, debug)
  BY Zenon DEF Readable
<1>2. TLBPrint(f, debug) = [shown |-> SubSeq(Fields(f), 1, 1), corrupted |-> {Corrupted(f)}]
  BY <1>1, Zenon DEF TLBPrint
<1>3. \A s : Len(SubSeq(s, 1, 1)) = 1
  <2>1. PICK n \in Int : n = 1
    OBVIOUS
  <2>2. ASSUME NEW s
        PROVE  Len(SubSeq(s, n, n)) = 1
    <3> DEFINE E == {s[i] : i \in n..n}
    <3>1. \A i \in n..n : s[i] \in E
      OBVIOUS
    <3> HIDE DEF E
    <3>2. Len(SubSeq(s, n, n)) = IF n <= n THEN n - n + 1 ELSE 0
      BY <3>1, SubSeqProperties
    <3> QED
      BY <3>2
  <2> QED
    BY <2>1, <2>2
<1>4. PICK fields : fields = Fields(f)
  OBVIOUS
<1>5. PICK first, message : first = SubSeq(fields, 1, 1) /\ message = Corrupted(f)
  OBVIOUS
<1>6. TLBPrint(f, debug) = [shown |-> first, corrupted |-> {message}]
  BY <1>2, <1>4, <1>5
<1>7. Len(first) = 1
  BY <1>3, <1>5, Zenon
<1>8. TLBPrint(f, debug).corrupted = {message} /\ TLBPrint(f, debug).shown = first
  <2>1. PICK print : print = [shown |-> first, corrupted |-> {message}]
    OBVIOUS
  <2>2. print.corrupted = {message} /\ print.shown = first
    BY <2>1
  <2>3. TLBPrint(f, debug) = print
    BY <1>6, <2>1, Zenon
  <2> QED
    BY <2>2, <2>3, Zenon
<1> QED
  BY <1>7, <1>8

-------------------------------------------------------------------------------
(* What a trigger board sent is valid. *)

LEMMA BlankFrames ==
  ASSUME NEW F \in Formats, NEW last, LastWord(F, 2, last), NEW size,
         size = 4 * last, size \in Sizes(F, 2), NEW k \in last..(ChecksumAt(F) - 1)
  PROVE  RightFrame(F, k, 240)
<1>1. PICK t \in Nat : /\ ORed(1) = 10 + t /\ ORed(2) = 11 + t /\ ChecksumAt("data") = 6
                       /\ ChecksumAt("monitoring") = 12 + t /\ Sizes("data", 2) = {24}
                       /\ Sizes("monitoring", 2) = {4 * (12 + t), 4 * (10 + t)}
  BY Layout
<1>2. F = "monitoring" /\ k \in ORed(1)..ORed(2)
  BY <1>1 DEF Formats, LastWord
<1>3. Nibble(240, 15)
  BY DEF Nibble
<1> QED
  BY <1>2, <1>3, LastFrames

LEMMA ChecksumPlace ==
  ASSUME NEW F \in Formats
  PROVE  ChecksumAt(F) \in Nat
<1>1. PICK t \in Nat : ChecksumAt("data") = 6 /\ ChecksumAt("monitoring") = 12 + t
  BY Layout
<1> QED
  BY <1>1 DEF Formats

LEMMA SentFrameCheck ==
  ASSUME NEW sent, SentByTrigger(sent), sent.version = 2, NEW f,
         f.format = sent.format, f.version = 2,
         Taken(f.event, sent.format, 2, sent.payload.words, Len(sent.payload.words))
  PROVE  frame_check(f)
<1>1. PICK F \in Formats, words \in Seq(TriggerWords) :
        F = sent.format /\ words = sent.payload.words
  BY SentIs
<1>2. PICK last \in Nat : /\ last = Len(words) /\ LastWord(F, 2, last)
                          /\ sent.payload.size = 4 * last /\ sent.payload.size \in Sizes(F, 2)
  BY <1>1, SentIs DEF LastWord
<1>3. PICK at \in Nat : at = ChecksumAt(F) /\ last <= at /\ last >= 5
  <2>1. ChecksumAt(F) \in Nat
    BY ChecksumPlace
  <2> QED
    BY <1>2, <2>1 DEF LastWord
<1>4. /\ DOMAIN f.event = 1..at /\ f.event[at] = words[last]
      /\ \A k \in 1..last : k < last => f.event[k] = words[k]
      /\ \A k \in last..(at - 1) : f.event[k].frame = 240
  BY <1>1, <1>2, <1>3 DEF Taken
<1>5. \A k \in 1..last : RightFrame(F, PlaceOf(sent, k), words[k].frame)
  BY <1>1, <1>2, SentFrames
<1>6. \A k \in 1..last : PlaceOf(sent, k) = IF k = last THEN at ELSE k
  BY <1>1, <1>2, <1>3 DEF PlaceOf
<1>7. ASSUME NEW k \in 1..at
      PROVE  RightFrame(F, k, f.event[k].frame)
  <2>1. CASE k < last
    BY <1>2, <1>4, <1>5, <1>6, <2>1
  <2>2. CASE k = at
    <3>1. last \in 1..last
      BY <1>3
    <3>2. RightFrame(F, at, words[last].frame)
      BY <1>5, <1>6, <3>1
    <3> QED
      BY <1>4, <2>2, <3>2
  <2>3. CASE ~(k < last) /\ k # at
    <3>1. k \in last..(at - 1)
      BY <1>3, <2>3
    <3>2. RightFrame(F, k, 240)
      BY <1>2, <1>3, <3>1, BlankFrames
    <3> QED
      BY <1>4, <3>1, <3>2
  <2> QED
    BY <2>1, <2>2, <2>3
<1>8. \A k \in DOMAIN f.event : RightFrame(f.format, k, f.event[k].frame)
  BY <1>1, <1>4, <1>7
<1> QED
  BY <1>8, Zenon DEF frame_check

LEMMA SentValid ==
  ASSUME NEW sent, SentByTrigger(sent), NEW garbage
  PROVE  /\ TLBValid(TLBFragment(sent.format, sent.payload, garbage))
         /\ TLBFragment(sent.format, sent.payload, garbage).version = sent.version
<1>1. PICK F \in Formats, version \in {1, 2} : F = sent.format /\ version = sent.version
  BY SentIs
<1> DEFINE payload == sent.payload
<1>2. PICK words \in Seq(TriggerWords) : words = payload.words
  BY <1>1, SentIs
<1>3. PICK f : f = TLBFragment(F, payload, garbage)
  OBVIOUS
<1>4. VersionOf(F, payload) = version
  BY <1>1, SentIs, VersionIs
<1>5. /\ f.format = F /\ f.size = payload.size /\ f.version = version
      /\ f.crc_calculated = ChecksumCalculated(payload)
  BY <1>3, <1>4 DEF TLBFragment
<1>6. f.version # UnknownVersion /\ f.size \in Sizes(f.format, f.version)
  BY <1>1, <1>5, SentIs DEF UnknownVersion
<1>7. ASSUME version = 2
      PROVE  f.crc_calculated = checksum(f) /\ frame_check(f)
  <2>1. payload.words[1] = sent.payload.words[1] /\ payload.size = sent.payload.size
    BY <1>1
  <2>2. Taken(TLBFragment(F, payload, garbage).event, F, sent.version, payload.words,
              Len(sent.payload.words))
    BY <1>1, <2>1, SentTaken
  <2>3. Taken(f.event, F, 2, words, Len(words))
    BY <1>1, <1>2, <1>3, <1>7, <2>2
  <2>4. checksum(f) = words[Len(words)].content
    BY <1>5, <2>3 DEF checksum, Taken
  <2>5. ChecksumCalculated(payload) = ReturnFletcherChecksum(NumbersOf(words))
    BY <1>1, <1>2, SentIs, CalculatedIs
  <2>6. ReturnFletcherChecksum(NumbersOf(words)) = words[Len(words)].content
    BY <1>1, <1>2, <1>7, SentChecksum
  <2>7. frame_check(f)
    BY <1>1, <1>2, <1>5, <1>7, <2>3, SentFrameCheck
  <2> QED
    BY <1>5, <2>4, <2>5, <2>6, <2>7
<1>8. f.version > 1 => version = 2
  BY <1>5
<1>9. TLBValid(f)
  BY <1>6, <1>7, <1>8, Zenon DEF TLBValid
<1> QED
  BY <1>1, <1>3, <1>5, <1>9

-------------------------------------------------------------------------------
(* The values of fields one behind the other. *)

Names ==
  {"event_id", "orbit_id", "bc_id", "TAP of bits 8 to 13", "TAP of bits 6 to 11",
   "TBP and input bits", "ext. orbits lost", "tbp", "tap", "tav", "veto", "ORed"}

LEMMA NamesAre ==
  /\ "event_id" \in Names /\ "orbit_id" \in Names /\ "bc_id" \in Names
  /\ "TAP of bits 8 to 13" \in Names /\ "TAP of bits 6 to 11" \in Names
  /\ "TBP and input bits" \in Names /\ "ext. orbits lost" \in Names
  /\ "tbp" \in Names /\ "tap" \in Names /\ "tav" \in Names
  /\ "veto" \in Names /\ "ORed" \in Names
BY Zenon DEF Names

Printed == [name : Names, value : Nat]

LEMMA ValuesType ==
  ASSUME NEW s \in Seq(Printed)
  PROVE  Values(s) \in Seq(Nat) /\ Len(Values(s)) = Len(s)
<1>1. DOMAIN s = 1..Len(s) /\ Len(s) \in Nat
  OBVIOUS
<1>2. ASSUME NEW n \in 1..Len(s)
      PROVE  s[n].value \in Nat
  <2>1. s[n] \in Printed
    OBVIOUS
  <2> QED
    BY <2>1 DEF Printed
<1>3. Values(s) \in [1..Len(s) -> Nat]
  BY <1>1, <1>2 DEF Values
<1> QED
  BY <1>1, <1>3

LEMMA ValuesJoined ==
  ASSUME NEW s \in Seq(Printed), NEW t \in Seq(Printed)
  PROVE  s \o t \in Seq(Printed) /\ Values(s \o t) = Values(s) \o Values(t)
<1>1. PICK u : u = s \o t
  OBVIOUS
<1>2. /\ u \in Seq(Printed) /\ Len(u) = Len(s) + Len(t)
      /\ \A i \in 1..(Len(s) + Len(t)) : u[i] = IF i <= Len(s) THEN s[i] ELSE t[i - Len(s)]
  BY <1>1, ConcatProperties
<1>3. PICK a \in Seq(Nat), b \in Seq(Nat), c \in Seq(Nat) :
        /\ a = Values(s) /\ Len(a) = Len(s) /\ b = Values(t) /\ Len(b) = Len(t)
        /\ c = Values(u) /\ Len(c) = Len(u)
  BY <1>2, ValuesType
<1>4. PICK m \in Nat, n \in Nat : m = Len(s) /\ n = Len(t)
  OBVIOUS
<1>5. /\ \A i \in 1..m : a[i] = s[i].value
      /\ \A i \in 1..n : b[i] = t[i].value
      /\ \A i \in 1..(m + n) : c[i] = u[i].value
  BY <1>2, <1>3, <1>4 DEF Values
<1>6. PICK d : d = a \o b
  OBVIOUS
<1>7. /\ d \in Seq(Nat) /\ Len(d) = m + n
      /\ \A i \in 1..(m + n) : d[i] = IF i <= m THEN a[i] ELSE b[i - m]
  <2>1. /\ a \o b \in Seq(Nat) /\ Len(a \o b) = Len(a) + Len(b)
        /\ \A i \in 1..(Len(a) + Len(b)) : (a \o b)[i] = IF i <= Len(a) THEN a[i] ELSE b[i - Len(a)]
    BY ConcatProperties
  <2>2. Len(a) = m /\ Len(b) = n
    BY <1>3, <1>4
  <2> QED
    BY <1>6, <2>1, <2>2
<1>8. ASSUME NEW i \in 1..(m + n)
      PROVE  c[i] = d[i]
  <2>0. c[i] = u[i].value /\ u[i] = IF i <= m THEN s[i] ELSE t[i - m]
    BY <1>2, <1>4, <1>5
  <2>1. CASE i <= m
    <3>1. i \in 1..m
      BY <2>1
    <3>2. c[i] = s[i].value /\ d[i] = a[i]
      BY <1>7, <2>0, <2>1
    <3> QED
      BY <1>5, <3>1, <3>2
  <2>2. CASE ~(i <= m)
    <3>1. i - m \in 1..n
      BY <2>2
    <3>2. c[i] = t[i - m].value /\ d[i] = b[i - m]
      BY <1>7, <2>0, <2>2
    <3> QED
      BY <1>5, <3>1, <3>2
  <2> QED
    BY <2>1, <2>2
<1>9. c = d
  BY <1>2, <1>3, <1>4, <1>7, <1>8, SeqEqual
<1> QED
  BY <1>1, <1>2, <1>3, <1>6, <1>9

LEMMA ValuesOfOne ==
  ASSUME NEW name \in Names, NEW value \in Nat
  PROVE  Field(name, value) \in Seq(Printed) /\ Values(Field(name, value)) = <<value>>
<1>1. PICK x : x = [name |-> name, value |-> value]
  OBVIOUS
<1>2. x \in Printed /\ x.value = value
  BY <1>1 DEF Printed
<1>3. Field(name, value) = <<x>>
  BY <1>1 DEF Field
<1>4. <<x>> \in Seq(Printed) /\ DOMAIN <<x>> = {1} /\ <<x>>[1] = x
  BY <1>2
<1>5. Values(<<x>>) \in Seq(Nat) /\ Len(Values(<<x>>)) = 1 /\ Values(<<x>>)[1] = value
  BY <1>2, <1>4, ValuesType DEF Values
<1> QED
  BY <1>3, <1>4, <1>5

(* One field behind others. *)
LEMMA ValuesAndOne ==
  ASSUME NEW s \in Seq(Printed), NEW name \in Names, NEW value \in Nat
  PROVE  /\ s \o Field(name, value) \in Seq(Printed)
         /\ Values(s \o Field(name, value)) = Values(s) \o <<value>>
BY ValuesJoined, ValuesOfOne

(* The fields of some words in a row. *)
NumberedRow(struct, from, to) ==
  to + 1 >= from /\ \A k \in from..to : struct[k].content \in Nat

PrintsRow(name, struct, from, to) ==
  /\ Contents(name, struct, from, to) \in Seq(Printed)
  /\ Values(Contents(name, struct, from, to))
       = [n \in 1..(to + 1 - from) |-> struct[from + n - 1].content]

LEMMA ValuesOfContents ==
  ASSUME NEW name \in Names, NEW struct, NEW from \in Nat, NEW to \in Nat,
         NumberedRow(struct, from, to)
  PROVE  PrintsRow(name, struct, from, to)
<1>0. to + 1 >= from /\ \A k \in from..to : struct[k].content \in Nat
  BY DEF NumberedRow
<1>1. PICK m \in Nat : m = to + 1 - from
  BY <1>0
<1> DEFINE s == [n \in 1..m |-> [name |-> name, value |-> struct[from + n - 1].content]]
<1>2. \A n \in 1..m : struct[from + n - 1].content \in Nat
  <2>1. \A n \in 1..m : from + n - 1 \in from..to
    BY <1>1
  <2> QED
    BY <1>0, <2>1
<1>3. s \in [1..m -> Printed]
  BY <1>2 DEF Printed
<1>4. s \in Seq(Printed)
  BY <1>3
<1>5. Values(s) = [n \in 1..m |-> struct[from + n - 1].content]
  BY DEF Values
<1>6. Contents(name, struct, from, to) = s
  BY <1>1 DEF Contents
<1> QED
  BY <1>1, <1>4, <1>5, <1>6 DEF PrintsRow

-------------------------------------------------------------------------------
(* The fields of the trigger lines, by their number. *)

LinePlace(k) == 5 + (k \div 3) + MaxTrigLine * (k % 3)

LineName(k) == IF k % 3 = 0 THEN "tbp" ELSE IF k % 3 = 1 THEN "tap" ELSE "tav"

LineField(struct, k) ==
  [name |-> LineName(k), value |-> struct[LinePlace(k)].content]

FirstLines(struct, n) == [k \in 1..(3 * n) |-> LineField(struct, k - 1)]

LEMMA Thirds ==
  \A n \in Nat : /\ (3 * n) % 3 = 0 /\ (3 * n + 1) % 3 = 1 /\ (3 * n + 2) % 3 = 2
                 /\ (3 * n) \div 3 = n /\ (3 * n + 1) \div 3 = n /\ (3 * n + 2) \div 3 = n
OBVIOUS

LEMMA LinePlaces ==
  ASSUME NEW n \in Nat
  PROVE  /\ LinePlace(3 * n) = TBP(n) /\ LineName(3 * n) = "tbp"
         /\ LinePlace(3 * n + 1) = TAP(n) /\ LineName(3 * n + 1) = "tap"
         /\ LinePlace(3 * n + 2) = TAV(n) /\ LineName(3 * n + 2) = "tav"
<1>1. PICK M \in Nat : M = MaxTrigLine
  BY BytesAssumption
<1>2. M * 0 = 0 /\ M * 1 = M /\ M * 2 = 2 * M
  OBVIOUS
<1>3. LinePlace(3 * n) = 5 + n + M * 0 /\ LinePlace(3 * n + 1) = 5 + n + M * 1
      /\ LinePlace(3 * n + 2) = 5 + n + M * 2
  BY <1>1, Thirds, Zenon DEF LinePlace
<1>4. TBP(n) = 5 + n /\ TAP(n) = 5 + M + n /\ TAV(n) = 5 + 2 * M + n
  BY <1>1 DEF TBP, TAP, TAV
<1>5. LineName(3 * n) = "tbp" /\ LineName(3 * n + 1) = "tap" /\ LineName(3 * n + 2) = "tav"
  BY Thirds DEF LineName
<1> QED
  BY <1>2, <1>3, <1>4, <1>5

WithThree(s, n, a, b, c) ==
  [k \in 1..(3 * (n + 1)) |->
     IF k = 3 * n + 1 THEN a ELSE IF k = 3 * n + 2 THEN b ELSE IF k = 3 * n + 3 THEN c ELSE s[k]]

LEMMA ThreeMore ==
  ASSUME NEW n \in Nat, NEW T, NEW s, s \in Seq(T), Len(s) = 3 * n,
         NEW a \in T, NEW b \in T, NEW c \in T
  PROVE  s \o <<a, b, c>> = WithThree(s, n, a, b, c)
<1>1. PICK m \in Nat : m = 3 * n
  OBVIOUS
<1>2. 3 * (n + 1) = m + 3
  BY <1>1
<1> DEFINE t == [k \in 1..(m + 3) |-> IF k = m + 1 THEN a ELSE IF k = m + 2 THEN b
                                       ELSE IF k = m + 3 THEN c ELSE s[k]]
<1>3. \A k \in 1..m : s[k] \in T
  BY <1>1
<1>4. t \in Seq(T) /\ Len(t) = m + 3
  <2>1. t \in [1..(m + 3) -> T]
    <3>1. \A k \in 1..(m + 3) : k = m + 1 \/ k = m + 2 \/ k = m + 3 \/ k \in 1..m
      OBVIOUS
    <3> QED
      BY <1>3, <3>1
  <2> HIDE DEF t
  <2> QED
    BY <2>1
<1>5. PICK u : u = <<a, b, c>>
  OBVIOUS
<1>6. u \in Seq(T) /\ Len(u) = 3 /\ u[1] = a /\ u[2] = b /\ u[3] = c
  BY <1>5
<1>7. /\ s \o u \in Seq(T) /\ Len(s \o u) = m + 3
      /\ \A k \in 1..(m + 3) : (s \o u)[k] = IF k <= m THEN s[k] ELSE u[k - m]
  <2>1. /\ s \o u \in Seq(T) /\ Len(s \o u) = Len(s) + Len(u)
        /\ \A k \in 1..(Len(s) + Len(u)) : (s \o u)[k] = IF k <= Len(s) THEN s[k] ELSE u[k - Len(s)]
    BY <1>6, ConcatProperties
  <2> QED
    BY <1>1, <1>6, <2>1
<1>8. ASSUME NEW k \in 1..(m + 3)
      PROVE  (s \o u)[k] = t[k]
  <2>1. k = m + 1 \/ k = m + 2 \/ k = m + 3 \/ k \in 1..m
    OBVIOUS
  <2> QED
    BY <1>6, <1>7, <2>1
<1>9. s \o u = t
  <2> HIDE DEF t
  <2> QED
    BY <1>4, <1>7, <1>8, SeqEqual
<1> QED
  BY <1>1, <1>2, <1>5, <1>9 DEF WithThree

LEMMA FirstLinesMore ==
  ASSUME NEW struct, NEW n \in Nat, FirstLines(struct, n) \in Seq(Printed),
         NEW a \in Printed, a = LineField(struct, 3 * n),
         NEW b \in Printed, b = LineField(struct, 3 * n + 1),
         NEW c \in Printed, c = LineField(struct, 3 * n + 2)
  PROVE  FirstLines(struct, n) \o <<a, b, c>> = FirstLines(struct, n + 1)
<1>1. PICK s \in Seq(Printed) : s = FirstLines(struct, n)
  OBVIOUS
<1>2. Len(s) = 3 * n /\ \A k \in 1..(3 * n) : s[k] = LineField(struct, k - 1)
  BY <1>1 DEF FirstLines
<1>3. s \o <<a, b, c>> = WithThree(s, n, a, b, c)
  BY <1>2, ThreeMore, SMTT(30)
<1>4. ASSUME NEW k \in 1..(3 * (n + 1))
      PROVE  (IF k = 3 * n + 1 THEN a ELSE IF k = 3 * n + 2 THEN b
              ELSE IF k = 3 * n + 3 THEN c ELSE s[k]) = LineField(struct, k - 1)
  <2>1. /\ k = 3 * n + 1 => k - 1 = 3 * n
        /\ k = 3 * n + 2 => k - 1 = 3 * n + 1
        /\ k = 3 * n + 3 => k - 1 = 3 * n + 2
        /\ k \in 1..(3 * n) \/ k = 3 * n + 1 \/ k = 3 * n + 2 \/ k = 3 * n + 3
    OBVIOUS
  <2>2. \A j \in 1..(3 * n) : j # 3 * n + 1 /\ j # 3 * n + 2 /\ j # 3 * n + 3
    OBVIOUS
  <2>3. 3 * n + 1 # 3 * n + 2 /\ 3 * n + 1 # 3 * n + 3 /\ 3 * n + 2 # 3 * n + 3
    OBVIOUS
  <2> QED
    BY <1>2, <2>1, <2>2, <2>3, Zenon
<1>5. s \o <<a, b, c>> = [k \in 1..(3 * (n + 1)) |-> LineField(struct, k - 1)]
  BY <1>3, <1>4, ZenonT(60) DEF WithThree
<1> QED
  BY <1>1, <1>5 DEF FirstLines

(* Elements one behind the other. *)
LEMMA OnesJoined ==
  ASSUME NEW T, NEW a \in T, NEW b \in T, NEW c \in T
  PROVE  <<a>> \o <<b>> = <<a, b>> /\ <<a>> \o <<b>> \o <<c>> = <<a, b, c>>
<1>1. PICK r, s, t : r = <<a>> /\ s = <<b>> /\ t = <<c>>
  OBVIOUS
<1>2. /\ r \in Seq(T) /\ Len(r) = 1 /\ r[1] = a
      /\ s \in Seq(T) /\ Len(s) = 1 /\ s[1] = b
      /\ t \in Seq(T) /\ Len(t) = 1 /\ t[1] = c
  BY <1>1
<1>3. PICK u : u = r \o s
  OBVIOUS
<1>4. u \in Seq(T) /\ Len(u) = 2 /\ u[1] = a /\ u[2] = b
  BY <1>2, <1>3, ConcatProperties
<1>5. PICK v : v = u \o t
  OBVIOUS
<1>6. v \in Seq(T) /\ Len(v) = 3 /\ v[1] = a /\ v[2] = b /\ v[3] = c
  BY <1>2, <1>4, <1>5, ConcatProperties
<1>7. u = <<a, b>> /\ v = <<a, b, c>>
  BY <1>4, <1>6
<1> QED
  BY <1>1, <1>3, <1>5, <1>7

(* The three fields of a line. *)
LEMMA LineOf ==
  ASSUME NEW struct, NEW n \in Nat,
         struct[TBP(n)].content \in Nat, struct[TAP(n)].content \in Nat,
         struct[TAV(n)].content \in Nat
  PROVE  /\ LineField(struct, 3 * n) \in Printed
         /\ LineField(struct, 3 * n + 1) \in Printed
         /\ LineField(struct, 3 * n + 2) \in Printed
         /\ Field("tbp", struct[TBP(n)].content) \o Field("tap", struct[TAP(n)].content)
              \o Field("tav", struct[TAV(n)].content)
              = <<LineField(struct, 3 * n), LineField(struct, 3 * n + 1),
                  LineField(struct, 3 * n + 2)>>
<1>1. PICK a, b, c : /\ a = [name |-> "tbp", value |-> struct[TBP(n)].content]
                     /\ b = [name |-> "tap", value |-> struct[TAP(n)].content]
                     /\ c = [name |-> "tav", value |-> struct[TAV(n)].content]
  OBVIOUS
<1>2. /\ a = LineField(struct, 3 * n) /\ b = LineField(struct, 3 * n + 1)
      /\ c = LineField(struct, 3 * n + 2)
  BY <1>1, LinePlaces, Zenon DEF LineField
<1>3. a \in Printed /\ b \in Printed /\ c \in Printed
  <2>1. PICK x \in Nat, y \in Nat, z \in Nat :
          /\ x = struct[TBP(n)].content /\ y = struct[TAP(n)].content
          /\ z = struct[TAV(n)].content
    OBVIOUS
  <2>2. /\ a = [name |-> "tbp", value |-> x] /\ b = [name |-> "tap", value |-> y]
        /\ c = [name |-> "tav", value |-> z]
    BY <1>1, <2>1
  <2>3. \A name \in Names, value \in Nat : [name |-> name, value |-> value] \in Printed
    BY DEF Printed
  <2>4. "tbp" \in Names /\ "tap" \in Names /\ "tav" \in Names
    BY NamesAre
  <2> QED
    BY <2>2, <2>3, <2>4, Zenon
<1>4. /\ Field("tbp", struct[TBP(n)].content) = <<a>>
      /\ Field("tap", struct[TAP(n)].content) = <<b>>
      /\ Field("tav", struct[TAV(n)].content) = <<c>>
  BY <1>1, Zenon DEF Field
<1>5. <<a>> \o <<b>> \o <<c>> = <<a, b, c>>
  BY <1>3, OnesJoined
<1> QED
  BY <1>2, <1>3, <1>4, <1>5, Zenon

HasLines(struct) ==
  \A n \in Nat : n < MaxTrigLine =>
     /\ struct[TBP(n)].content \in Nat /\ struct[TAP(n)].content \in Nat
     /\ struct[TAV(n)].content \in Nat

LEMMA LineFieldsAre ==
  ASSUME NEW struct, HasLines(struct)
  PROVE  LineFields(struct) \in Seq(Printed) /\ LineFields(struct) = FirstLines(struct, MaxTrigLine)
<1>1. PICK M \in Nat : M = MaxTrigLine
  BY BytesAssumption
<1> DEFINE line(n) == Field("tbp", struct[TBP(n - 1)].content)
                        \o Field("tap", struct[TAP(n - 1)].content)
                        \o Field("tav", struct[TAV(n - 1)].content)
<1>2. PICK seqs : seqs = [n \in 1..M |-> line(n)]
  OBVIOUS
<1>3. ASSUME NEW n \in 0..(M - 1)
      PROVE  /\ LineField(struct, 3 * n) \in Printed
             /\ LineField(struct, 3 * n + 1) \in Printed
             /\ LineField(struct, 3 * n + 2) \in Printed
             /\ seqs[n + 1] = <<LineField(struct, 3 * n), LineField(struct, 3 * n + 1),
                                LineField(struct, 3 * n + 2)>>
  <2>1. n \in Nat /\ n < MaxTrigLine /\ n + 1 \in 1..M /\ (n + 1) - 1 = n
    BY <1>1
  <2>2. /\ struct[TBP(n)].content \in Nat /\ struct[TAP(n)].content \in Nat
        /\ struct[TAV(n)].content \in Nat
    BY <2>1 DEF HasLines
  <2>3. seqs[n + 1] = line(n + 1)
    BY <1>2, <2>1
  <2>4. line(n + 1) = Field("tbp", struct[TBP(n)].content) \o Field("tap", struct[TAP(n)].content)
                        \o Field("tav", struct[TAV(n)].content)
    BY <2>1, Zenon
  <2> HIDE DEF line
  <2> QED
    BY <2>1, <2>2, <2>3, <2>4, LineOf, Zenon
<1>4. AreSeqs(seqs, M, Printed)
  <2> SUFFICES ASSUME NEW m \in 1..M
               PROVE  seqs[m] \in Seq(Printed)
    BY DEF AreSeqs
  <2>1. PICK n \in 0..(M - 1) : m = n + 1
    <3>1. m - 1 \in 0..(M - 1) /\ m = (m - 1) + 1
      OBVIOUS
    <3> QED
      BY <3>1, Zenon
  <2>2. PICK a \in Printed, b \in Printed, c \in Printed : seqs[m] = <<a, b, c>>
    BY <1>3, <2>1, Zenon
  <2> QED
    BY <2>2
<1>5. PICK flat : /\ IsFlattening(flat, seqs, M, Printed)
                  /\ \A n \in 0..M : FlattenSeq([i \in 1..n |-> seqs[i]]) = flat[n]
  BY <1>4, FirstFlattened
<1> HIDE DEF line
<1> DEFINE S == {n \in 0..M : flat[n] = FirstLines(struct, n)}
<1>6. 0 \in S
  <2>1. flat[0] = <<>>
    BY <1>5 DEF IsFlattening
  <2>2. FirstLines(struct, 0) = <<>>
    BY DEF FirstLines
  <2> QED
    BY <2>1, <2>2
<1>7. ASSUME NEW n \in 0..(M - 1), n \in S
      PROVE  n + 1 \in S
  <2>1. n \in Nat /\ n + 1 \in 1..M /\ n + 1 \in 0..M /\ (n + 1) - 1 = n
    OBVIOUS
  <2>2. PICK a \in Printed, b \in Printed, c \in Printed :
           /\ a = LineField(struct, 3 * n) /\ b = LineField(struct, 3 * n + 1)
           /\ c = LineField(struct, 3 * n + 2) /\ seqs[n + 1] = <<a, b, c>>
    BY <1>3, Zenon
  <2>3. flat[n + 1] = flat[n] \o <<a, b, c>>
    <3>1. flat[n + 1] = flat[(n + 1) - 1] \o seqs[n + 1]
      BY <1>5, <2>1, Zenon DEF IsFlattening
    <3> QED
      BY <2>1, <2>2, <3>1, Zenon
  <2>4. flat[n] = FirstLines(struct, n) /\ flat[n] \in Seq(Printed)
    BY <1>5, <1>7 DEF IsFlattening
  <2>5. FirstLines(struct, n) \in Seq(Printed)
    BY <2>4
  <2>6. FirstLines(struct, n) \o <<a, b, c>> = FirstLines(struct, n + 1)
    BY <2>1, <2>2, <2>5, FirstLinesMore
  <2> QED
    BY <2>1, <2>3, <2>4, <2>6
<1>8. M \in S
  <2> HIDE DEF S
  <2> QED
    BY <1>6, <1>7, UpTo
<1>9. [i \in 1..M |-> seqs[i]] = [n \in 1..M |-> line(n)]
  BY <1>2
<1>10. FlattenSeq([i \in 1..M |-> seqs[i]]) = flat[M] /\ flat[M] \in Seq(Printed)
  BY <1>5 DEF IsFlattening
<1>11. LineFields(struct) = FlattenSeq([n \in 1..M |-> line(n)])
  BY <1>1, Zenon DEF LineFields, line
<1> QED
  BY <1>1, <1>8, <1>9, <1>10, <1>11

-------------------------------------------------------------------------------
(* All fields of data, and of monitoring data. *)

LEMMA WordValues ==
  ASSUME NEW w \in TriggerWords
  PROVE  /\ w.content \in Nat /\ NumberOf(w) \in Nat
         /\ w.content % FieldRange \in Nat /\ w.content \div FieldRange \in Nat
<1>1. w.content \in Nat
  BY RangesType DEF TriggerWords
<1>2. PICK c \in Nat, m \in Nat \ {0} : c = w.content /\ m = FieldRange
  BY <1>1, RangesType
<1>3. c % m \in Nat /\ c \div m \in Nat
  OBVIOUS
<1> QED
  BY <1>1, <1>2, <1>3, NumberType

LEMMA OneMore ==
  ASSUME NEW s \in Seq(Printed), NEW v, Values(s) = v, NEW name \in Names, NEW value \in Nat
  PROVE  \E t \in Seq(Printed) : t = s \o Field(name, value) /\ Values(t) = v \o <<value>>
BY ValuesAndOne

FirstFields(struct) ==
     Field("event_id", struct[EventID].content)
  \o Field("orbit_id", NumberOf(struct[OrbitID]))
  \o Field("bc_id", struct[BCID].content % FieldRange)

FirstValues(words) == <<words[2].content, NumberOf(words[3]), words[4].content % FieldRange>>

(* The words that both formats have are those of the payload. *)
Begins(struct, words) ==
  \A k \in {2, 3, 4} : struct[k] = words[k] /\ words[k] \in TriggerWords

LEMMA FirstFieldsAre ==
  ASSUME NEW struct, NEW words, Begins(struct, words)
  PROVE  FirstFields(struct) \in Seq(Printed) /\ Values(FirstFields(struct)) = FirstValues(words)
         /\ FirstValues(words) \in Seq(Nat)
<1>1. PICK a \in Nat, b \in Nat, c \in Nat :
        /\ a = words[2].content /\ b = NumberOf(words[3]) /\ c = words[4].content % FieldRange
  BY WordValues DEF Begins
<1>2. /\ struct[EventID].content = a /\ NumberOf(struct[OrbitID]) = b
      /\ struct[BCID].content % FieldRange = c
  BY <1>1 DEF Begins, EventID, OrbitID, BCID
<1>3. PICK s \in Seq(Printed) : s = Field("event_id", a) /\ Values(s) = <<a>>
  <2>1. PICK name \in Names : name = "event_id"
    BY NamesAre, Zenon
  <2>2. Field(name, a) \in Seq(Printed) /\ Values(Field(name, a)) = <<a>>
    BY ValuesOfOne
  <2> QED
    BY <2>1, <2>2, Zenon
<1>4. PICK t \in Seq(Printed) : t = s \o Field("orbit_id", b) /\ Values(t) = <<a>> \o <<b>>
  <2>1. PICK name \in Names : name = "orbit_id"
    BY NamesAre, Zenon
  <2>2. \E x \in Seq(Printed) : x = s \o Field(name, b) /\ Values(x) = <<a>> \o <<b>>
    BY <1>3, OneMore
  <2> QED
    BY <2>1, <2>2, Zenon
<1>5. PICK u \in Seq(Printed) : u = t \o Field("bc_id", c) /\ Values(u) = <<a>> \o <<b>> \o <<c>>
  <2>1. PICK name \in Names : name = "bc_id"
    BY NamesAre, Zenon
  <2>2. \E x \in Seq(Printed) : x = t \o Field(name, c) /\ Values(x) = (<<a>> \o <<b>>) \o <<c>>
    BY <1>4, OneMore
  <2> QED
    BY <2>1, <2>2, Zenon
<1>6. FirstFields(struct) = u
  BY <1>2, <1>3, <1>4, <1>5, Zenon DEF FirstFields
<1>7. <<a>> \o <<b>> \o <<c>> = <<a, b, c>> /\ <<a, b, c>> \in Seq(Nat)
  <2>1. <<a>> \o <<b>> \o <<c>> = <<a, b, c>>
    BY OnesJoined
  <2>2. <<a, b, c>> \in Seq(Nat)
    OBVIOUS
  <2> QED
    BY <2>1, <2>2
<1> QED
  BY <1>1, <1>5, <1>6, <1>7 DEF FirstValues

LEMMA TwiceJoined ==
  ASSUME NEW v \in Seq(Nat), NEW d \in Nat
  PROVE  v \o <<d>> \o <<d>> = v \o <<d, d>>
<1>1. PICK dd : dd = <<d>>
  OBVIOUS
<1>2. dd \in Seq(Nat)
  BY <1>1
<1>3. (v \o dd) \o dd = v \o (dd \o dd)
  <2>1. \A s, t, u \in Seq(Nat) : (s \o t) \o u = s \o (t \o u)
    BY ConcatAssociative, SMTT(30)
  <2> QED
    BY <1>2, <2>1, Zenon
<1>4. <<d>> \o <<d>> = <<d, d>>
  BY OnesJoined
<1> QED
  BY <1>1, <1>3, <1>4

LEMMA DataFieldsAre ==
  ASSUME NEW struct, NEW version, NEW words, Begins(struct, words),
         struct[5] = words[5], words[5] \in TriggerWords
  PROVE  Values(DataFields(struct, version))
           = FirstValues(words) \o <<NumberOf(words[5]), NumberOf(words[5])>>
               \o <<words[4].content \div FieldRange>>
<1>1. PICK d \in Nat, e \in Nat :
        d = NumberOf(words[5]) /\ e = words[4].content \div FieldRange
  BY WordValues DEF Begins
<1>2. NumberOf(struct[TBPTAP]) = d /\ struct[BCID].content \div FieldRange = e
  BY <1>1 DEF Begins, TBPTAP, BCID
<1>3. PICK s \in Seq(Printed) : s = FirstFields(struct)
  BY FirstFieldsAre
<1>4. PICK v \in Seq(Nat) : v = FirstValues(words) /\ Values(s) = v
  BY <1>3, FirstFieldsAre
<1>5. PICK name \in Names :
        name = IF version < 2 THEN "TAP of bits 8 to 13" ELSE "TAP of bits 6 to 11"
  BY NamesAre, Zenon
<1>6. PICK t \in Seq(Printed) : t = s \o Field(name, d) /\ Values(t) = v \o <<d>>
  BY <1>4, OneMore
<1>7. PICK u \in Seq(Printed) :
        u = t \o Field("TBP and input bits", d) /\ Values(u) = v \o <<d>> \o <<d>>
  <2>1. PICK label \in Names : label = "TBP and input bits"
    BY NamesAre, Zenon
  <2>2. \E x \in Seq(Printed) : x = t \o Field(label, d) /\ Values(x) = (v \o <<d>>) \o <<d>>
    BY <1>6, OneMore
  <2> QED
    BY <2>1, <2>2, Zenon
<1>8. PICK w \in Seq(Printed) :
        w = u \o Field("ext. orbits lost", e) /\ Values(w) = v \o <<d>> \o <<d>> \o <<e>>
  <2>1. PICK label \in Names : label = "ext. orbits lost"
    BY NamesAre, Zenon
  <2>2. \E x \in Seq(Printed) : x = u \o Field(label, e) /\ Values(x) = (v \o <<d>> \o <<d>>) \o <<e>>
    BY <1>7, OneMore
  <2> QED
    BY <2>1, <2>2, Zenon
<1>9. DataFields(struct, version) = w
  BY <1>2, <1>3, <1>5, <1>6, <1>7, <1>8, Zenon DEF DataFields, FirstFields
<1>10. v \o <<d>> \o <<d>> = v \o <<d, d>>
  BY TwiceJoined, Zenon
<1> QED
  BY <1>1, <1>4, <1>8, <1>9, <1>10

(* What was sent, in parts: trigger lines and counters. *)
SentLines(words) == [n \in 1..(3 * MaxTrigLine) |-> words[LinePlace(n - 1)].content]

RowOf(words, from, to) == [n \in 1..(to + 1 - from) |-> words[from + n - 1].content]

ContentsOf(s) == [n \in DOMAIN s |-> s[n].content]

LEMMA RowOfSubSeq ==
  ASSUME NEW words \in Seq(TriggerWords), NEW from \in Nat \ {0}, NEW to \in Nat,
         to <= Len(words), from <= to + 1, NEW counters, counters = SubSeq(words, from, to)
  PROVE  ContentsOf(counters) = RowOf(words, from, to)
<1>1. PICK m \in Nat : m = to + 1 - from
  OBVIOUS
<1>3. \A i \in from..to : words[i] \in TriggerWords
  OBVIOUS
<1>4. /\ counters \in Seq(TriggerWords)
      /\ Len(counters) = IF from <= to THEN to - from + 1 ELSE 0
      /\ \A i \in 1..(to - from + 1) : counters[i] = words[from + i - 1]
  BY <1>3, SubSeqProperties
<1>5. to - from + 1 = m /\ Len(counters) = m
  BY <1>1, <1>4
<1>6. DOMAIN counters = 1..m
  BY <1>4, <1>5
<1>7. \A n \in 1..m : counters[n] = words[from + n - 1]
  BY <1>4, <1>5
<1>8. [n \in 1..m |-> counters[n].content] = [n \in 1..m |-> words[from + n - 1].content]
  BY <1>7
<1> QED
  BY <1>1, <1>6, <1>8, Zenon DEF RowOf, ContentsOf

CountersEnd(version, words) == IF version = 1 THEN Len(words) ELSE Len(words) - 1

LEMMA SentMonitoring ==
  ASSUME NEW words \in Seq(TriggerWords), NEW version,
         NEW from \in Nat \ {0}, from = 5 + 3 * MaxTrigLine,
         NEW to \in Nat, to = CountersEnd(version, words),
         to <= Len(words), from <= to + 1
  PROVE  SentValues("monitoring", version, words)
           = FirstValues(words) \o (SentLines(words) \o RowOf(words, from, to))
               \o <<words[4].content \div FieldRange>>
<1>1. PICK counters : counters = SubSeq(words, from, to)
  OBVIOUS
<1>2. ContentsOf(counters) = RowOf(words, from, to)
  BY <1>1, RowOfSubSeq
<1>3. [n \in 1..(3 * MaxTrigLine) |-> words[5 + ((n - 1) \div 3) + MaxTrigLine * ((n - 1) % 3)].content]
        = SentLines(words)
  BY Zenon DEF SentLines, LinePlace
<1>4. SubSeq(words, 5 + 3 * MaxTrigLine, IF version = 1 THEN Len(words) ELSE Len(words) - 1)
        = counters
  BY <1>1, Zenon DEF CountersEnd
<1>5. SentValues("monitoring", version, words)
        = FirstValues(words) \o (SentLines(words) \o ContentsOf(counters))
            \o <<words[4].content \div FieldRange>>
  BY <1>3, <1>4, Zenon DEF SentValues, FirstValues, ContentsOf
<1> QED
  BY <1>2, <1>5, Zenon

LEMMA SentData ==
  ASSUME NEW words, NEW version
  PROVE  SentValues("data", version, words)
           = FirstValues(words) \o <<NumberOf(words[5]), NumberOf(words[5])>>
               \o <<words[4].content \div FieldRange>>
BY Zenon DEF SentValues, FirstValues

(* The places of trigger lines are before those of the counters. *)
LEMMA LineRange ==
  ASSUME NEW k \in Nat, k < 3 * MaxTrigLine
  PROVE  LinePlace(k) \in 5..(4 + 3 * MaxTrigLine)
<1>1. PICK M \in Nat : M = MaxTrigLine
  BY BytesAssumption
<1>2. PICK d \in Nat : d = k \div 3 /\ d < M
  <2>1. k \div 3 \in Nat /\ 3 * (k \div 3) <= k
    OBVIOUS
  <2> QED
    BY <1>1, <2>1
<1>3. PICK r \in {0, 1, 2} : r = k % 3
  OBVIOUS
<1>4. M * r \in 0..(2 * M)
  BY <1>3
<1>5. 5 + d + M * r \in 5..(4 + 3 * M)
  BY <1>2, <1>4
<1> QED
  BY <1>1, <1>2, <1>3, <1>5 DEF LinePlace

LinesCopied(struct, words) ==
  \A k \in 5..(4 + 3 * MaxTrigLine) : struct[k] = words[k] /\ words[k] \in TriggerWords

LEMMA LinesShown ==
  ASSUME NEW struct, NEW words, LinesCopied(struct, words)
  PROVE  /\ LineFields(struct) \in Seq(Printed)
         /\ Values(LineFields(struct)) = SentLines(words)
<1>1. PICK M \in Nat : M = MaxTrigLine
  BY BytesAssumption
<1>2. ASSUME NEW k \in 5..(4 + 3 * M)
      PROVE  struct[k].content = words[k].content /\ struct[k].content \in Nat
  BY <1>1, <1>2, WordValues DEF LinesCopied
<1>3. HasLines(struct)
  <2>1. ASSUME NEW n \in Nat, n < M
        PROVE  TBP(n) \in 5..(4 + 3 * M) /\ TAP(n) \in 5..(4 + 3 * M) /\ TAV(n) \in 5..(4 + 3 * M)
    BY <1>1, <2>1 DEF TBP, TAP, TAV
  <2> QED
    BY <1>1, <1>2, <2>1 DEF HasLines
<1>4. LineFields(struct) \in Seq(Printed) /\ LineFields(struct) = FirstLines(struct, M)
  BY <1>1, <1>3, LineFieldsAre
<1>5. PICK m \in Nat : m = 3 * M
  OBVIOUS
<1>6. PICK s : s = [k \in 1..m |-> LineField(struct, k - 1)]
  OBVIOUS
<1>7. DOMAIN s = 1..m /\ \A k \in 1..m : s[k] = LineField(struct, k - 1)
  BY <1>6
<1>8. ASSUME NEW k \in 1..m
      PROVE  s[k].value = words[LinePlace(k - 1)].content
  <2>1. s[k].value = struct[LinePlace(k - 1)].content
    <3>1. PICK x : x = struct[LinePlace(k - 1)].content
      OBVIOUS
    <3>2. PICK name : name = LineName(k - 1)
      OBVIOUS
    <3>3. s[k] = [name |-> name, value |-> x]
      BY <1>7, <3>1, <3>2, Zenon DEF LineField
    <3> QED
      BY <3>1, <3>3
  <2>2. k - 1 \in Nat /\ k - 1 < 3 * MaxTrigLine
    BY <1>1, <1>5
  <2>3. LinePlace(k - 1) \in 5..(4 + 3 * M)
    BY <1>1, <2>2, LineRange
  <2> QED
    BY <1>2, <2>1, <2>3
<1>9. Values(s) = [k \in 1..m |-> words[LinePlace(k - 1)].content]
  BY <1>7, <1>8 DEF Values
<1>10. s = FirstLines(struct, M)
  BY <1>5, <1>6 DEF FirstLines
<1> QED
  BY <1>1, <1>4, <1>5, <1>9, <1>10 DEF SentLines

LEMMA LengthOfList ==
  ASSUME NEW n \in Nat, NEW T, NEW s \in [1..n -> T]
  PROVE  s \in Seq(T) /\ Len(s) = n
OBVIOUS

(* Two rows, of which the second begins where the first ends. *)
LEMMA RowsJoined ==
  ASSUME NEW words, NEW from \in Nat, NEW mid \in Nat, NEW to \in Nat, from <= mid, mid <= to + 1,
         \A k \in from..to : words[k].content \in Nat
  PROVE  RowOf(words, from, mid - 1) \o RowOf(words, mid, to) = RowOf(words, from, to)
<1> DEFINE a == RowOf(words, from, mid - 1)
           b == RowOf(words, mid, to)
           c == RowOf(words, from, to)
<1>1. PICK m \in Nat, n \in Nat : m = mid - from /\ n = to + 1 - mid
  OBVIOUS
<1>2. m + n \in Nat /\ m = (mid - 1) + 1 - from /\ m + n = to + 1 - from
  BY <1>1
<1>3. a = [i \in 1..m |-> words[from + i - 1].content]
  BY <1>2 DEF RowOf
<1>4. b = [i \in 1..n |-> words[mid + i - 1].content]
  BY <1>1 DEF RowOf
<1>5. c = [i \in 1..(m + n) |-> words[from + i - 1].content]
  BY <1>2 DEF RowOf
<1> HIDE DEF a, b, c
<1>6. a \in Seq(Nat) /\ Len(a) = m
  <2>1. a \in [1..m -> Nat]
    <3>1. \A i \in 1..m : from + i - 1 \in from..to
      BY <1>1
    <3> QED
      BY <1>3, <3>1
  <2> QED
    BY <2>1, LengthOfList
<1>7. b \in Seq(Nat) /\ Len(b) = n
  <2>1. b \in [1..n -> Nat]
    <3>1. \A i \in 1..n : mid + i - 1 \in from..to
      BY <1>1
    <3> QED
      BY <1>4, <3>1
  <2> QED
    BY <2>1, LengthOfList
<1>8. c \in Seq(Nat) /\ Len(c) = m + n
  <2>1. c \in [1..(m + n) -> Nat]
    <3>1. \A i \in 1..(m + n) : from + i - 1 \in from..to
      BY <1>1
    <3> QED
      BY <1>5, <3>1
  <2> QED
    BY <1>2, <2>1, LengthOfList
<1>9. PICK d : d = a \o b
  OBVIOUS
<1>10. /\ d \in Seq(Nat) /\ Len(d) = m + n
       /\ \A i \in 1..(m + n) : d[i] = IF i <= m THEN a[i] ELSE b[i - m]
  <2>1. /\ a \o b \in Seq(Nat) /\ Len(a \o b) = Len(a) + Len(b)
        /\ \A i \in 1..(Len(a) + Len(b)) : (a \o b)[i] = IF i <= Len(a) THEN a[i] ELSE b[i - Len(a)]
    BY <1>6, <1>7, ConcatProperties
  <2> QED
    BY <1>6, <1>7, <1>9, <2>1
<1>11. ASSUME NEW i \in 1..(m + n)
       PROVE  d[i] = c[i]
  <2>1. CASE i <= m
    <3>1. i \in 1..m
      BY <2>1
    <3> QED
      BY <1>3, <1>5, <1>10, <2>1, <3>1
  <2>2. CASE ~(i <= m)
    <3>1. i - m \in 1..n /\ mid + (i - m) - 1 = from + i - 1
      BY <1>1, <2>2
    <3>2. b[i - m] = words[from + i - 1].content
      BY <1>4, <3>1
    <3> QED
      BY <1>5, <1>10, <2>2, <3>2
  <2> QED
    BY <2>1, <2>2
<1>12. d = c
  BY <1>8, <1>10, <1>11, SeqEqual
<1> QED
  BY <1>9, <1>12 DEF a, b, c

RowCopied(struct, words, from, to) ==
  from <= to + 1 /\ \A k \in from..to : struct[k] = words[k] /\ words[k] \in TriggerWords

ShowsRow(name, struct, words, from, to) ==
  /\ Contents(name, struct, from, to) \in Seq(Printed)
  /\ Values(Contents(name, struct, from, to)) = RowOf(words, from, to)

LEMMA RowShown ==
  ASSUME NEW name \in Names, NEW struct, NEW words, NEW from \in Nat, NEW to \in Nat,
         RowCopied(struct, words, from, to)
  PROVE  ShowsRow(name, struct, words, from, to)
<1>0. from <= to + 1 /\ \A k \in from..to : struct[k] = words[k] /\ words[k] \in TriggerWords
  BY DEF RowCopied
<1>1. \A k \in from..to : struct[k].content = words[k].content /\ struct[k].content \in Nat
  BY <1>0, WordValues
<1>2. /\ Contents(name, struct, from, to) \in Seq(Printed)
      /\ Values(Contents(name, struct, from, to))
           = [n \in 1..(to + 1 - from) |-> struct[from + n - 1].content]
  <2>1. NumberedRow(struct, from, to)
    BY <1>0, <1>1 DEF NumberedRow
  <2>2. PrintsRow(name, struct, from, to)
    BY <2>1, ValuesOfContents
  <2> QED
    BY <2>2, Zenon DEF PrintsRow
<1>3. \A n \in 1..(to + 1 - from) : from + n - 1 \in from..to
  OBVIOUS
<1>4. [n \in 1..(to + 1 - from) |-> struct[from + n - 1].content]
        = [n \in 1..(to + 1 - from) |-> words[from + n - 1].content]
  BY <1>1, <1>3
<1> QED
  BY <1>2, <1>4, Zenon DEF RowOf, ShowsRow

LEMMA NoValues == <<>> \in Seq(Printed) /\ Values(<<>>) = <<>>
BY DEF Values

(* The counters of a payload: what Contents shows of the first, and of the *)
(* last two if there are that many.                                        *)
FirstCounters(struct, version) ==
  Contents("veto", struct, Veto(1), IF version > 1 THEN Veto(5) ELSE Veto(4))

LastCounters(struct, version, size) ==
  IF version > 1 /\ size # WordSize * ORed(1) THEN Contents("ORed", struct, ORed(1), ORed(2)) ELSE <<>>

Copied(struct, version, words, last) ==
  \A k \in 1..last : k < last \/ version = 1 => struct[k] = words[k]

LEMMA CountersShown ==
  ASSUME NEW struct, NEW words \in Seq(TriggerWords), NEW version \in {1, 2},
         NEW last, last = Len(words), LastWord("monitoring", version, last),
         NEW size, size = 4 * last, size \in Sizes("monitoring", version),
         Copied(struct, version, words, last)
  PROVE  /\ FirstCounters(struct, version) \in Seq(Printed)
         /\ LastCounters(struct, version, size) \in Seq(Printed)
         /\ Values(FirstCounters(struct, version)) \o Values(LastCounters(struct, version, size))
              = RowOf(words, 5 + 3 * MaxTrigLine, CountersEnd(version, words))
<1>0. PICK t \in Nat : /\ t = 3 * MaxTrigLine
                       /\ \A n \in Nat : Veto(n) = 4 + t + n /\ ORed(n) = 9 + t + n
                       /\ Sizes("monitoring", 1) = {4 * (8 + t)}
                       /\ Sizes("monitoring", 2) = {4 * (12 + t), 4 * (10 + t)}
  BY Layout
<1>1. /\ t = 3 * MaxTrigLine /\ Veto(1) = 5 + t /\ Veto(4) = 8 + t /\ Veto(5) = 9 + t
      /\ ORed(1) = 10 + t /\ ORed(2) = 11 + t
      /\ Sizes("monitoring", 1) = {4 * (8 + t)}
      /\ Sizes("monitoring", 2) = {4 * (12 + t), 4 * (10 + t)}
  <2>1. \A n \in Nat : Veto(n) = 4 + t + n
    BY <1>0
  <2>2. \A n \in Nat : ORed(n) = 9 + t + n
    BY <1>0
  <2>3. Veto(1) = 5 + t /\ Veto(4) = 8 + t /\ Veto(5) = 9 + t
    <3>1. Veto(1) = 5 + t
      BY <2>1
    <3>2. Veto(4) = 8 + t
      BY <2>1
    <3>3. Veto(5) = 9 + t
      BY <2>1
    <3> QED
      BY <3>1, <3>2, <3>3
  <2>4. ORed(1) = 10 + t /\ ORed(2) = 11 + t
    BY <2>2
  <2> QED
    BY <1>0, <2>3, <2>4, Zenon
<1>2. PICK from \in Nat : from = 5 + t
  OBVIOUS
<1>3. PICK veto \in Names, ored \in Names : veto = "veto" /\ ored = "ORed"
  BY NamesAre, Zenon
<1>4. \A k \in 1..last : words[k] \in TriggerWords
  OBVIOUS
<1>5. \A k \in 1..last : k < last \/ version = 1 => struct[k] = words[k] /\ words[k] \in TriggerWords
  BY <1>4 DEF Copied
<1>6. ASSUME NEW to \in Nat, to <= last, to < last \/ version = 1, to >= from
      PROVE  RowCopied(struct, words, from, to)
  <2>1. \A k \in from..to : k \in 1..last /\ (k < last \/ version = 1)
    BY <1>2, <1>6 DEF LastWord
  <2>2. from <= to + 1
    BY <1>6
  <2> QED
    BY <1>5, <2>1, <2>2, Zenon DEF RowCopied
<1>7. CASE version = 1
  <2>1. last = 8 + t
    BY <1>1, <1>7, SMTT(30) DEF LastWord
  <2>2. PICK to \in Nat : to = 8 + t
    OBVIOUS
  <2>3. FirstCounters(struct, version) = Contents(veto, struct, from, to)
    BY <1>1, <1>2, <1>3, <1>7, <2>2 DEF FirstCounters
  <2>4. LastCounters(struct, version, size) = <<>>
    BY <1>7 DEF LastCounters
  <2>5. /\ Contents(veto, struct, from, to) \in Seq(Printed)
        /\ Values(Contents(veto, struct, from, to)) = RowOf(words, from, to)
    <3>1. to <= last /\ (to < last \/ version = 1) /\ to >= from
      BY <1>2, <1>7, <2>1, <2>2
    <3>2. ShowsRow(veto, struct, words, from, to)
      BY <1>6, <3>1, RowShown
    <3> QED
      BY <3>2, Zenon DEF ShowsRow
  <2>6. Values(Contents(veto, struct, from, to)) \o <<>> = Values(Contents(veto, struct, from, to))
    BY <2>5, ValuesType, ConcatEmptySeq
  <2>7. CountersEnd(version, words) = to
    BY <1>7, <2>1, <2>2 DEF CountersEnd
  <2> QED
    BY <1>1, <1>2, <2>3, <2>4, <2>5, <2>6, <2>7, NoValues
<1>8. CASE version = 2 /\ last = 10 + t
  <2>2. PICK to \in Nat : to = 9 + t
    OBVIOUS
  <2>3. FirstCounters(struct, version) = Contents(veto, struct, from, to)
    BY <1>1, <1>2, <1>3, <1>8, <2>2 DEF FirstCounters
  <2>4. LastCounters(struct, version, size) = <<>>
    BY <1>1, <1>8 DEF LastCounters, WordSize
  <2>5. /\ Contents(veto, struct, from, to) \in Seq(Printed)
        /\ Values(Contents(veto, struct, from, to)) = RowOf(words, from, to)
    <3>1. to <= last /\ (to < last \/ version = 1) /\ to >= from
      BY <1>2, <1>8, <2>2
    <3>2. ShowsRow(veto, struct, words, from, to)
      BY <1>6, <3>1, RowShown
    <3> QED
      BY <3>2, Zenon DEF ShowsRow
  <2>6. Values(Contents(veto, struct, from, to)) \o <<>> = Values(Contents(veto, struct, from, to))
    BY <2>5, ValuesType, ConcatEmptySeq
  <2>7. CountersEnd(version, words) = to
    BY <1>8, <2>2 DEF CountersEnd
  <2> QED
    BY <1>1, <1>2, <2>3, <2>4, <2>5, <2>6, <2>7, NoValues
<1>9. CASE version = 2 /\ last = 12 + t
  <2>1. PICK mid \in Nat, to \in Nat : mid = 10 + t /\ to = 11 + t /\ mid - 1 = 9 + t
    OBVIOUS
  <2>2. PICK before \in Nat : before = mid - 1 /\ before = 9 + t
    BY <2>1
  <2>3. FirstCounters(struct, version) = Contents(veto, struct, from, before)
    <3>1. Veto(1) = from /\ Veto(5) = before
      BY <1>1, <1>2, <2>2, Zenon
    <3>2. version > 1
      BY <1>9
    <3> QED
      BY <1>3, <3>1, <3>2, Zenon DEF FirstCounters
  <2>4. LastCounters(struct, version, size) = Contents(ored, struct, mid, to)
    <3>1. version > 1 /\ size # WordSize * ORed(1)
      <4>1. version > 1
        BY <1>9
      <4>2. size = 4 * last /\ last = 12 + t
        BY <1>9
      <4>3. ORed(1) = 10 + t
        BY <1>1
      <4>4. PICK o \in Nat : o = 10 + t
        OBVIOUS
      <4>5. size # 4 * o
        BY <4>2, <4>4
      <4>6. WordSize * ORed(1) = 4 * o
        BY <4>3, <4>4 DEF WordSize
      <4> QED
        BY <4>1, <4>5, <4>6
    <3> QED
      BY <1>1, <1>3, <2>1, <3>1 DEF LastCounters
  <2>5. \A k \in from..to : struct[k] = words[k] /\ words[k] \in TriggerWords
    <3>1. to <= last /\ to < last /\ to >= from
      BY <1>2, <1>9, <2>1
    <3>2. RowCopied(struct, words, from, to)
      BY <1>6, <3>1
    <3> QED
      BY <3>2 DEF RowCopied
  <2>6. /\ Contents(veto, struct, from, before) \in Seq(Printed)
        /\ Values(Contents(veto, struct, from, before)) = RowOf(words, from, before)
    <3>1. \A k \in from..before : k \in from..to
      BY <2>1, <2>2
    <3>2. from <= before + 1
      BY <1>2, <2>2
    <3>3. RowCopied(struct, words, from, before)
      BY <2>5, <3>1, <3>2, Zenon DEF RowCopied
    <3>4. ShowsRow(veto, struct, words, from, before)
      BY <3>3, RowShown
    <3> QED
      BY <3>4, Zenon DEF ShowsRow
  <2>7. /\ Contents(ored, struct, mid, to) \in Seq(Printed)
        /\ Values(Contents(ored, struct, mid, to)) = RowOf(words, mid, to)
    <3>1. \A k \in mid..to : k \in from..to
      BY <1>2, <2>1
    <3>2. mid <= to + 1
      BY <2>1
    <3>3. RowCopied(struct, words, mid, to)
      BY <2>5, <3>1, <3>2, Zenon DEF RowCopied
    <3>4. ShowsRow(ored, struct, words, mid, to)
      BY <3>3, RowShown
    <3> QED
      BY <3>4, Zenon DEF ShowsRow
  <2>8. RowOf(words, from, mid - 1) \o RowOf(words, mid, to) = RowOf(words, from, to)
    <3>1. from <= mid /\ mid <= to + 1
      BY <1>2, <2>1
    <3>2. \A k \in from..to : words[k].content \in Nat
      BY <2>5, WordValues
    <3> QED
      BY <3>1, <3>2, RowsJoined
  <2>9. CountersEnd(version, words) = to
    BY <1>9, <2>1 DEF CountersEnd
  <2>10. RowOf(words, from, before) \o RowOf(words, mid, to) = RowOf(words, from, to)
    BY <2>2, <2>8, Zenon
  <2>11. 5 + 3 * MaxTrigLine = from
    BY <1>1, <1>2
  <2>12. /\ FirstCounters(struct, version) \in Seq(Printed)
         /\ Values(FirstCounters(struct, version)) = RowOf(words, from, before)
    BY <2>3, <2>6, Zenon
  <2>13. /\ LastCounters(struct, version, size) \in Seq(Printed)
         /\ Values(LastCounters(struct, version, size)) = RowOf(words, mid, to)
    BY <2>4, <2>7, Zenon
  <2>14. RowOf(words, 5 + 3 * MaxTrigLine, CountersEnd(version, words)) = RowOf(words, from, to)
    BY <2>9, <2>11, Zenon
  <2>15. Values(FirstCounters(struct, version)) \o Values(LastCounters(struct, version, size))
          = RowOf(words, from, before) \o RowOf(words, mid, to)
    <3>1. PICK a, b : a = RowOf(words, from, before) /\ b = RowOf(words, mid, to)
      OBVIOUS
    <3>2. Values(FirstCounters(struct, version)) = a /\ Values(LastCounters(struct, version, size)) = b
      BY <2>12, <2>13, <3>1, Zenon
    <3> QED
      BY <3>1, <3>2
  <2>16. Values(FirstCounters(struct, version)) \o Values(LastCounters(struct, version, size))
          = RowOf(words, 5 + 3 * MaxTrigLine, CountersEnd(version, words))
    BY <2>10, <2>14, <2>15, Zenon
  <2> QED
    BY <2>12, <2>13, <2>16, Zenon
<1>10. ASSUME version = 2
       PROVE  last = 10 + t \/ last = 12 + t
  <2>1. last \in Nat
    BY DEF LastWord
  <2>2. size \in {4 * (12 + t), 4 * (10 + t)}
    BY <1>1, <1>10
  <2> QED
    BY <2>1, <2>2
<1> QED
  BY <1>7, <1>8, <1>9, <1>10

(* Five parts, of which the middle ones belong together. *)
SameJoined(s, t, u) == (s \o t) \o u = s \o (t \o u)

LEMMA Associates ==
  ASSUME NEW s \in Seq(Nat), NEW t \in Seq(Nat), NEW u \in Seq(Nat)
  PROVE  SameJoined(s, t, u) /\ s \o t \in Seq(Nat)
<1>1. (s \o t) \o u = s \o (t \o u)
  BY ConcatAssociative, SMTT(30)
<1>2. s \o t \in Seq(Nat)
  BY ConcatProperties
<1> QED
  BY <1>1, <1>2, Zenon DEF SameJoined

SameGrouped(f, l, p, q) == f \o l \o p \o q = f \o (l \o (p \o q))

LEMMA Regrouped ==
  ASSUME NEW f \in Seq(Nat), NEW l \in Seq(Nat), NEW p \in Seq(Nat), NEW q \in Seq(Nat)
  PROVE  SameGrouped(f, l, p, q)
<1>1. PICK lp \in Seq(Nat) : lp = l \o p
  BY Associates
<1>2. SameJoined(f, l, p) /\ SameJoined(f, lp, q) /\ SameJoined(l, p, q)
  BY Associates
<1>3. (f \o l) \o p = f \o lp
  BY <1>1, <1>2, Zenon DEF SameJoined
<1>4. (f \o lp) \o q = f \o (lp \o q)
  BY <1>2, Zenon DEF SameJoined
<1>5. (l \o p) \o q = l \o (p \o q)
  BY <1>2, Zenon DEF SameJoined
<1>6. lp \o q = l \o (p \o q)
  BY <1>1, <1>5, Zenon
<1> QED
  BY <1>3, <1>4, <1>6, Zenon DEF SameGrouped

LEMMA MonitoringFieldsAre ==
  ASSUME NEW struct, NEW words \in Seq(TriggerWords), NEW version \in {1, 2},
         NEW last, last = Len(words), LastWord("monitoring", version, last),
         NEW size, size = 4 * last, size \in Sizes("monitoring", version),
         Copied(struct, version, words, last)
  PROVE  Values(MonitoringFields(struct, version, size)) = SentValues("monitoring", version, words)
<1>1. PICK t \in Nat : /\ t = 3 * MaxTrigLine
                       /\ Sizes("monitoring", 1) = {4 * (8 + t)}
                       /\ Sizes("monitoring", 2) = {4 * (12 + t), 4 * (10 + t)}
  BY Layout
<1>2. last \in Nat /\ last >= 8 + t /\ (last = 8 + t => version = 1)
  <2>1. last \in Nat
    BY DEF LastWord
  <2>2. CASE version = 1
    <3>1. size \in {4 * (8 + t)}
      BY <1>1, <2>2
    <3> QED
      BY <2>1, <2>2, <3>1
  <2>3. CASE version = 2
    <3>1. size \in {4 * (12 + t), 4 * (10 + t)}
      BY <1>1, <2>3
    <3> QED
      BY <2>1, <2>3, <3>1
  <2> QED
    BY <2>2, <2>3
<1>3. ASSUME NEW k \in 1..(4 + t)
      PROVE  struct[k] = words[k] /\ words[k] \in TriggerWords
  <2>1. k \in 1..last /\ k < last
    BY <1>2
  <2>2. words[k] \in TriggerWords
    BY <2>1
  <2> QED
    BY <2>1, <2>2 DEF Copied
<1>4. Begins(struct, words)
  BY <1>3 DEF Begins
<1>5. LinesCopied(struct, words)
  <2>1. \A k \in 5..(4 + t) : k \in 1..(4 + t)
    OBVIOUS
  <2> QED
    BY <1>1, <1>3, <2>1 DEF LinesCopied
<1>6. PICK e \in Nat : e = words[4].content \div FieldRange
  <2>1. words[4] \in TriggerWords
    BY <1>4 DEF Begins
  <2> QED
    BY <2>1, WordValues
<1>7. struct[BCID].content \div FieldRange = e
  BY <1>4, <1>6 DEF Begins, BCID
<1>8. PICK f \in Seq(Printed) : f = FirstFields(struct) /\ Values(f) = FirstValues(words)
  BY <1>4, FirstFieldsAre
<1>9. PICK l \in Seq(Printed) : l = LineFields(struct) /\ Values(l) = SentLines(words)
  BY <1>5, LinesShown
<1>10. PICK p \in Seq(Printed), q \in Seq(Printed) :
         /\ p = FirstCounters(struct, version) /\ q = LastCounters(struct, version, size)
         /\ Values(p) \o Values(q) = RowOf(words, 5 + 3 * MaxTrigLine, CountersEnd(version, words))
  BY CountersShown, ZenonT(60)
<1>11. PICK fv \in Seq(Nat), lv \in Seq(Nat), pv \in Seq(Nat), qv \in Seq(Nat) :
         fv = Values(f) /\ lv = Values(l) /\ pv = Values(p) /\ qv = Values(q)
  BY ValuesType, Zenon
<1>12. f \o l \in Seq(Printed) /\ Values(f \o l) = fv \o lv
  BY <1>11, ValuesJoined, Zenon
<1>13. f \o l \o p \in Seq(Printed) /\ Values(f \o l \o p) = fv \o lv \o pv
  BY <1>11, <1>12, ValuesJoined, Zenon
<1>14. f \o l \o p \o q \in Seq(Printed) /\ Values(f \o l \o p \o q) = fv \o lv \o pv \o qv
  BY <1>11, <1>13, ValuesJoined, Zenon
<1>15. PICK name \in Names : name = "ext. orbits lost"
  BY NamesAre, Zenon
<1>16. Values(f \o l \o p \o q \o Field(name, e)) = fv \o lv \o pv \o qv \o <<e>>
  BY <1>14, ValuesAndOne, Zenon
<1>17. MonitoringFields(struct, version, size) = f \o l \o p \o q \o Field(name, e)
  BY <1>7, <1>8, <1>9, <1>10, <1>15, Zenon
     DEF MonitoringFields, FirstFields, FirstCounters, LastCounters
<1>18. fv \o lv \o pv \o qv = fv \o (lv \o (pv \o qv))
  <2>1. SameGrouped(fv, lv, pv, qv)
    BY Regrouped
  <2> QED
    BY <2>1, Zenon DEF SameGrouped
<1>19. PICK from \in Nat \ {0}, to \in Nat :
         /\ from = 5 + 3 * MaxTrigLine /\ to = CountersEnd(version, words)
         /\ to <= Len(words) /\ from <= to + 1
  <2>1. CountersEnd(version, words) = IF version = 1 THEN last ELSE last - 1
    BY DEF CountersEnd
  <2>2. PICK from \in Nat \ {0} : from = 5 + t /\ from = 5 + 3 * MaxTrigLine
    BY <1>1, SMTT(30)
  <2>3. PICK to \in Nat : to = CountersEnd(version, words) /\ to <= last /\ to >= 7 + t
                         /\ (to = 7 + t => version = 2 /\ last = 8 + t)
    BY <1>2, <2>1
  <2>4. to <= Len(words) /\ from <= to + 1
    BY <1>2, <2>2, <2>3
  <2> QED
    BY <2>2, <2>3, <2>4, Zenon
<1>20. SentValues("monitoring", version, words)
         = FirstValues(words) \o (SentLines(words) \o RowOf(words, from, to)) \o <<e>>
  BY <1>6, <1>19, SentMonitoring, Zenon
<1>21. fv \o (lv \o (pv \o qv)) \o <<e>> = SentValues("monitoring", version, words)
  BY <1>8, <1>9, <1>10, <1>11, <1>19, <1>20, Zenon
<1> QED
  BY <1>16, <1>17, <1>18, <1>21, Zenon

(* What was sent is printed, all of it. *)
LEMMA SentShown ==
  ASSUME NEW sent, SentByTrigger(sent), NEW garbage
  PROVE  Values(Fields(TLBFragment(sent.format, sent.payload, garbage)))
           = SentValues(sent.format, sent.version, sent.payload.words)
<1>1. PICK F \in Formats, version \in {1, 2} : F = sent.format /\ version = sent.version
  BY SentIs
<1>2. PICK payload : payload = sent.payload
  OBVIOUS
<1>3. PICK words \in Seq(TriggerWords) : words = payload.words
  BY <1>2, SentIs
<1>4. PICK last : last = Len(words)
  OBVIOUS
<1>5. PICK size : size = payload.size
  OBVIOUS
<1>6. LastWord(F, version, last) /\ size = 4 * last /\ size \in Sizes(F, version)
  BY <1>1, <1>2, <1>3, <1>4, <1>5, SentIs
<1>7. PICK f : f = TLBFragment(F, payload, garbage)
  OBVIOUS
<1>8. f.format = F /\ f.size = size
  BY <1>5, <1>7 DEF TLBFragment
<1>9. f.version = version
  BY <1>1, <1>2, <1>7, SentValid
<1>10. PICK struct : struct = f.event
  OBVIOUS
<1>11. Taken(struct, F, version, words, last)
  <2>1. payload.size = sent.payload.size /\ payload.words[1] = sent.payload.words[1]
    BY <1>2
  <2>2. Taken(TLBFragment(F, payload, garbage).event, F, sent.version, payload.words,
              Len(sent.payload.words))
    BY <1>1, <2>1, SentTaken
  <2> QED
    BY <1>1, <1>2, <1>3, <1>4, <1>7, <1>10, <2>2, Zenon
<1>12. Copied(struct, version, words, last)
  BY <1>11, Zenon DEF Taken, Copied
<1>13. CASE F = "data"
  <2>1. ChecksumAt("data") = 6
    BY Layout
  <2>2. last \in Nat /\ last >= 5 /\ (last = 5 => version = 1)
    <3>1. Sizes("data", 2) = {24}
      BY Layout
    <3> QED
      BY <1>6, <1>13, <2>1, <3>1 DEF LastWord
  <2>3. ASSUME NEW k \in 1..5
        PROVE  struct[k] = words[k] /\ words[k] \in TriggerWords
    <3>1. k \in 1..last /\ (k < last \/ version = 1)
      BY <2>2
    <3>2. words[k] \in TriggerWords
      BY <1>4, <3>1
    <3> QED
      BY <1>12, <3>1, <3>2 DEF Copied
  <2>4. Begins(struct, words)
    BY <2>3 DEF Begins
  <2>5. Fields(f) = DataFields(struct, version)
    BY <1>8, <1>9, <1>10, <1>13, Zenon DEF Fields
  <2>6. Values(DataFields(struct, version))
          = FirstValues(words) \o <<NumberOf(words[5]), NumberOf(words[5])>>
              \o <<words[4].content \div FieldRange>>
    BY <2>3, <2>4, DataFieldsAre, SMTT(30)
  <2>7. Values(DataFields(struct, version)) = SentValues("data", version, words)
    BY <2>6, SentData, Zenon
  <2> QED
    BY <1>1, <1>2, <1>3, <1>7, <1>13, <2>5, <2>7, Zenon
<1>14. CASE F = "monitoring"
  <2>1. F # "data"
    BY <1>14
  <2>2. Fields(f) = MonitoringFields(struct, version, size)
    BY <1>8, <1>9, <1>10, <2>1, Zenon DEF Fields
  <2>3. LastWord("monitoring", version, last) /\ size \in Sizes("monitoring", version)
    BY <1>6, <1>14
  <2>4. Values(MonitoringFields(struct, version, size)) = SentValues("monitoring", version, words)
    BY <1>4, <1>6, <1>12, <2>3, MonitoringFieldsAre
  <2> QED
    BY <1>1, <1>2, <1>3, <1>7, <1>14, <2>2, <2>4, Zenon
<1> QED
  BY <1>13, <1>14 DEF Formats

(* What a valid fragment shows. *)
LEMMA ValidShows ==
  ASSUME NEW f, TLBValid(f), NEW debug
  PROVE  TLBPrint(f, debug).corrupted = {} /\ TLBPrint(f, debug).shown = Fields(f)
<1>1. PICK fields : fields = Fields(f)
  OBVIOUS
<1>2. TLBPrint(f, debug) = [shown |-> fields, corrupted |-> {}]
  BY <1>1, Zenon DEF TLBPrint, Readable
<1>3. PICK print : print = [shown |-> fields, corrupted |-> {}]
  OBVIOUS
<1>4. print.corrupted = {} /\ print.shown = fields
  BY <1>3
<1> QED
  BY <1>1, <1>2, <1>3, <1>4, Zenon

(* For any widths and number of trigger lines, what a trigger board sent   *)
(* and the event's tag announces is printed completely; of everything that *)
(* is damaged and should be found so, only the unguarded event id.         *)
THEOREM TriggerCorrect == Spec => []TriggerAsSent
<1>1. ShownInv => TriggerAsSent
  <2> SUFFICES ASSUME ShownInv, NEW s \in shown, s.of.source = "trigger"
               PROVE  LET sent == s.of.sent
                      IN  IF s.of.fault = "none" /\ sent.format = FormatOfTag
                          THEN /\ s.print.corrupted = {}
                               /\ Values(s.print.shown)
                                    = SentValues(sent.format, sent.version, sent.payload.words)
                          ELSE ~options.debug /\ (sent.version = 2
                                 \/ s.of.fault \in {"none", "size", "header"}) =>
                               s.print.corrupted # {} /\ Len(s.print.shown) = 1
    BY DEF TriggerAsSent
  <2>1. PICK sent, payload, fault : sent = s.of.sent /\ payload = s.of.payload /\ fault = s.of.fault
    OBVIOUS
  <2>2. SentByTrigger(sent) /\ DamagedTrigger(fault, sent, payload)
    BY <2>1 DEF ShownInv, Labelled
  <2>3. PICK F \in Formats : F = FormatOfTag
    BY DEF FormatOfTag, Formats
  <2>4. PICK garbage, debug : debug = options.debug
                              /\ s.print = TLBPrint(TLBFragment(F, payload, garbage), debug)
    BY <2>1, <2>3 DEF ShownInv, PrintOf
  <2>5. ASSUME fault = "none", sent.format = F
        PROVE  /\ s.print.corrupted = {}
               /\ Values(s.print.shown) = SentValues(sent.format, sent.version, sent.payload.words)
    <3>1. payload = sent.payload
      BY <2>2, <2>5 DEF DamagedTrigger
    <3>2. TLBFragment(F, payload, garbage) = TLBFragment(sent.format, sent.payload, garbage)
      BY <2>5, <3>1, Zenon
    <3>3. TLBValid(TLBFragment(F, payload, garbage))
      BY <2>2, <3>2, SentValid, Zenon
    <3>4. s.print.corrupted = {} /\ s.print.shown = Fields(TLBFragment(F, payload, garbage))
      BY <2>4, <3>3, ValidShows, ZenonT(60)
    <3>5. Values(Fields(TLBFragment(F, payload, garbage)))
            = SentValues(sent.format, sent.version, sent.payload.words)
      BY <2>2, <3>2, SentShown, Zenon
    <3> QED
      BY <3>4, <3>5, Zenon
  <2>6. ASSUME ~(fault = "none" /\ sent.format = F), ~debug,
               sent.version = 2 \/ fault \in {"none", "size", "header"}
        PROVE  s.print.corrupted # {} /\ Len(s.print.shown) = 1
    <3>1. ~TLBValid(TLBFragment(F, payload, garbage))
      <4>1. Refuses(F, payload, garbage)
        BY <2>2, <2>6, DamageRefused
      <4> QED
        BY <4>1, Zenon DEF Refuses
    <3>2. PICK f : f = TLBFragment(F, payload, garbage)
      OBVIOUS
    <3>3. ~TLBValid(f) /\ ~debug
      BY <2>6, <3>1, <3>2, Zenon
    <3>4. TLBPrint(f, debug).corrupted # {} /\ Len(TLBPrint(f, debug).shown) = 1
      BY <3>3, RefusedShows
    <3>5. s.print = TLBPrint(f, debug)
      BY <2>4, <3>2, Zenon
    <3> QED
      BY <3>4, <3>5
  <2> QED
    BY <2>1, <2>3, <2>4, <2>5, <2>6, Zenon
<1> QED
  BY <1>1, ShownInvariant, PTL

===============================================================================
