------------------------------- MODULE Recursion -------------------------------
(***************************************************************************)
(* Induction and recursion, as lemmas about sets and functions, for the    *)
(* proofs about loops and folds: a recursive function is written CHOOSE g  *)
(* with g = [... g[n - 1] ...], so its equation holds only if some         *)
(* function satisfies it.  At the end, facts about sequences that several  *)
(* proofs use.                                                             *)
(***************************************************************************)
EXTENDS Integers, SequencesExt, FiniteSetsExt, WellFoundedInduction, FiniteSetTheorems,
        SequenceTheorems, TLAPS

-------------------------------------------------------------------------------
(* Induction. *)

(* A set of natural numbers has a least member. *)
LEMMA LeastNatural ==
  ASSUME NEW T, T \subseteq Nat, T # {}
  PROVE  \E x \in T : \A y \in T : x <= y
<1> DEFINE R == {ss \in Nat \X Nat : ss[1] < ss[2]}
<1>1. IsWellFoundedOn(R, Nat)
  BY NatLessThanWellFounded DEF OpToRel
<1>2. PICK x \in T : \A y \in T : <<y, x>> \notin R
  <2> HIDE DEF R
  <2> QED
    BY <1>1, WFMin
<1>3. ASSUME NEW y \in T
      PROVE  x <= y
  <2>1. ~(y < x)
    BY <1>2
  <2> QED
    BY <2>1
<1> QED
  BY <1>3

(* A set with zero and with the successor of each member it has up to a    *)
(* bound has all numbers up to the bound.                                  *)
LEMMA UpTo ==
  ASSUME NEW N \in Nat, NEW S, 0 \in S, \A n \in 0..(N - 1) : n \in S => n + 1 \in S
  PROVE  0..N \subseteq S
<1> SUFFICES ASSUME (0..N) \ S # {}
             PROVE  FALSE
  OBVIOUS
<1>1. PICK x \in (0..N) \ S : \A y \in (0..N) \ S : x <= y
  <2>1. (0..N) \ S \subseteq Nat
    OBVIOUS
  <2> QED
    BY <2>1, LeastNatural
<1>2. x \in 1..N /\ x - 1 \in 0..(N - 1)
  OBVIOUS
<1>3. x - 1 \in S
  BY <1>1, <1>2
<1> QED
  BY <1>2, <1>3

LEMMA AllNaturals ==
  ASSUME NEW S, 0 \in S, \A n \in Nat : n \in S => n + 1 \in S
  PROVE  Nat \subseteq S
<1> SUFFICES ASSUME NEW N \in Nat
             PROVE  N \in S
  OBVIOUS
<1>1. 0..N \subseteq S
  BY UpTo
<1> QED
  BY <1>1

(* A collection with each subset of S that it has without any one member   *)
(* has all subsets of S.                                                   *)
LEMMA AllSubsets ==
  ASSUME NEW S, IsFiniteSet(S), NEW Q,
         \A T \in SUBSET S : (\A x \in T : T \ {x} \in Q) => T \in Q
  PROVE  SUBSET S \subseteq Q
<1> DEFINE M == {n \in Nat : \A T \in SUBSET S : Cardinality(T) = n => T \in Q}
<1>1. ASSUME NEW T \in SUBSET S
      PROVE  /\ Cardinality(T) \in Nat
             /\ Cardinality(T) = 0 <=> T = {}
             /\ \A x \in T : T \ {x} \in SUBSET S /\ Cardinality(T \ {x}) = Cardinality(T) - 1
  <2>1. IsFiniteSet(T)
    BY FS_Subset
  <2> QED
    BY <2>1, FS_CardinalityType, FS_EmptySet, FS_RemoveElement
<1>2. 0 \in M
  BY <1>1
<1>3. ASSUME NEW n \in Nat, n \in M
      PROVE  n + 1 \in M
  <2> SUFFICES ASSUME NEW T \in SUBSET S, Cardinality(T) = n + 1
               PROVE  T \in Q
    OBVIOUS
  <2>1. ASSUME NEW x \in T
        PROVE  T \ {x} \in Q
    <3>1. T \ {x} \in SUBSET S /\ Cardinality(T \ {x}) = n
      BY <1>1
    <3> QED
      BY <1>3, <3>1
  <2> QED
    BY <2>1
<1>4. Nat \subseteq M
  <2> HIDE DEF M
  <2> QED
    BY <1>2, <1>3, AllNaturals
<1>5. SUFFICES ASSUME NEW T \in SUBSET S
               PROVE  T \in Q
  OBVIOUS
<1>6. Cardinality(T) \in M
  <2> HIDE DEF M
  <2> QED
    BY <1>1, <1>4
<1> QED
  BY <1>6

-------------------------------------------------------------------------------
(* Loops: the value after round n comes from that after round n - 1. *)

IsLoop(N, start, step, g) ==
  /\ g[0] = start
  /\ \A n \in 1..N : g[n] = step[n][g[n - 1]]

LEMMA LoopExists ==
  ASSUME NEW N \in Nat, NEW D, NEW start \in D, NEW step \in [1..N -> [D -> D]]
  PROVE  \E g \in [0..N -> D] : IsLoop(N, start, step, g)
<1> DEFINE Loop(m, g) ==
             /\ g \in [0..m -> D]
             /\ g[0] = start
             /\ \A n \in 1..m : g[n] = step[n][g[n - 1]]
           S == {m \in 0..N : \E g : Loop(m, g)}
<1>1. 0 \in S
  <2>1. Loop(0, [n \in 0..0 |-> start])
    OBVIOUS
  <2> HIDE DEF Loop
  <2> QED
    BY <2>1
<1>2. ASSUME NEW m \in 0..(N - 1), m \in S
      PROVE  m + 1 \in S
  <2>1. PICK g : Loop(m, g)
    BY <1>2
  <2> DEFINE h == [n \in 0..(m + 1) |-> IF n = m + 1 THEN step[m + 1][g[m]] ELSE g[n]]
  <2>2. m + 1 \in 1..N /\ g[m] \in D /\ step[m + 1][g[m]] \in D
    BY <2>1
  <2>3. h \in [0..(m + 1) -> D] /\ h[0] = start
    BY <2>1, <2>2
  <2>4. ASSUME NEW n \in 1..(m + 1)
        PROVE  h[n] = step[n][h[n - 1]]
    <3>1. h[n - 1] = g[n - 1]
      OBVIOUS
    <3>2. CASE n = m + 1
      BY <3>1, <3>2
    <3>3. CASE n # m + 1
      <4>1. n \in 1..m /\ h[n] = g[n]
        BY <3>3
      <4> HIDE DEF h
      <4> QED
        BY <2>1, <3>1, <4>1
    <3> QED
      BY <3>2, <3>3
  <2>5. Loop(m + 1, h)
    <3> HIDE DEF h
    <3> QED
      BY <2>3, <2>4
  <2> HIDE DEF Loop
  <2> QED
    BY <2>2, <2>5
<1>3. N \in S
  <2> HIDE DEF S
  <2>1. 0..N \subseteq S
    BY <1>1, <1>2, UpTo
  <2> QED
    BY <2>1
<1>4. PICK g : Loop(N, g)
  BY <1>3
<1>5. IsLoop(N, start, step, g)
  BY <1>4 DEF IsLoop
<1> QED
  BY <1>4, <1>5

-------------------------------------------------------------------------------
(* Folds over finite sets: the value for a set comes from one of its       *)
(* members and the value for the others.                                   *)

FoldOn(S, start, step, pick, g) ==
  g = [T \in SUBSET S |-> IF T = {} THEN start ELSE step[pick[T]][g[T \ {pick[T]}]]]

LEMMA FoldExists ==
  ASSUME NEW S, IsFiniteSet(S), NEW D, NEW start \in D, NEW step \in [S -> [D -> D]],
         NEW pick, \A T \in SUBSET S : T # {} => pick[T] \in T
  PROVE  \E g \in [SUBSET S -> D] : FoldOn(S, start, step, pick, g)
<1> DEFINE Small(m) == {T \in SUBSET S : Cardinality(T) <= m}
           Fold(m, g) ==
             /\ g \in [Small(m) -> D]
             /\ \A T \in Small(m) :
                  g[T] = IF T = {} THEN start ELSE step[pick[T]][g[T \ {pick[T]}]]
           M == {m \in Nat : \E g : Fold(m, g)}
<1>1. ASSUME NEW T \in SUBSET S
      PROVE  /\ Cardinality(T) \in Nat
             /\ Cardinality(T) = 0 <=> T = {}
             /\ \A x \in T : T \ {x} \in SUBSET S /\ Cardinality(T \ {x}) = Cardinality(T) - 1
  <2>1. IsFiniteSet(T)
    BY FS_Subset
  <2> QED
    BY <2>1, FS_CardinalityType, FS_EmptySet, FS_RemoveElement
<1>2. 0 \in M
  <2>1. Small(0) = {{}}
    BY <1>1
  <2>2. Fold(0, [T \in Small(0) |-> start])
    BY <2>1
  <2> QED
    BY <2>2
<1>3. ASSUME NEW m \in Nat, m \in M
      PROVE  m + 1 \in M
  <2>1. PICK g : Fold(m, g)
    BY <1>3
  <2> DEFINE h == [T \in Small(m + 1) |->
                     IF T = {} THEN start ELSE step[pick[T]][g[T \ {pick[T]}]]]
  <2>2. ASSUME NEW T \in Small(m + 1), T # {}
        PROVE  /\ pick[T] \in T /\ pick[T] \in S
               /\ T \ {pick[T]} \in Small(m)
    BY <1>1, <2>2
  <2>3. h \in [Small(m + 1) -> D]
    <3> SUFFICES ASSUME NEW T \in Small(m + 1), T # {}
                 PROVE  step[pick[T]][g[T \ {pick[T]}]] \in D
      OBVIOUS
    <3>1. g[T \ {pick[T]}] \in D /\ pick[T] \in S
      <4> HIDE DEF Small
      <4> QED
        BY <2>1, <2>2
    <3> QED
      BY <3>1
  <2>4. ASSUME NEW T \in Small(m)
        PROVE  h[T] = g[T]
    <3>1. T \in Small(m + 1)
      BY <1>1
    <3> HIDE DEF Small
    <3> QED
      BY <2>1, <3>1
  <2>5. Fold(m + 1, h)
    <3> HIDE DEF Small
    <3>1. ASSUME NEW T \in Small(m + 1), T # {}
          PROVE  h[T] = step[pick[T]][h[T \ {pick[T]}]]
      BY <2>2, <2>4, <3>1
    <3>2. ASSUME NEW T \in Small(m + 1), T = {}
          PROVE  h[T] = start
      BY <3>2
    <3> HIDE DEF h
    <3> QED
      BY <2>3, <3>1, <3>2
  <2> HIDE DEF Fold
  <2> QED
    BY <2>5
<1>4. Cardinality(S) \in M
  <2>1. Cardinality(S) \in Nat
    BY FS_CardinalityType
  <2> HIDE DEF M
  <2> QED
    BY <1>2, <1>3, <2>1, AllNaturals
<1>5. Small(Cardinality(S)) = SUBSET S
  BY FS_Subset
<1>6. PICK g : Fold(Cardinality(S), g)
  BY <1>4
<1>7. FoldOn(S, start, step, pick, g)
  <2> HIDE DEF Small
  <2> QED
    BY <1>5, <1>6 DEF FoldOn
<1> QED
  BY <1>5, <1>6, <1>7

-------------------------------------------------------------------------------
(* Sums over finite sets. *)

AddTo(f) == [x \in DOMAIN f |-> [t \in Nat |-> f[x] + t]]

Chosen(S) == [T \in SUBSET S |-> CHOOSE x \in T : TRUE]

(* From subsets of the domain of f to sums of its values. *)
Sums(f) ==
  CHOOSE g : /\ g \in [SUBSET DOMAIN f -> Nat]
             /\ FoldOn(DOMAIN f, 0, AddTo(f), Chosen(DOMAIN f), g)

Total(f) == Sums(f)[DOMAIN f]

LEMMA SumsEquation ==
  ASSUME NEW S, IsFiniteSet(S), NEW f \in [S -> Nat]
  PROVE  /\ Sums(f) \in [SUBSET S -> Nat]
         /\ Sums(f)[{}] = 0
         /\ \A T \in SUBSET S : T # {} =>
              LET x == CHOOSE x \in T : TRUE
              IN  x \in T /\ Sums(f)[T] = f[x] + Sums(f)[T \ {x}]
<1> DEFINE g == Sums(f)
<1>1. \A T \in SUBSET S : T # {} => Chosen(S)[T] \in T /\ Chosen(S)[T] = CHOOSE x \in T : TRUE
  BY DEF Chosen
<1>2. AddTo(f) \in [S -> [Nat -> Nat]]
  BY DEF AddTo
<1>3. \E h : h \in [SUBSET S -> Nat] /\ FoldOn(S, 0, AddTo(f), Chosen(S), h)
  BY <1>1, <1>2, FoldExists
<1>4. DOMAIN f = S
  OBVIOUS
<1>5. g \in [SUBSET S -> Nat] /\ FoldOn(S, 0, AddTo(f), Chosen(S), g)
  BY <1>3, <1>4 DEF Sums
<1> HIDE DEF g
<1>6. \A T \in SUBSET S :
        g[T] = IF T = {} THEN 0 ELSE AddTo(f)[Chosen(S)[T]][g[T \ {Chosen(S)[T]}]]
  BY <1>5 DEF FoldOn
<1>7. ASSUME NEW T \in SUBSET S, T # {}, NEW x, x = CHOOSE y \in T : TRUE
      PROVE  x \in T /\ g[T] = f[x] + g[T \ {x}]
  <2>1. x \in T /\ Chosen(S)[T] = x
    BY <1>1, <1>7
  <2>2. g[T \ {x}] \in Nat
    BY <1>5
  <2>3. g[T] = AddTo(f)[x][g[T \ {x}]]
    BY <1>6, <1>7, <2>1
  <2>4. AddTo(f)[x][g[T \ {x}]] = f[x] + g[T \ {x}]
    BY <1>4, <2>1, <2>2 DEF AddTo
  <2> QED
    BY <2>1, <2>3, <2>4
<1>8. g[{}] = 0
  BY <1>6
<1> QED
  BY <1>5, <1>7, <1>8 DEF g

(* A function that adds up the values has the sum. *)
LEMMA TotalIs ==
  ASSUME NEW S, IsFiniteSet(S), NEW f \in [S -> Nat],
         NEW h, h[{}] = 0,
         \A T \in SUBSET S : T # {} =>
            LET x == CHOOSE x \in T : TRUE IN h[T] = f[x] + h[T \ {x}]
  PROVE  h[S] = Total(f)
<1> DEFINE Q == {T \in SUBSET S : h[T] = Sums(f)[T]}
<1>1. ASSUME NEW T \in SUBSET S, \A x \in T : T \ {x} \in Q
      PROVE  T \in Q
  <2>1. CASE T = {}
    BY <2>1, SumsEquation
  <2>2. CASE T # {}
    <3>1. PICK x : x = CHOOSE y \in T : TRUE
      OBVIOUS
    <3>2. x \in T /\ Sums(f)[T] = f[x] + Sums(f)[T \ {x}]
      <4>1. LET y == CHOOSE y \in T : TRUE
            IN  y \in T /\ Sums(f)[T] = f[y] + Sums(f)[T \ {y}]
        BY <2>2, SumsEquation
      <4> QED
        BY <3>1, <4>1
    <3>3. h[T] = f[x] + h[T \ {x}]
      BY <2>2, <3>1
    <3>4. h[T \ {x}] = Sums(f)[T \ {x}]
      BY <1>1, <3>2
    <3> QED
      BY <3>2, <3>3, <3>4
  <2> QED
    BY <2>1, <2>2
<1>2. S \in Q
  <2> HIDE DEF Q
  <2> QED
    BY <1>1, AllSubsets
<1> QED
  BY <1>2 DEF Total

(* The sum without any one member. *)
LEMMA SumsWithout ==
  ASSUME NEW S, IsFiniteSet(S), NEW f \in [S -> Nat]
  PROVE  \A T \in SUBSET S : \A x \in T : Sums(f)[T] = f[x] + Sums(f)[T \ {x}]
<1> DEFINE g == Sums(f)
           Q == {T \in SUBSET S : \A x \in T : g[T] = f[x] + g[T \ {x}]}
<1>1. g \in [SUBSET S -> Nat]
  BY SumsEquation
<1>2. ASSUME NEW T \in SUBSET S, \A x \in T : T \ {x} \in Q, NEW x \in T
      PROVE  g[T] = f[x] + g[T \ {x}]
  <2>1. PICK p \in T : g[T] = f[p] + g[T \ {p}]
    BY SumsEquation
  <2> HIDE DEF g
  <2>2. CASE x # p
    <3>1. g[T \ {p}] = f[x] + g[(T \ {p}) \ {x}]
      BY <1>2, <2>2
    <3>2. g[T \ {x}] = f[p] + g[(T \ {x}) \ {p}]
      BY <1>2, <2>2
    <3>3. (T \ {x}) \ {p} = (T \ {p}) \ {x}
      OBVIOUS
    <3>4. PICK r \in Nat : r = g[(T \ {p}) \ {x}]
      BY <1>1
    <3>5. f[x] \in Nat /\ f[p] \in Nat
      OBVIOUS
    <3>6. g[T] = f[p] + (f[x] + r) /\ g[T \ {x}] = f[p] + r
      BY <2>1, <3>1, <3>2, <3>3, <3>4
    <3> QED
      BY <3>4, <3>5, <3>6
  <2> QED
    BY <2>1, <2>2
<1>3. SUBSET S \subseteq Q
  <2>1. \A T \in SUBSET S : (\A x \in T : T \ {x} \in Q) => T \in Q
    BY <1>2
  <2> HIDE DEF Q
  <2> QED
    BY <2>1, AllSubsets
<1> QED
  BY <1>3

(* Sums depend on the values only. *)
LEMMA SumsAgree ==
  ASSUME NEW S, IsFiniteSet(S), NEW R, IsFiniteSet(R),
         NEW f \in [S -> Nat], NEW e \in [R -> Nat],
         NEW U, U \subseteq S, U \subseteq R, \A x \in U : f[x] = e[x]
  PROVE  Sums(f)[U] = Sums(e)[U]
<1> DEFINE Q == {T \in SUBSET U : Sums(f)[T] = Sums(e)[T]}
<1>1. ASSUME NEW T \in SUBSET U, \A x \in T : T \ {x} \in Q
      PROVE  T \in Q
  <2>1. CASE T = {}
    BY <2>1, SumsEquation
  <2>2. CASE T # {}
    <3>1. PICK x \in T : TRUE
      BY <2>2
    <3>0. T \in SUBSET S /\ T \in SUBSET R
      OBVIOUS
    <3>2. Sums(f)[T] = f[x] + Sums(f)[T \ {x}]
      BY <3>0, SumsWithout
    <3>3. Sums(e)[T] = e[x] + Sums(e)[T \ {x}]
      BY <3>0, SumsWithout
    <3> QED
      BY <1>1, <3>1, <3>2, <3>3
  <2> QED
    BY <2>1, <2>2
<1>2. U \in Q
  <2>1. IsFiniteSet(U)
    BY FS_Subset
  <2> HIDE DEF Q
  <2> QED
    BY <1>1, <2>1, AllSubsets
<1> QED
  BY <1>2

LEMMA TotalNat ==
  ASSUME NEW S, IsFiniteSet(S), NEW f \in [S -> Nat]
  PROVE  Total(f) \in Nat
<1>1. Sums(f) \in [SUBSET S -> Nat] /\ DOMAIN f = S
  BY SumsEquation
<1> QED
  BY <1>1 DEF Total

LEMMA TotalEmpty ==
  ASSUME NEW f \in [{} -> Nat]
  PROVE  Total(f) = 0
BY SumsEquation, FS_EmptySet DEF Total

LEMMA TotalWith ==
  ASSUME NEW S, IsFiniteSet(S), NEW f \in [S -> Nat], NEW x, x \notin S, NEW n \in Nat,
         NEW e, e = [y \in S \cup {x} |-> IF y = x THEN n ELSE f[y]]
  PROVE  Total(e) = Total(f) + n
<1>1. IsFiniteSet(S \cup {x}) /\ e \in [S \cup {x} -> Nat]
  BY FS_AddElement
<1>2. Sums(e)[S \cup {x}] = e[x] + Sums(e)[(S \cup {x}) \ {x}]
  BY <1>1, SumsWithout
<1>3. (S \cup {x}) \ {x} = S /\ e[x] = n /\ \A y \in S : e[y] = f[y]
  OBVIOUS
<1>4. Sums(e)[S] = Sums(f)[S]
  BY <1>1, <1>3, SumsAgree
<1>5. Total(e) = n + Total(f)
  BY <1>1, <1>2, <1>3, <1>4 DEF Total
<1> QED
  BY <1>5, TotalNat

-------------------------------------------------------------------------------
(* Folds over sequences: from the first element to the last.               *)

Largest(S) == CHOOSE x \in S : \A y \in S : x >= y

LEMMA LargestIs ==
  ASSUME NEW S, S \subseteq Int, NEW x \in S, \A y \in S : x >= y
  PROVE  Largest(S) = x
<1>1. \A z \in S : (\A y \in S : z >= y) => z = x
  OBVIOUS
<1>2. Largest(S) \in S /\ \A y \in S : Largest(S) >= y
  BY DEF Largest
<1> QED
  BY <1>1, <1>2

LEMMA LargestExists ==
  ASSUME NEW N \in Nat, NEW T \in SUBSET (1..N), T # {}
  PROVE  Largest(T) \in T
<1> DEFINE below == {N - x : x \in T}
<1>1. below \subseteq Nat /\ below # {}
  <2>1. PICK x \in T : TRUE
    OBVIOUS
  <2>2. N - x \in below
    BY <2>1
  <2>3. \A y \in T : N - y \in Nat
    OBVIOUS
  <2> QED
    BY <2>2, <2>3
<1>2. PICK d \in below : \A e \in below : d <= e
  <2> HIDE DEF below
  <2> QED
    BY <1>1, LeastNatural
<1>3. PICK x \in T : d = N - x
  OBVIOUS
<1>4. \A y \in T : x >= y
  <2> TAKE y \in T
  <2>1. N - y \in below
    OBVIOUS
  <2>2. N - x <= N - y
    BY <1>2, <1>3, <2>1
  <2> QED
    BY <2>2
<1>5. Largest(T) = x
  <2> HIDE DEF below
  <2>1. T \subseteq Int
    OBVIOUS
  <2> QED
    BY <1>4, <2>1, LargestIs
<1> QED
  BY <1>5

IsSequenceFold(N, start, step, g) ==
  g = [T \in SUBSET (1..N) |->
         IF T = {} THEN start ELSE step[Largest(T)][g[T \ {Largest(T)}]]]

LEMMA SequenceFoldExists ==
  ASSUME NEW N \in Nat, NEW D, NEW start \in D, NEW step \in [1..N -> [D -> D]]
  PROVE  \E g \in [SUBSET (1..N) -> D] : IsSequenceFold(N, start, step, g)
<1> DEFINE pick == [T \in SUBSET (1..N) |-> Largest(T)]
<1>1. \A T \in SUBSET (1..N) : T # {} => pick[T] \in T
  BY LargestExists
<1>2. IsFiniteSet(1..N)
  BY FS_Interval
<1>3. PICK g \in [SUBSET (1..N) -> D] : FoldOn(1..N, start, step, pick, g)
  <2> HIDE DEF pick
  <2> QED
    BY <1>1, <1>2, FoldExists
<1>4. \A T \in SUBSET (1..N) : pick[T] = Largest(T)
  OBVIOUS
<1> HIDE DEF pick
<1>5. IsSequenceFold(N, start, step, g)
  BY <1>3, <1>4 DEF FoldOn, IsSequenceFold
<1> QED
  BY <1>5

(* The greatest of the first numbers. *)
LEMMA MaxOfFirst ==
  ASSUME NEW N \in Nat
  PROVE  /\ \A T \in SUBSET (1..N) : T # {} => Max(T) = Largest(T) /\ Max(T) \in T
         /\ \A n \in 1..N : Max(1..n) = n /\ 1..n # {} /\ (1..n) \ {n} = 1..(n - 1)
<1>1. ASSUME NEW T \in SUBSET (1..N), T # {}
      PROVE  Max(T) = Largest(T) /\ Max(T) \in T
  <2>1. Max(T) = Largest(T)
    BY Zenon DEF Max, Largest
  <2> QED
    BY <1>1, <2>1, LargestExists
<1>2. ASSUME NEW n \in 1..N
      PROVE  Max(1..n) = n
  <2>1. 1..n \subseteq Int /\ n \in 1..n /\ \A y \in 1..n : n >= y
    OBVIOUS
  <2>2. Largest(1..n) = n
    BY <2>1, LargestIs
  <2> QED
    BY <2>2, Zenon DEF Max, Largest
<1>3. \A n \in 1..N : 1..n # {} /\ (1..n) \ {n} = 1..(n - 1)
  OBVIOUS
<1>4. \A n \in 1..N : Max(1..n) = n
  BY <1>2
<1> QED
  BY <1>1, <1>3, <1>4, Zenon

(* The least member of a set. *)
LEMMA MinIs ==
  ASSUME NEW S, S \subseteq Int, NEW x \in S, \A y \in S : x <= y
  PROVE  Min(S) = x
<1>1. \A z \in S : (\A y \in S : z <= y) => z = x
  OBVIOUS
<1>2. Min(S) \in S /\ \A y \in S : Min(S) <= y
  BY DEF Min
<1> QED
  BY <1>1, <1>2

-------------------------------------------------------------------------------
(* Sequences of what is in a set of at most one element. *)

IsSequence(s) == \E S : s \in Seq(S)

LEMMA SetToSeqEmpty == SetToSeq({}) = <<>>
BY FS_EmptySet DEF SetToSeq, IsInjective

LEMMA SetToSeqOne == \A x : SetToSeq({x}) = <<x>>
<1> SUFFICES ASSUME NEW x
             PROVE  SetToSeq({x}) = <<x>>
  OBVIOUS
<1>1. Cardinality({x}) = 1
  BY FS_Singleton
<1>2. \A f \in [1..1 -> {x}] : f = <<x>>
  OBVIOUS
<1>3. <<x>> \in [1..1 -> {x}] /\ IsInjective(<<x>>)
  BY DEF IsInjective
<1> QED
  BY <1>1, <1>2, <1>3 DEF SetToSeq

LEMMA WithFirst ==
  ASSUME NEW x, NEW s, IsSequence(s)
  PROVE  /\ IsSequence(<<x>> \o s) /\ <<x>> \o s # <<>>
         /\ Head(<<x>> \o s) = x /\ Tail(<<x>> \o s) = s
         /\ <<>> \o s = s
<1>1. PICK S : s \in Seq(S)
  BY DEF IsSequence
<1>2. s \in Seq(S \cup {x}) /\ <<x>> \in Seq(S \cup {x})
  BY <1>1
<1>3. <<x>> \o s \in Seq(S \cup {x})
  BY <1>2
<1> QED
  BY <1>2, <1>3 DEF IsSequence

(* A finite set of numbers has a greatest. *)
LEMMA GreatestExists ==
  ASSUME NEW S, IsFiniteSet(S), S \subseteq Int, S # {}
  PROVE  \E x \in S : \A y \in S : x >= y
<1> DEFINE Q == {T \in SUBSET S : T = {} \/ \E x \in T : \A y \in T : x >= y}
<1>1. ASSUME NEW T \in SUBSET S, \A x \in T : T \ {x} \in Q
      PROVE  T \in Q
  <2> SUFFICES ASSUME NEW x \in T
               PROVE  \E g \in T : \A y \in T : g >= y
    OBVIOUS
  <2>1. CASE T \ {x} = {}
    BY <2>1
  <2>2. CASE T \ {x} # {}
    <3>1. PICK g \in T \ {x} : \A y \in T \ {x} : g >= y
      BY <1>1, <2>2
    <3>2. CASE g >= x
      BY <3>1, <3>2
    <3>3. CASE x > g
      <4>1. \A y \in T : x >= y
        BY <3>1, <3>3
      <4> QED
        BY <4>1
    <3> QED
      BY <3>2, <3>3
  <2> QED
    BY <2>1, <2>2
<1>2. S \in Q
  <2> HIDE DEF Q
  <2> QED
    BY <1>1, AllSubsets
<1> QED
  BY <1>2

-------------------------------------------------------------------------------
(* Sequences of sequences, one behind the other.                           *)

AreSeqs(seqs, N, D) == \A n \in 1..N : seqs[n] \in Seq(D)

(* flat[n] is the first n of them. *)
IsFlattening(flat, seqs, N, D) ==
  /\ \A n \in 0..N : flat[n] \in Seq(D)
  /\ flat[0] = <<>>
  /\ \A n \in 1..N : flat[n] = flat[n - 1] \o seqs[n]

(* Each of them is in the whole, where those before it end. *)
Placed(flat, seqs, N) ==
  /\ \A n \in 1..N : Len(flat[n]) = Len(flat[n - 1]) + Len(seqs[n])
  /\ \A n \in 0..N : Len(flat[n]) \in Nat /\ Len(flat[n]) <= Len(flat[N])
  /\ \A n \in 1..N : \A k \in 1..Len(seqs[n]) :
       flat[N][Len(flat[n - 1]) + k] = seqs[n][k]

LEMMA Concatenated ==
  ASSUME NEW D, NEW s \in Seq(D), NEW t \in Seq(D), NEW u, u = s \o t
  PROVE  /\ Len(s) \in Nat /\ Len(t) \in Nat /\ Len(u) = Len(s) + Len(t)
         /\ Len(u) \in Nat /\ Len(s) <= Len(u)
         /\ \A k \in 1..Len(s) : u[k] = s[k]
         /\ \A k \in 1..Len(t) : u[Len(s) + k] = t[k] /\ Len(s) + k \in 1..Len(u)
OBVIOUS

LEMMA FlatteningExists ==
  ASSUME NEW D, NEW N \in Nat, NEW seqs, AreSeqs(seqs, N, D)
  PROVE  \E flat : IsFlattening(flat, seqs, N, D)
<1> DEFINE step == [i \in 1..N |-> [s \in Seq(D) |-> s \o seqs[i]]]
<1>1. step \in [1..N -> [Seq(D) -> Seq(D)]]
  BY DEF AreSeqs
<1>2. <<>> \in Seq(D)
  OBVIOUS
<1>3. PICK flat \in [0..N -> Seq(D)] : IsLoop(N, <<>>, step, flat)
  <2> HIDE DEF step
  <2> QED
    BY <1>1, <1>2, LoopExists
<1>4. ASSUME NEW n \in 1..N
      PROVE  flat[n] = flat[n - 1] \o seqs[n]
  <2>1. n - 1 \in 0..N
    OBVIOUS
  <2>2. flat[n - 1] \in Seq(D)
    BY <2>1
  <2>3. flat[n] = step[n][flat[n - 1]]
    BY <1>3 DEF IsLoop
  <2> QED
    BY <2>2, <2>3
<1>5. IsFlattening(flat, seqs, N, D)
  <2>1. flat[0] = <<>> /\ \A n \in 0..N : flat[n] \in Seq(D)
    BY <1>3 DEF IsLoop
  <2> QED
    BY <1>4, <2>1 DEF IsFlattening
<1> QED
  BY <1>5

LEMMA FlattenIs ==
  ASSUME NEW D, NEW seqs, Len(seqs) \in Nat, seqs = [i \in 1..Len(seqs) |-> seqs[i]],
         AreSeqs(seqs, Len(seqs), D),
         NEW flat, IsFlattening(flat, seqs, Len(seqs), D)
  PROVE  FlattenSeq(seqs) = flat[Len(seqs)]
<1> DEFINE flatten[i \in 1..Len(seqs)] ==
             IF i = 1 THEN seqs[i] ELSE flatten[i - 1] \o seqs[i]
<1>1. PICK N \in Nat : N = Len(seqs)
  OBVIOUS
<1>2. /\ flat[0] = <<>>
      /\ \A n \in 1..N : flat[n] = flat[n - 1] \o seqs[n]
      /\ \A n \in 1..N : seqs[n] \in Seq(D)
  BY <1>1 DEF IsFlattening, AreSeqs
<1>3. CASE N = 0
  <2>1. seqs = <<>>
    BY <1>1, <1>3
  <2> QED
    BY <1>1, <1>2, <1>3, <2>1 DEF FlattenSeq
<1>4. CASE N # 0
  <2> DEFINE Is(g) == g = [i \in 1..N |-> IF i = 1 THEN seqs[i] ELSE g[i - 1] \o seqs[i]]
  <2>1. flatten = CHOOSE g : Is(g)
    BY <1>1, Zenon DEF flatten
  <2>2. FlattenSeq(seqs) = flatten[N]
    BY <1>1, <1>4, Zenon DEF FlattenSeq, flatten
  <2> DEFINE g == [i \in 1..N |-> flat[i]]
  <2> HIDE DEF flatten
  <2>3. 1 \in 1..N /\ flat[1] = seqs[1]
    <3>1. 1 \in 1..N /\ 1 - 1 = 0
      BY <1>4
    <3>2. flat[1] = flat[1 - 1] \o seqs[1] /\ seqs[1] \in Seq(D)
      BY <1>2, <3>1
    <3>3. flat[1] = <<>> \o seqs[1]
      BY <1>2, <3>1, <3>2
    <3> QED
      BY <3>1, <3>2, <3>3, ConcatEmptySeq
  <2>4. ASSUME NEW i \in 1..N
        PROVE  g[i] = IF i = 1 THEN seqs[i] ELSE g[i - 1] \o seqs[i]
    <3>1. CASE i = 1
      BY <2>3, <3>1
    <3>2. CASE i # 1
      <4>1. i - 1 \in 1..N
        BY <3>2
      <4>2. g[i] = flat[i] /\ g[i - 1] = flat[i - 1]
        BY <4>1
      <4> QED
        BY <1>2, <3>2, <4>2
    <3> QED
      BY <3>1, <3>2
  <2>5. Is(g)
    <3>1. g = [i \in 1..N |-> g[i]]
      OBVIOUS
    <3> HIDE DEF g
    <3> QED
      BY <2>4, <3>1
  <2>6. Is(flatten)
    <3> HIDE DEF Is, g
    <3> QED
      BY <2>1, <2>5, Zenon
  <2>7. ASSUME NEW i \in 1..N
        PROVE  flatten[i] = IF i = 1 THEN seqs[i] ELSE flatten[i - 1] \o seqs[i]
    BY <2>6
  <2> HIDE DEF Is
  <2> DEFINE S == {n \in 0..(N - 1) : flatten[n + 1] = flat[n + 1]}
  <2>8. 0 \in S
    BY <1>4, <2>3, <2>7
  <2>9. ASSUME NEW n \in 0..(N - 1 - 1), n \in S
        PROVE  n + 1 \in S
    <3>1. n + 2 \in 1..N /\ (n + 1) + 1 = n + 2 /\ n + 2 # 1 /\ (n + 2) - 1 = n + 1
      OBVIOUS
    <3>2. flatten[n + 2] = flatten[n + 1] \o seqs[n + 2]
      BY <2>7, <3>1
    <3>3. flat[n + 2] = flat[n + 1] \o seqs[n + 2]
      BY <1>2, <3>1
    <3>4. flatten[n + 1] = flat[n + 1]
      BY <2>9
    <3>5. flatten[n + 2] = flat[n + 2]
      BY <3>2, <3>3, <3>4
    <3>6. n + 1 \in 0..(N - 1)
      OBVIOUS
    <3> QED
      BY <3>1, <3>5, <3>6
  <2>10. N - 1 \in S
    <3> HIDE DEF S
    <3>1. N - 1 \in Nat
      BY <1>4
    <3>2. 0..(N - 1) \subseteq S
      BY <2>8, <2>9, <3>1, UpTo
    <3> QED
      BY <3>1, <3>2
  <2> QED
    BY <1>1, <2>2, <2>10
<1> QED
  BY <1>3, <1>4

LEMMA InFlattening ==
  ASSUME NEW D, NEW N \in Nat, NEW seqs, AreSeqs(seqs, N, D),
         NEW flat, IsFlattening(flat, seqs, N, D)
  PROVE  Placed(flat, seqs, N)
<1>1. ASSUME NEW n \in 1..N
      PROVE  flat[n - 1] \in Seq(D) /\ seqs[n] \in Seq(D) /\ flat[n] = flat[n - 1] \o seqs[n]
  <2>1. n - 1 \in 0..N
    OBVIOUS
  <2> QED
    BY <2>1 DEF IsFlattening, AreSeqs
<1>2. ASSUME NEW n \in 1..N
      PROVE  /\ Len(flat[n - 1]) \in Nat /\ Len(flat[n]) \in Nat
             /\ Len(flat[n - 1]) <= Len(flat[n])
             /\ Len(flat[n]) = Len(flat[n - 1]) + Len(seqs[n])
             /\ \A k \in 1..Len(flat[n - 1]) : flat[n][k] = flat[n - 1][k]
             /\ \A k \in 1..Len(seqs[n]) : /\ flat[n][Len(flat[n - 1]) + k] = seqs[n][k]
                                           /\ Len(flat[n - 1]) + k \in 1..Len(flat[n])
  <2>1. PICK s, t, u : s = flat[n - 1] /\ t = seqs[n] /\ u = flat[n]
    OBVIOUS
  <2>2. s \in Seq(D) /\ t \in Seq(D) /\ u = s \o t
    BY <1>1, <2>1
  <2>3. /\ Len(s) \in Nat /\ Len(u) \in Nat /\ Len(s) <= Len(u)
        /\ Len(u) = Len(s) + Len(t)
        /\ \A k \in 1..Len(s) : u[k] = s[k]
        /\ \A k \in 1..Len(t) : u[Len(s) + k] = t[k] /\ Len(s) + k \in 1..Len(u)
    BY <2>2, Concatenated
  <2> QED
    BY <2>1, <2>3
<1>3. \A n \in 0..N : Len(flat[n]) \in Nat
  <2>1. \A n \in 0..N : flat[n] \in Seq(D)
    BY DEF IsFlattening
  <2> QED
    BY <2>1, LenProperties
<1> DEFINE Starts(m, n) ==
             /\ Len(flat[m]) <= Len(flat[n])
             /\ \A k \in 1..Len(flat[m]) : flat[n][k] = flat[m][k]
           S == {n \in 0..N : \A m \in 0..n : Starts(m, n)}
<1>4. 0 \in S
  BY <1>3
<1>5. ASSUME NEW n \in 0..(N - 1), n \in S
      PROVE  n + 1 \in S
  <2>1. n + 1 \in 1..N /\ (n + 1) - 1 = n /\ n + 1 \in 0..N /\ n \in 0..N
    OBVIOUS
  <2>2. Len(flat[n]) <= Len(flat[n + 1]) /\ \A k \in 1..Len(flat[n]) : flat[n + 1][k] = flat[n][k]
    <3>1. PICK j \in 1..N : j = n + 1 /\ j - 1 = n
      BY <2>1
    <3>2. /\ Len(flat[j - 1]) <= Len(flat[j])
          /\ \A k \in 1..Len(flat[j - 1]) : flat[j][k] = flat[j - 1][k]
      BY <1>2
    <3> QED
      BY <3>1, <3>2
  <2>3. ASSUME NEW m \in 0..(n + 1)
        PROVE  Starts(m, n + 1)
    <3>1. CASE m = n + 1
      BY <1>3, <2>1, <3>1
    <3>2. CASE m # n + 1
      <4>1. m \in 0..n /\ m \in 0..N
        BY <3>2
      <4>2. Starts(m, n)
        BY <1>5, <4>1
      <4>3. Len(flat[m]) \in Nat /\ Len(flat[n]) \in Nat /\ Len(flat[n + 1]) \in Nat
        BY <1>3, <2>1, <4>1
      <4> QED
        BY <2>2, <4>2, <4>3
    <3> QED
      BY <3>1, <3>2
  <2> QED
    BY <2>1, <2>3
<1>6. N \in S
  <2> HIDE DEF S
  <2>1. 0..N \subseteq S
    BY <1>4, <1>5, UpTo
  <2> QED
    BY <2>1
<1>7. \A n \in 0..N : Starts(n, N)
  BY <1>6
<1>8. ASSUME NEW n \in 1..N, NEW k \in 1..Len(seqs[n])
      PROVE  flat[N][Len(flat[n - 1]) + k] = seqs[n][k]
  <2>1. n \in 0..N
    OBVIOUS
  <2>2. /\ flat[n][Len(flat[n - 1]) + k] = seqs[n][k]
        /\ Len(flat[n - 1]) + k \in 1..Len(flat[n])
    BY <1>2
  <2> QED
    BY <1>7, <2>1, <2>2
<1> QED
  BY <1>2, <1>3, <1>7, <1>8 DEF Placed

(* What is behind the first a elements. *)
LEMMA Suffix ==
  ASSUME NEW D, NEW s \in Seq(D), NEW a \in 0..Len(s)
  PROVE  /\ SubSeq(s, a + 1, Len(s)) \in Seq(D)
         /\ Len(SubSeq(s, a + 1, Len(s))) = Len(s) - a
         /\ \A k \in 1..(Len(s) - a) : SubSeq(s, a + 1, Len(s))[k] = s[a + k]
<1>1. Len(s) \in Nat /\ \A i \in 1..Len(s) : s[i] \in D
  BY LenProperties, ElementOfSeq
<1>2. PICK m \in Int, n \in Int : m = a + 1 /\ n = Len(s)
  BY <1>1
<1>3. \A i \in m..n : s[i] \in D
  BY <1>1, <1>2
<1>4. /\ SubSeq(s, m, n) \in Seq(D)
      /\ Len(SubSeq(s, m, n)) = IF m <= n THEN n - m + 1 ELSE 0
      /\ \A i \in 1..(n - m + 1) : SubSeq(s, m, n)[i] = s[m + i - 1]
  BY <1>3, SubSeqProperties
<1>5. (IF m <= n THEN n - m + 1 ELSE 0) = Len(s) - a /\ n - m + 1 = Len(s) - a
  BY <1>1, <1>2
<1>6. \A k \in 1..(Len(s) - a) : m + k - 1 = a + k
  BY <1>1, <1>2
<1> QED
  BY <1>2, <1>4, <1>5, <1>6

LEMMA SuffixOfSuffix ==
  ASSUME NEW D, NEW s \in Seq(D), NEW a \in 0..Len(s), NEW b \in 0..(Len(s) - a),
         NEW t, t = SubSeq(s, a + 1, Len(s))
  PROVE  SubSeq(t, b + 1, Len(t)) = SubSeq(s, (a + b) + 1, Len(s))
<1>1. Len(s) \in Nat /\ a + b \in 0..Len(s)
  <2>1. Len(s) \in Nat
    BY LenProperties
  <2> QED
    BY <2>1
<1>2. t \in Seq(D) /\ Len(t) = Len(s) - a /\ \A k \in 1..(Len(s) - a) : t[k] = s[a + k]
  BY Suffix
<1>3. PICK u : u = SubSeq(t, b + 1, Len(t))
  OBVIOUS
<1>4. PICK v : v = SubSeq(s, (a + b) + 1, Len(s))
  OBVIOUS
<1>5. b \in 0..Len(t)
  BY <1>2
<1>6. u \in Seq(D) /\ Len(u) = Len(t) - b /\ \A k \in 1..(Len(t) - b) : u[k] = t[b + k]
  BY <1>2, <1>3, <1>5, Suffix
<1>7. /\ v \in Seq(D) /\ Len(v) = Len(s) - (a + b)
      /\ \A k \in 1..(Len(s) - (a + b)) : v[k] = s[(a + b) + k]
  BY <1>1, <1>4, Suffix
<1>8. Len(u) = Len(v)
  BY <1>1, <1>2, <1>6, <1>7
<1>9. ASSUME NEW k \in 1..Len(u)
      PROVE  u[k] = v[k]
  <2>1. k \in 1..(Len(s) - (a + b)) /\ k \in 1..(Len(t) - b)
    BY <1>6, <1>7, <1>8
  <2>2. b + k \in 1..(Len(s) - a) /\ a + (b + k) = (a + b) + k
    BY <1>1, <2>1
  <2>3. u[k] = t[b + k] /\ t[b + k] = s[a + (b + k)]
    BY <1>2, <1>6, <2>1, <2>2
  <2> QED
    BY <1>7, <2>1, <2>2, <2>3
<1>10. u = v
  BY <1>6, <1>7, <1>8, <1>9, SeqEqual
<1> QED
  BY <1>3, <1>4, <1>10

-------------------------------------------------------------------------------
(* Sums taken in some order, and without a member. *)

(* b lists the members of S, each once. *)
Enumerates(b, N, S) ==
  /\ \A i \in 1..N : b[i] \in S
  /\ S = {b[i] : i \in 1..N}
  /\ \A i, j \in 1..N : i # j => b[i] # b[j]

(* The values of f in the order of the list. *)
ValuesInOrder(f, b, N) == [i \in 1..N |-> f[b[i]]]

(* SumsWithout for one member. *)
LEMMA SumWithout ==
  ASSUME NEW S, IsFiniteSet(S), NEW f \in [S -> Nat], NEW T \in SUBSET S, NEW x \in T
  PROVE  Sums(f)[T] = f[x] + Sums(f)[T \ {x}]
BY SumsWithout

(* A sum taken in any order is the same. *)
LEMMA TotalInOrder ==
  ASSUME NEW S, IsFiniteSet(S), NEW f \in [S -> Nat],
         NEW N \in Nat, NEW b, Enumerates(b, N, S)
  PROVE  Total(ValuesInOrder(f, b, N)) = Total(f)
<1> DEFINE T(n) == {b[i] : i \in 1..n}
           R == 1..N
           g == ValuesInOrder(f, b, N)
           Q == {n \in 0..N : Sums(f)[T(n)] = Sums(g)[1..n]}
<1>1. \A i \in 1..N : b[i] \in S /\ g[i] = f[b[i]]
  BY DEF Enumerates, ValuesInOrder
<1>2. g \in [R -> Nat] /\ IsFiniteSet(R) /\ DOMAIN g = R
  <2>1. g \in [R -> Nat]
    BY <1>1 DEF ValuesInOrder
  <2>2. IsFiniteSet(R)
    BY FS_Interval
  <2> QED
    BY <2>1, <2>2
<1> HIDE DEF g
<1>3. Sums(g)[{}] = 0
  <2> HIDE DEF R
  <2> QED
    BY <1>2, SumsEquation
<1>4. ASSUME NEW U \in SUBSET R, NEW x \in U
      PROVE  Sums(g)[U] = g[x] + Sums(g)[U \ {x}]
  <2> HIDE DEF R
  <2> QED
    BY <1>2, SumWithout
<1>5. 0 \in Q
  <2>1. T(0) = {} /\ 1..0 = {}
    OBVIOUS
  <2>2. Sums(f)[{}] = 0
    BY SumsEquation
  <2>3. Sums(f)[T(0)] = Sums(g)[1..0]
    BY <1>3, <2>1, <2>2
  <2> QED
    BY <2>3
<1>6. ASSUME NEW n \in 0..(N - 1), n \in Q
      PROVE  n + 1 \in Q
  <2>1. n + 1 \in 1..N /\ n + 1 \in 1..(n + 1) /\ 1..(n + 1) \subseteq 1..N
        /\ (1..(n + 1)) \ {n + 1} = 1..n
    OBVIOUS
  <2>2. b[n + 1] \in T(n + 1) /\ T(n + 1) \in SUBSET S
    BY <1>1, <2>1
  <2>3. T(n + 1) \ {b[n + 1]} = T(n)
    <3>1. \A i \in 1..n : i \in 1..(n + 1) /\ b[i] # b[n + 1]
      BY <2>1 DEF Enumerates
    <3>2. \A i \in 1..(n + 1) : i = n + 1 \/ i \in 1..n
      OBVIOUS
    <3> QED
      BY <3>1, <3>2
  <2> HIDE DEF T
  <2>4. Sums(f)[T(n + 1)] = f[b[n + 1]] + Sums(f)[T(n)]
    <3>1. Sums(f)[T(n + 1)] = f[b[n + 1]] + Sums(f)[T(n + 1) \ {b[n + 1]}]
      BY <2>2, SumWithout, SMTT(30)
    <3> QED
      BY <2>3, <3>1
  <2>5. Sums(g)[1..(n + 1)] = g[n + 1] + Sums(g)[1..n]
    <3>1. Sums(g)[1..(n + 1)] = g[n + 1] + Sums(g)[(1..(n + 1)) \ {n + 1}]
      BY <1>4, <2>1
    <3> QED
      BY <2>1, <3>1
  <2>6. g[n + 1] = f[b[n + 1]]
    BY <1>1, <2>1
  <2>7. Sums(f)[T(n)] = Sums(g)[1..n]
    BY <1>6
  <2> QED
    BY <2>1, <2>4, <2>5, <2>6, <2>7
<1>7. N \in Q
  <2> HIDE DEF Q
  <2>1. 0..N \subseteq Q
    BY <1>5, <1>6, UpTo
  <2> QED
    BY <2>1
<1>8. DOMAIN f = T(N)
  BY DEF Enumerates
<1> QED
  BY <1>2, <1>7, <1>8 DEF Total, g

LEMMA TotalSplit ==
  ASSUME NEW R, IsFiniteSet(R), NEW e \in [R -> Nat], NEW x \in R
  PROVE  /\ Total(e) = e[x] + Sums(e)[R \ {x}]
         /\ Sums(e)[R \ {x}] \in Nat
<1>1. ASSUME NEW U \in SUBSET R, NEW y \in U
      PROVE  Sums(e)[U] = e[y] + Sums(e)[U \ {y}]
  BY SumWithout
<1>2. Sums(e) \in [SUBSET R -> Nat]
  BY SumsEquation
<1> QED
  BY <1>1, <1>2 DEF Total

(* f is e without the value for x. *)
OneLess(f, e, x, R, T) ==
  /\ IsFiniteSet(R) /\ e \in [R -> Nat] /\ x \in R
  /\ T = R \ {x} /\ f \in [T -> Nat] /\ \A y \in T : e[y] = f[y]

LEMMA TotalWithOne ==
  ASSUME NEW R, NEW T, NEW e, NEW f, NEW x, OneLess(f, e, x, R, T)
  PROVE  Total(e) = Total(f) + e[x]
<1> USE DEF OneLess
<1>1. IsFiniteSet(R \ {x})
  BY FS_RemoveElement
<1>2. Total(e) = e[x] + Sums(e)[R \ {x}] /\ Sums(e)[R \ {x}] \in Nat
  BY TotalSplit
<1>4. T \subseteq R /\ IsFiniteSet(T)
  BY <1>1
<1>5. Sums(e)[T] = Sums(f)[T]
  BY <1>4, SumsAgree
<1>6. Total(f) = Sums(f)[T]
  BY DEF Total
<1>7. e[x] \in Nat
  OBVIOUS
<1> QED
  BY <1>2, <1>5, <1>6, <1>7

(* One member after the other. *)
Peels(f, S) ==
  /\ Sums(f) \in [SUBSET S -> Nat] /\ Sums(f)[{}] = 0 /\ Total(f) = Sums(f)[S]
  /\ \A U \in SUBSET S : \A x \in U : Sums(f)[U] = f[x] + Sums(f)[U \ {x}]

LEMMA Peeled ==
  ASSUME NEW S, IsFiniteSet(S), NEW f \in [S -> Nat]
  PROVE  Peels(f, S)
<1>1. ASSUME NEW U \in SUBSET S, NEW x \in U
      PROVE  Sums(f)[U] = f[x] + Sums(f)[U \ {x}]
  BY SumWithout
<1>2. Sums(f) \in [SUBSET S -> Nat] /\ Sums(f)[{}] = 0
  BY SumsEquation
<1>3. Total(f) = Sums(f)[S]
  BY DEF Total
<1> QED
  BY <1>1, <1>2, <1>3 DEF Peels

LEMMA SumOfFirst ==
  ASSUME NEW N \in Nat, NEW g, g \in [1..N -> Nat]
  PROVE  /\ Sums(g)[1..0] = 0
         /\ \A n \in 1..N : Sums(g)[1..n] = g[n] + Sums(g)[1..(n - 1)]
         /\ \A n \in 0..N : Sums(g)[1..n] \in Nat
         /\ Total(g) = Sums(g)[1..N]
<1>1. Peels(g, 1..N)
  <2>1. IsFiniteSet(1..N)
    BY FS_Interval
  <2> QED
    BY <2>1, Peeled
<1>2. /\ Sums(g) \in [SUBSET (1..N) -> Nat] /\ Sums(g)[{}] = 0 /\ Total(g) = Sums(g)[1..N]
      /\ \A U \in SUBSET (1..N) : \A x \in U : Sums(g)[U] = g[x] + Sums(g)[U \ {x}]
  BY <1>1 DEF Peels
<1>3. \A n \in 0..N : 1..n \in SUBSET (1..N)
  OBVIOUS
<1>4. ASSUME NEW n \in 1..N
      PROVE  Sums(g)[1..n] = g[n] + Sums(g)[1..(n - 1)]
  <2>1. 1..n \in SUBSET (1..N) /\ n \in 1..n /\ (1..n) \ {n} = 1..(n - 1)
    OBVIOUS
  <2>2. Sums(g)[1..n] = g[n] + Sums(g)[(1..n) \ {n}]
    BY <1>2, <2>1
  <2> QED
    BY <2>1, <2>2
<1>5. 1..0 = {}
  OBVIOUS
<1>6. \A n \in 0..N : Sums(g)[1..n] \in Nat
  BY <1>2, <1>3
<1>7. Sums(g)[1..0] = 0
  BY <1>2, <1>5
<1> QED
  BY <1>2, <1>4, <1>6, <1>7

(* A concatenation is as long as its parts together. *)
Lengths(seqs, N) == [n \in 1..N |-> Len(seqs[n])]

LEMMA FlatLength ==
  ASSUME NEW D, NEW N \in Nat, NEW seqs, AreSeqs(seqs, N, D),
         NEW flat, IsFlattening(flat, seqs, N, D)
  PROVE  Len(flat[N]) = Total(Lengths(seqs, N))
<1>1. PICK g : g = Lengths(seqs, N)
  OBVIOUS
<1>2. g \in [1..N -> Nat] /\ \A n \in 1..N : g[n] = Len(seqs[n])
  BY <1>1, LenProperties DEF AreSeqs, Lengths
<1>3. Placed(flat, seqs, N) /\ flat[0] = <<>>
  BY InFlattening DEF IsFlattening
<1>4. /\ Sums(g)[1..0] = 0 /\ Total(g) = Sums(g)[1..N]
      /\ \A n \in 1..N : Sums(g)[1..n] = g[n] + Sums(g)[1..(n - 1)]
      /\ \A n \in 0..N : Sums(g)[1..n] \in Nat
  BY <1>2, SumOfFirst
<1> DEFINE Q == {n \in 0..N : Len(flat[n]) = Sums(g)[1..n]}
<1>5. 0 \in Q
  BY <1>3, <1>4
<1>6. ASSUME NEW n \in 0..(N - 1), n \in Q
      PROVE  n + 1 \in Q
  <2>1. PICK m \in 1..N : m = n + 1 /\ m - 1 = n
    OBVIOUS
  <2>2. Len(flat[m]) = Len(flat[m - 1]) + Len(seqs[m])
    BY <1>3 DEF Placed
  <2>3. Sums(g)[1..m] = g[m] + Sums(g)[1..(m - 1)]
    BY <1>4
  <2>4. Len(flat[n]) = Sums(g)[1..n] /\ Sums(g)[1..n] \in Nat /\ g[m] \in Nat
    BY <1>2, <1>4, <1>6
  <2>6. g[m] = Len(seqs[m])
    BY <1>2
  <2>5. Len(flat[m]) = Sums(g)[1..m]
    <3>1. flat[m - 1] = flat[n] /\ Sums(g)[1..(m - 1)] = Sums(g)[1..n]
      BY <2>1
    <3>2. Len(flat[m]) = Len(flat[n]) + g[m] /\ Sums(g)[1..m] = g[m] + Sums(g)[1..n]
      BY <2>2, <2>3, <2>6, <3>1
    <3> QED
      BY <2>4, <3>2
  <2> QED
    BY <2>1, <2>5
<1>7. N \in Q
  <2> HIDE DEF Q
  <2>1. 0..N \subseteq Q
    BY <1>5, <1>6, UpTo
  <2> QED
    BY <2>1
<1> QED
  BY <1>1, <1>4, <1>7

(* A part of a sum is less than the whole by at least what is left out,    *)
(* and lesser values have a lesser sum.                                    *)
LEMMA SumOfPart ==
  ASSUME NEW S, IsFiniteSet(S), NEW f \in [S -> Nat], NEW U \in SUBSET S
  PROVE  /\ Sums(f)[U] <= Total(f)
         /\ \A x \in S \ U : Sums(f)[U] + f[x] <= Total(f)
<1> DEFINE Q == {T \in SUBSET S : \A V \in SUBSET T : Sums(f)[V] <= Sums(f)[T]}
<1>1. Sums(f) \in [SUBSET S -> Nat]
  BY SumsEquation
<1>2. ASSUME NEW T \in SUBSET S, NEW x \in T
      PROVE  Sums(f)[T] = f[x] + Sums(f)[T \ {x}]
  BY SumWithout
<1>3. ASSUME NEW T \in SUBSET S, \A x \in T : T \ {x} \in Q
      PROVE  T \in Q
  <2> SUFFICES ASSUME NEW V \in SUBSET T
               PROVE  Sums(f)[V] <= Sums(f)[T]
    OBVIOUS
  <2>1. Sums(f)[T] \in Nat
    BY <1>1
  <2>2. CASE V = T
    BY <2>1, <2>2
  <2>3. CASE V # T
    <3>1. PICK x \in T : x \notin V
      BY <2>3
    <3>2. V \in SUBSET (T \ {x}) /\ T \ {x} \in Q
      BY <1>3, <3>1
    <3>3. Sums(f)[V] <= Sums(f)[T \ {x}]
      BY <3>2
    <3>4. Sums(f)[T] = f[x] + Sums(f)[T \ {x}]
      BY <1>2
    <3>5. Sums(f)[V] \in Nat /\ Sums(f)[T \ {x}] \in Nat /\ f[x] \in Nat
      BY <1>1, <3>2
    <3> QED
      BY <3>3, <3>4, <3>5
  <2> QED
    BY <2>2, <2>3
<1>4. SUBSET S \subseteq Q
  <2> HIDE DEF Q
  <2> QED
    BY <1>3, AllSubsets
<1>5. \A T \in SUBSET S : \A V \in SUBSET T : Sums(f)[V] <= Sums(f)[T]
  BY <1>4
<1>6. Total(f) = Sums(f)[S] /\ S \in SUBSET S
  BY DEF Total
<1>7. ASSUME NEW x \in S \ U
      PROVE  Sums(f)[U] + f[x] <= Sums(f)[S]
  <2>1. U \in SUBSET (S \ {x}) /\ S \ {x} \in SUBSET S
    OBVIOUS
  <2>2. Sums(f)[U] <= Sums(f)[S \ {x}]
    BY <1>5, <2>1
  <2>3. Sums(f)[S] = f[x] + Sums(f)[S \ {x}]
    BY <1>2, <1>6
  <2>4. Sums(f)[U] \in Nat /\ Sums(f)[S \ {x}] \in Nat /\ f[x] \in Nat
    BY <1>1, <2>1
  <2> QED
    BY <2>2, <2>3, <2>4
<1> QED
  BY <1>5, <1>6, <1>7

LEMMA TotalOfLesser ==
  ASSUME NEW S, IsFiniteSet(S), NEW f \in [S -> Nat], NEW g \in [S -> Nat],
         \A x \in S : g[x] <= f[x]
  PROVE  /\ Total(g) <= Total(f)
         /\ \A x \in S : g[x] < f[x] => Total(g) < Total(f)
<1> DEFINE Q == {T \in SUBSET S : Sums(g)[T] <= Sums(f)[T]}
<1>1. Sums(f) \in [SUBSET S -> Nat] /\ Sums(f)[{}] = 0
  BY SumsEquation
<1>2. Sums(g) \in [SUBSET S -> Nat] /\ Sums(g)[{}] = 0
  BY SumsEquation
<1>3. ASSUME NEW T \in SUBSET S, NEW x \in T
      PROVE  Sums(f)[T] = f[x] + Sums(f)[T \ {x}]
  BY SumWithout
<1>4. ASSUME NEW T \in SUBSET S, NEW x \in T
      PROVE  Sums(g)[T] = g[x] + Sums(g)[T \ {x}]
  BY SumWithout
<1>5. ASSUME NEW T \in SUBSET S, NEW x \in T, T \ {x} \in Q
      PROVE  /\ Sums(g)[T] <= Sums(f)[T]
             /\ g[x] < f[x] => Sums(g)[T] < Sums(f)[T]
  <2>1. Sums(g)[T \ {x}] <= Sums(f)[T \ {x}]
    BY <1>5
  <2>2. /\ Sums(g)[T \ {x}] \in Nat /\ Sums(f)[T \ {x}] \in Nat
        /\ g[x] \in Nat /\ f[x] \in Nat /\ g[x] <= f[x]
    BY <1>1, <1>2
  <2>3. Sums(f)[T] = f[x] + Sums(f)[T \ {x}] /\ Sums(g)[T] = g[x] + Sums(g)[T \ {x}]
    BY <1>3, <1>4
  <2> QED
    BY <2>1, <2>2, <2>3
<1>6. ASSUME NEW T \in SUBSET S, \A x \in T : T \ {x} \in Q
      PROVE  T \in Q
  <2>1. CASE T = {}
    BY <1>1, <1>2, <2>1
  <2>2. CASE T # {}
    <3>1. PICK x \in T : TRUE
      BY <2>2
    <3>2. T \ {x} \in Q
      BY <1>6, <3>1
    <3> HIDE DEF Q
    <3>3. Sums(g)[T] <= Sums(f)[T]
      BY <1>5, <3>1, <3>2
    <3> QED
      BY <3>3 DEF Q
  <2> QED
    BY <2>1, <2>2
<1>7. SUBSET S \subseteq Q
  <2> HIDE DEF Q
  <2> QED
    BY <1>6, AllSubsets
<1>8. Total(f) = Sums(f)[S] /\ Total(g) = Sums(g)[S]
  BY DEF Total
<1>9. ASSUME NEW x \in S, g[x] < f[x]
      PROVE  Sums(g)[S] < Sums(f)[S]
  <2>1. S \in SUBSET S /\ S \ {x} \in Q
    BY <1>7
  <2> HIDE DEF Q
  <2> QED
    BY <1>5, <1>9, <2>1
<1>10. Sums(g)[S] <= Sums(f)[S]
  BY <1>7
<1> QED
  BY <1>8, <1>9, <1>10

LEMMA CountOfListed ==
  ASSUME NEW N \in Nat, NEW b, NEW S, Enumerates(b, N, S)
  PROVE  IsFiniteSet(S) /\ Cardinality(S) = N
<1> DEFINE f == [i \in 1..N |-> b[i]]
<1>1. f \in Bijection(1..N, S)
  BY DEF Enumerates, Bijection, Injection, Surjection, IsInjective
<1>2. IsFiniteSet(1..N) /\ Cardinality(1..N) = N
  BY FS_Interval
<1> QED
  BY <1>1, <1>2, FS_Bijection DEF ExistsBijection

LEMMA TotalOfPart ==
  ASSUME NEW I, IsFiniteSet(I), NEW C \in SUBSET I, NEW r \in [I -> Nat],
         NEW part \in [C -> Nat], \A i \in C : part[i] = r[i]
  PROVE  Total(part) = Sums(r)[C]
<1>1. IsFiniteSet(C)
  BY FS_Subset
<1>2. Sums(part)[C] = Sums(r)[C]
  BY <1>1, SumsAgree
<1> QED
  BY <1>2 DEF Total

(* Some of the greatest of several values can only add up to as much as    *)
(* all of them when they are all of them.                                  *)
AllTaken(c, M, C, r, g, N) ==
  /\ C = 1..N /\ M = N
  /\ Total(ValuesInOrder(r, c, M)) = Total(g)
  /\ \A i \in 1..N : r[i] = g[i]

LEMMA TakenAll ==
  ASSUME NEW N \in Nat, NEW M \in Nat, NEW c, NEW C \in SUBSET (1..N), Enumerates(c, M, C),
         NEW r \in [1..N -> Nat], NEW g \in [1..N -> Nat],
         \A i \in 1..N : r[i] >= 1 /\ r[i] <= g[i],
         Total(ValuesInOrder(r, c, M)) >= Total(g)
  PROVE  AllTaken(c, M, C, r, g, N)
<1> DEFINE part == [i \in C |-> r[i]]
<1>1. IsFiniteSet(1..N) /\ Cardinality(1..N) = N
  BY FS_Interval
<1>2. IsFiniteSet(C) /\ Cardinality(C) = M
  BY CountOfListed
<1>3. part \in [C -> Nat] /\ \A i \in C : part[i] = r[i]
  OBVIOUS
<1> HIDE DEF part
<1>4. Total(ValuesInOrder(part, c, M)) = Total(part)
  BY <1>2, <1>3, TotalInOrder, ZenonT(120)
<1>5. ValuesInOrder(part, c, M) = ValuesInOrder(r, c, M)
  <2>1. \A j \in 1..M : part[c[j]] = r[c[j]]
    BY <1>3 DEF Enumerates
  <2> QED
    BY <2>1 DEF ValuesInOrder
<1>6. PICK I : I = 1..N
  OBVIOUS
<1>7. /\ IsFiniteSet(I) /\ C \in SUBSET I /\ r \in [I -> Nat] /\ g \in [I -> Nat]
      /\ \A i \in I : r[i] <= g[i] /\ r[i] >= 1
  BY <1>1, <1>6
<1>8. Total(part) = Sums(r)[C]
  BY <1>3, <1>7, TotalOfPart
<1>9. Sums(r)[C] <= Total(r) /\ \A i \in I \ C : Sums(r)[C] + r[i] <= Total(r)
  BY <1>7, SumOfPart
<1>10. Total(r) <= Total(g) /\ \A i \in I : r[i] < g[i] => Total(r) < Total(g)
  BY <1>7, TotalOfLesser
<1>11. Sums(r)[C] \in Nat /\ Total(r) \in Nat /\ Total(g) \in Nat
  <2>1. Sums(r) \in [SUBSET I -> Nat]
    BY <1>7, SumsEquation
  <2>2. Total(r) \in Nat /\ Total(g) \in Nat
    BY <1>7, TotalNat
  <2> QED
    BY <1>7, <2>1, <2>2
<1>12. Sums(r)[C] >= Total(g)
  BY <1>4, <1>5, <1>8
<1>13. Sums(r)[C] = Total(g) /\ Total(r) = Total(g)
  BY <1>9, <1>10, <1>11, <1>12
<1>14. C = I
  <2>1. ASSUME NEW i \in I \ C
        PROVE  FALSE
    <3>1. r[i] \in Nat /\ r[i] >= 1
      BY <1>7
    <3> QED
      BY <1>9, <1>11, <1>13, <3>1
  <2> QED
    BY <1>7, <2>1
<1>15. \A i \in I : r[i] = g[i]
  <2>1. ASSUME NEW i \in I
        PROVE  r[i] = g[i]
    <3>1. r[i] \in Nat /\ g[i] \in Nat /\ r[i] <= g[i]
      BY <1>7
    <3>2. ~(r[i] < g[i])
      BY <1>10, <1>11, <1>13
    <3> QED
      BY <3>1, <3>2
  <2> QED
    BY <2>1
<1>16. M = N
  BY <1>1, <1>2, <1>6, <1>14
<1>17. Total(ValuesInOrder(r, c, M)) = Total(g)
  BY <1>4, <1>5, <1>8, <1>13
<1> QED
  BY <1>6, <1>14, <1>15, <1>16, <1>17 DEF AllTaken

(* One more sequence at the end. *)
Longer(longer, flat, s, more, N, D) ==
  IsFlattening(longer, more, N + 1, D) /\ longer[N + 1] = flat[N] \o s

LEMMA FlattenMore ==
  ASSUME NEW D, NEW N \in Nat, NEW flat, NEW seqs, IsFlattening(flat, seqs, N, D),
         NEW s \in Seq(D), NEW more, \A i \in 1..N : more[i] = seqs[i], more[N + 1] = s
  PROVE  \E longer : Longer(longer, flat, s, more, N, D)
<1> DEFINE longer == [n \in 0..(N + 1) |-> IF n = N + 1 THEN flat[N] \o s ELSE flat[n]]
<1>1. longer[N + 1] = flat[N] \o s
  OBVIOUS
<1>2. \A n \in 0..N : longer[n] = flat[n]
  OBVIOUS
<1> HIDE DEF longer
<1>3. flat[N] \in Seq(D)
  BY DEF IsFlattening
<1>4. longer[N + 1] \in Seq(D)
  BY <1>1, <1>3, ConcatProperties
<1>5. \A n \in 0..(N + 1) : longer[n] \in Seq(D)
  <2>1. \A n \in 0..(N + 1) : n = N + 1 \/ n \in 0..N
    OBVIOUS
  <2> QED
    BY <1>2, <1>4, <2>1 DEF IsFlattening
<1>6. longer[0] = <<>>
  BY <1>2 DEF IsFlattening
<1>7. ASSUME NEW n \in 1..(N + 1)
      PROVE  longer[n] = longer[n - 1] \o more[n]
  <2>1. CASE n = N + 1
    <3>1. n - 1 = N /\ N \in 0..N
      BY <2>1
    <3> QED
      BY <1>1, <1>2, <2>1, <3>1
  <2>2. CASE n # N + 1
    <3>1. n \in 1..N /\ n \in 0..N /\ n - 1 \in 0..N
      BY <2>2
    <3> QED
      BY <1>2, <3>1 DEF IsFlattening
  <2> QED
    BY <2>1, <2>2
<1>8. IsFlattening(longer, more, N + 1, D)
  BY <1>5, <1>6, <1>7 DEF IsFlattening
<1>9. Longer(longer, flat, s, more, N, D)
  BY <1>1, <1>8 DEF Longer
<1> QED
  BY <1>9

(* The first n of a sequence of sequences, one behind the other. *)
LEMMA FirstFlattened ==
  ASSUME NEW D, NEW N \in Nat, NEW seqs, AreSeqs(seqs, N, D)
  PROVE  \E flat : /\ IsFlattening(flat, seqs, N, D)
                   /\ \A n \in 0..N : FlattenSeq([i \in 1..n |-> seqs[i]]) = flat[n]
<1>1. PICK flat : IsFlattening(flat, seqs, N, D)
  BY FlatteningExists
<1>2. ASSUME NEW n \in 0..N
      PROVE  FlattenSeq([i \in 1..n |-> seqs[i]]) = flat[n]
  <2>1. PICK firsts : firsts = [i \in 1..n |-> seqs[i]]
    OBVIOUS
  <2>2. Len(firsts) = n /\ \A i \in 1..n : firsts[i] = seqs[i] /\ i \in 1..N
    BY <2>1
  <2>3. firsts = [i \in 1..Len(firsts) |-> firsts[i]]
    BY <2>1, <2>2
  <2>4. AreSeqs(firsts, n, D)
    BY <2>2 DEF AreSeqs
  <2>5. IsFlattening(flat, firsts, n, D)
    <3>1. \A i \in 0..n : i \in 0..N
      OBVIOUS
    <3> QED
      BY <1>1, <2>2, <3>1 DEF IsFlattening
  <2>6. FlattenSeq(firsts) = flat[Len(firsts)]
    BY <2>2, <2>3, <2>4, <2>5, FlattenIs
  <2> QED
    BY <2>1, <2>2, <2>6
<1> QED
  BY <1>1, <1>2

-------------------------------------------------------------------------------
(* Powers of two, as a recursive function. *)

ArePowers(p) ==
  /\ p[0] = 1
  /\ \A n \in Nat : p[n] \in Nat \ {0} /\ p[n + 1] = 2 * p[n]

LEMMA PowersExist ==
  ASSUME NEW p, p = CHOOSE g : g = [n \in Nat |-> IF n = 0 THEN 1 ELSE 2 * g[n - 1]]
  PROVE  ArePowers(p)
<1> DEFINE P(m, g) == /\ g \in [0..m -> Nat \ {0}]
                      /\ g[0] = 1
                      /\ \A n \in 1..m : g[n] = 2 * g[n - 1]
           S == {m \in Nat : \E g : P(m, g)}
           E(g) == g = [n \in Nat |-> IF n = 0 THEN 1 ELSE 2 * g[n - 1]]
<1>1. 0 \in S
  <2>1. P(0, [n \in 0..0 |-> 1])
    OBVIOUS
  <2> HIDE DEF P
  <2> QED
    BY <2>1
<1>2. ASSUME NEW m \in Nat, m \in S
      PROVE  m + 1 \in S
  <2>1. PICK g : P(m, g)
    BY <1>2
  <2> DEFINE h == [n \in 0..(m + 1) |-> IF n = m + 1 THEN 2 * g[m] ELSE g[n]]
  <2>2. g[m] \in Nat \ {0}
    BY <2>1
  <2>3. h \in [0..(m + 1) -> Nat \ {0}] /\ h[0] = 1
    BY <2>1, <2>2
  <2>4. ASSUME NEW n \in 1..(m + 1)
        PROVE  h[n] = 2 * h[n - 1]
    <3>1. h[n - 1] = g[n - 1]
      OBVIOUS
    <3>2. CASE n = m + 1
      BY <3>1, <3>2
    <3>3. CASE n # m + 1
      BY <2>1, <3>1, <3>3
    <3> QED
      BY <3>2, <3>3
  <2>5. P(m + 1, h)
    <3> HIDE DEF h
    <3> QED
      BY <2>3, <2>4
  <2> HIDE DEF P
  <2> QED
    BY <2>5
<1>3. Nat \subseteq S
  <2> HIDE DEF S
  <2> QED
    BY <1>1, <1>2, AllNaturals
<1> DEFINE upto == [m \in Nat |-> CHOOSE g : P(m, g)]
           power == [n \in Nat |-> upto[n][n]]
<1>4. \A m \in Nat : P(m, upto[m])
  <2> HIDE DEF P
  <2> QED
    BY <1>3
<1>5. ASSUME NEW m \in Nat
      PROVE  upto[m + 1][m] = upto[m][m]
  <2> DEFINE T == {n \in 0..m : upto[m + 1][n] = upto[m][n]}
  <2> HIDE DEF upto
  <2>1. 0 \in T
    BY <1>4
  <2>2. ASSUME NEW n \in 0..(m - 1), n \in T
        PROVE  n + 1 \in T
    <3>1. n + 1 \in 1..m /\ n + 1 \in 1..(m + 1) /\ (n + 1) - 1 = n /\ m + 1 \in Nat
      OBVIOUS
    <3>2. upto[m + 1][n + 1] = 2 * upto[m + 1][n]
      BY <1>4, <3>1
    <3>3. upto[m][n + 1] = 2 * upto[m][n]
      BY <1>4, <3>1
    <3> QED
      BY <2>2, <3>1, <3>2, <3>3
  <2>3. 0..m \subseteq T
    <3> HIDE DEF T
    <3> QED
      BY <2>1, <2>2, UpTo
  <2> QED
    BY <2>3
<1>6. /\ power[0] = 1
      /\ \A n \in Nat : power[n] \in Nat \ {0} /\ power[n + 1] = 2 * power[n]
  <2>1. power[0] = 1
    BY <1>4
  <2>2. ASSUME NEW n \in Nat
        PROVE  power[n] \in Nat \ {0} /\ power[n + 1] = 2 * power[n]
    <3> HIDE DEF upto
    <3>1. n + 1 \in 1..(n + 1) /\ (n + 1) - 1 = n /\ n + 1 \in Nat /\ n \in 0..n
      OBVIOUS
    <3>2. upto[n + 1][n + 1] = 2 * upto[n + 1][n]
      BY <1>4, <3>1
    <3>3. upto[n][n] \in Nat \ {0}
      BY <1>4, <3>1
    <3> QED
      BY <1>5, <3>1, <3>2, <3>3
  <2> QED
    BY <2>1, <2>2
<1>7. E(power)
  <2>1. ASSUME NEW n \in Nat
        PROVE  power[n] = IF n = 0 THEN 1 ELSE 2 * power[n - 1]
    <3> HIDE DEF power
    <3>1. CASE n = 0
      BY <1>6, <3>1
    <3>2. CASE n # 0
      <4>1. n - 1 \in Nat /\ (n - 1) + 1 = n
        BY <3>2
      <4>2. power[(n - 1) + 1] = 2 * power[n - 1]
        BY <1>6, <4>1
      <4> QED
        BY <3>2, <4>1, <4>2
    <3> QED
      BY <3>1, <3>2
  <2>2. power = [n \in Nat |-> power[n]]
    OBVIOUS
  <2> HIDE DEF power
  <2> QED
    BY <2>1, <2>2
<1>8. p = CHOOSE g : E(g)
  BY Zenon
<1>9. E(p)
  <2> HIDE DEF E, power
  <2> QED
    BY <1>7, <1>8, Zenon
<1> DEFINE U == {n \in Nat : p[n] = power[n]}
<1>10. Nat \subseteq U
  <2> HIDE DEF power
  <2>1. 0 \in U
    BY <1>6, <1>9
  <2>2. ASSUME NEW n \in Nat, n \in U
        PROVE  n + 1 \in U
    <3>1. p[n + 1] = 2 * p[n]
      <4>1. \A k \in Nat : p[k] = IF k = 0 THEN 1 ELSE 2 * p[k - 1]
        BY <1>9
      <4>2. n + 1 \in Nat /\ n + 1 # 0 /\ (n + 1) - 1 = n
        OBVIOUS
      <4> HIDE DEF E
      <4> QED
        BY <4>1, <4>2
    <3> QED
      BY <1>6, <2>2, <3>1
  <2> HIDE DEF U
  <2> QED
    BY <2>1, <2>2, AllNaturals
<1> HIDE DEF power
<1> QED
  BY <1>6, <1>10 DEF ArePowers

LEMMA PowersDivide ==
  ASSUME NEW p, ArePowers(p), NEW a \in Nat, NEW b \in Nat, b <= a
  PROVE  \E q \in Nat : p[a] = q * p[b]
<1> DEFINE S == {n \in Nat : \E q \in Nat : p[b + n] = q * p[b]}
<1>1. 0 \in S
  <2>1. p[b + 0] = 1 * p[b]
    BY DEF ArePowers
  <2> QED
    BY <2>1
<1>2. ASSUME NEW n \in Nat, n \in S
      PROVE  n + 1 \in S
  <2>1. PICK q \in Nat : p[b + n] = q * p[b]
    BY <1>2
  <2>2. p[b] \in Nat /\ p[(b + n) + 1] = 2 * p[b + n]
    BY DEF ArePowers
  <2>3. 2 * (q * p[b]) = (2 * q) * p[b]
    BY <2>2
  <2>4. b + (n + 1) = (b + n) + 1 /\ 2 * q \in Nat /\ n + 1 \in Nat
    OBVIOUS
  <2> QED
    BY <2>1, <2>2, <2>3, <2>4
<1>3. Nat \subseteq S
  <2> HIDE DEF S
  <2> QED
    BY <1>1, <1>2, AllNaturals
<1>4. a - b \in Nat /\ b + (a - b) = a
  OBVIOUS
<1> QED
  BY <1>3, <1>4

(* Remainders. *)

LEMMA Remainder ==
  ASSUME NEW a \in Nat, NEW m \in Nat \ {0}
  PROVE  a % m \in 0..(m - 1) /\ \E d \in Nat : a = m * d + (a % m)
<1>1. a = m * (a \div m) + (a % m) /\ a % m \in 0..(m - 1) /\ a \div m \in Int
  OBVIOUS
<1>2. PICK d \in Int : d = a \div m
  BY <1>1
<1>3. a = m * d + (a % m)
  BY <1>1, <1>2
<1>4. d >= 0
  <2>1. a \div m >= 0
    OBVIOUS
  <2> QED
    BY <1>2, <2>1
<1>5. d \in Nat
  BY <1>4
<1> QED
  BY <1>1, <1>3, <1>5, Zenon

LEMMA RemainderIs ==
  ASSUME NEW m \in Nat \ {0}, NEW r \in 0..(m - 1), NEW d \in Int
  PROVE  (m * d + r) % m = r
OBVIOUS

(* Multiples of m do not count. *)
LEMMA ModShift ==
  ASSUME NEW a \in Nat, NEW m \in Nat \ {0}, NEW k \in Nat
  PROVE  (a + m * k) % m = a % m
<1>1. PICK d \in Nat : a = m * d + (a % m)
  BY Remainder
<1>2. a % m \in 0..(m - 1)
  BY Remainder
<1>3. m * (d + k) = m * d + m * k
  OBVIOUS
<1>4. a + m * k = m * (d + k) + (a % m)
  <2>1. m * k \in Nat /\ m * d \in Nat /\ m * (d + k) \in Nat
    OBVIOUS
  <2> QED
    BY <1>1, <1>2, <1>3, <2>1
<1>5. (m * (d + k) + (a % m)) % m = a % m
  BY <1>2, RemainderIs
<1> QED
  BY <1>4, <1>5

TimesRemainder(a, c, y, m) == (a + c * (y % m)) % m = (a + c * y) % m

LEMMA ModTimes ==
  ASSUME NEW a \in Nat, NEW c \in Nat, NEW y \in Nat, NEW m \in Nat \ {0}
  PROVE  TimesRemainder(a, c, y, m)
<1>1. PICK d \in Nat : y = m * d + (y % m)
  BY Remainder
<1>2. y % m \in Nat
  BY Remainder
<1>3. PICK r \in Nat : r = y % m
  BY <1>2
<1>4. c * (m * d + r) = m * (c * d) + c * r
  OBVIOUS
<1>5. c * y = m * (c * d) + c * r
  BY <1>1, <1>3, <1>4
<1>6. PICK cd \in Nat, cr \in Nat : cd = c * d /\ cr = c * r
  OBVIOUS
<1>7. m * cd \in Nat
  OBVIOUS
<1>8. a + c * y = (a + cr) + m * cd
  BY <1>5, <1>6, <1>7
<1>9. ((a + cr) + m * cd) % m = (a + cr) % m
  <2>1. a + cr \in Nat
    OBVIOUS
  <2> QED
    BY <2>1, ModShift
<1> QED
  BY <1>3, <1>6, <1>8, <1>9 DEF TimesRemainder

LEMMA ModPlus ==
  ASSUME NEW a \in Nat, NEW y \in Nat, NEW m \in Nat \ {0}
  PROVE  (a + (y % m)) % m = (a + y) % m /\ ((y % m) + a) % m = (y + a) % m
<1>1. PICK d \in Nat : y = m * d + (y % m)
  BY Remainder
<1>2. y % m \in Nat
  BY Remainder
<1>3. PICK r \in Nat : r = y % m
  BY <1>2
<1>4. m * d \in Nat /\ a + r \in Nat
  OBVIOUS
<1>5. a + y = (a + r) + m * d
  BY <1>1, <1>3, <1>4
<1>6. ((a + r) + m * d) % m = (a + r) % m
  BY <1>4, ModShift
<1>7. a + r = r + a /\ a + y = y + a
  OBVIOUS
<1> QED
  BY <1>3, <1>5, <1>6, <1>7

LEMMA ModMod ==
  ASSUME NEW a \in Nat, NEW m \in Nat \ {0}, NEW f \in Nat \ {0}, NEW q \in Nat, m = q * f
  PROVE  (a % m) % f = a % f
<1>1. PICK d \in Nat : a = m * d + (a % m)
  BY Remainder
<1>0. a % m \in Nat
  BY Remainder
<1>2. PICK r \in Nat : r = a % m
  BY <1>0
<1>3. (q * f) * d = f * (q * d)
  OBVIOUS
<1>4. PICK e \in Nat : e = q * d
  OBVIOUS
<1>5. a = r + f * e
  <2>1. f * e \in Nat
    OBVIOUS
  <2> QED
    BY <1>1, <1>2, <1>3, <1>4, <2>1
<1>6. (r + f * e) % f = r % f
  BY ModShift
<1> QED
  BY <1>2, <1>5, <1>6

Cancels(a, x, y, m) == (a + x) % m = (a + y) % m => x % m = y % m

LEMMA ModCancel ==
  ASSUME NEW a \in Nat, NEW x \in Nat, NEW y \in Nat, NEW m \in Nat \ {0}
  PROVE  Cancels(a, x, y, m)
<1> SUFFICES ASSUME (a + x) % m = (a + y) % m
             PROVE  x % m = y % m
  BY DEF Cancels
<1>1. PICK d \in Nat : a = m * d + (a % m)
  BY Remainder
<1>2. a % m \in 0..(m - 1)
  BY Remainder
<1>3. PICK b \in Nat : b = m * (d + 1)
  OBVIOUS
<1>4. PICK e \in Nat : e + a = b
  <2>1. m * (d + 1) = m * d + m /\ m * d \in Nat
    OBVIOUS
  <2>2. b - a \in Nat
    BY <1>1, <1>2, <1>3, <2>1
  <2> QED
    BY <2>2
<1>5. ASSUME NEW z \in Nat
      PROVE  z % m = (e + ((a + z) % m)) % m
  <2>1. (z + m * (d + 1)) % m = z % m
    <3>1. d + 1 \in Nat
      OBVIOUS
    <3> QED
      BY <3>1, ModShift
  <2>2. z + b = e + (a + z)
    BY <1>4
  <2>3. PICK az \in Nat : az = a + z
    OBVIOUS
  <2>4. (e + (az % m)) % m = (e + az) % m
    BY ModPlus, ZenonT(30)
  <2> QED
    BY <1>3, <2>1, <2>2, <2>3, <2>4
<1> QED
  BY <1>5

===============================================================================
