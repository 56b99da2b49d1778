---------------------------- MODULE FoldLemmas ------------------------------
(***************************************************************************)
(* Induction, the folds of the community modules, and joined sequences,    *)
(* for the proofs about the components.                                    *)
(*                                                                         *)
(* What a fold keeps is induction over its data. The library's induction   *)
(* takes an operator; here it is brought to a set of numbers (Climb):      *)
(* those up to which a run of the fold is what it should be.               *)
(***************************************************************************)
EXTENDS Integers, Sequences, SequencesExt, SequenceTheorems, FiniteSetTheorems, TLAPS

WF == INSTANCE WellFoundedInduction

-----------------------------------------------------------------------------
(* Induction and folds.                                                     *)

LEMMA NatOrder == WF!IsWellFoundedOn({p \in Nat \X Nat : p[1] < p[2]}, Nat)
<1>1. WF!OpToRel(<, Nat) = {p \in Nat \X Nat : p[1] < p[2]}
  BY DEF WF!OpToRel
<1> QED
  BY <1>1, WF!NatLessThanWellFounded

\* Induction, for the numbers of a set.
LEMMA Climb ==
  ASSUME NEW n \in Nat, NEW G, 0 \in G, \A k \in 1..n : k - 1 \in G => k \in G
  PROVE  0..n \subseteq G
<1> DEFINE R == {p \in Nat \X Nat : p[1] < p[2]}
           S == {k \in 0..n : k \notin G}
<1> SUFFICES ASSUME S # {} PROVE FALSE
  OBVIOUS
<1>1. PICK x \in S : \A y \in S : ~(<<y, x>> \in R)
  <2> HIDE DEF R
  <2>1. WF!IsWellFoundedOn(R, Nat)
    BY NatOrder DEF R
  <2>2. S \subseteq Nat
    OBVIOUS
  <2> HIDE DEF S
  <2> QED
    BY <2>1, <2>2, WF!WFMin
<1>2. x \in 0..n /\ x \notin G
  OBVIOUS
<1>3. x \in 1..n
  BY <1>2
<1>4. x - 1 \in 0..n /\ x - 1 \notin G
  <2>1. x - 1 \notin G
    BY <1>2, <1>3
  <2> QED
    BY <1>3, <2>1
<1>5. x - 1 \in S
  BY <1>4
<1>6. <<x - 1, x>> \in R
  BY <1>3
<1> QED
  BY <1>1, <1>5, <1>6

\* The last of some places.
LEMMA MaxIs ==
  ASSUME NEW S, NEW i \in S, \A j \in S : j \in Nat /\ j <= i
  PROVE  Max(S) = i
<1>1. \A j \in S : i >= j
  OBVIOUS
<1>2. Max(S) \in S /\ \A j \in S : Max(S) >= j
  BY <1>1 DEF Max
<1>3. Max(S) >= i /\ Max(S) <= i /\ i \in Nat /\ Max(S) \in Nat
  BY <1>2
<1> QED
  BY ONLY <1>3

LEMMA LastPlace ==
  ASSUME NEW n \in Nat, NEW S \in SUBSET (1..n), S # {}
  PROVE  \E i \in S : \A j \in S : i >= j
<1> DEFINE G == {k \in 0..n : (\E i \in S : i <= k) => \E i \in S : i <= k /\ \A j \in S : j <= k => i >= j}
<1>0. \A i \in S : i \in 1..n /\ i \in Nat
  OBVIOUS
<1>1. 0 \in G
  BY <1>0
<1>2. ASSUME NEW k \in 1..n, k - 1 \in G PROVE k \in G
  <2>1. k \in 0..n /\ k - 1 \in 0..n
    OBVIOUS
  <2>2. \A j \in S : j <= k => j <= k - 1 \/ j = k
    BY <1>0
  <2>3. CASE k \in S
    BY <1>0, <2>1, <2>3
  <2>4. CASE k \notin S
    BY <1>0, <1>2, <2>1, <2>2, <2>4
  <2> QED
    BY <2>3, <2>4
<1>3. n \in G
  <2> HIDE DEF G
  <2>1. 0..n \subseteq G
    BY <1>1, <1>2, Climb
  <2> QED
    BY <2>1
<1>4. \A i \in S : i <= n
  BY <1>0
<1> QED
  BY <1>3, <1>4

LEMMA FirstPlace ==
  ASSUME NEW n \in Nat, NEW S \in SUBSET (1..n), S # {}
  PROVE  Min(S) \in S /\ \A j \in S : Min(S) <= j
<1> DEFINE G == {k \in 0..n : (\E i \in S : i <= k) => \E i \in S : \A j \in S : i <= j}
<1>0. \A i \in S : i \in 1..n /\ i \in Nat
  OBVIOUS
<1>1. 0 \in G
  BY <1>0
<1>2. ASSUME NEW k \in 1..n, k - 1 \in G PROVE k \in G
  <2>1. k \in 0..n /\ k - 1 \in 0..n
    OBVIOUS
  <2>2. CASE \E i \in S : i <= k - 1
    BY <1>2, <2>1, <2>2
  <2>3. CASE ~\E i \in S : i <= k - 1
    <3>1. \A i \in S : k <= i
      BY <1>0, <2>3
    <3>2. (\E i \in S : i <= k) => k \in S
      BY <1>0, <3>1
    <3> QED
      BY <2>1, <3>1, <3>2
  <2> QED
    BY <2>2, <2>3
<1>3. n \in G
  <2> HIDE DEF G
  <2>1. 0..n \subseteq G
    BY <1>1, <1>2, Climb
  <2> QED
    BY <2>1
<1>4. \E i \in S : \A j \in S : i <= j
  <2>1. \A i \in S : i <= n
    BY <1>0
  <2> QED
    BY <1>3, <2>1
<1> HIDE DEF G
<1> QED
  BY <1>4 DEF Min

LEMMA UpTo ==
  ASSUME NEW n \in Nat, NEW i \in 1..n
  PROVE  /\ 1..i \in SUBSET (1..n) /\ 1..i # {} /\ Max(1..i) = i
         /\ (1..i) \ {i} = 1..(i - 1)
<1>1. i \in 1..i /\ \A j \in 1..i : j \in 1..n /\ j \in Nat /\ j <= i
  OBVIOUS
<1>2. Max(1..i) = i
  BY <1>1, MaxIs
<1>3. 1..i \in SUBSET (1..n) /\ 1..i # {}
  BY <1>1
<1>4. \A j \in 1..i : j # i => j \in 1..(i - 1)
  OBVIOUS
<1>5. \A j \in 1..(i - 1) : j \in 1..i /\ j # i
  OBVIOUS
<1> QED
  BY <1>2, <1>3, <1>4, <1>5

\* g is the fold from base on in which step k is the function F[k].
Folds(g, base, n, F) ==
  \A s \in SUBSET (1..n) :
    g[s] = IF s = {} THEN base ELSE F[Max(s)][g[s \ {Max(s)}]]

LEMMA FoldExists ==
  ASSUME NEW U, NEW base \in U, NEW n \in Nat, NEW F \in [1..n -> [U -> U]]
  PROVE  \E g \in [SUBSET (1..n) -> U] : Folds(g, base, n, F)
<1> DEFINE G == {k \in 0..n : \E g \in [SUBSET (1..k) -> U] : Folds(g, base, k, F)}
<1>1. 0 \in G
  <2> DEFINE g == [s \in SUBSET (1..0) |-> base]
  <2>1. 1..0 = {}
    OBVIOUS
  <2>2. \A s \in SUBSET (1..0) : s = {}
    BY <2>1
  <2>3. g \in [SUBSET (1..0) -> U]
    OBVIOUS
  <2>4. Folds(g, base, 0, F)
    BY <2>2 DEF Folds
  <2>5. 0 \in 0..n
    OBVIOUS
  <2> HIDE DEF g
  <2> QED
    BY <2>3, <2>4, <2>5
<1>2. ASSUME NEW k \in 1..n, k - 1 \in G PROVE k \in G
  <2>1. PICK g \in [SUBSET (1..(k - 1)) -> U] : Folds(g, base, k - 1, F)
    BY <1>2
  <2> DEFINE h == [s \in SUBSET (1..k) |-> IF k \in s THEN F[k][g[s \ {k}]] ELSE g[s]]
  <2>2. ASSUME NEW s \in SUBSET (1..k)
        PROVE  /\ s \ {k} \in SUBSET (1..(k - 1))
               /\ k \notin s => s \in SUBSET (1..(k - 1))
               /\ k \in s => Max(s) = k
    <3>1. \A j \in s : j \in 1..k /\ j \in Nat /\ j <= k
      OBVIOUS
    <3>2. \A j \in s : j # k => j \in 1..(k - 1)
      BY <3>1
    <3>3. k \in s => Max(s) = k
      BY <3>1, MaxIs
    <3> QED
      BY <3>2, <3>3
  <2>3. h \in [SUBSET (1..k) -> U]
    BY <2>2
  <2>4. Folds(h, base, k, F)
    <3> SUFFICES ASSUME NEW s \in SUBSET (1..k)
                 PROVE  h[s] = IF s = {} THEN base ELSE F[Max(s)][h[s \ {Max(s)}]]
      BY DEF Folds
    <3>1. CASE k \in s
      <4>1. Max(s) = k /\ s # {}
        BY <2>2, <3>1
      <4>2. s \ {k} \in SUBSET (1..k) /\ k \notin s \ {k}
        OBVIOUS
      <4>3. h[s \ {k}] = g[s \ {k}]
        BY <4>2
      <4>4. h[s] = F[k][g[s \ {k}]]
        BY <3>1
      <4> QED
        BY <4>1, <4>3, <4>4
    <3>2. CASE k \notin s
      <4>1. s \in SUBSET (1..(k - 1))
        BY <2>2, <3>2
      <4>2. h[s] = g[s]
        BY <3>2
      <4>3. g[s] = IF s = {} THEN base ELSE F[Max(s)][g[s \ {Max(s)}]]
        BY <2>1, <4>1 DEF Folds
      <4>4. s \ {Max(s)} \in SUBSET (1..k) /\ k \notin s \ {Max(s)}
        BY <3>2
      <4>5. h[s \ {Max(s)}] = g[s \ {Max(s)}]
        BY <4>4
      <4> HIDE DEF h
      <4> QED
        BY <4>2, <4>3, <4>5
    <3> QED
      BY <3>1, <3>2
  <2> HIDE DEF h
  <2> QED
    BY <2>3, <2>4
<1> HIDE DEF G
<1>3. n \in G
  <2>1. 0..n \subseteq G
    BY <1>1, <1>2, Climb
  <2> QED
    BY <2>1
<1> QED
  BY <1>3 DEF G

\* Its states, one after the other.
Runs(run, base, n, F) ==
  /\ run[0] = base
  /\ \A i \in 1..n : run[i] = F[i][run[i - 1]]

LEMMA FoldRun ==
  ASSUME NEW U, NEW base \in U, NEW n \in Nat, NEW F \in [1..n -> [U -> U]]
  PROVE  \E run \in [0..n -> U] : Runs(run, base, n, F)
<1>1. PICK g \in [SUBSET (1..n) -> U] : Folds(g, base, n, F)
  BY FoldExists
<1> DEFINE run == [i \in 0..n |-> g[1..i]]
<1>2. \A i \in 0..n : 1..i \in SUBSET (1..n)
  OBVIOUS
<1>3. run \in [0..n -> U]
  BY <1>2
<1>4. run[0] = base
  <2>1. 1..0 = {} /\ {} \in SUBSET (1..n)
    OBVIOUS
  <2>2. g[{}] = base
    BY <1>1, <2>1 DEF Folds
  <2> QED
    BY <2>1, <2>2
<1>5. ASSUME NEW i \in 1..n PROVE run[i] = F[i][run[i - 1]]
  <2>1. /\ 1..i \in SUBSET (1..n) /\ 1..i # {} /\ Max(1..i) = i
        /\ (1..i) \ {i} = 1..(i - 1)
    BY UpTo
  <2>2. g[1..i] = F[i][g[1..(i - 1)]]
    BY <1>1, <2>1 DEF Folds
  <2>3. i \in 0..n /\ i - 1 \in 0..n
    OBVIOUS
  <2> QED
    BY <2>2, <2>3
<1> HIDE DEF run
<1>6. Runs(run, base, n, F)
  BY <1>4, <1>5 DEF Runs
<1> QED
  BY <1>3, <1>6

\* A fold of the library, given as it chooses it, is the end of a run.
FoldChosen(fold, U, base, n, F) ==
  /\ fold[{}] = base
  /\ \A s \in SUBSET (1..n) :
       s # {} /\ fold[s \ {Max(s)}] \in U => fold[s] = F[Max(s)][fold[s \ {Max(s)}]]

FoldRuns(fold, U, base, n, F) ==
  \E run \in [0..n -> U] : Runs(run, base, n, F) /\ run[n] = fold[1..n]

LEMMA FoldOf ==
  ASSUME NEW U, NEW base \in U, NEW n \in Nat, NEW F \in [1..n -> [U -> U]], NEW fold,
         FoldChosen(fold, U, base, n, F)
  PROVE  FoldRuns(fold, U, base, n, F)
<1>1. PICK run \in [0..n -> U] : Runs(run, base, n, F)
  BY FoldRun
<1> DEFINE G == {i \in 0..n : fold[1..i] = run[i]}
<1>2. 0 \in G
  <2>1. 1..0 = {}
    OBVIOUS
  <2> QED
    BY <1>1, <2>1 DEF Runs, FoldChosen
<1>3. ASSUME NEW i \in 1..n, i - 1 \in G PROVE i \in G
  <2>1. /\ 1..i \in SUBSET (1..n) /\ 1..i # {} /\ Max(1..i) = i
        /\ (1..i) \ {i} = 1..(i - 1)
    BY UpTo
  <2>2. fold[1..(i - 1)] = run[i - 1] /\ run[i - 1] \in U
    BY <1>3
  <2>3. fold[1..i] = F[i][run[i - 1]]
    <3>1. PICK s \in SUBSET (1..n) : s = 1..i
      BY <2>1
    <3>2. s # {} /\ Max(s) = i /\ fold[s \ {Max(s)}] = run[i - 1] /\ run[i - 1] \in U
      BY <2>1, <2>2, <3>1
    <3>3. fold[s] = F[Max(s)][fold[s \ {Max(s)}]]
      BY <3>2 DEF FoldChosen
    <3> QED
      BY <3>1, <3>2, <3>3
  <2> QED
    BY <1>1, <2>3 DEF Runs
<1>4. n \in G
  <2> HIDE DEF G
  <2>1. 0..n \subseteq G
    BY <1>2, <1>3, Climb
  <2> QED
    BY <2>1
<1> QED
  BY <1>1, <1>4 DEF FoldRuns

\* Runs of the same steps are the same.
Agree(F, H, m) == \A i \in 1..m : F[i] = H[i]

LEMMA RunsAgree ==
  ASSUME NEW base, NEW m \in Nat, NEW n \in Nat, m <= n, NEW F, NEW H, NEW run, NEW other,
         Runs(run, base, m, F), Runs(other, base, n, H), Agree(F, H, m)
  PROVE  run[m] = other[m]
<1> DEFINE G == {i \in 0..m : run[i] = other[i]}
<1>1. 0 \in G
  BY DEF Runs, Agree
<1>2. ASSUME NEW i \in 1..m, i - 1 \in G PROVE i \in G
  <2>1. i \in 1..n
    OBVIOUS
  <2> QED
    BY <1>2, <2>1 DEF Runs, Agree
<1>3. 0..m \subseteq G
  <2> HIDE DEF G
  <2> QED
    BY <1>1, <1>2, Climb
<1> QED
  BY <1>3

\* What FlattenSeq makes, one sequence after the other.
LEMMA FlattenRun ==
  ASSUME NEW S, NEW q \in Seq(Seq(S))
  PROVE  \E run \in [0..Len(q) -> Seq(S)] :
           /\ run[0] = <<>>
           /\ \A i \in 1..Len(q) : run[i] = run[i - 1] \o q[i]
           /\ FlattenSeq(q) = run[Len(q)]
<1> DEFINE U == Seq(S)
           F == [k \in 1..Len(q) |-> [t \in U |-> t \o q[k]]]
<1>0. Len(q) \in Nat /\ \A k \in 1..Len(q) : q[k] \in U
  OBVIOUS
<1>1. F \in [1..Len(q) -> [U -> U]]
  <2>1. \A k \in 1..Len(q) : \A t \in U : t \o q[k] \in U
    BY <1>0
  <2> HIDE DEF U
  <2> QED
    BY <2>1
<1>2. <<>> \in U
  OBVIOUS
<1>3. PICK run \in [0..Len(q) -> U] : Runs(run, <<>>, Len(q), F)
  <2> HIDE DEF U, F
  <2> QED
    BY <1>0, <1>1, <1>2, FoldRun
<1>4. \A i \in 1..Len(q) : run[i] = run[i - 1] \o q[i] /\ run[i] \in U
  <2>1. \A i \in 1..Len(q) : i - 1 \in 0..Len(q) /\ i \in 0..Len(q)
    BY <1>0
  <2> HIDE DEF U
  <2> QED
    BY <1>3, <2>1 DEF Runs
<1>5. FlattenSeq(q) = run[Len(q)]
  <2>1. CASE Len(q) = 0
    BY <1>3, <2>1 DEF FlattenSeq, Runs
  <2>2. CASE Len(q) # 0
    <3> DEFINE Eq(f) == f = [i \in 1..Len(q) |-> IF i = 1 THEN q[i] ELSE f[i - 1] \o q[i]]
               flatten == CHOOSE f : Eq(f)
               made == [i \in 1..Len(q) |-> run[i]]
    <3>1. Eq(made)
      <4>1. run[1] = q[1]
        <5>1. 1 \in 1..Len(q)
          BY <1>0, <2>2
        <5>2. run[1] = run[1 - 1] \o q[1]
          BY <1>4, <5>1
        <5>3. q[1] \in Seq(S)
          BY <1>0, <5>1
        <5>4. run[1 - 1] = <<>>
          BY <1>3 DEF Runs
        <5> QED
          BY <5>2, <5>3, <5>4
      <4>2. \A i \in 1..Len(q) : i # 1 => i - 1 \in 1..Len(q)
        BY <1>0
      <4> QED
        BY <1>4, <4>1, <4>2
    <3>2. Eq(flatten)
      <4> HIDE DEF made, Eq
      <4> QED
        BY <3>1
    <3>3. FlattenSeq(q) = flatten[Len(q)]
      BY <2>2 DEF FlattenSeq
    <3> HIDE DEF flatten
    <3> DEFINE G == {i \in 0..Len(q) : i # 0 => flatten[i] = run[i]}
    <3>4. 0 \in G
      BY <1>0
    <3>5. ASSUME NEW i \in 1..Len(q), i - 1 \in G PROVE i \in G
      <4>1. i \in 0..Len(q)
        BY <1>0
      <4>2. flatten[i] = IF i = 1 THEN q[i] ELSE flatten[i - 1] \o q[i]
        BY <3>2
      <4>3. made[i] = IF i = 1 THEN q[i] ELSE made[i - 1] \o q[i]
        <5> HIDE DEF made
        <5> QED
          BY <3>1
      <4>4. i # 1 => i - 1 \in 1..Len(q) /\ flatten[i - 1] = run[i - 1]
        BY <1>0, <3>5
      <4> QED
        BY <4>1, <4>2, <4>3, <4>4
    <3>6. Len(q) \in G
      <4> HIDE DEF G
      <4>1. 0..Len(q) \subseteq G
        BY <1>0, <3>4, <3>5, Climb
      <4> QED
        BY <1>0, <4>1
    <3> QED
      BY <2>2, <3>3, <3>6
  <2> QED
    BY <2>1, <2>2
<1> HIDE DEF F
<1> QED
  BY <1>3, <1>4, <1>5 DEF Runs

LEMMA FlattenType ==
  ASSUME NEW S, NEW q \in Seq(Seq(S))
  PROVE  FlattenSeq(q) \in Seq(S)
<1>1. PICK run \in [0..Len(q) -> Seq(S)] : FlattenSeq(q) = run[Len(q)]
  BY FlattenRun
<1>2. Len(q) \in 0..Len(q)
  BY LenProperties
<1> QED
  BY <1>1, <1>2

-----------------------------------------------------------------------------
(* Sequences joined.                                                        *)

LEMMA Concats ==
  ASSUME NEW S
  PROVE  /\ <<>> \in Seq(S)
         /\ \A s \in Seq(S) : s \o <<>> = s /\ <<>> \o s = s
         /\ \A s, t \in Seq(S) : s \o t \in Seq(S)
         /\ \A s, t, u \in Seq(S) : (s \o t) \o u = s \o (t \o u)
<1>1. <<>> \in Seq(S)
  BY EmptySeq
<1>2. \A s \in Seq(S) : s \o <<>> = s /\ <<>> \o s = s
  BY ConcatEmptySeq
<1>3. \A s, t \in Seq(S) : s \o t \in Seq(S)
  BY ConcatProperties
<1>4. \A s, t, u \in Seq(S) : (s \o t) \o u = s \o (t \o u)
  BY ConcatAssociative
<1> QED
  BY <1>1, <1>2, <1>3, <1>4, Zenon

\* What FlattenSeq makes, from the sequences it passes through.
\* run joins q one after the other.
JoinsUp(run, q, n) ==
  /\ run[0] = <<>>
  /\ \A i \in 1..n : run[i] = run[i - 1] \o q[i]

LEMMA FlattenIs ==
  ASSUME NEW S, NEW q \in Seq(Seq(S)), NEW n \in Nat, n = Len(q),
         NEW run \in [0..n -> Seq(S)], JoinsUp(run, q, n)
  PROVE  FlattenSeq(q) = run[n]
<1>1. PICK other \in [0..n -> Seq(S)] :
        /\ other[0] = <<>>
        /\ \A i \in 1..n : other[i] = other[i - 1] \o q[i]
        /\ FlattenSeq(q) = other[n]
  BY FlattenRun
<1> DEFINE G == {i \in 0..n : run[i] = other[i]}
<1>2. 0 \in G
  BY <1>1 DEF JoinsUp
<1>3. ASSUME NEW i \in 1..n, i - 1 \in G PROVE i \in G
  <2>1. run[i - 1] = other[i - 1]
    BY <1>3
  <2>2. run[i] = other[i]
    BY <1>1, <2>1 DEF JoinsUp
  <2>3. i \in 0..n
    OBVIOUS
  <2> QED
    BY <2>2, <2>3
<1>4. n \in G
  <2> HIDE DEF G
  <2>1. 0..n \subseteq G
    BY <1>2, <1>3, Climb
  <2> QED
    BY <2>1
<1> QED
  BY <1>1, <1>4

LEMMA FlattenNothing ==
  ASSUME NEW S, NEW q \in Seq(Seq(S)), \A i \in 1..Len(q) : q[i] = <<>>
  PROVE  FlattenSeq(q) = <<>>
<1>1. PICK n \in Nat : n = Len(q)
  BY LenProperties
<1> DEFINE run == [i \in 0..n |-> <<>>]
<1>2. <<>> \in Seq(S) /\ <<>> \o <<>> = <<>>
  BY EmptySeq, ConcatEmptySeq
<1>3. run \in [0..n -> Seq(S)] /\ run[0] = <<>> /\ run[n] = <<>>
  BY <1>2
<1>4. ASSUME NEW i \in 1..n PROVE run[i] = run[i - 1] \o q[i]
  <2>1. i \in 0..n /\ i - 1 \in 0..n /\ q[i] = <<>>
    BY <1>1
  <2>2. run[i] = <<>> /\ run[i - 1] = <<>>
    BY <2>1
  <2> HIDE DEF run
  <2> QED
    BY <1>2, <2>1, <2>2
<1> HIDE DEF run
<1>5. JoinsUp(run, q, n)
  BY <1>3, <1>4 DEF JoinsUp
<1>6. FlattenSeq(q) = run[n]
  BY ONLY q \in Seq(Seq(S)), <1>1, <1>3, <1>5, FlattenIs
<1> QED
  BY <1>3, <1>6

LEMMA FlattenConcat ==
  ASSUME NEW S, NEW q \in Seq(Seq(S)), NEW r \in Seq(Seq(S))
  PROVE  FlattenSeq(q \o r) = FlattenSeq(q) \o FlattenSeq(r)
<1> DEFINE U == Seq(S)
<1>1. /\ <<>> \in U
      /\ \A s \in U : s \o <<>> = s /\ <<>> \o s = s
      /\ \A s, t \in U : s \o t \in U
  BY Concats
<1> DEFINE Cat(s, t) == s \o t
<1>a. \A s, t, u \in U : Cat(Cat(s, t), u) = Cat(s, Cat(t, u))
  BY Concats
<1> HIDE DEF Cat
<1>2. PICK n \in Nat : n = Len(q)
  BY LenProperties
<1>3. PICK m \in Nat : m = Len(r)
  BY LenProperties
<1>4. PICK a \in [0..n -> U] :
        /\ a[0] = <<>>
        /\ \A i \in 1..n : a[i] = a[i - 1] \o q[i]
        /\ FlattenSeq(q) = a[n]
  BY <1>2, FlattenRun
<1>5. PICK b \in [0..m -> U] :
        /\ b[0] = <<>>
        /\ \A i \in 1..m : b[i] = b[i - 1] \o r[i]
        /\ FlattenSeq(r) = b[m]
  BY <1>3, FlattenRun
<1>6. q \in Seq(U) /\ r \in Seq(U)
  OBVIOUS
<1>7. ASSUME NEW run \in [0..(n + m) -> U], run[0] = <<>>,
             \A i \in 1..(n + m) : run[i] = run[i - 1] \o (q \o r)[i]
      PROVE  FlattenSeq(q \o r) = run[n + m]
  <2>1. q \o r \in Seq(Seq(S)) /\ n + m = Len(q \o r) /\ n + m \in Nat
    BY <1>2, <1>3
  <2> DEFINE s == q \o r
             k == n + m
  <2>2. s \in Seq(Seq(S)) /\ k \in Nat /\ k = Len(s) /\ run \in [0..k -> Seq(S)]
    BY <2>1
  <2>3. JoinsUp(run, s, k)
    BY <1>7 DEF JoinsUp
  <2> HIDE DEF s, k
  <2>4. FlattenSeq(s) = run[k]
    BY ONLY <2>2, <2>3, FlattenIs
  <2> QED
    BY <2>4 DEF s, k
<1> HIDE DEF U
<1>8. \A i \in 1..(n + m) : (q \o r)[i] = IF i <= n THEN q[i] ELSE r[i - n]
  BY <1>2, <1>3, <1>6, ConcatProperties
<1> DEFINE run == [i \in 0..(n + m) |-> IF i <= n THEN a[i] ELSE a[n] \o b[i - n]]
<1>9. a[n] \in U /\ a[n] \o b[0] = a[n]
  BY <1>1, <1>5
<1>10. ASSUME NEW i \in n..(n + m) PROVE i - n \in 0..m /\ run[i] = a[n] \o b[i - n]
  <2>1. i - n \in 0..m /\ i \in 0..(n + m)
    OBVIOUS
  <2>2. run[i] = IF i <= n THEN a[i] ELSE a[n] \o b[i - n]
    BY <2>1
  <2> HIDE DEF run
  <2>3. i = n \/ ~(i <= n)
    OBVIOUS
  <2>4. i = n => i <= n /\ i - n = 0
    OBVIOUS
  <2> QED
    BY <1>9, <2>1, <2>2, <2>3, <2>4
<1>11. run \in [0..(n + m) -> U]
  <2> SUFFICES ASSUME NEW i \in 0..(n + m) PROVE run[i] \in U
    OBVIOUS
  <2>1. CASE i <= n
    BY <2>1
  <2>2. CASE i > n
    <3>1. i \in n..(n + m)
      BY <2>2
    <3>2. b[i - n] \in U /\ run[i] = a[n] \o b[i - n]
      BY <1>10, <3>1
    <3> HIDE DEF run
    <3> QED
      BY <1>1, <1>9, <3>2
  <2> QED
    BY <2>1, <2>2
<1>12. run[0] = <<>>
  BY <1>4
<1>13. ASSUME NEW i \in 1..(n + m) PROVE run[i] = run[i - 1] \o (q \o r)[i]
  <2>1. CASE i <= n
    <3>1. /\ i \in 1..n /\ i - 1 <= n /\ i - 1 \in 0..(n + m) /\ i \in 0..(n + m)
      BY <2>1
    <3>2. run[i] = a[i] /\ run[i - 1] = a[i - 1]
      BY <2>1, <3>1
    <3> HIDE DEF run
    <3>3. (q \o r)[i] = q[i]
      BY <1>8, <2>1
    <3> QED
      BY <1>4, <3>1, <3>2, <3>3
  <2>2. CASE i > n
    <3>1. /\ i \in n..(n + m) /\ i - 1 \in n..(n + m) /\ i - n \in 1..m
          /\ (i - 1) - n = (i - n) - 1 /\ (i - n) - 1 \in 0..m
      BY <2>2
    <3>2. run[i] = a[n] \o b[i - n] /\ run[i - 1] = a[n] \o b[(i - n) - 1]
      BY <1>10, <3>1
    <3> HIDE DEF run
    <3>3. (q \o r)[i] = r[i - n]
      <4>1. ~(i <= n)
        BY <2>2
      <4> DEFINE s == q \o r
      <4>2. s[i] = IF i <= n THEN q[i] ELSE r[i - n]
        BY <1>8
      <4> HIDE DEF s
      <4>3. s[i] = r[i - n]
        BY ONLY <4>1, <4>2
      <4> QED
        BY <4>3 DEF s
    <3>4. b[i - n] = b[(i - n) - 1] \o r[i - n]
      BY <1>5, <3>1
    <3>5. b[(i - n) - 1] \in U
      BY <3>1
    <3>6. r[i - n] \in U
      BY ONLY <1>3, <1>6, <3>1
    <3>7. (a[n] \o b[(i - n) - 1]) \o r[i - n] = a[n] \o (b[(i - n) - 1] \o r[i - n])
      <4> DEFINE x == a[n]
                 y == b[(i - n) - 1]
                 z == r[i - n]
      <4>1. x \in U /\ y \in U /\ z \in U
        BY <1>9, <3>5, <3>6
      <4> HIDE DEF x, y, z
      <4>2. Cat(Cat(x, y), z) = Cat(x, Cat(y, z))
        BY ONLY <1>a, <4>1
      <4> QED
        BY <4>2 DEF x, y, z, Cat
    <3> QED
      BY ONLY <3>2, <3>3, <3>4, <3>7
  <2>3. i <= n \/ i > n
    OBVIOUS
  <2> QED
    BY ONLY <2>1, <2>2, <2>3
<1>14. run[n + m] = a[n] \o b[m]
  <2>1. n + m \in n..(n + m) /\ (n + m) - n = m
    OBVIOUS
  <2> HIDE DEF run
  <2> QED
    BY <1>10, <2>1
<1> HIDE DEF run
<1>15. FlattenSeq(q \o r) = run[n + m]
  BY <1>7, <1>11, <1>12, <1>13
<1> QED
  BY <1>4, <1>5, <1>14, <1>15

LEMMA FlattenOne ==
  ASSUME NEW S, NEW t \in Seq(S)
  PROVE  FlattenSeq(<<t>>) = t
<1> DEFINE run == [i \in 0..1 |-> IF i = 0 THEN <<>> ELSE t]
<1>1. <<>> \in Seq(S) /\ <<>> \o t = t
  BY EmptySeq, ConcatEmptySeq
<1>2. <<t>> \in Seq(Seq(S)) /\ Len(<<t>>) = 1
  OBVIOUS
<1>3. run \in [0..1 -> Seq(S)] /\ run[0] = <<>> /\ run[1] = t
  BY <1>1
<1>4. \A i \in 1..1 : run[i] = run[i - 1] \o <<t>>[i]
  <2>1. <<t>>[1] = t /\ 1 - 1 = 0
    OBVIOUS
  <2>2. \A i \in 1..1 : i = 1
    OBVIOUS
  <2> HIDE DEF run
  <2> QED
    BY <1>1, <1>3, <2>1, <2>2
<1> HIDE DEF run
<1>5. FlattenSeq(<<t>>) = run[1]
  <2> DEFINE q == <<t>>
  <2>1. q \in Seq(Seq(S)) /\ 1 = Len(q) /\ 1 \in Nat /\ JoinsUp(run, q, 1)
    BY <1>2, <1>3, <1>4 DEF JoinsUp
  <2> HIDE DEF q
  <2>2. FlattenSeq(q) = run[1]
    BY ONLY <1>3, <2>1, FlattenIs
  <2> QED
    BY <2>2 DEF q
<1> QED
  BY <1>3, <1>5

LEMMA FlattenAppend ==
  ASSUME NEW S, NEW q \in Seq(Seq(S)), NEW t \in Seq(S)
  PROVE  FlattenSeq(Append(q, t)) = FlattenSeq(q) \o t
<1>1. <<t>> \in Seq(Seq(S))
  OBVIOUS
<1>2. Append(q, t) = q \o <<t>>
  BY AppendIsConcat
<1>3. FlattenSeq(q \o <<t>>) = FlattenSeq(q) \o FlattenSeq(<<t>>)
  BY <1>1, FlattenConcat
<1> QED
  BY <1>2, <1>3, FlattenOne

\* One of n sequences grows, and there is nothing behind it.
GrowsAt(r, q, n, k, t) ==
  /\ n = Len(q) /\ n = Len(r) /\ r[k] = q[k] \o t
  /\ \A i \in 1..n : /\ i # k => r[i] = q[i]
                     /\ i > k => q[i] = <<>>

LEMMA FlattenGrow ==
  ASSUME NEW S, NEW q \in Seq(Seq(S)), NEW r \in Seq(Seq(S)), NEW t \in Seq(S),
         NEW n \in Nat, NEW k \in 1..n, GrowsAt(r, q, n, k, t)
  PROVE  FlattenSeq(r) = FlattenSeq(q) \o t
<1>0. /\ n = Len(q) /\ n = Len(r) /\ r[k] = q[k] \o t
      /\ \A i \in 1..n : i # k => r[i] = q[i]
      /\ \A i \in 1..n : i > k => q[i] = <<>>
  BY DEF GrowsAt
<1>b. n = Len(q)
  BY <1>0
<1> DEFINE U == Seq(S)
<1>1. /\ <<>> \in U
      /\ \A s \in U : s \o <<>> = s /\ <<>> \o s = s
      /\ \A s, u \in U : s \o u \in U
  BY Concats
<1> DEFINE Cat(s, u) == s \o u
<1>a. \A s, u, v \in U : Cat(Cat(s, u), v) = Cat(s, Cat(u, v))
  BY Concats
<1> HIDE DEF Cat
<1>2. PICK a \in [0..n -> U] :
        /\ a[0] = <<>>
        /\ \A i \in 1..n : a[i] = a[i - 1] \o q[i]
        /\ FlattenSeq(q) = a[n]
  BY ONLY <1>b, q \in Seq(Seq(S)), FlattenRun
<1>3. t \in U /\ \A i \in 1..n : q[i] \in U
  BY ONLY <1>b, t \in Seq(S), q \in Seq(Seq(S))
<1>4. ASSUME NEW run \in [0..n -> U], run[0] = <<>>,
             \A i \in 1..n : run[i] = run[i - 1] \o r[i]
      PROVE  FlattenSeq(r) = run[n]
  <2>1. JoinsUp(run, r, n) /\ r \in Seq(Seq(S)) /\ n \in Nat /\ run \in [0..n -> Seq(S)]
    BY <1>4 DEF JoinsUp
  <2> QED
    BY ONLY <1>0, <2>1, FlattenIs
<1> HIDE DEF U
<1> DEFINE run == [i \in 0..n |-> IF i < k THEN a[i] ELSE a[i] \o t]
<1>5. run \in [0..n -> U]
  BY <1>1, <1>3
<1>6. run[0] = <<>>
  <2>1. 0 \in 0..n /\ 0 < k
    OBVIOUS
  <2> QED
    BY <1>2, <2>1
<1>7. ASSUME NEW i \in 1..n PROVE run[i] = run[i - 1] \o r[i]
  <2>1. i \in 0..n /\ i - 1 \in 0..n
    OBVIOUS
  <2>2. a[i - 1] \in U /\ a[i] \in U /\ q[i] \in U /\ t \in U
    BY <1>3, <2>1
  <2>3. a[i] = a[i - 1] \o q[i]
    BY <1>2
  <2>4. /\ run[i] = IF i < k THEN a[i] ELSE a[i] \o t
        /\ run[i - 1] = IF i - 1 < k THEN a[i - 1] ELSE a[i - 1] \o t
    BY <2>1
  <2> HIDE DEF run
  <2>5. CASE i < k
    <3>1. i - 1 < k /\ i # k
      BY ONLY <2>5, n \in Nat, i \in 1..n, k \in 1..n
    <3>2. r[i] = q[i]
      BY <1>0, <3>1
    <3> QED
      BY ONLY <2>3, <2>4, <2>5, <3>1, <3>2
  <2>6. CASE i = k
    <3>1. i - 1 < k /\ ~(i < k)
      BY ONLY <2>6, n \in Nat, i \in 1..n, k \in 1..n
    <3>2. r[i] = q[i] \o t
      BY <1>0, <2>6
    <3>3. (a[i - 1] \o q[i]) \o t = a[i - 1] \o (q[i] \o t)
      <4> DEFINE x == a[i - 1]
                 y == q[i]
      <4>1. x \in U /\ y \in U /\ t \in U
        BY <2>2
      <4> HIDE DEF x, y
      <4>2. Cat(Cat(x, y), t) = Cat(x, Cat(y, t))
        BY ONLY <1>a, <4>1
      <4> QED
        BY <4>2 DEF x, y, Cat
    <3> QED
      BY ONLY <2>3, <2>4, <3>1, <3>2, <3>3
  <2>7. CASE i > k
    <3>1. ~(i - 1 < k) /\ ~(i < k) /\ i # k
      BY ONLY <2>7, n \in Nat, i \in 1..n, k \in 1..n
    <3>2. r[i] = <<>> /\ q[i] = <<>>
      BY <1>0, <2>7, <3>1
    <3>3. a[i] = a[i - 1]
      BY ONLY <1>1, <2>2, <2>3, <3>2
    <3>4. (a[i - 1] \o t) \o <<>> = a[i - 1] \o t
      BY ONLY <1>1, <2>2
    <3> QED
      BY ONLY <2>4, <3>1, <3>2, <3>3, <3>4
  <2>8. i < k \/ i = k \/ i > k
    BY ONLY n \in Nat, i \in 1..n, k \in 1..n
  <2> QED
    BY ONLY <2>5, <2>6, <2>7, <2>8
<1>8. run[n] = a[n] \o t
  <2>1. n \in 0..n /\ ~(n < k)
    OBVIOUS
  <2> QED
    BY <2>1
<1> HIDE DEF run
<1>9. FlattenSeq(r) = run[n]
  BY <1>4, <1>5, <1>6, <1>7
<1> QED
  BY <1>2, <1>8, <1>9

-----------------------------------------------------------------------------
(* What a function makes of the elements of a sequence, joined.             *)

Gathered(f, q) == [i \in DOMAIN q |-> f[q[i]]]
Joined(f, q) == FlattenSeq(Gathered(f, q))

LEMMA GatheredType ==
  ASSUME NEW S, NEW T, NEW f \in [S -> Seq(T)], NEW q \in Seq(S)
  PROVE  Gathered(f, q) \in Seq(Seq(T)) /\ Joined(f, q) \in Seq(T)
<1>1. PICK n \in Nat : n = Len(q)
  BY LenProperties
<1>2. DOMAIN q = 1..n /\ \A i \in 1..n : q[i] \in S
  BY <1>1, LenProperties, ElementOfSeq
<1>3. \A i \in 1..n : f[q[i]] \in Seq(T)
  BY <1>2
<1>4. Gathered(f, q) = [i \in 1..n |-> f[q[i]]]
  BY <1>2 DEF Gathered
<1>5. Gathered(f, q) \in Seq(Seq(T))
  BY <1>3, <1>4, IsASeq
<1> QED
  BY <1>5, FlattenType DEF Joined

LEMMA GatheredConcat ==
  ASSUME NEW S, NEW T, NEW f \in [S -> Seq(T)], NEW q \in Seq(S), NEW r \in Seq(S)
  PROVE  Joined(f, q \o r) = Joined(f, q) \o Joined(f, r)
<1>1. PICK n \in Nat : n = Len(q)
  BY LenProperties
<1>2. PICK m \in Nat : m = Len(r)
  BY LenProperties
<1>3. PICK s \in Seq(S) : s = q \o r
  BY ConcatProperties
<1>4. /\ Len(s) = n + m
      /\ \A i \in 1..(n + m) : s[i] = IF i <= n THEN q[i] ELSE r[i - n]
  BY <1>1, <1>2, <1>3, ConcatProperties
<1>5. PICK k \in Nat : k = n + m
  OBVIOUS
<1>a. PICK a \in Seq(Seq(T)) : a = Gathered(f, q)
  BY GatheredType
<1>b. PICK b \in Seq(Seq(T)) : b = Gathered(f, r)
  BY GatheredType
<1>c. PICK c \in Seq(Seq(T)) : c = Gathered(f, s)
  BY GatheredType
<1>6. Len(a) = n /\ \A i \in 1..n : a[i] = f[q[i]]
  BY <1>1, <1>a, LenProperties DEF Gathered
<1>7. Len(b) = m /\ \A i \in 1..m : b[i] = f[r[i]]
  BY <1>2, <1>b, LenProperties DEF Gathered
<1>8. Len(c) = k /\ \A i \in 1..k : c[i] = f[s[i]]
  <2>1. DOMAIN s = 1..k
    BY <1>4, <1>5, LenProperties
  <2> QED
    BY <1>c, <2>1, LenProperties DEF Gathered
<1>9. /\ a \o b \in Seq(Seq(T)) /\ Len(a \o b) = k
      /\ \A i \in 1..k : (a \o b)[i] = IF i <= n THEN a[i] ELSE b[i - n]
  <2>1. Len(a) = n /\ Len(b) = m
    BY <1>6, <1>7
  <2>2. /\ a \o b \in Seq(Seq(T)) /\ Len(a \o b) = Len(a) + Len(b)
        /\ \A i \in 1..(Len(a) + Len(b)) :
             (a \o b)[i] = IF i <= Len(a) THEN a[i] ELSE b[i - Len(a)]
    BY ConcatProperties
  <2> QED
    BY <1>5, <2>1, <2>2
<1>10. ASSUME NEW i \in 1..k PROVE c[i] = (a \o b)[i]
  <2>1. c[i] = f[s[i]] /\ i \in 1..(n + m)
    BY <1>5, <1>8
  <2>2. CASE i <= n
    <3>1. i \in 1..n
      BY <2>2
    <3>2. s[i] = q[i] /\ (a \o b)[i] = a[i] /\ a[i] = f[q[i]]
      BY <1>4, <1>6, <1>9, <2>1, <2>2, <3>1
    <3> QED
      BY <2>1, <3>2
  <2>3. CASE ~(i <= n)
    <3>1. i - n \in 1..m
      BY ONLY <1>5, <2>3, i \in 1..k, n \in Nat, m \in Nat, k \in Nat
    <3>2. s[i] = r[i - n] /\ (a \o b)[i] = b[i - n] /\ b[i - n] = f[r[i - n]]
      BY <1>4, <1>7, <1>9, <2>1, <2>3, <3>1
    <3> QED
      BY <2>1, <3>2
  <2> QED
    BY <2>2, <2>3
<1>11. c = a \o b
  <2>1. PICK d \in Seq(Seq(T)) : d = a \o b
    BY <1>9
  <2>2. Len(d) = k /\ \A i \in 1..k : c[i] = d[i]
    BY <1>9, <1>10, <2>1
  <2>3. c = d
    BY <1>8, <2>2, SeqEqual
  <2> QED
    BY <2>1, <2>3
<1>12. FlattenSeq(a \o b) = FlattenSeq(a) \o FlattenSeq(b)
  BY FlattenConcat
<1> QED
  BY <1>3, <1>a, <1>b, <1>c, <1>11, <1>12 DEF Joined

LEMMA GatheredOne ==
  ASSUME NEW S, NEW T, NEW f \in [S -> Seq(T)], NEW e \in S
  PROVE  Joined(f, <<e>>) = f[e]
<1>1. PICK t \in Seq(T) : t = f[e]
  OBVIOUS
<1>2. Gathered(f, <<e>>) = <<t>>
  BY <1>1 DEF Gathered
<1> QED
  BY <1>1, <1>2, FlattenOne DEF Joined

LEMMA GatheredAppend ==
  ASSUME NEW S, NEW T, NEW f \in [S -> Seq(T)], NEW q \in Seq(S), NEW e \in S
  PROVE  Joined(f, Append(q, e)) = Joined(f, q) \o f[e]
<1>0. <<e>> \in Seq(S) /\ Append(q, e) = q \o <<e>>
  BY AppendIsConcat
<1>1. PICK r \in Seq(S) : r = <<e>>
  BY <1>0
<1>2. Append(q, e) = q \o r
  BY <1>0, <1>1
<1>3. Joined(f, r) = f[e]
  BY <1>1, GatheredOne
<1>4. Joined(f, q \o r) = Joined(f, q) \o Joined(f, r)
  BY GatheredConcat
<1> QED
  BY <1>2, <1>3, <1>4

LEMMA GatheredNothing ==
  ASSUME NEW S, NEW T, NEW f \in [S -> Seq(T)], NEW q \in Seq(S), NEW n \in Nat, n = Len(q),
         \A i \in 1..n : f[q[i]] = <<>>
  PROVE  Joined(f, q) = <<>>
<1>1. PICK a \in Seq(Seq(T)) : a = Gathered(f, q)
  BY GatheredType
<1>2. Len(a) = n /\ \A i \in 1..n : a[i] = f[q[i]]
  BY <1>1, LenProperties DEF Gathered
<1>3. \A i \in 1..Len(a) : a[i] = <<>>
  BY <1>2
<1> QED
  BY <1>1, <1>3, FlattenNothing DEF Joined

-----------------------------------------------------------------------------
(* Induction along a sequence, and functions defined from the end down.     *)

\* A part of a sequence.
LEMMA SliceType ==
  ASSUME NEW S, NEW q \in Seq(S), NEW a \in Nat, a >= 1, NEW b \in Nat, b <= Len(q)
  PROVE  SubSeq(q, a, b) \in Seq(S)
<1>1. PICK n \in Nat : n = Len(q)
  BY LenProperties
<1>2. \A i \in a..b : i \in 1..n
  BY <1>1
<1> QED
  BY <1>1, <1>2, SubSeqProperties

\* Induction along the appends that make a sequence, for the sequences of a set.
LEMMA AppendClimb ==
  ASSUME NEW S, NEW G, <<>> \in G,
         \A s \in Seq(S) : \A e \in S : s \in G => Append(s, e) \in G
  PROVE  Seq(S) \subseteq G
<1> SUFFICES ASSUME NEW q \in Seq(S) PROVE q \in G
  OBVIOUS
<1>1. PICK n \in Nat : n = Len(q)
  BY LenProperties
<1> DEFINE H == {k \in 0..n : SubSeq(q, 1, k) \in G}
<1>2. 0 \in H
  <2>1. SubSeq(q, 1, 0) = <<>>
    BY SubSeqEmpty
  <2>2. 0 \in 0..n
    OBVIOUS
  <2> QED
    BY <2>1, <2>2
<1>3. ASSUME NEW k \in 1..n, k - 1 \in H PROVE k \in H
  <2>1. PICK e \in S : e = q[k]
    BY <1>1, ElementOfSeq
  <2>2. PICK s \in Seq(S) : s = SubSeq(q, 1, k - 1)
    <3>1. 1 \in Nat /\ 1 >= 1 /\ k - 1 \in Nat /\ k - 1 <= Len(q)
      BY <1>1
    <3>2. SubSeq(q, 1, k - 1) \in Seq(S)
      BY <3>1, SliceType
    <3> QED
      BY <3>2
  <2>3. SubSeq(q, 1, k) = s \o <<e>>
    BY <1>1, <2>1, <2>2, SubSeqRecursiveSecond
  <2>4. Append(s, e) = s \o <<e>>
    BY AppendIsConcat
  <2>5. s \in G
    BY <1>3, <2>2
  <2>6. Append(s, e) \in G
    BY <2>5
  <2>7. SubSeq(q, 1, k) = Append(s, e)
    BY ONLY <2>3, <2>4
  <2>8. SubSeq(q, 1, k) \in G
    BY ONLY <2>6, <2>7
  <2>9. k \in 0..n
    OBVIOUS
  <2> QED
    BY ONLY <2>8, <2>9
<1> HIDE DEF H
<1>4. 0..n \subseteq H
  BY <1>2, <1>3, Climb
<1>5. SubSeq(q, 1, n) \in G
  BY <1>4 DEF H
<1> QED
  BY <1>1, <1>5, SubSeqFull

\* f is zero at the end, and elsewhere is made by F from what it is further on.
FromTheEnd(f, lo, hi, zero, next, F) ==
  /\ f[hi] = zero
  /\ \A i \in lo..(hi - 1) : f[i] = F[i][f[next[i]]]

Onward(next, lo, hi) == \A i \in lo..(hi - 1) : next[i] \in (i + 1)..hi

Descends(V, lo, hi, zero, next, F) ==
  \E f \in [lo..hi -> V] : FromTheEnd(f, lo, hi, zero, next, F)

LEMMA DownExists ==
  ASSUME NEW V, NEW zero \in V, NEW lo \in Int, NEW hi \in Int, lo <= hi,
         NEW next, Onward(next, lo, hi), NEW F \in [lo..(hi - 1) -> [V -> V]]
  PROVE  Descends(V, lo, hi, zero, next, F)
<1>1. PICK n \in Nat : n = hi - lo
  OBVIOUS
<1> DEFINE G == {k \in 0..n : \E f \in [hi - k..hi -> V] : FromTheEnd(f, hi - k, hi, zero, next, F)}
<1>2. 0 \in G
  <2> DEFINE f == [i \in hi - 0..hi |-> zero]
  <2>1. f \in [hi - 0..hi -> V]
    OBVIOUS
  <2>2. hi \in hi - 0..hi
    OBVIOUS
  <2>3. FromTheEnd(f, hi - 0, hi, zero, next, F)
    BY <2>2 DEF FromTheEnd
  <2> HIDE DEF f
  <2> QED
    BY <2>1, <2>3
<1>3. ASSUME NEW k \in 1..n, k - 1 \in G PROVE k \in G
  <2>1. PICK f \in [hi - (k - 1)..hi -> V] : FromTheEnd(f, hi - (k - 1), hi, zero, next, F)
    BY <1>3
  <2>2. PICK j \in lo..(hi - 1) : j = hi - k
    BY <1>1
  <2>3. hi - (k - 1) = j + 1
    BY <2>2
  <2>4. PICK m \in (j + 1)..hi : m = next[j]
    BY DEF Onward
  <2> DEFINE h == [i \in j..hi |-> IF i = j THEN F[j][f[m]] ELSE f[i]]
  <2>5. f \in [(j + 1)..hi -> V] /\ f[m] \in V
    BY <2>1, <2>3
  <2>6. h \in [j..hi -> V]
    <3>1. F[j][f[m]] \in V
      BY <2>5
    <3>2. \A i \in j..hi : i # j => i \in (j + 1)..hi
      OBVIOUS
    <3> QED
      BY <2>5, <3>1, <3>2
  <2>7. \A i \in (j + 1)..hi : h[i] = f[i]
    OBVIOUS
  <2>8. h[j] = F[j][f[m]]
    OBVIOUS
  <2> HIDE DEF h
  <2>9. h[hi] = zero
    BY <2>1, <2>7 DEF FromTheEnd
  <2>10. ASSUME NEW i \in j..(hi - 1) PROVE h[i] = F[i][h[next[i]]]
    <3>1. CASE i = j
      BY <2>4, <2>7, <2>8, <3>1
    <3>2. CASE i # j
      <4>1. i \in (j + 1)..(hi - 1) /\ i \in lo..(hi - 1)
        BY <3>2
      <4>2. f[i] = F[i][f[next[i]]]
        BY <2>1, <2>3, <4>1 DEF FromTheEnd
      <4>3. next[i] \in (j + 1)..hi
        BY <4>1 DEF Onward
      <4> QED
        BY <2>7, <4>1, <4>2, <4>3
    <3> QED
      BY <3>1, <3>2
  <2>11. FromTheEnd(h, j, hi, zero, next, F)
    BY <2>9, <2>10 DEF FromTheEnd
  <2> QED
    BY <2>2, <2>6, <2>11
<1> HIDE DEF G
<1>4. n \in G
  <2>1. 0..n \subseteq G
    BY <1>2, <1>3, Climb
  <2> QED
    BY <2>1
<1>5. hi - n = lo
  BY <1>1
<1> QED
  BY <1>4, <1>5 DEF G, Descends

\* The same of a function that is only known where its values have the right type.
DownChosen(g, V, lo, hi, zero, next, F) ==
  /\ g = [i \in lo..hi |-> g[i]] /\ g[hi] = zero
  /\ \A i \in lo..(hi - 1) : g[next[i]] \in V => g[i] = F[i][g[next[i]]]

LEMMA DownIs ==
  ASSUME NEW V, NEW zero \in V, NEW lo \in Int, NEW hi \in Int, lo <= hi,
         NEW next, Onward(next, lo, hi), NEW F \in [lo..(hi - 1) -> [V -> V]],
         NEW g, DownChosen(g, V, lo, hi, zero, next, F)
  PROVE  g \in [lo..hi -> V] /\ FromTheEnd(g, lo, hi, zero, next, F)
<1>1. PICK n \in Nat : n = hi - lo
  OBVIOUS
<1> DEFINE G == {k \in 0..n : \A i \in (hi - k)..hi : g[i] \in V}
<1>2. 0 \in G
  BY DEF DownChosen
<1>3. ASSUME NEW k \in 1..n, k - 1 \in G PROVE k \in G
  <2>1. PICK j \in lo..(hi - 1) : j = hi - k
    BY <1>1
  <2>2. PICK m \in (j + 1)..hi : m = next[j]
    BY DEF Onward
  <2>3. \A i \in (j + 1)..hi : g[i] \in V
    <3>1. \A i \in (hi - (k - 1))..hi : g[i] \in V
      BY <1>3
    <3>2. j + 1 = hi - (k - 1)
      BY <2>1
    <3> QED
      BY <3>1, <3>2
  <2>4. g[j] = F[j][g[m]]
    BY <2>2, <2>3 DEF DownChosen
  <2>5. g[j] \in V
    <3>1. g[m] \in V
      BY <2>3
    <3>2. F[j] \in [V -> V]
      BY <2>1
    <3> QED
      BY <2>4, <3>1, <3>2
  <2>6. \A i \in (hi - k)..hi : i = j \/ i \in (j + 1)..hi
    BY <2>1
  <2>7. \A i \in (hi - k)..hi : g[i] \in V
    BY <2>3, <2>5, <2>6
  <2>8. k \in 0..n
    OBVIOUS
  <2> QED
    BY <2>7, <2>8
<1> HIDE DEF G
<1>4. n \in G
  <2>1. 0..n \subseteq G
    BY <1>2, <1>3, Climb
  <2> QED
    BY <2>1
<1>5. hi - n = lo
  BY <1>1
<1>6. \A i \in lo..hi : g[i] \in V
  BY <1>4, <1>5 DEF G
<1>7. g \in [lo..hi -> V]
  BY <1>6 DEF DownChosen
<1>8. ASSUME NEW i \in lo..(hi - 1) PROVE g[i] = F[i][g[next[i]]]
  <2>1. next[i] \in (i + 1)..hi
    BY DEF Onward
  <2>2. g[next[i]] \in V
    BY <1>6, <2>1
  <2> QED
    BY <2>2 DEF DownChosen
<1> QED
  BY <1>7, <1>8 DEF FromTheEnd, DownChosen

LEMMA LowestPlace ==
  ASSUME NEW n \in Nat, NEW S \in SUBSET (0..n), S # {}
  PROVE  Min(S) \in S /\ \A j \in S : Min(S) <= j
<1> DEFINE T == {i + 1 : i \in S}
<1>1. T \in SUBSET (1..(n + 1)) /\ T # {} /\ n + 1 \in Nat
  <2>1. \A i \in S : i + 1 \in 1..(n + 1)
    OBVIOUS
  <2>2. PICK i \in S : TRUE
    OBVIOUS
  <2>3. i + 1 \in T
    BY <2>2
  <2>4. \A x \in T : x \in 1..(n + 1)
    BY <2>1
  <2> HIDE DEF T
  <2> QED
    BY <2>3, <2>4
<1>2. \A j \in S : j + 1 \in T
  OBVIOUS
<1>3. \A j \in T : j - 1 \in S
  OBVIOUS
<1> HIDE DEF T
<1>4. PICK m : m = Min(T)
  OBVIOUS
<1>5. m \in T /\ \A j \in T : m <= j
  BY <1>1, <1>4, FirstPlace
<1>6. m - 1 \in S /\ \A j \in S : m - 1 <= j
  BY <1>1, <1>2, <1>3, <1>5
<1> QED
  BY <1>6 DEF Min
=============================================================================
