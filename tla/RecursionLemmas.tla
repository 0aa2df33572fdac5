---------------------------- MODULE RecursionLemmas ----------------------------
(***************************************************************************)
(* What the proofs need of recursive functions: that a function defined by *)
(* recursion on the numbers up to n exists, and that a property which each *)
(* number hands on to the next one holds of all of them.  The library      *)
(* states both with operators as parameters; here the property is a set    *)
(* and the step of the recursion a function.                               *)
(***************************************************************************)
EXTENDS Integers, SequencesExt, WellFoundedInduction, TLAPS

\* A set of natural numbers that is not empty has a least element.
LEMMA Least ==
    ASSUME NEW S, S \subseteq Nat, S # {}
    PROVE  \E i \in S : \A j \in S : i <= j
<1> DEFINE R == {x \in Nat \X Nat : x[1] < x[2]}
<1>1. IsWellFoundedOn(R, Nat)
  BY NatLessThanWellFounded DEF OpToRel
<1>2. PICK i \in S : \A j \in S : ~(<<j, i>> \in R)
  <2> HIDE DEF R
  <2> QED BY <1>1, WFMin
<1>3. ASSUME NEW j \in S
      PROVE  i <= j
  <2>1. i \in Nat /\ j \in Nat
    OBVIOUS
  <2>2. <<j, i>> \notin R
    <3> HIDE DEF R
    <3> QED BY <1>2
  <2>3. <<j, i>> \in Nat \X Nat /\ <<j, i>>[1] = j /\ <<j, i>>[2] = i
    BY <2>1
  <2>4. ~(j < i)
    BY <2>2, <2>3
  <2> QED BY <2>1, <2>4
<1> QED BY <1>3

\* A set that has 0, and with each number before n the next one, has all up to n.
LEMMA UpTo ==
    ASSUME NEW n \in Nat, NEW G, 0 \in G, \A k \in 1..n : k - 1 \in G => k \in G
    PROVE  0..n \subseteq G
<1> SUFFICES ASSUME NEW k \in 0..n, k \notin G PROVE FALSE
  OBVIOUS
<1> DEFINE B == {j \in 0..n : j \notin G}
<1>1. B \subseteq Nat /\ B # {}
  OBVIOUS
<1>2. PICK j \in B : \A i \in B : j <= i
  <2> HIDE DEF B
  <2> QED BY <1>1, Least
<1>3. j \in 1..n /\ j \notin G
  BY <1>2
<1>4. j - 1 \in 0..n /\ ~(j <= j - 1)
  BY <1>3
<1>5. j - 1 \in G
  BY <1>2, <1>4
<1> QED BY <1>3, <1>5

\* There is a function with values in S that starts with base and goes on by step.
Defines(n, S, base, step) ==
    \E f \in [0..n -> S] : f[0] = base /\ \A k \in 1..n : f[k] = step[k][f[k - 1]]

LEMMA RecursionExists ==
    ASSUME NEW n \in Nat, NEW S, NEW base \in S, NEW step \in [1..n -> [S -> S]]
    PROVE  Defines(n, S, base, step)
<1> DEFINE Solutions(m) ==
        {f \in [0..m -> S] : f[0] = base /\ \A k \in 1..m : f[k] = step[k][f[k - 1]]}
<1> DEFINE G == {m \in 0..n : Solutions(m) # {}}
<1>1. 0 \in G
  <2>1. [k \in 0..0 |-> base] \in Solutions(0)
    OBVIOUS
  <2> QED BY <2>1
<1>2. ASSUME NEW m \in 1..n, m - 1 \in G
      PROVE  m \in G
  <2>1. PICK f \in [0..(m - 1) -> S] :
            f[0] = base /\ \A k \in 1..(m - 1) : f[k] = step[k][f[k - 1]]
    BY <1>2
  <2>2. m - 1 \in 0..(m - 1) /\ f[m - 1] \in S
    OBVIOUS
  <2> DEFINE g == [k \in 0..m |-> IF k = m THEN step[m][f[m - 1]] ELSE f[k]]
  <2>4. step[m][f[m - 1]] \in S
    BY <2>2
  <2>5. g \in [0..m -> S]
    <3> SUFFICES ASSUME NEW k \in 0..m
                 PROVE  (IF k = m THEN step[m][f[m - 1]] ELSE f[k]) \in S
      OBVIOUS
    <3>1. k = m \/ k \in 0..(m - 1)
      OBVIOUS
    <3> QED BY <2>4, <3>1
  <2>6. g[0] = base
    BY <2>1
  <2>7. ASSUME NEW k \in 1..m
        PROVE  g[k] = step[k][g[k - 1]]
    <3>1. k - 1 \in 0..m /\ k \in 0..m /\ k - 1 # m /\ g[k - 1] = f[k - 1]
      OBVIOUS
    <3>2. CASE k = m
      BY <3>1, <3>2
    <3>3. CASE k # m
      <4>1. k \in 1..(m - 1) /\ g[k] = f[k]
        BY <3>3
      <4> QED BY <2>1, <3>1, <4>1
    <3> QED BY <3>2, <3>3
  <2> HIDE DEF g
  <2>8. g \in Solutions(m)
    BY <2>5, <2>6, <2>7
  <2> HIDE DEF Solutions
  <2> QED BY <2>8
<1>3. 0..n \subseteq G
  <2> HIDE DEF G
  <2> QED BY <1>1, <1>2, UpTo
<1>4. n \in G
  BY <1>3
<1> QED BY <1>4 DEF Defines

\* Joining a sequence of sequences: the recursion of FlattenSeq, from its equation.
LEMMA FlattenSteps ==
    ASSUME NEW T, NEW seqs \in Seq(Seq(T)), seqs # <<>>
    PROVE  LET n == Len(seqs) IN
           \E f : /\ f[1] = seqs[1]
                  /\ \A i \in 2..n : f[i] = f[i - 1] \o seqs[i]
                  /\ FlattenSeq(seqs) = f[n]
<1> DEFINE n == Len(seqs)
<1> DEFINE S == Seq(T)
<1>0. n \in Nat /\ n >= 1 /\ n # 0 /\ \A k \in 1..n : seqs[k] \in S
  OBVIOUS
<1> DEFINE step == [k \in 1..n |-> [s \in S |-> IF k = 1 THEN seqs[1] ELSE s \o seqs[k]]]
<1>1. step \in [1..n -> [S -> S]]
  <2> SUFFICES ASSUME NEW k \in 1..n, NEW s \in S
               PROVE  (IF k = 1 THEN seqs[1] ELSE s \o seqs[k]) \in S
    OBVIOUS
  <2>1. seqs[k] \in Seq(T) /\ seqs[1] \in Seq(T)
    BY <1>0
  <2> QED BY <2>1
<1>2. \A k \in 1..n, s \in S : step[k][s] = IF k = 1 THEN seqs[1] ELSE s \o seqs[k]
  OBVIOUS
<1>3. <<>> \in S
  OBVIOUS
<1> HIDE DEF step, S, n
<1>4. Defines(n, S, <<>>, step)
  BY <1>0, <1>1, <1>3, RecursionExists
<1>5. PICK g \in [0..n -> S] : \A k \in 1..n : g[k] = step[k][g[k - 1]]
  BY <1>4 DEF Defines
<1>6. \A k \in 1..n : g[k] = IF k = 1 THEN seqs[1] ELSE g[k - 1] \o seqs[k]
  <2> TAKE k \in 1..n
  <2>1. k - 1 \in 0..n
    BY <1>0
  <2>2. g[k - 1] \in S
    BY <2>1
  <2> QED BY <1>2, <1>5, <2>2
<1> DEFINE h == [k \in 1..n |-> g[k]]
<1> DEFINE Body(f) == [i \in 1..n |-> IF i = 1 THEN seqs[i] ELSE f[i - 1] \o seqs[i]]
<1>7. h = Body(h)
  <2>1. \A k \in 1..n : h[k] = Body(h)[k]
    <3> TAKE k \in 1..n
    <3>1. CASE k = 1
      BY <1>6, <3>1
    <3>2. CASE k # 1
      <4>1. k - 1 \in 1..n
        BY <1>0, <3>2
      <4> QED BY <1>6, <3>2, <4>1
    <3> QED BY <3>1, <3>2
  <2> QED BY <2>1
<1> DEFINE flatten == CHOOSE f : f = Body(f)
<1>8. flatten = Body(flatten)
  <2> HIDE DEF h, Body
  <2> QED BY <1>7
<1>9. FlattenSeq(seqs) = flatten[n]
  BY <1>0 DEF FlattenSeq, n
<1> HIDE DEF flatten
<1>10. /\ flatten[1] = seqs[1]
       /\ \A i \in 2..n : flatten[i] = flatten[i - 1] \o seqs[i]
  <2>1. \A i \in 1..n : flatten[i] = IF i = 1 THEN seqs[i] ELSE flatten[i - 1] \o seqs[i]
    BY <1>8
  <2>2. 1 \in 1..n /\ \A i \in 2..n : i \in 1..n /\ i # 1
    BY <1>0
  <2> QED BY <2>1, <2>2
<1> QED BY <1>9, <1>10 DEF n

LEMMA FlattenInSeq ==
    ASSUME NEW T, NEW seqs \in Seq(Seq(T))
    PROVE  FlattenSeq(seqs) \in Seq(T)
<1> DEFINE n == Len(seqs)
<1>0. n \in Nat
  OBVIOUS
<1>1. CASE seqs = <<>>
  <2>1. FlattenSeq(seqs) = seqs
    BY <1>1 DEF FlattenSeq
  <2>2. <<>> \in Seq(T)
    OBVIOUS
  <2> QED BY <1>1, <2>1, <2>2
<1>2. CASE seqs # <<>>
  <2>1. PICK f : /\ f[1] = seqs[1]
                 /\ \A i \in 2..n : f[i] = f[i - 1] \o seqs[i]
                 /\ FlattenSeq(seqs) = f[n]
    BY <1>2, FlattenSteps
  <2> DEFINE G == {k \in Nat : k = 0 \/ f[k] \in Seq(T)}
  <2>2. 0 \in G
    OBVIOUS
  <2>3. ASSUME NEW k \in 1..n, k - 1 \in G
        PROVE  k \in G
    <3>1. seqs[k] \in Seq(T) /\ k \in Nat
      OBVIOUS
    <3>2. CASE k = 1
      BY <2>1, <3>1, <3>2
    <3>3. CASE k # 1
      <4>1. k \in 2..n /\ k - 1 # 0
        BY <3>3
      <4>2. f[k - 1] \in Seq(T)
        BY <2>3, <4>1
      <4>3. f[k] = f[k - 1] \o seqs[k]
        BY <2>1, <4>1
      <4>4. f[k] \in Seq(T)
        BY <3>1, <4>2, <4>3
      <4> QED BY <3>1, <4>4
    <3> QED BY <3>2, <3>3
  <2>4. n \in G
    <3> HIDE DEF G
    <3>1. 0..n \subseteq G
      BY <1>0, <2>2, <2>3, UpTo
    <3> QED BY <1>0, <3>1
  <2>5. n # 0
    BY <1>2
  <2> QED BY <2>1, <2>4, <2>5
<1> QED BY <1>1, <1>2
=============================================================================
