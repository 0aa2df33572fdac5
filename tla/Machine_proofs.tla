----------------------------- MODULE Machine_proofs -----------------------------
(***************************************************************************)
(* For every set of orderly languages and any bound on the nodes: what the *)
(* printed code does to rsp and r12 when it is executed, along any path.   *)
(*                                                                         *)
(* The argument is a listing: a line for every instruction that is printed *)
(* and for every task still on the agenda, in their order, with what rsp,  *)
(* alignmentCount and r12 are before it.  A step of gen() replaces one     *)
(* line by a block of lines that starts and ends where the line did; a     *)
(* step of the processor goes from a line to one that expects what the     *)
(* first one leaves.                                                       *)
(***************************************************************************)
EXTENDS Machine, CodeGen_proofs, SequenceTheorems

\* What a task leaves on the stack.
Leaves(task) ==
    IF task.do = "expr" THEN Pushed(task.type)
    ELSE IF task.do \in {"address", "lvalue"} THEN 8 ELSE 0

Statements == {"stmt", "other", "return", "return_nothing", "case"}
Enders == {"epilogue", "return", "return_nothing"}
Labelled(task) ==
    task.do \in {"label", "jmp", "jcc"} \/ (task.do = "case" /\ task.label # NoLabel)

-----------------------------------------------------------------------------
(* Listings. *)

\* place is that of the line in its function, up to 4, where the body starts.
Lines == [instr : Tasks, at : Int, count : Int, r12 : Int, place : 0..4]
Line(t, at, count, reg, place) ==
    [instr |-> t, at |-> at, count |-> count, r12 |-> reg, place |-> place]

\* Where a line can be reached, or what is behind one.
Spot(at, count, reg) == [at |-> at, count |-> count, r12 |-> reg]

R12After(x) ==
    IF x.instr.do = "mov_r12_rsp" THEN x.at + x.instr.n
    ELSE IF x.instr.do = "mov_r12_saved"
         THEN IF x.at + x.instr.n = SavedR12 THEN Callers ELSE Unknown
    ELSE IF x.instr.do = "call" /\ x.instr.type.size > 8 THEN Unknown
    ELSE IF x.instr.do \in {"call", "pop", "unalign"} THEN x.r12 ELSE Unknown

\* What must be true where a task is carried out or an instruction executed.
LineOK(x) ==
    LET t == x.instr
    IN  /\ (x.place = 0) <=> (t.do = "entry")
        /\ x.place = 4 => x.at <= SavedR12
        /\ t.do = "entry" =>
              x.at = local_variable_stack + 8 /\ x.count = local_variable_stack + 8
        /\ t.do \in Statements => x.at = SavedR12 /\ x.count = local_variable_stack - 8
        /\ t.do \in GenCalls => x.r12 = Unknown /\ x.place = 4
        /\ t.do \in {"entry", "label"} => x.r12 = Unknown
        /\ t.do \in {"call", "mov_to_r12"} =>
              t.n % 8 = 0 /\ (SixRegistersSuffice => x.r12 = t.n)
        /\ t.do = "call" => (ArgumentsPadded => x.at % 16 = 0)
        /\ t.do = "mov_to_r12" => x.at = t.n
        /\ t.do = "epilogue" => IF t.n > 8 THEN x.r12 = Callers ELSE x.at = SavedR12

\* The spot behind the line x; Unknown is always true of r12.
Passes(x, s) ==
    /\ \/ Large(x.instr)
       \/ /\ s.at = x.at + Moved(x.instr) - Leaves(x.instr)
          /\ s.count = x.count + Counted(x.instr) - Leaves(x.instr)
    /\ s.r12 \in {Unknown, R12After(x)}

Admits(s, x) == x.at = s.at /\ x.count = s.count /\ x.r12 \in {Unknown, s.r12}

Follows(x, y) ==
    IF y.instr.do = "entry" THEN x.instr.do \in Enders
    ELSE Passes(x, y) /\ y.place = (IF x.place < 4 THEN x.place + 1 ELSE 4)

Listing(L) ==
    /\ L \in Seq(Lines)
    /\ \A i \in DOMAIN L : LineOK(L[i])
    /\ \A i \in DOMAIN L : i + 1 \in DOMAIN L => Follows(L[i], L[i + 1])
    /\ \A i, j \in DOMAIN L :
          Labelled(L[i].instr) /\ Labelled(L[j].instr) /\ L[i].instr.label = L[j].instr.label
              => L[i].at = L[j].at
    /\ L # <<>> => L[1].instr.do = "entry" /\ L[Len(L)].instr.do \in Enders

\* The listing of what is printed and of what is still to be done.
Transcript(L) ==
    /\ Listing(L)
    /\ Len(L) = Len(out) + Len(agenda)
    /\ \A i \in DOMAIN out : L[i].instr = out[i].instr /\ L[i].at = out[i].at
    /\ \A i \in DOMAIN agenda : L[Len(out) + i].instr = agenda[i]
    /\ agenda # <<>> => L[Len(out) + 1].count = alignmentCount

Listed == \E L : Transcript(L)

-----------------------------------------------------------------------------
(* Blocks of lines. *)

\* The tasks lead from the spot s to the spot t; their labels are in own, and at base.
Runs(tasks, base, own, s, t) ==
    \E B \in Seq(Lines) :
        /\ Len(B) = Len(tasks)
        /\ \A i \in DOMAIN B :
              /\ B[i].instr = tasks[i] /\ B[i].place = 4 /\ LineOK(B[i])
              /\ Labelled(tasks[i]) => B[i].at = base /\ tasks[i].label \in own
        /\ \A i \in DOMAIN B : i + 1 \in DOMAIN B => Passes(B[i], B[i + 1])
        /\ IF B = <<>> THEN t.at = s.at /\ t.count = s.count /\ t.r12 \in {Unknown, s.r12}
           ELSE Admits(s, B[1]) /\ Passes(B[Len(B)], t)

LEMMA ConcatFacts ==
    ASSUME NEW S, NEW T, NEW a \in Seq(T), NEW c \in Seq(T),
           NEW A \in Seq(S), NEW C \in Seq(S), Len(A) = Len(a), Len(C) = Len(c)
    PROVE  /\ A \o C \in Seq(S) /\ Len(A \o C) = Len(a \o c) /\ Len(A \o C) = Len(A) + Len(C)
           /\ Len(A) \in Nat /\ Len(C) \in Nat
           /\ DOMAIN A = 1..Len(A) /\ DOMAIN C = 1..Len(C)
           /\ DOMAIN (A \o C) = 1..(Len(A) + Len(C))
           /\ \A i \in DOMAIN A : (A \o C)[i] = A[i] /\ (a \o c)[i] = a[i]
           /\ \A i \in DOMAIN C : (A \o C)[Len(A) + i] = C[i] /\ (a \o c)[Len(A) + i] = c[i]
<1>1. Len(A) \in Nat /\ Len(C) \in Nat /\ DOMAIN A = 1..Len(A) /\ DOMAIN C = 1..Len(C)
  OBVIOUS
<1>2. A \o C \in Seq(S) /\ Len(A \o C) = Len(A) + Len(C) /\ Len(a \o c) = Len(A) + Len(C)
  OBVIOUS
<1>3. DOMAIN (A \o C) = 1..(Len(A) + Len(C))
  BY <1>1, <1>2
<1>4. \A i \in DOMAIN A : (A \o C)[i] = A[i] /\ (a \o c)[i] = a[i]
  BY <1>1
<1>5. ASSUME NEW i \in DOMAIN C
      PROVE  (A \o C)[Len(A) + i] = C[i] /\ (a \o c)[Len(A) + i] = c[i]
  BY <1>1
<1> QED BY <1>1, <1>2, <1>3, <1>4, <1>5

\* A sequence with the elements of the one and then those of the other is their concatenation.
LEMMA ConcatIs ==
    ASSUME NEW S, NEW a \in Seq(S), NEW c \in Seq(S), NEW w \in Seq(S),
           Len(w) = Len(a) + Len(c), \A i \in 1..Len(a) : w[i] = a[i],
           \A i \in 1..Len(c) : w[Len(a) + i] = c[i]
    PROVE  a \o c = w
<1> DEFINE v == a \o c
<1>1. v \in Seq(S) /\ Len(v) = Len(w) /\ Len(a) \in Nat /\ Len(c) \in Nat
  OBVIOUS
<1>2. ASSUME NEW i \in 1..Len(v) PROVE v[i] = w[i]
  <2>1. CASE i <= Len(a)
    <3>1. i \in 1..Len(a) /\ v[i] = a[i]
      BY <1>1, <2>1
    <3> QED BY <3>1
  <2>2. CASE i > Len(a)
    <3>1. i - Len(a) \in 1..Len(c) /\ i = Len(a) + (i - Len(a))
      BY <1>1, <2>2
    <3>2. v[i] = c[i - Len(a)]
      BY <1>1, <2>2
    <3> QED BY <3>1, <3>2
  <2> QED BY <1>1, <2>1, <2>2
<1> HIDE DEF v
<1>3. v = w
  BY <1>1, <1>2, SeqEqual, Zenon
<1> QED BY <1>3 DEF v

LEMMA Pair == \A a, b : <<a>> \o <<b>> = <<a, b>>
<1> TAKE a, b
<1> DEFINE S == {a, b}
           s == <<a>>
           t == <<b>>
           u == <<a, b>>
<1>1. /\ s \in Seq(S) /\ t \in Seq(S) /\ u \in Seq(S) /\ Len(u) = Len(s) + Len(t)
      /\ \A i \in 1..Len(s) : u[i] = s[i]
      /\ \A i \in 1..Len(t) : u[Len(s) + i] = t[i]
  <2>1. s \in Seq(S) /\ t \in Seq(S) /\ u \in Seq(S) /\ Len(u) = Len(s) + Len(t)
    OBVIOUS
  <2>2. \A i \in 1..Len(s) : u[i] = s[i]
    OBVIOUS
  <2>3. \A i \in 1..Len(t) : u[Len(s) + i] = t[i]
    OBVIOUS
  <2> QED BY <2>1, <2>2, <2>3
<1> HIDE DEF S, s, t, u
<1>2. s \o t = u
  BY <1>1, ConcatIs, Zenon
<1> QED BY <1>2 DEF s, t, u

LEMMA PairAndOne == \A a, b, c : <<a, b>> \o <<c>> = <<a, b, c>>
<1> TAKE a, b, c
<1> DEFINE S == {a, b, c}
           s == <<a, b>>
           t == <<c>>
           u == <<a, b, c>>
<1>1. /\ s \in Seq(S) /\ t \in Seq(S) /\ u \in Seq(S) /\ Len(u) = Len(s) + Len(t)
      /\ \A i \in 1..Len(s) : u[i] = s[i]
      /\ \A i \in 1..Len(t) : u[Len(s) + i] = t[i]
  OBVIOUS
<1> HIDE DEF S, s, t, u
<1>2. s \o t = u
  BY <1>1, ConcatIs, Zenon
<1> QED BY <1>2 DEF s, t, u

LEMMA Triple == \A a, b, c : <<a>> \o <<b>> \o <<c>> = <<a, b, c>>
<1> TAKE a, b, c
<1>1. <<a>> \o <<b>> = <<a, b>>
  BY Pair, Zenon
<1>2. <<a, b>> \o <<c>> = <<a, b, c>>
  BY PairAndOne, Zenon
<1> QED BY <1>1, <1>2, Zenon

LEMMA TripleAndPair == \A a, b, c, d, e : <<a, b, c>> \o <<d, e>> = <<a, b, c, d, e>>
<1> TAKE a, b, c, d, e
<1> DEFINE S == {a, b, c, d, e}
           s == <<a, b, c>>
           t == <<d, e>>
           u == <<a, b, c, d, e>>
<1>1. /\ s \in Seq(S) /\ t \in Seq(S) /\ u \in Seq(S) /\ Len(u) = Len(s) + Len(t)
      /\ \A i \in 1..Len(s) : u[i] = s[i]
      /\ \A i \in 1..Len(t) : u[Len(s) + i] = t[i]
  OBVIOUS
<1> HIDE DEF S, s, t, u
<1>2. s \o t = u
  BY <1>1, ConcatIs, Zenon
<1> QED BY <1>2 DEF s, t, u

LEMMA MemberAt ==
    ASSUME NEW S, NEW q \in Seq(S), NEW i \in DOMAIN q
    PROVE  q[i] \in S
OBVIOUS

LEMMA RunsCat ==
    ASSUME NEW T, NEW a \in Seq(T), NEW c \in Seq(T), NEW base, NEW own, NEW s, NEW t, NEW u,
           Runs(a, base, own, s, t), Runs(c, base, own, t, u)
    PROVE  Runs(a \o c, base, own, s, u)
<1>1. PICK A \in Seq(Lines) :
        /\ Len(A) = Len(a)
        /\ \A i \in DOMAIN A :
              /\ A[i].instr = a[i] /\ A[i].place = 4 /\ LineOK(A[i])
              /\ Labelled(a[i]) => A[i].at = base /\ a[i].label \in own
        /\ \A i \in DOMAIN A : i + 1 \in DOMAIN A => Passes(A[i], A[i + 1])
        /\ IF A = <<>> THEN t.at = s.at /\ t.count = s.count /\ t.r12 \in {Unknown, s.r12}
           ELSE Admits(s, A[1]) /\ Passes(A[Len(A)], t)
  BY DEF Runs
<1>2. PICK C \in Seq(Lines) :
        /\ Len(C) = Len(c)
        /\ \A i \in DOMAIN C :
              /\ C[i].instr = c[i] /\ C[i].place = 4 /\ LineOK(C[i])
              /\ Labelled(c[i]) => C[i].at = base /\ c[i].label \in own
        /\ \A i \in DOMAIN C : i + 1 \in DOMAIN C => Passes(C[i], C[i + 1])
        /\ IF C = <<>> THEN u.at = t.at /\ u.count = t.count /\ u.r12 \in {Unknown, t.r12}
           ELSE Admits(t, C[1]) /\ Passes(C[Len(C)], u)
  BY DEF Runs
<1> DEFINE B == A \o C
<1>3. /\ B \in Seq(Lines) /\ Len(B) = Len(a \o c) /\ Len(B) = Len(A) + Len(C)
      /\ Len(A) \in Nat /\ Len(C) \in Nat
      /\ DOMAIN A = 1..Len(A) /\ DOMAIN C = 1..Len(C) /\ DOMAIN B = 1..(Len(A) + Len(C))
      /\ \A i \in DOMAIN A : B[i] = A[i] /\ (a \o c)[i] = a[i]
      /\ \A i \in DOMAIN C : B[Len(A) + i] = C[i] /\ (a \o c)[Len(A) + i] = c[i]
  <2>1. Len(A) = Len(a) /\ Len(C) = Len(c)
    BY <1>1, <1>2
  <2> QED BY <2>1, ConcatFacts, SMTT(30)
<1> DEFINE both == a \o c
<1> HIDE DEF B, both
<1>4. \A i \in DOMAIN B : i \in DOMAIN A \/ (i - Len(A) \in DOMAIN C /\ i = Len(A) + (i - Len(A)))
  BY <1>3
<1>5. ASSUME NEW i \in DOMAIN B
      PROVE  /\ B[i].instr = both[i] /\ B[i].place = 4 /\ LineOK(B[i])
             /\ Labelled(both[i]) => B[i].at = base /\ both[i].label \in own
  <2>1. CASE i \in DOMAIN A
    BY <1>1, <1>3, <2>1 DEF both
  <2>2. CASE i - Len(A) \in DOMAIN C /\ i = Len(A) + (i - Len(A))
    <3>1. B[i] = C[i - Len(A)] /\ both[i] = c[i - Len(A)]
      BY <1>3, <2>2 DEF both
    <3> QED BY <1>2, <2>2, <3>1
  <2> QED BY <1>4, <2>1, <2>2
<1>6. \A x : (A # <<>> /\ Admits(t, x)) => Passes(A[Len(A)], x)
  BY <1>1 DEF Admits, Passes
<1>7. (A # <<>> /\ C = <<>>) => Passes(A[Len(A)], u)
  BY <1>1, <1>2 DEF Passes
<1>8. \A x : (A = <<>> /\ Admits(t, x)) => Admits(s, x)
  BY <1>1 DEF Admits
<1>9. ASSUME NEW i \in DOMAIN B, i + 1 \in DOMAIN B
      PROVE  Passes(B[i], B[i + 1])
  <2>1. CASE i + 1 \in DOMAIN A
    <3>1. i \in DOMAIN A
      BY <1>3, <1>9, <2>1
    <3> QED BY <1>1, <1>3, <2>1, <3>1
  <2>2. CASE i = Len(A)
    <3>1. i \in DOMAIN A /\ 1 \in DOMAIN C
      BY <1>3, <1>9, <2>2
    <3>2. A # <<>> /\ C # <<>>
      BY <3>1
    <3>3. B[i] = A[Len(A)] /\ B[i + 1] = C[1]
      BY <1>3, <2>2, <3>1
    <3> QED BY <1>2, <1>6, <3>1, <3>2, <3>3
  <2>3. CASE i > Len(A)
    <3>1. /\ i - Len(A) \in DOMAIN C /\ (i - Len(A)) + 1 \in DOMAIN C
          /\ i = Len(A) + (i - Len(A)) /\ i + 1 = Len(A) + ((i - Len(A)) + 1)
      BY <1>3, <1>9, <2>3
    <3>2. B[i] = C[i - Len(A)] /\ B[i + 1] = C[(i - Len(A)) + 1]
      BY <1>3, <3>1, SMTT(30)
    <3> QED BY <1>2, <3>1, <3>2
  <2> QED BY <1>3, <1>9, <2>1, <2>2, <2>3
<1>10. IF B = <<>> THEN u.at = s.at /\ u.count = s.count /\ u.r12 \in {Unknown, s.r12}
       ELSE Admits(s, B[1]) /\ Passes(B[Len(B)], u)
  <2>1. CASE A = <<>> /\ C = <<>>
    <3>1. B = <<>>
      BY <2>1 DEF B
    <3> QED BY <1>1, <1>2, <2>1, <3>1
  <2>2. CASE A # <<>> /\ C = <<>>
    <3>1. B # <<>> /\ Len(B) = Len(A) /\ 1 \in DOMAIN A /\ Len(A) \in DOMAIN A
      BY <1>1, <1>3, <2>2
    <3>2. B[1] = A[1] /\ B[Len(B)] = A[Len(A)]
      BY <1>3, <3>1
    <3> QED BY <1>1, <1>7, <2>2, <3>1, <3>2
  <2>3. CASE C # <<>>
    <3>1. B # <<>> /\ 1 \in DOMAIN C /\ Len(C) \in DOMAIN C /\ B[Len(B)] = C[Len(C)]
      <4>1. Len(C) # 0
        BY <2>3
      <4>2. 1 \in DOMAIN C /\ Len(C) \in DOMAIN C /\ Len(B) # 0
        BY <1>3, <4>1
      <4>3. B[Len(B)] = C[Len(C)]
        BY <1>3, <4>2
      <4> QED BY <4>2, <4>3
    <3>2. Admits(s, B[1])
      <4>1. CASE A = <<>>
        <5>1. B[1] = C[1]
          BY <3>1, <4>1 DEF B
        <5> QED BY <1>2, <1>8, <2>3, <4>1, <5>1
      <4>2. CASE A # <<>>
        <5>1. Len(A) # 0
          BY <4>2
        <5>2. B[1] = A[1]
          BY <1>3, <5>1
        <5> QED BY <1>1, <4>2, <5>2
      <4> QED BY <4>1, <4>2
    <3> QED BY <1>2, <2>3, <3>1, <3>2
  <2> QED BY <2>1, <2>2, <2>3
<1>11. Len(B) = Len(both)
  BY <1>3 DEF both
<1>12. B \in Seq(Lines)
  BY <1>3
<1>13. Runs(both, base, own, s, u)
  BY <1>5, <1>9, <1>10, <1>11, <1>12 DEF Runs
<1> QED BY <1>13 DEF both

LEMMA RunsNone ==
    ASSUME NEW base, NEW own, NEW s
    PROVE  Runs(<<>>, base, own, s, s)
<1> DEFINE B == <<>>
<1>1. B \in Seq(Lines) /\ Len(B) = Len(<<>>) /\ DOMAIN B = {}
  OBVIOUS
<1>2. B = <<>>
  OBVIOUS
<1> HIDE DEF B
<1> QED BY <1>1, <1>2 DEF Runs

LEMMA RunsFlatten ==
    ASSUME NEW T, NEW seqs \in Seq(Seq(T)), NEW base, NEW own, NEW spot,
           \A i \in 1..Len(seqs) : Runs(seqs[i], base, own, spot[i - 1], spot[i])
    PROVE  Runs(FlattenSeq(seqs), base, own, spot[0], spot[Len(seqs)])
<1>1. CASE seqs = <<>>
  <2>1. FlattenSeq(seqs) = <<>> /\ Len(seqs) = 0
    BY <1>1 DEF FlattenSeq
  <2> QED BY <2>1, RunsNone
<1>2. CASE seqs # <<>>
  <2> DEFINE n == Len(seqs)
  <2>1. n \in Nat /\ n >= 1 /\ \A i \in 1..n : seqs[i] \in Seq(T)
    BY <1>2
  <2>2. PICK f : /\ f[1] = seqs[1]
                 /\ \A i \in 2..n : f[i] = f[i - 1] \o seqs[i]
                 /\ FlattenSeq(seqs) = f[n]
    BY <1>2, FlattenSteps
  <2> DEFINE G == {i \in Nat : i = 0 \/ (f[i] \in Seq(T) /\ Runs(f[i], base, own, spot[0], spot[i]))}
  <2>3. 0 \in G
    OBVIOUS
  <2>4. ASSUME NEW i \in 1..n, i - 1 \in G
        PROVE  i \in G
    <3>1. CASE i = 1
      <4>1. Runs(seqs[1], base, own, spot[0], spot[1])
        <5>1. 1 \in 1..n /\ 1 - 1 = 0
          BY <2>1
        <5> QED BY <5>1
      <4> QED BY <2>1, <2>2, <3>1, <4>1
    <3>2. CASE i # 1
      <4>1. i - 1 # 0 /\ i \in 2..n /\ i \in Nat
        BY <3>2
      <4>2. f[i - 1] \in Seq(T) /\ Runs(f[i - 1], base, own, spot[0], spot[i - 1])
        BY <2>4, <4>1
      <4>3. seqs[i] \in Seq(T) /\ Runs(seqs[i], base, own, spot[i - 1], spot[i])
        BY <2>1
      <4>4. Runs(f[i - 1] \o seqs[i], base, own, spot[0], spot[i])
        BY <4>2, <4>3, RunsCat
      <4>5. f[i] = f[i - 1] \o seqs[i]
        BY <2>2, <4>1
      <4>6. f[i - 1] \o seqs[i] \in Seq(T)
        BY <4>2, <4>3
      <4> QED BY <4>1, <4>4, <4>5, <4>6
    <3> QED BY <3>1, <3>2
  <2> HIDE DEF G, n
  <2>5. n \in G
    <3>1. 0..n \subseteq G
      BY <2>1, <2>3, <2>4, UpTo
    <3> QED BY <2>1, <3>1
  <2> QED BY <2>1, <2>2, <2>5 DEF G, n
<1> QED BY <1>1, <1>2

\* The task goes from the height a to the height b, with nothing known of r12, and with
\* alignmentCount k above rsp.
Fits(t, a, b, k, base, own) ==
    /\ t \in Tasks
    /\ t.do \notin {"entry", "frame", "align", "unalign", "call", "mov_to_r12"}
    /\ a \in Int /\ k \in Int /\ a <= SavedR12
    /\ b = a + Moved(t) - Leaves(t)
    /\ t.do \in Statements => a = SavedR12 /\ k = local_variable_stack
    /\ t.do = "epilogue" => a = SavedR12 /\ t.n <= 8
    /\ Labelled(t) => a = base /\ t.label \in own

LEMMA SmallNumbers ==
    ASSUME NEW t \in Types, language \in Languages
    PROVE  /\ Pushed(t) \in Nat
           /\ t.size \in Nat
<1>1. t.size \in Nat
  BY TypesOfLanguage
<1> QED BY <1>1 DEF Pushed

LEMMA ChangesAreInt ==
    ASSUME NEW t \in Tasks, language \in Languages
    PROVE  Moved(t) \in Int /\ Counted(t) \in Int /\ Leaves(t) \in Int
<1>1. t.n \in Int /\ t.type \in Types \cup {NoType}
  BY DEF Tasks
<1>2. Moved(t) \in Int /\ Counted(t) \in Int
  BY <1>1 DEF Moved, Counted
<1>3. Pushed(t.type) \in Int
  <2>1. CASE t.type = NoType
    BY <2>1 DEF Pushed, NoType
  <2>2. CASE t.type \in Types
    BY <2>2, SmallNumbers
  <2> QED BY <1>1, <2>1, <2>2
<1>4. Leaves(t) \in Int
  BY <1>3 DEF Leaves
<1> QED BY <1>2, <1>4

LEMMA FitsOK ==
    ASSUME NEW t, NEW a, NEW b, NEW k, NEW base, NEW own, Fits(t, a, b, k, base, own),
           NEW x, x.instr = t, x.at = a, x.count = a + k, x.r12 = Unknown, x.place = 4
    PROVE  LineOK(x)
<1>1. /\ t.do \notin {"entry", "frame", "align", "unalign", "call", "mov_to_r12"}
      /\ a \in Int /\ k \in Int /\ a <= SavedR12
      /\ t.do \in Statements => a = SavedR12 /\ k = local_variable_stack
      /\ t.do = "epilogue" => a = SavedR12 /\ t.n <= 8
      /\ Labelled(t) => a = base /\ t.label \in own
      /\ t \in Tasks
  BY DEF Fits
<1>2. t.do \in Statements => x.at = SavedR12 /\ x.count = local_variable_stack - 8
  BY <1>1 DEF SavedR12, local_variable_stack
<1>3. t.do = "epilogue" => ~(t.n > 8) /\ x.at = SavedR12
  BY <1>1 DEF Tasks
<1> QED BY <1>1, <1>2, <1>3 DEF LineOK

LEMMA Walk ==
    ASSUME language \in Languages, NEW tasks \in Seq(Tasks), tasks # <<>>, NEW d, NEW k \in Int,
           NEW base, NEW own,
           \A i \in 1..Len(tasks) : Fits(tasks[i], d[i], d[i + 1], k, base, own)
    PROVE  Runs(tasks, base, own, Spot(d[1], d[1] + k, Unknown),
                Spot(d[Len(tasks) + 1], d[Len(tasks) + 1] + k, Unknown))
<1> DEFINE n == Len(tasks)
           B == [i \in 1..n |-> Line(tasks[i], d[i], d[i] + k, Unknown, 4)]
           s == Spot(d[1], d[1] + k, Unknown)
           t == Spot(d[n + 1], d[n + 1] + k, Unknown)
<1>1. n \in Nat /\ n >= 1 /\ DOMAIN tasks = 1..n /\ \A i \in 1..n : tasks[i] \in Tasks
  OBVIOUS
<1>2. \A i \in 1..n : /\ B[i].instr = tasks[i] /\ B[i].at = d[i] /\ B[i].count = d[i] + k
                      /\ B[i].r12 = Unknown /\ B[i].place = 4
  BY DEF Line
<1>3. \A i \in 1..n : B[i] = Line(tasks[i], d[i], d[i] + k, Unknown, 4)
  OBVIOUS
<1>4. B \in Seq(Lines)
  <2>1. \A i \in 1..n : Line(tasks[i], d[i], d[i] + k, Unknown, 4) \in Lines
    BY <1>1 DEF Lines, Line, Fits, Unknown
  <2> QED BY <1>1, <2>1
<1>5. Len(B) = n /\ DOMAIN B = 1..n /\ B # <<>>
  BY <1>1
<1>6. s.at = d[1] /\ s.count = d[1] + k /\ s.r12 = Unknown
  BY DEF Spot
<1>7. t.at = d[n + 1] /\ t.count = d[n + 1] + k /\ t.r12 = Unknown
  BY DEF Spot
<1> HIDE DEF B, n, s, t
<1>8. ASSUME NEW i \in 1..n
      PROVE  LineOK(B[i])
  <2>1. Fits(tasks[i], d[i], d[i + 1], k, base, own)
    BY DEF n
  <2> QED BY <1>2, <2>1, FitsOK
<1>9. ASSUME NEW i \in 1..n, NEW x, x.at = d[i + 1], x.count = d[i + 1] + k, x.r12 = Unknown
      PROVE  Passes(B[i], x)
  <2>1. Fits(tasks[i], d[i], d[i + 1], k, base, own)
    BY DEF n
  <2>2. Counted(tasks[i]) = Moved(tasks[i])
    BY <2>1 DEF Fits, Counted, Moved
  <2>3. Moved(tasks[i]) \in Int /\ Leaves(tasks[i]) \in Int
    BY <1>1, ChangesAreInt
  <2>4. /\ d[i] \in Int /\ d[i + 1] = d[i] + Moved(tasks[i]) - Leaves(tasks[i])
    BY <2>1 DEF Fits
  <2>5. d[i + 1] + k = (d[i] + k) + Moved(tasks[i]) - Leaves(tasks[i])
    BY <2>3, <2>4
  <2> QED BY <1>2, <1>9, <2>2, <2>4, <2>5 DEF Passes
<1>10. \A i \in DOMAIN B : i + 1 \in DOMAIN B => Passes(B[i], B[i + 1])
  BY <1>2, <1>5, <1>9
<1>11. Admits(s, B[1]) /\ Passes(B[Len(B)], t)
  <2>1. 1 \in 1..n /\ n \in 1..n
    BY <1>1
  <2>2. Admits(s, B[1])
    BY <1>2, <1>6, <2>1 DEF Admits
  <2> QED BY <1>5, <1>7, <1>9, <2>1, <2>2
<1>12. ASSUME NEW i \in DOMAIN B
       PROVE  /\ B[i].instr = tasks[i] /\ B[i].place = 4 /\ LineOK(B[i])
              /\ Labelled(tasks[i]) => B[i].at = base /\ tasks[i].label \in own
  <2>1. Fits(tasks[i], d[i], d[i + 1], k, base, own)
    BY <1>5 DEF n
  <2> QED BY <1>2, <1>5, <1>8, <2>1 DEF Fits
<1>13. Len(B) = Len(tasks)
  BY <1>5 DEF n
<1>14. Runs(tasks, base, own, s, t)
  BY <1>4, <1>5, <1>10, <1>11, <1>12, <1>13 DEF Runs
<1> QED BY <1>14 DEF s, t, n

-----------------------------------------------------------------------------
(* A block in the place of a line. *)

\* Where the head of the agenda is.
LEMMA Here ==
    ASSUME GenInv, LargeReturnsLast, NEW L, Transcript(L), agenda # <<>>,
           Head(agenda).do # "entry"
    PROVE  /\ Len(out) \in Nat /\ Len(out) >= 1 /\ Len(agenda) \in Nat
           /\ DOMAIN L = 1..(Len(out) + Len(agenda))
           /\ Len(out) + 1 \in DOMAIN L
           /\ L[Len(out) + 1] \in Lines /\ LineOK(L[Len(out) + 1])
           /\ L[Len(out) + 1].instr = Head(agenda)
           /\ L[Len(out) + 1].at = Height /\ L[Len(out) + 1].count = alignmentCount
           /\ Follows(L[Len(out)], L[Len(out) + 1])
           /\ Height \in Int /\ alignmentCount \in Int
           /\ Height % 8 = 0 /\ alignmentCount % 8 = 0 /\ (alignmentCount - Height) % 16 = 0
           /\ language \in Languages /\ Head(agenda) \in Tasks
<1> DEFINE n == Len(out)
<1>1. /\ agenda \in Seq(Tasks) /\ out \in Seq(Printed(labelIndex))
      /\ alignmentCount \in Int /\ alignmentCount % 8 = 0 /\ language \in Languages
      /\ Inside(labelIndex) /\ Height \in Int
  BY SituationFacts DEF GenInv, Situation
<1>2. /\ n \in Nat /\ Len(agenda) \in Nat /\ Len(agenda) >= 1 /\ Head(agenda) = agenda[1]
      /\ Head(agenda) \in Tasks /\ 1 \in DOMAIN agenda /\ DOMAIN out = 1..n
  BY <1>1
<1>3. out # <<>> /\ n >= 1 /\ n \in DOMAIN out /\ Last(out) = out[n]
  <2>1. out # <<>>
    BY <1>1 DEF Inside
  <2> QED BY <1>1, <2>1 DEF Last
<1>4. /\ Listing(L) /\ L \in Seq(Lines) /\ Len(L) = n + Len(agenda)
      /\ L[n].instr = out[n].instr /\ L[n].at = out[n].at
      /\ L[n + 1].instr = agenda[1] /\ L[n + 1].count = alignmentCount
  BY <1>2, <1>3 DEF Transcript, Listing
<1>5. /\ DOMAIN L = 1..(n + Len(agenda)) /\ n \in DOMAIN L /\ n + 1 \in DOMAIN L
      /\ L[n + 1] \in Lines
  BY <1>2, <1>3, <1>4
<1>6. LineOK(L[n + 1]) /\ Follows(L[n], L[n + 1])
  BY <1>4, <1>5 DEF Listing
<1>7. ~Large(L[n].instr)
  <2>1. Large(out[n].instr) => (agenda # <<>> => Head(agenda).do = "entry")
    <3>1. ~(n < Len(out))
      BY <1>2
    <3> QED BY <1>2, <1>3, <3>1 DEF LargeReturnsLast
  <2> QED BY <1>4, <2>1
<1>8. L[n + 1].at = L[n].at + Moved(L[n].instr) - Leaves(L[n].instr)
  <2>1. L[n + 1].instr.do # "entry"
    BY <1>2, <1>4
  <2> QED BY <1>6, <1>7, <2>1 DEF Follows, Passes
<1>9. Height = out[n].at + Moved(out[n].instr)
  BY <1>3 DEF Height
<1>10. out[n].instr.do \in Instructions /\ out[n].at \in Int /\ out[n].instr \in Tasks
  <2>1. out[n] \in Printed(labelIndex)
    BY <1>1, <1>3
  <2> QED BY <2>1 DEF Printed
<1>11. Leaves(L[n].instr) = 0
  BY <1>4, <1>10 DEF Leaves, Instructions
<1>12. Moved(out[n].instr) \in Int
  BY <1>1, <1>10, ChangesAreInt
<1>13. L[n + 1].at = Height
  BY <1>4, <1>8, <1>9, <1>10, <1>11, <1>12
<1>14. (alignmentCount - Height) % 16 = 0
  BY <1>1, <1>3, <1>9 DEF Inside
<1>15. Height % 8 = 0
  BY <1>1, <1>14
<1> QED BY <1>1, <1>2, <1>3, <1>4, <1>5, <1>6, <1>13, <1>14, <1>15

LEMMA HereCalled ==
    ASSUME GenInv, LargeReturnsLast, Listed, agenda # <<>>, Head(agenda).do \in GenCalls
    PROVE  /\ Height \in Int /\ alignmentCount \in Int
           /\ Height % 8 = 0 /\ alignmentCount % 8 = 0 /\ (alignmentCount - Height) % 16 = 0
           /\ language \in Languages /\ Head(agenda) \in Tasks /\ Height <= SavedR12
           /\ Head(agenda).do \in Statements =>
                 Height = SavedR12 /\ alignmentCount - Height = local_variable_stack
<1>1. PICK L : Transcript(L)
  BY DEF Listed
<1>2. Head(agenda).do # "entry"
  BY DEF GenCalls
<1> DEFINE x == L[Len(out) + 1]
<1>3. /\ LineOK(x) /\ x.instr = Head(agenda) /\ x.at = Height /\ x.count = alignmentCount
      /\ Height \in Int /\ alignmentCount \in Int
      /\ Height % 8 = 0 /\ alignmentCount % 8 = 0 /\ (alignmentCount - Height) % 16 = 0
      /\ language \in Languages /\ Head(agenda) \in Tasks
  BY <1>1, <1>2, Here
<1> HIDE DEF x
<1>4. Height <= SavedR12
  BY <1>3 DEF LineOK
<1>5. Head(agenda).do \in Statements => Height = SavedR12 /\ alignmentCount = local_variable_stack - 8
  BY <1>3 DEF LineOK
<1> QED BY <1>3, <1>4, <1>5 DEF SavedR12, local_variable_stack

LEMMA Positions ==
    ASSUME NEW i \in Nat, NEW n \in Nat, NEW m \in Nat, NEW N \in Nat
    PROVE  /\ \/ i + 1 <= n \/ (i = n /\ m # 0) \/ (i = n /\ m = 0)
              \/ (i > n /\ i + 1 <= n + m) \/ (i > n /\ i = n + m) \/ i > n + m
           /\ i > n + m /\ i + 1 <= N + m - 1 =>
                 /\ i - m + 1 \in (n + 2)..N /\ (i - m + 1) + 1 \in (n + 2)..N
                 /\ i = (i - m + 1) + m - 1 /\ i + 1 = ((i - m + 1) + 1) + m - 1
                 /\ i - m + 1 \in 1..N /\ (i - m + 1) + 1 \in 1..N
           /\ i > m /\ i <= m + (N - n - 1) =>
                 /\ i - m + 1 \in 2..(N - n) /\ i = (i - m + 1) + m - 1
                 /\ n + (i - m + 1) \in (n + 2)..N /\ n + i = (n + (i - m + 1)) + m - 1
                 /\ i - m + 1 \in 1..(N - n)
OBVIOUS

\* What is to be replaced says nothing of r12, and only its label may be used again.
LEMMA ListingStep ==
    ASSUME GenInv, LargeReturnsLast, Listed, agenda # <<>>, Head(agenda).do \in GenCalls,
           language' = language, alignmentCount' = alignmentCount, out' = out,
           NEW tasks \in Seq(Tasks), agenda' = tasks \o Tail(agenda),
           NEW own,
           \A l \in own : \/ l.index = labelIndex
                          \/ Labelled(Head(agenda)) /\ l = Head(agenda).label,
           Runs(tasks, Height, own, Spot(Height, alignmentCount, Unknown),
                Spot(Height - Leaves(Head(agenda)), alignmentCount - Leaves(Head(agenda)), Unknown)),
           Head(agenda).do \in Enders => tasks # <<>> /\ tasks[Len(tasks)].do \in Enders
    PROVE  Listed'
<1> DEFINE n == Len(out)
           h == Head(agenda)
           s == Spot(Height, alignmentCount, Unknown)
           t == Spot(Height - Leaves(h), alignmentCount - Leaves(h), Unknown)
<1>1. PICK L : Transcript(L)
  BY DEF Listed
<1> DEFINE x == L[n + 1]
           N == Len(L)
<1>2. h.do # "entry" /\ ~Large(h) /\ Moved(h) = 0 /\ Counted(h) = 0
  BY DEF GenCalls, Large, Moved, Counted
<1>3. /\ n \in Nat /\ n >= 1 /\ n + 1 \in DOMAIN L
      /\ LineOK(x) /\ x.instr = h /\ x.at = Height /\ x.count = alignmentCount /\ x \in Lines
      /\ Follows(L[n], x) /\ Height \in Int /\ alignmentCount \in Int
      /\ language \in Languages /\ h \in Tasks
  BY <1>1, <1>2, Here
<1>4. /\ L \in Seq(Lines) /\ N \in Nat /\ DOMAIN L = 1..N /\ n + 1 <= N
      /\ agenda \in Seq(Tasks) /\ Len(agenda) = N - n /\ DOMAIN out = 1..n
      /\ out \in Seq(Printed(labelIndex))
  <2>1. L \in Seq(Lines) /\ Len(L) = Len(out) + Len(agenda)
    BY <1>1 DEF Transcript, Listing
  <2>2. agenda \in Seq(Tasks) /\ out \in Seq(Printed(labelIndex))
    BY DEF GenInv, Situation
  <2> QED BY <1>3, <2>1, <2>2
<1>5. /\ \A i \in 1..N : LineOK(L[i])
      /\ \A i \in 1..N : i + 1 \in 1..N => Follows(L[i], L[i + 1])
      /\ \A i, j \in 1..N :
          Labelled(L[i].instr) /\ Labelled(L[j].instr) /\ L[i].instr.label = L[j].instr.label
              => L[i].at = L[j].at
      /\ L[1].instr.do = "entry" /\ L[N].instr.do \in Enders
      /\ \A i \in 1..n : L[i].instr = out[i].instr /\ L[i].at = out[i].at
      /\ \A i \in 1..(N - n) : L[n + i].instr = agenda[i]
  <2>1. Listing(L) /\ DOMAIN L = 1..N /\ Len(L) = N /\ L # <<>>
    BY <1>1, <1>3, <1>4 DEF Transcript
  <2>2. /\ \A i \in 1..N : LineOK(L[i])
        /\ \A i \in 1..N : i + 1 \in 1..N => Follows(L[i], L[i + 1])
        /\ \A i, j \in 1..N :
            Labelled(L[i].instr) /\ Labelled(L[j].instr) /\ L[i].instr.label = L[j].instr.label
                => L[i].at = L[j].at
        /\ L[1].instr.do = "entry" /\ L[N].instr.do \in Enders
    <3> HIDE DEF N
    <3>1. /\ \A i \in DOMAIN L : LineOK(L[i])
          /\ \A i \in DOMAIN L : i + 1 \in DOMAIN L => Follows(L[i], L[i + 1])
          /\ \A i, j \in DOMAIN L :
                Labelled(L[i].instr) /\ Labelled(L[j].instr) /\ L[i].instr.label = L[j].instr.label
                    => L[i].at = L[j].at
          /\ L[1].instr.do = "entry" /\ L[Len(L)].instr.do \in Enders
      BY <2>1 DEF Listing
    <3> HIDE DEF n, h, s, t, x
    <3>2. /\ \A i \in 1..N : LineOK(L[i])
          /\ \A i \in 1..N : i + 1 \in 1..N => Follows(L[i], L[i + 1])
      BY <2>1, <3>1
    <3>3. \A i, j \in 1..N :
              Labelled(L[i].instr) /\ Labelled(L[j].instr) /\ L[i].instr.label = L[j].instr.label
                  => L[i].at = L[j].at
      BY <2>1, <3>1, Zenon
    <3>4. L[1].instr.do = "entry" /\ L[N].instr.do \in Enders
      BY <2>1, <3>1
    <3> QED BY <3>2, <3>3, <3>4
  <2>3. DOMAIN agenda = 1..(N - n)
    BY <1>4
  <2>4. /\ \A i \in 1..n : L[i].instr = out[i].instr /\ L[i].at = out[i].at
        /\ \A i \in 1..(N - n) : L[n + i].instr = agenda[i]
    <3> HIDE DEF N
    <3> QED BY <1>1, <1>4, <2>3 DEF Transcript, n
  <2> QED BY <2>2, <2>4
<1>6. x.place = 4 /\ x.r12 = Unknown
  BY <1>3 DEF LineOK
<1>7. Passes(L[n], x) /\ (IF L[n].place < 4 THEN L[n].place + 1 ELSE 4) = 4
  BY <1>2, <1>3, <1>6 DEF Follows
<1>8. PICK B \in Seq(Lines) :
        /\ Len(B) = Len(tasks)
        /\ \A i \in DOMAIN B :
              /\ B[i].instr = tasks[i] /\ B[i].place = 4 /\ LineOK(B[i])
              /\ Labelled(tasks[i]) => B[i].at = Height /\ tasks[i].label \in own
        /\ \A i \in DOMAIN B : i + 1 \in DOMAIN B => Passes(B[i], B[i + 1])
        /\ IF B = <<>> THEN t.at = s.at /\ t.count = s.count /\ t.r12 \in {Unknown, s.r12}
           ELSE Admits(s, B[1]) /\ Passes(B[Len(B)], t)
  BY DEF Runs
<1> DEFINE m == Len(B)
<1>9. /\ m \in Nat /\ DOMAIN B = 1..m /\ m = Len(tasks) /\ ((B = <<>>) <=> (m = 0))
      /\ DOMAIN tasks = 1..m
  BY <1>8
<1>10. /\ s.at = Height /\ s.count = alignmentCount /\ s.r12 = Unknown
       /\ t.at = Height - Leaves(h) /\ t.count = alignmentCount - Leaves(h) /\ t.r12 = Unknown
  BY DEF Spot
<1>11. Leaves(h) \in Int
  BY <1>3, ChangesAreInt
<1> DEFINE M == [i \in 1..(N + m - 1) |->
                    IF i <= n THEN L[i] ELSE IF i <= n + m THEN B[i - n] ELSE L[i - m + 1]]
<1> HIDE DEF n, h, s, t, x, N, m
<1>12. /\ M \in Seq(Lines) /\ Len(M) = N + m - 1 /\ DOMAIN M = 1..(N + m - 1)
       /\ \A i \in 1..n : M[i] = L[i]
       /\ \A i \in 1..m : M[n + i] = B[i]
       /\ \A i \in (n + 2)..N : M[i + m - 1] = L[i]
  <2>1. ASSUME NEW i \in 1..(N + m - 1)
        PROVE  (IF i <= n THEN L[i] ELSE IF i <= n + m THEN B[i - n] ELSE L[i - m + 1]) \in Lines
    <3>1. CASE i <= n
      <4>1. i \in 1..N
        BY <1>3, <1>4, <1>9, <3>1
      <4> QED BY <1>4, <3>1, <4>1
    <3>2. CASE i > n /\ i <= n + m
      <4>1. i - n \in 1..m
        BY <1>3, <1>9, <3>2
      <4> QED BY <1>3, <1>8, <1>9, <3>2, <4>1
    <3>3. CASE i > n + m
      <4>1. i - m + 1 \in 1..N
        BY <1>3, <1>4, <1>9, <3>3
      <4> QED BY <1>3, <1>4, <1>9, <3>3, <4>1
    <3> QED BY <1>3, <1>9, <3>1, <3>2, <3>3
  <2>2. N + m - 1 \in Nat
    BY <1>3, <1>4, <1>9
  <2>3. M \in Seq(Lines) /\ Len(M) = N + m - 1 /\ DOMAIN M = 1..(N + m - 1)
    BY <2>1, <2>2
  <2>4. \A i \in 1..n : M[i] = L[i]
    BY <1>3, <1>4, <1>9
  <2>5. \A i \in 1..m : M[n + i] = B[i]
    BY <1>3, <1>4, <1>9
  <2>6. \A i \in (n + 2)..N : M[i + m - 1] = L[i]
    BY <1>3, <1>4, <1>9
  <2> QED BY <2>3, <2>4, <2>5, <2>6
<1> HIDE DEF M
<1>numbers. /\ n \in Nat /\ n >= 1 /\ m \in Nat /\ N \in Nat /\ n + 1 <= N
           /\ DOMAIN M = 1..(N + m - 1)
  BY <1>3, <1>4, <1>9, <1>12
<1>13. ASSUME NEW i \in DOMAIN M
       PROVE  \/ i \in 1..n /\ M[i] = L[i]
              \/ i - n \in 1..m /\ M[i] = B[i - n]
              \/ i - m + 1 \in (n + 2)..N /\ M[i] = L[i - m + 1]
  <2>1. CASE i <= n
    BY <1>3, <1>12, <2>1
  <2>2. CASE i > n /\ i <= n + m
    <3>1. i - n \in 1..m /\ i = n + (i - n)
      BY <1>3, <1>9, <1>12, <2>2
    <3> QED BY <1>12, <3>1
  <2>3. CASE i > n + m
    <3>1. i - m + 1 \in (n + 2)..N /\ i = (i - m + 1) + m - 1
      BY <1>numbers, <2>3
    <3> QED BY <1>12, <3>1
  <2> QED BY <1>3, <1>9, <1>12, <2>1, <2>2, <2>3
<1>14. ASSUME NEW i \in DOMAIN M
       PROVE  LineOK(M[i])
  <2>1. CASE i \in 1..n /\ M[i] = L[i]
    <3>1. i \in 1..N
      BY <1>numbers, <2>1
    <3> QED BY <1>5, <2>1, <3>1
  <2>2. CASE i - n \in 1..m /\ M[i] = B[i - n]
    BY <1>8, <1>9, <2>2
  <2>3. CASE i - m + 1 \in (n + 2)..N /\ M[i] = L[i - m + 1]
    <3>1. i - m + 1 \in 1..N
      BY <1>numbers, <2>3
    <3> QED BY <1>5, <2>3, <3>1
  <2> QED BY <1>13, <2>1, <2>2, <2>3
<1>15. \A i \in 1..m : B[i].instr.do # "entry" /\ B[i].place = 4
  BY <1>8, <1>9 DEF LineOK
<1>16. /\ R12After(x) = Unknown
       /\ h.do \in GenCalls
  BY <1>3 DEF R12After, GenCalls, h
<1>17. ASSUME NEW y, Follows(x, y), y.instr.do # "entry"
       PROVE  /\ y.place = 4 /\ y.at = t.at /\ y.count = t.count /\ y.r12 = Unknown
              /\ \A z : Passes(z, t) => Passes(z, y)
  <2>1. y.place = 4
    BY <1>6, <1>17 DEF Follows
  <2>2. y.at = t.at /\ y.count = t.count /\ y.r12 = Unknown
    BY <1>2, <1>3, <1>10, <1>11, <1>16, <1>17 DEF Follows, Passes
  <2> QED BY <1>10, <2>1, <2>2 DEF Passes
<1>18. ASSUME m # 0
       PROVE  Follows(L[n], M[n + 1]) /\ M[n + 1].count = alignmentCount
  <2>1. M[n + 1] = B[1] /\ 1 \in 1..m
    BY <1>9, <1>12, <1>18
  <2>2. B[1].at = x.at /\ B[1].count = x.count /\ B[1].r12 = Unknown
    BY <1>3, <1>8, <1>9, <1>10, <1>18 DEF Admits
  <2>3. Passes(L[n], B[1])
    BY <1>7, <2>2 DEF Passes
  <2> QED BY <1>3, <1>7, <1>15, <2>1, <2>2, <2>3 DEF Follows
<1>19. ASSUME m # 0, n + 2 <= N
       PROVE  Follows(B[m], L[n + 2])
  <2>1. Follows(x, L[n + 2]) /\ m \in 1..m
    <3>1. n + 1 \in 1..N /\ (n + 1) + 1 \in 1..N /\ (n + 1) + 1 = n + 2
      BY <1>3, <1>4, <1>19
    <3> QED BY <1>5, <1>9, <1>19, <3>1 DEF x
  <2>2. CASE L[n + 2].instr.do = "entry"
    <3>1. h.do \in Enders
      BY <1>3, <2>1, <2>2 DEF Follows
    <3>2. B[m].instr.do \in Enders
      BY <1>8, <1>9, <2>1, <3>1 DEF h
    <3> QED BY <2>2, <3>2 DEF Follows
  <2>3. CASE L[n + 2].instr.do # "entry"
    <3>1. Passes(B[m], t)
      BY <1>8, <1>9, <1>19 DEF m
    <3>2. Passes(B[m], L[n + 2]) /\ L[n + 2].place = 4
      BY <1>17, <2>1, <2>3, <3>1
    <3> QED BY <1>15, <2>1, <2>3, <3>2 DEF Follows
  <2> QED BY <2>2, <2>3
<1>20. ASSUME m = 0
       PROVE  n + 2 <= N /\ Follows(L[n], L[n + 2]) /\ L[n + 2].count = alignmentCount
  <2>1. h.do \notin Enders
    BY <1>9, <1>20 DEF h
  <2>2. n + 2 <= N
    <3>1. N # n + 1
      BY <1>3, <1>5, <2>1 DEF x
    <3> QED BY <1>3, <1>4, <3>1
  <2>3. Follows(x, L[n + 2])
    <3>1. n + 1 \in 1..N /\ (n + 1) + 1 \in 1..N /\ (n + 1) + 1 = n + 2
      BY <1>3, <1>4, <2>2
    <3> QED BY <1>5, <3>1 DEF x
  <2>4. L[n + 2].instr.do # "entry"
    BY <1>3, <2>1, <2>3 DEF Follows
  <2>5. t.at = s.at /\ t.count = s.count
    BY <1>8, <1>9, <1>20
  <2>6. L[n + 2].at = x.at /\ L[n + 2].count = x.count /\ L[n + 2].r12 = Unknown
    BY <1>3, <1>10, <1>17, <2>3, <2>4, <2>5
  <2>7. Passes(L[n], L[n + 2])
    BY <1>7, <2>6 DEF Passes
  <2> QED BY <1>3, <1>7, <1>17, <2>2, <2>3, <2>4, <2>6, <2>7 DEF Follows
<1>21. ASSUME NEW i \in DOMAIN M, i + 1 \in DOMAIN M
       PROVE  Follows(M[i], M[i + 1])
  <2>0. i \in Nat /\ i >= 1 /\ i + 1 <= N + m - 1
    BY <1>numbers, <1>21
  <2>1. CASE i + 1 <= n
    <3>1. i \in 1..n /\ i + 1 \in 1..n /\ i \in 1..N /\ i + 1 \in 1..N
      BY <1>3, <1>4, <1>12, <2>1, SMTT(30)
    <3> QED BY <1>5, <1>12, <3>1
  <2>2. CASE i = n /\ m # 0
    <3>1. M[i] = L[n]
      BY <1>3, <1>12, <2>2
    <3> QED BY <1>18, <2>2, <3>1
  <2>3. CASE i = n /\ m = 0
    <3>1. M[i] = L[n] /\ M[i + 1] = L[n + 2]
      <4>1. n + 2 \in (n + 2)..N /\ (n + 2) + m - 1 = i + 1 /\ n \in 1..n
        BY <1>3, <1>4, <1>20, <2>3
      <4> QED BY <1>12, <2>3, <4>1
    <3> QED BY <1>20, <2>3, <3>1
  <2>4. CASE i > n /\ i + 1 <= n + m
    <3>1. i - n \in 1..m /\ (i - n) + 1 \in 1..m /\ i = n + (i - n) /\ i + 1 = n + ((i - n) + 1)
      BY <1>numbers, <2>0, <2>4
    <3>2. M[i] = B[i - n] /\ M[i + 1] = B[(i - n) + 1]
      BY <1>12, <3>1
    <3>3. Passes(B[i - n], B[(i - n) + 1])
      BY <1>8, <1>9, <3>1
    <3> QED BY <1>15, <3>1, <3>2, <3>3 DEF Follows
  <2>5. CASE i > n /\ i = n + m
    <3>1. m \in 1..m /\ m # 0 /\ n + 2 <= N /\ n + 2 \in (n + 2)..N /\ i + 1 = (n + 2) + m - 1
      BY <1>3, <1>4, <1>9, <1>12, <1>21, <2>5, SMTT(30)
    <3>2. M[i] = B[m] /\ M[i + 1] = L[n + 2]
      BY <1>12, <2>5, <3>1
    <3> QED BY <1>19, <3>1, <3>2
  <2>6. CASE i > n + m
    <3>0. i > n + m /\ i + 1 <= N + m - 1 =>
                 /\ i - m + 1 \in (n + 2)..N /\ (i - m + 1) + 1 \in (n + 2)..N
                 /\ i = (i - m + 1) + m - 1 /\ i + 1 = ((i - m + 1) + 1) + m - 1
                 /\ i - m + 1 \in 1..N /\ (i - m + 1) + 1 \in 1..N
      BY <1>numbers, <2>0, Positions
    <3> DEFINE j == i - m + 1
    <3>1. /\ j \in (n + 2)..N /\ j + 1 \in (n + 2)..N /\ i = j + m - 1 /\ i + 1 = (j + 1) + m - 1
          /\ j \in 1..N /\ j + 1 \in 1..N
      BY <2>0, <2>6, <3>0
    <3>2. M[i] = L[j] /\ M[i + 1] = L[j + 1]
      <4> HIDE DEF j
      <4> QED BY <1>12, <3>1
    <3> HIDE DEF j
    <3> QED BY <1>5, <3>1, <3>2
  <2>7. \/ i + 1 <= n \/ (i = n /\ m # 0) \/ (i = n /\ m = 0)
        \/ (i > n /\ i + 1 <= n + m) \/ (i > n /\ i = n + m) \/ i > n + m
    BY <1>numbers, <2>0, Positions
  <2> QED BY <2>1, <2>2, <2>3, <2>4, <2>5, <2>6, <2>7
<1>22. ASSUME NEW i \in 1..N, i # n + 1
       PROVE  L[i].instr.label.index < labelIndex /\ L[i].instr.label.index \in Nat
  <2>1. CASE i \in 1..n
    <3>1. out[i] \in Printed(labelIndex)
      <4>1. out \in Seq(Printed(labelIndex)) /\ i \in DOMAIN out
        BY <1>4, <2>1
      <4> QED BY <4>1, MemberAt, Zenon
    <3> QED BY <1>5, <2>1, <3>1 DEF Printed, Tasks
  <2>2. CASE i \notin 1..n
    <3>1. i - n \in 2..(N - n) /\ i - n \in 1..(N - n) /\ i = n + (i - n)
      BY <1>3, <1>4, <1>22, <2>2
    <3>2. L[i].instr = agenda[i - n]
      BY <1>5, <3>1
    <3>3. Tail(agenda) \in Seq(Work(labelIndex))
      BY SituationFacts DEF GenInv
    <3>4. agenda[i - n] = Tail(agenda)[(i - n) - 1] /\ (i - n) - 1 \in DOMAIN Tail(agenda)
      BY <1>3, <1>4, <3>1
    <3>5. agenda[i - n] \in Work(labelIndex)
      BY <3>3, <3>4
    <3> QED BY <3>2, <3>5 DEF Work, Tasks
  <2> QED BY <2>1, <2>2
<1>23. ASSUME NEW i \in DOMAIN M, Labelled(M[i].instr)
       PROVE  \/ \E j \in 1..N : j # n + 1 /\ M[i] = L[j]
              \/ M[i].at = Height /\ M[i].instr.label \in own
  <2>1. CASE i \in 1..n /\ M[i] = L[i]
    BY <1>3, <1>4, <2>1, SMTT(30)
  <2>2. CASE i - n \in 1..m /\ M[i] = B[i - n]
    BY <1>8, <1>9, <1>23, <2>2
  <2>3. CASE i - m + 1 \in (n + 2)..N /\ M[i] = L[i - m + 1]
    <3>1. i - m + 1 \in 1..N /\ i - m + 1 # n + 1
      BY <1>3, <1>4, <1>9, <2>3
    <3> QED BY <2>3, <3>1
  <2> QED BY <1>13, <2>1, <2>2, <2>3
<1>24. ASSUME NEW j \in 1..N, j # n + 1, NEW y, y.at = Height, y.instr.label \in own,
              Labelled(L[j].instr), L[j].instr.label = y.instr.label
       PROVE  L[j].at = y.at
  <2>1. L[j].instr.label.index < labelIndex /\ L[j].instr.label.index \in Nat /\ labelIndex \in Nat
    BY <1>22, <1>24 DEF GenInv, Situation
  <2>2. y.instr.label.index # labelIndex
    BY <1>24, <2>1
  <2>3. Labelled(h) /\ y.instr.label = h.label
    BY <1>24, <2>2 DEF h
  <2>4. n + 1 \in 1..N /\ L[n + 1].instr = h /\ L[n + 1].at = Height
    BY <1>3, <1>4 DEF x
  <2> QED BY <1>5, <1>24, <2>3, <2>4
<1>25. ASSUME NEW i \in DOMAIN M, NEW j \in DOMAIN M, Labelled(M[i].instr), Labelled(M[j].instr),
              M[i].instr.label = M[j].instr.label
       PROVE  M[i].at = M[j].at
  <2>1. CASE \E k \in 1..N : k # n + 1 /\ M[i] = L[k]
    <3>1. CASE \E k \in 1..N : k # n + 1 /\ M[j] = L[k]
      BY <1>5, <1>25, <2>1, <3>1
    <3>2. CASE M[j].at = Height /\ M[j].instr.label \in own
      BY <1>24, <1>25, <2>1, <3>2
    <3> QED BY <1>23, <1>25, <3>1, <3>2
  <2>2. CASE M[i].at = Height /\ M[i].instr.label \in own
    <3>1. CASE \E k \in 1..N : k # n + 1 /\ M[j] = L[k]
      BY <1>24, <1>25, <2>2, <3>1
    <3>2. CASE M[j].at = Height /\ M[j].instr.label \in own
      BY <2>2, <3>2
    <3> QED BY <1>23, <1>25, <3>1, <3>2
  <2> QED BY <1>23, <1>25, <2>1, <2>2
<1>26. M[1].instr.do = "entry" /\ M[Len(M)].instr.do \in Enders
  <2>1. M[1] = L[1]
    BY <1>3, <1>12
  <2>2. CASE n + 2 <= N
    <3>1. N \in (n + 2)..N
      BY <1>3, <1>4, <2>2
    <3> QED BY <1>5, <1>12, <2>1, <3>1
  <2>3. CASE N = n + 1
    <3>1. h.do \in Enders
      BY <1>3, <1>5, <2>3 DEF x
    <3>2. m # 0 /\ m \in 1..m /\ B[m].instr.do \in Enders
      BY <1>8, <1>9, <3>1, SMTT(30) DEF h
    <3>3. M[Len(M)] = B[m]
      BY <1>3, <1>12, <2>3, <3>2
    <3> QED BY <1>5, <2>1, <3>2, <3>3
  <2> QED BY <1>3, <1>4, <2>2, <2>3
<1>27. Lines' = Lines /\ (\A y : LineOK(y)' = LineOK(y))
  <2>1. Tasks' = Tasks
    BY SameTasks
  <2> QED BY <2>1 DEF Lines, LineOK
<1>28. Listing(M)'
  <2>1. M \in Seq(Lines) /\ M # <<>>
    BY <1>3, <1>4, <1>9, <1>12
  <2>2. Listing(M)
    BY <1>14, <1>21, <1>25, <1>26, <2>1 DEF Listing
  <2>3. M' = M
    BY Zenon DEF M, m, n, N
  <2> QED BY <1>27, <2>2, <2>3, Zenon DEF Listing
<1>29. /\ agenda' \in Seq(Tasks) /\ Len(agenda') = m + (N - n - 1)
       /\ \A i \in 1..m : agenda'[i] = tasks[i]
       /\ \A i \in 2..(N - n) : agenda'[i + m - 1] = agenda[i]
  <2>1. /\ Tail(agenda) \in Seq(Tasks) /\ Len(Tail(agenda)) = N - n - 1
        /\ \A i \in 2..(N - n) : Tail(agenda)[i - 1] = agenda[i] /\ i - 1 \in 1..(N - n - 1)
    BY <1>3, <1>4
  <2>2. agenda' \in Seq(Tasks) /\ Len(agenda') = m + (N - n - 1)
    BY <1>9, <2>1
  <2>3. \A i \in 1..m : agenda'[i] = tasks[i]
    BY <1>9, <2>1
  <2>4. \A i \in 1..(N - n - 1) : agenda'[m + i] = Tail(agenda)[i]
    BY <1>3, <1>4, <1>9, <2>1
  <2>5. ASSUME NEW i \in 2..(N - n)
        PROVE  agenda'[i + m - 1] = agenda[i]
    <3>1. i - 1 \in 1..(N - n - 1) /\ i + m - 1 = m + (i - 1) /\ Tail(agenda)[i - 1] = agenda[i]
      BY <1>3, <1>4, <1>9, <2>1
    <3> QED BY <2>4, <3>1
  <2> QED BY <2>2, <2>3, <2>5
<1>30. ASSUME NEW i \in DOMAIN agenda'
       PROVE  M[n + i].instr = agenda'[i]
  <2>1. DOMAIN agenda' = 1..(m + (N - n - 1)) /\ i \in Nat /\ i >= 1 /\ i <= m + (N - n - 1)
    BY <1>29, <1>numbers
  <2>2. CASE i <= m
    BY <1>8, <1>9, <1>12, <1>29, <2>1, <2>2
  <2>3. CASE i > m
    <3>0. i > m /\ i <= m + (N - n - 1) =>
                 /\ i - m + 1 \in 2..(N - n) /\ i = (i - m + 1) + m - 1
                 /\ n + (i - m + 1) \in (n + 2)..N /\ n + i = (n + (i - m + 1)) + m - 1
                 /\ i - m + 1 \in 1..(N - n)
      BY <1>numbers, <2>1, Positions
    <3> DEFINE j == i - m + 1
    <3>1. /\ j \in 2..(N - n) /\ i = j + m - 1 /\ n + j \in (n + 2)..N
          /\ n + i = (n + j) + m - 1 /\ j \in 1..(N - n)
      BY <2>1, <2>3, <3>0
    <3> HIDE DEF j
    <3>2. M[n + i] = L[n + j] /\ agenda'[i] = agenda[j]
      BY <1>12, <1>29, <3>1
    <3> QED BY <1>5, <3>1, <3>2
  <2> QED BY <1>9, <2>1, <2>2, <2>3
<1>31. M[n + 1].count = alignmentCount
  <2>1. CASE m # 0
    BY <1>18, <2>1
  <2>2. CASE m = 0
    <3>1. n + 2 \in (n + 2)..N /\ (n + 2) + m - 1 = n + 1
      BY <1>3, <1>4, <1>20, <2>2
    <3>2. M[n + 1] = L[n + 2]
      BY <1>12, <3>1
    <3> QED BY <1>20, <2>2, <3>2
  <2> QED BY <2>1, <2>2
<1>32. Transcript(M)'
  <2>1. Len(M) = n + Len(agenda')
    BY <1>3, <1>4, <1>9, <1>12, <1>29
  <2>2. \A i \in DOMAIN out : M[i].instr = out[i].instr /\ M[i].at = out[i].at
    BY <1>4, <1>5, <1>12
  <2>3. n = Len(out')
    BY DEF n
  <2>4. M' = M
    BY Zenon DEF M, m, n, N
  <2>5. /\ Len(M) = Len(out') + Len(agenda')
        /\ \A i \in DOMAIN agenda' : M[Len(out') + i].instr = agenda'[i]
        /\ M[Len(out') + 1].count = alignmentCount'
    BY <1>30, <1>31, <2>1, <2>3, Zenon
  <2> QED BY <1>28, <2>2, <2>4, <2>5, Zenon DEF Transcript
<1> QED BY <1>32 DEF Listed

-----------------------------------------------------------------------------
(* What the blocks are made of. *)

LEMMA PushedOf ==
    ASSUME language \in Languages
    PROVE  /\ Pushed(Scalar) = 8 /\ Pushed(Void) = 0
           /\ \A t \in ArrayTypes : Pushed(t) = 8 /\ t.dataType = "ARRAY"
           /\ \A t \in StructTypes :
                 /\ t.size \in Nat /\ t.size > 0 /\ t.size % 8 = 0 /\ t.dataType = "STRUCT"
                 /\ Pushed(t) = IF t.size <= 8 THEN 8 ELSE t.size
           /\ \A t \in Operands : Pushed(t) = 8 /\ t \in Types
<1>1. /\ ScalarSize \in {1, 4, 8}
      /\ \A t \in StructTypes : t.size \in Nat /\ t.size > 0 /\ t.size % 8 = 0
      /\ ArrayTypes \subseteq Types /\ Scalar \in Types
  BY TypesOfLanguage
<1>2. Pushed(Scalar) = 8 /\ Pushed(Void) = 0
  BY <1>1 DEF Pushed, Scalar, Void
<1>3. \A t \in ArrayTypes : Pushed(t) = 8 /\ t.dataType = "ARRAY"
  BY DEF Pushed, ArrayTypes, Array
<1>4. \A t \in StructTypes : t.dataType = "STRUCT"
  BY DEF StructTypes, Struct
<1>5. \A t \in StructTypes : Pushed(t) = IF t.size <= 8 THEN 8 ELSE t.size
  BY <1>1, <1>4 DEF Pushed
<1> QED BY <1>1, <1>2, <1>3, <1>4, <1>5 DEF Operands

LEMMA FitsMoves ==
    ASSUME language \in Languages, NEW k \in Int, NEW base, NEW own,
           NEW a \in Int, a <= SavedR12
    PROVE  /\ Fits(push, a, a - 8, k, base, own)
           /\ Fits(pop, a, a + 8, k, base, own)
           /\ \A n \in Int : n % 8 = 0 => Fits(sub(n), a, a - n, k, base, own)
           /\ \A j \in Nat : Fits(pop_register(j), a, a + 8, k, base, own)
           /\ \A t \in Types, p \in Nat, id \in Nat : Fits(argument(t, id, p), a, a, k, base, own)
<1> DEFINE b == 1
<1>1. /\ {push, pop, frame} \subseteq Silent(b)
      /\ \A n \in Int : n % 8 = 0 => {sub(n), align(n), unalign(n)} \subseteq Silent(b)
      /\ \A j \in Nat : pop_register(j) \in Silent(b)
  BY InstructionsAreWork
<1>2. ASSUME NEW t \in Types, NEW p \in Nat, NEW id \in Nat
      PROVE  argument(t, id, p) \in Tasks
  <2>1. argument(t, id, p) \in Silent(id + 1)
    <3>1. id + 1 \in Nat /\ id + 1 > 0 /\ id \in 0..((id + 1) - 1)
      OBVIOUS
    <3> QED BY <3>1, InstructionsAreWork
  <2> QED BY <2>1 DEF Silent, Work
<1>3. /\ push \in Tasks /\ pop \in Tasks
      /\ \A n \in Int : n % 8 = 0 => sub(n) \in Tasks
      /\ \A j \in Nat : pop_register(j) \in Tasks
  BY <1>1 DEF Silent, Work
<1>4. /\ push.do = "push" /\ push.n = 8 /\ pop.do = "pop" /\ pop.n = 8
      /\ \A n \in Int : sub(n).do = "sub" /\ sub(n).n = n
      /\ \A j \in Nat : pop_register(j).do = "pop_register" /\ pop_register(j).n = 8
      /\ \A t, p, id : argument(t, id, p).do = "argument"
  BY DEF push, pop, sub, pop_register, argument, Instr, Task
<1>5. ASSUME NEW t \in Tasks, t.do \in {"push", "pop", "sub", "pop_register", "argument"}
      PROVE  Fits(t, a, a + Moved(t), k, base, own)
  <2>1. Leaves(t) = 0 /\ Moved(t) \in Int
    BY <1>5, ChangesAreInt DEF Leaves
  <2>2. t.do \notin Statements /\ ~Labelled(t)
    BY <1>5 DEF Statements, Labelled
  <2> QED BY <1>5, <2>1, <2>2 DEF Fits
<1>6. Moved(push) = -8 /\ Moved(pop) = 8
  BY <1>4 DEF Moved
<1>7. Fits(push, a, a - 8, k, base, own) /\ Fits(pop, a, a + 8, k, base, own)
  <2>1. a + Moved(push) = a - 8 /\ a + Moved(pop) = a + 8
    BY <1>6
  <2>2. Fits(push, a, a + Moved(push), k, base, own) /\ Fits(pop, a, a + Moved(pop), k, base, own)
    BY <1>3, <1>4, <1>5
  <2> QED BY <2>1, <2>2
<1>8. ASSUME NEW n \in Int, n % 8 = 0
      PROVE  Fits(sub(n), a, a - n, k, base, own)
  <2>1. a + Moved(sub(n)) = a - n
    BY <1>4 DEF Moved
  <2>2. Fits(sub(n), a, a + Moved(sub(n)), k, base, own)
    BY <1>3, <1>4, <1>5, <1>8
  <2> QED BY <2>1, <2>2
<1>9. ASSUME NEW j \in Nat
      PROVE  Fits(pop_register(j), a, a + 8, k, base, own)
  <2>1. a + Moved(pop_register(j)) = a + 8
    BY <1>4 DEF Moved
  <2>2. Fits(pop_register(j), a, a + Moved(pop_register(j)), k, base, own)
    BY <1>3, <1>4, <1>5
  <2> QED BY <2>1, <2>2
<1>10. ASSUME NEW t \in Types, NEW p \in Nat, NEW id \in Nat
       PROVE  Fits(argument(t, id, p), a, a, k, base, own)
  <2>1. a + Moved(argument(t, id, p)) = a
    BY <1>4 DEF Moved
  <2>2. Fits(argument(t, id, p), a, a + Moved(argument(t, id, p)), k, base, own)
    BY <1>2, <1>4, <1>5
  <2> QED BY <2>1, <2>2
<1> QED BY <1>7, <1>8, <1>9, <1>10

LEMMA FitsCalls ==
    ASSUME language \in Languages, NEW k \in Int, NEW base, NEW own,
           NEW a \in Int, a <= SavedR12
    PROVE  /\ \A t \in Types : /\ Fits(Expr(t), a, a - Pushed(t), k, base, own)
                               /\ Fits(Address(t), a, a - 8, k, base, own)
                               /\ Fits(Lvalue(t), a, a - 8, k, base, own)
           /\ a = SavedR12 /\ k = local_variable_stack =>
                 /\ \A t \in {Stmt, OtherStmt, Return, ReturnNothing, Case(NoLabel)} :
                       Fits(t, a, a, k, base, own)
                 /\ \A n \in Int : n <= 8 => Fits(epilogue(n), a, a, k, base, own)
<1>1. 1 \in Nat /\ 1 > 0 /\ NoLabel \in LabelsBelow(1)
  BY NoLabelBelow
<1>2. \A t \in Silent(1) \cup Work(1) : t \in Tasks
  BY DEF Silent, Work
<1>3. /\ \A t \in Types : Expr(t) \in Tasks /\ Address(t) \in Tasks /\ Lvalue(t) \in Tasks
      /\ \A t \in {Stmt, OtherStmt, Return, ReturnNothing, Case(NoLabel)} : t \in Tasks
      /\ \A n \in Int : epilogue(n) \in Tasks
  BY <1>1, <1>2, CallsAreWork, InstructionsAreWork
<1>4. ASSUME NEW t \in Types
      PROVE  /\ Fits(Expr(t), a, a - Pushed(t), k, base, own)
             /\ Fits(Address(t), a, a - 8, k, base, own)
             /\ Fits(Lvalue(t), a, a - 8, k, base, own)
  <2>1. /\ Expr(t).do = "expr" /\ Expr(t).type = t
        /\ Address(t).do = "address" /\ Lvalue(t).do = "lvalue"
    BY DEF Expr, Address, Lvalue, Task
  <2>2. Pushed(t) \in Int
    BY SmallNumbers
  <2>3. /\ Leaves(Expr(t)) = Pushed(t) /\ Leaves(Address(t)) = 8 /\ Leaves(Lvalue(t)) = 8
        /\ Moved(Expr(t)) = 0 /\ Moved(Address(t)) = 0 /\ Moved(Lvalue(t)) = 0
    BY <2>1 DEF Leaves, Moved
  <2>4. ASSUME NEW u \in Tasks, u.do \in {"expr", "address", "lvalue"}
        PROVE  u.do \notin Statements /\ ~Labelled(u)
    BY <2>4 DEF Statements, Labelled
  <2>5. a - Pushed(t) = a + 0 - Pushed(t) /\ a - 8 = a + 0 - 8
    BY <2>2
  <2> QED BY <1>3, <2>1, <2>3, <2>4, <2>5 DEF Fits
<1>5. ASSUME a = SavedR12, k = local_variable_stack,
             NEW t \in {Stmt, OtherStmt, Return, ReturnNothing, Case(NoLabel)}
      PROVE  Fits(t, a, a, k, base, own)
  <2>1. t.do \in {"stmt", "other", "return", "return_nothing", "case"} /\ t.label = NoLabel
    BY DEF Stmt, OtherStmt, Return, ReturnNothing, Case, Task
  <2>2. Leaves(t) = 0 /\ Moved(t) = 0 /\ ~Labelled(t)
    BY <2>1 DEF Leaves, Moved, Labelled
  <2>3. a = a + 0 - 0
    OBVIOUS
  <2> QED BY <1>3, <1>5, <2>1, <2>2, <2>3 DEF Fits
<1>6. ASSUME a = SavedR12, NEW n \in Int, n <= 8
      PROVE  Fits(epilogue(n), a, a, k, base, own)
  <2>1. epilogue(n).do = "epilogue" /\ epilogue(n).n = n
    BY DEF epilogue, Instr, Task
  <2>2. Leaves(epilogue(n)) = 0 /\ Moved(epilogue(n)) = 0 /\ ~Labelled(epilogue(n))
    BY <2>1 DEF Leaves, Moved, Labelled
  <2>3. epilogue(n).do \notin Statements
    BY <2>1 DEF Statements
  <2>4. a = a + 0 - 0
    OBVIOUS
  <2> QED BY <1>3, <1>6, <2>1, <2>2, <2>3, <2>4 DEF Fits
<1> QED BY <1>4, <1>5, <1>6

LEMMA FitsLabels ==
    ASSUME NEW b \in Nat, NEW k \in Int, NEW own, NEW base \in Int, base <= SavedR12,
           NEW label \in own, label \in LabelsBelow(b)
    PROVE  /\ \A t \in {define(label), jmp(label), jcc(label)} : Fits(t, base, base, k, base, own)
           /\ base = SavedR12 /\ k = local_variable_stack =>
                 Fits(Case(label), base, base, k, base, own)
<1>1. /\ \A t \in {define(label), jmp(label), jcc(label), Case(label)} :
            t \in Tasks /\ t.label = label
      /\ define(label).do = "label" /\ jmp(label).do = "jmp" /\ jcc(label).do = "jcc"
      /\ Case(label).do = "case"
  <2>1. b > 0
    BY DEF LabelsBelow
  <2>2. \A t \in Work(b) : t \in Tasks
    BY DEF Work
  <2> QED BY <2>1, <2>2, BranchesAreWork, CallsAreWork
<1>2. ASSUME NEW t \in {define(label), jmp(label), jcc(label)}
      PROVE  Fits(t, base, base, k, base, own)
  <2>1. t \in Tasks /\ t.do \in {"label", "jmp", "jcc"} /\ t.label = label
    BY <1>1
  <2>2. Leaves(t) = 0 /\ Moved(t) = 0 /\ t.do \notin Statements
    BY <2>1 DEF Leaves, Moved, Statements
  <2>3. base = base + 0 - 0
    OBVIOUS
  <2> QED BY <2>1, <2>2, <2>3 DEF Fits
<1>3. ASSUME base = SavedR12, k = local_variable_stack
      PROVE  Fits(Case(label), base, base, k, base, own)
  <2>1. Leaves(Case(label)) = 0 /\ Moved(Case(label)) = 0
    BY <1>1 DEF Leaves, Moved
  <2>2. base = base + 0 - 0
    OBVIOUS
  <2> QED BY <1>1, <1>3, <2>1, <2>2 DEF Fits
<1> QED BY <1>2, <1>3

-----------------------------------------------------------------------------
(* Expressions. *)

\* The number of bytes by which alignmentCount is above rsp.
Excess == alignmentCount - Height

SpotAt(a) == Spot(a, a + Excess, Unknown)

\* The next thing to do is a call, and the step puts tasks in its place.
AtGen == agenda # <<>> /\ Head(agenda).do \in GenCalls
Continues(tasks) ==
    agenda' = tasks \o Tail(agenda) /\ UNCHANGED <<language, alignmentCount, out>>

Ready == GenInv /\ LargeReturnsLast /\ Listed /\ AtGen

LEMMA LeafContinues ==
    ASSUME NEW tasks, Leaf(tasks) \/ Node(tasks)
    PROVE  Continues(tasks)
BY DEF Leaf, Node, Continues

LEMMA SpotsHere ==
    ASSUME Ready
    PROVE  /\ Spot(Height, alignmentCount, Unknown) = SpotAt(Height)
           /\ Spot(Height - Leaves(Head(agenda)), alignmentCount - Leaves(Head(agenda)), Unknown)
                = SpotAt(Height - Leaves(Head(agenda)))
           /\ Excess \in Int /\ Height \in Int /\ Leaves(Head(agenda)) \in Int
           /\ Height <= SavedR12 /\ language \in Languages
           /\ Head(agenda).do \in Statements => Height = SavedR12 /\ Excess = local_variable_stack
<1>1. /\ Height \in Int /\ alignmentCount \in Int /\ language \in Languages
      /\ Head(agenda) \in Tasks /\ Height <= SavedR12
      /\ Head(agenda).do \in Statements =>
            Height = SavedR12 /\ alignmentCount - Height = local_variable_stack
  BY HereCalled DEF Ready, AtGen
<1>2. Leaves(Head(agenda)) \in Int
  BY <1>1, ChangesAreInt
<1>3. /\ Height + Excess = alignmentCount
      /\ (Height - Leaves(Head(agenda))) + Excess = alignmentCount - Leaves(Head(agenda))
  BY <1>1, <1>2 DEF Excess
<1> QED BY <1>1, <1>2, <1>3 DEF Excess, SpotAt

LEMMA RunListed ==
    ASSUME Ready, NEW tasks \in Seq(Tasks), Continues(tasks),
           NEW own, \A l \in own : \/ l.index = labelIndex
                                   \/ Labelled(Head(agenda)) /\ l = Head(agenda).label,
           Runs(tasks, Height, own, SpotAt(Height), SpotAt(Height - Leaves(Head(agenda)))),
           Head(agenda).do \in Enders => tasks # <<>> /\ tasks[Len(tasks)].do \in Enders
    PROVE  Listed'
<1>1. Runs(tasks, Height, own, Spot(Height, alignmentCount, Unknown),
           Spot(Height - Leaves(Head(agenda)), alignmentCount - Leaves(Head(agenda)), Unknown))
  BY SpotsHere
<1> QED BY <1>1, ListingStep DEF Ready, AtGen, Continues

\* A block of tasks that leave r12 alone, with the heights d.
LEMMA WalkHere ==
    ASSUME Ready, NEW tasks \in Seq(Tasks), tasks # <<>>, NEW own, NEW d,
           \A i \in 1..Len(tasks) : Fits(tasks[i], d[i], d[i + 1], Excess, Height, own)
    PROVE  Runs(tasks, Height, own, SpotAt(d[1]), SpotAt(d[Len(tasks) + 1]))
<1>1. Excess \in Int /\ language \in Languages
  BY SpotsHere
<1> QED BY <1>1, Walk DEF SpotAt

\* The labels that a call of gen() may print: those with its number.
Fresh == {l \in LabelsBelow(labelIndex + 1) : l.index = labelIndex}

\* The tasks lead from each of the heights d to the next.
Steps(tasks, d, own) ==
    /\ tasks \in Seq(Tasks) /\ tasks # <<>>
    /\ \A i \in 1..Len(tasks) : Fits(tasks[i], d[i], d[i + 1], Excess, Height, own)

LEMMA RunFresh ==
    ASSUME Ready, Head(agenda).do \notin Enders,
           NEW tasks \in Seq(Tasks), Continues(tasks), NEW own, own = {} \/ own = Fresh,
           NEW a, a = Height, NEW b, b = Height - Leaves(Head(agenda)),
           Runs(tasks, Height, own, SpotAt(a), SpotAt(b))
    PROVE  Listed'
<1>1. \A l \in own : l.index = labelIndex
  BY DEF Fresh
<1> QED BY <1>1, RunListed

LEMMA WalkListed ==
    ASSUME Ready, Head(agenda).do \notin Enders,
           NEW tasks, Continues(tasks), NEW own, own = {} \/ own = Fresh,
           NEW d, Steps(tasks, d, own), NEW m, m = Len(tasks) + 1,
           d[1] = Height, d[m] = Height - Leaves(Head(agenda))
    PROVE  Listed'
<1>1. Runs(tasks, Height, own, SpotAt(Height), SpotAt(Height - Leaves(Head(agenda))))
  BY WalkHere DEF Steps
<1>2. \A l \in own : l.index = labelIndex
  BY DEF Fresh
<1> QED BY <1>1, <1>2, RunListed DEF Steps

\* The moves and the calls at the heights of a block.
Moves(own) ==
    /\ \A a, b \in Int : a <= -8 /\ b = a - 8 => Fits(push, a, b, Excess, Height, own)
    /\ \A a, b \in Int : a <= -8 /\ b = a + 8 => Fits(pop, a, b, Excess, Height, own)

SubCalls(own) ==
    /\ \A t \in Types, a \in Int, b \in Int :
          a <= -8 /\ b = a - Pushed(t) => Fits(Expr(t), a, b, Excess, Height, own)
    /\ \A t \in Types, a \in Int, b \in Int :
          a <= -8 /\ Pushed(t) = 8 /\ b = a - 8 => Fits(Expr(t), a, b, Excess, Height, own)
    /\ \A t \in Types, a \in Int, b \in Int :
          a <= -8 /\ b = a - 8 => Fits(Address(t), a, b, Excess, Height, own)
    /\ \A t \in Types, a \in Int, b \in Int :
          a <= -8 /\ b = a - 8 => Fits(Lvalue(t), a, b, Excess, Height, own)

LEMMA MovesHere ==
    ASSUME Ready, NEW own
    PROVE  /\ Moves(own) /\ SubCalls(own) /\ Height \in Int /\ Height <= -8 /\ SavedR12 = -8
           /\ language \in Languages
<1>1. /\ Excess \in Int /\ Height \in Int /\ Height <= SavedR12 /\ language \in Languages
      /\ SavedR12 = -8
  BY SpotsHere DEF SavedR12
<1>2. ASSUME NEW a \in Int, a <= -8
      PROVE  /\ Fits(push, a, a - 8, Excess, Height, own)
             /\ Fits(pop, a, a + 8, Excess, Height, own)
  BY <1>1, <1>2, FitsMoves
<1>3. ASSUME NEW a \in Int, a <= -8, NEW t \in Types
      PROVE  /\ Fits(Expr(t), a, a - Pushed(t), Excess, Height, own)
             /\ Fits(Address(t), a, a - 8, Excess, Height, own)
             /\ Fits(Lvalue(t), a, a - 8, Excess, Height, own)
  BY <1>1, <1>3, FitsCalls
<1>4. Moves(own)
  BY <1>2 DEF Moves
<1>5. SubCalls(own)
  BY <1>3 DEF SubCalls
<1> QED BY <1>1, <1>4, <1>5

\* The call that is replaced is that of an expression of the type.
LEMMA LeavesOfCalls ==
    /\ Head(agenda).do = "expr" => Leaves(Head(agenda)) = Pushed(type)
    /\ Head(agenda).do \in {"address", "lvalue"} => Leaves(Head(agenda)) = 8
    /\ Head(agenda).do \in Statements => Leaves(Head(agenda)) = 0
BY DEF Leaves, Statements, type

LEMMA ArrayListed ==
    ASSUME GenInv, LargeReturnsLast, Listed, gen_array
    PROVE  Listed'
<1>1. /\ Ready /\ type \in ArrayTypes /\ Continues(<<Address(type)>>)
      /\ Head(agenda).do = "expr" /\ Head(agenda).do \notin Enders
  BY LeafContinues DEF gen_array, Calling, Ready, AtGen, GenCalls, Enders
<1> DEFINE H == Height
           tasks == <<Address(type)>>
           d == <<H, H - 8>>
<1>2. Moves({}) /\ SubCalls({}) /\ H \in Int /\ H <= -8 /\ SavedR12 = -8 /\ language \in Languages
  BY <1>1, MovesHere
<1>3. Leaves(Head(agenda)) = 8 /\ type \in Types
  BY <1>1, <1>2, LeavesOfCalls, PushedOf DEF Types
<1> HIDE DEF H
<1>4. Fits(Address(type), H, H - 8, Excess, Height, {})
  BY <1>2, <1>3 DEF SubCalls
<1>5. tasks \in Seq(Tasks) /\ Len(tasks) = 1 /\ tasks # <<>>
  BY <1>4 DEF Fits
<1>6. \A i \in 1..1 : Fits(tasks[i], d[i], d[i + 1], Excess, Height, {})
  BY <1>4
<1>7. d[1] = Height /\ d[2] = Height - Leaves(Head(agenda))
  BY <1>3 DEF H
<1> HIDE DEF tasks, d
<1>8. Steps(tasks, d, {}) /\ 2 = Len(tasks) + 1
  BY <1>5, <1>6 DEF Steps
<1> QED BY <1>1, <1>7, <1>8, WalkListed DEF tasks

LEMMA NumListed ==
    ASSUME GenInv, LargeReturnsLast, Listed, gen_NUM
    PROVE  Listed'
<1>1. /\ Ready /\ type = Scalar /\ Continues(<<push>>)
      /\ Head(agenda).do = "expr" /\ Head(agenda).do \notin Enders
  BY LeafContinues DEF gen_NUM, Calling, Ready, AtGen, GenCalls, Enders
<1> DEFINE H == Height
           tasks == <<push>>
           d == <<H, H - 8>>
<1>2. Moves({}) /\ SubCalls({}) /\ H \in Int /\ H <= -8 /\ SavedR12 = -8 /\ language \in Languages
  BY <1>1, MovesHere
<1>3. Leaves(Head(agenda)) = 8
  BY <1>1, <1>2, LeavesOfCalls, PushedOf
<1> HIDE DEF H
<1>4. Fits(push, H, H - 8, Excess, Height, {})
  BY <1>2 DEF Moves
<1>5. tasks \in Seq(Tasks) /\ Len(tasks) = 1 /\ tasks # <<>>
  BY <1>4 DEF Fits
<1>6. \A i \in 1..1 : Fits(tasks[i], d[i], d[i + 1], Excess, Height, {})
  BY <1>4
<1>7. d[1] = Height /\ d[2] = Height - Leaves(Head(agenda))
  BY <1>3 DEF H
<1> HIDE DEF tasks, d
<1>8. Steps(tasks, d, {}) /\ 2 = Len(tasks) + 1
  BY <1>5, <1>6 DEF Steps
<1> QED BY <1>1, <1>7, <1>8, WalkListed DEF tasks

LEMMA LvarListed ==
    ASSUME GenInv, LargeReturnsLast, Listed, gen_LVAR
    PROVE  Listed'
<1>1. /\ Ready /\ type \in {Scalar} \cup StructTypes
      /\ Continues(<<Lvalue(type), pop>> \o pushVarToStack(type.size))
      /\ Head(agenda).do = "expr" /\ Head(agenda).do \notin Enders
  BY LeafContinues DEF gen_LVAR, Calling, Ready, AtGen, GenCalls, Enders
<1> DEFINE H == Height
           last == IF type.size <= 8 THEN push ELSE sub(type.size)
           tasks == <<Lvalue(type), pop, last>>
           d == <<H, H - 8, H, H - Pushed(type)>>
<1>2. Moves({}) /\ SubCalls({}) /\ H \in Int /\ H <= -8 /\ SavedR12 = -8 /\ language \in Languages
      /\ Excess \in Int
  BY <1>1, MovesHere, SpotsHere
<1>3. /\ Leaves(Head(agenda)) = Pushed(type) /\ type \in Types /\ type.size \in Nat
      /\ Pushed(type) = IF type.size <= 8 THEN 8 ELSE type.size
      /\ type.size > 8 => type.size % 8 = 0
  <2>1. type = Scalar => type.size \in Nat /\ type.size <= 8
    BY <1>2, TypesOfLanguage
  <2> QED BY <1>1, <1>2, <2>1, LeavesOfCalls, PushedOf, TypesOfLanguage
<1>4. <<Lvalue(type), pop>> \o pushVarToStack(type.size) = tasks
  <2>1. pushVarToStack(type.size) = <<last>>
    BY DEF pushVarToStack
  <2>2. <<Lvalue(type), pop>> \o <<last>> = <<Lvalue(type), pop, last>>
    BY PairAndOne, Zenon
  <2> QED BY <2>1, <2>2, Zenon
<1> HIDE DEF H
<1>5. Fits(last, H, H - Pushed(type), Excess, Height, {})
  <2>1. CASE type.size <= 8
    BY <1>2, <1>3, <2>1 DEF Moves
  <2>2. CASE type.size > 8
    <3>1. last = sub(type.size) /\ H - Pushed(type) = H - type.size
      BY <1>3, <2>2
    <3>2. type.size \in Int /\ type.size % 8 = 0 /\ H <= SavedR12
      BY <1>2, <1>3, <2>2
    <3>3. Fits(sub(type.size), H, H - type.size, Excess, Height, {})
      BY <1>2, <3>2, FitsMoves
    <3> QED BY <3>1, <3>3
  <2> QED BY <1>3, <2>1, <2>2
<1>6. /\ Fits(Lvalue(type), H, H - 8, Excess, Height, {})
      /\ Fits(pop, H - 8, H, Excess, Height, {})
  BY <1>2, <1>3 DEF Moves, SubCalls
<1> HIDE DEF last
<1>7. tasks \in Seq(Tasks) /\ Len(tasks) = 3 /\ tasks # <<>>
  BY <1>5, <1>6 DEF Fits
<1>8. \A i \in 1..3 : Fits(tasks[i], d[i], d[i + 1], Excess, Height, {})
  BY <1>5, <1>6
<1>9. d[1] = Height /\ d[4] = Height - Leaves(Head(agenda))
  BY <1>3 DEF H
<1>10. Continues(tasks)
  BY <1>1, <1>4
<1> HIDE DEF tasks, d
<1>11. Steps(tasks, d, {}) /\ 4 = Len(tasks) + 1
  BY <1>7, <1>8 DEF Steps
<1> QED BY <1>1, <1>9, <1>10, <1>11, WalkListed

LEMMA AddrListed ==
    ASSUME GenInv, LargeReturnsLast, Listed, gen_ADDR
    PROVE  Listed'
<1>1. PICK t \in Types \ {Void} : type = Scalar /\ Node(<<Address(t)>>)
  BY DEF gen_ADDR
<1>2. /\ Ready /\ Continues(<<Address(t)>>)
      /\ Head(agenda).do = "expr" /\ Head(agenda).do \notin Enders
  BY <1>1, LeafContinues DEF gen_ADDR, Calling, Ready, AtGen, GenCalls, Enders
<1> DEFINE H == Height
           tasks == <<Address(t)>>
           d == <<H, H - 8>>
<1>3. Moves({}) /\ SubCalls({}) /\ H \in Int /\ H <= -8 /\ language \in Languages
  BY <1>2, MovesHere
<1>4. Leaves(Head(agenda)) = 8
  BY <1>1, <1>2, <1>3, LeavesOfCalls, PushedOf
<1> HIDE DEF H
<1>5. Fits(Address(t), H, H - 8, Excess, Height, {})
  BY <1>3 DEF SubCalls
<1>6. tasks \in Seq(Tasks) /\ Len(tasks) = 1 /\ tasks # <<>>
  BY <1>5 DEF Fits
<1>7. \A i \in 1..1 : Fits(tasks[i], d[i], d[i + 1], Excess, Height, {})
  BY <1>5
<1>8. d[1] = Height /\ d[2] = Height - Leaves(Head(agenda))
  BY <1>4 DEF H
<1> HIDE DEF tasks, d
<1>9. Steps(tasks, d, {}) /\ 2 = Len(tasks) + 1
  BY <1>6, <1>7 DEF Steps
<1> QED BY <1>2, <1>8, <1>9, WalkListed DEF tasks

LEMMA AssignListed ==
    ASSUME GenInv, LargeReturnsLast, Listed, gen_ASSIGN_EQ
    PROVE  Listed'
<1>1. PICK right \in (IF type = Scalar THEN Operands ELSE {type}) :
          Node(<<Expr(right), Address(type), pop>> \o popVarFromStack(type.size))
  BY DEF gen_ASSIGN_EQ
<1>2. /\ Ready /\ type \in {Scalar} \cup StructTypes
      /\ Continues(<<Expr(right), Address(type), pop>> \o popVarFromStack(type.size))
      /\ Head(agenda).do = "expr" /\ Head(agenda).do \notin Enders
  BY <1>1, LeafContinues DEF gen_ASSIGN_EQ, Calling, Ready, AtGen, GenCalls, Enders
<1> DEFINE H == Height
           T == H - Pushed(type)
           whole == <<Expr(right), Address(type), pop, pop, push>>
           part  == <<Expr(right), Address(type), pop>>
           d == <<H, T, T - 8, T, T + 8, T>>
           e == <<H, T, T - 8, T>>
<1>3. Moves({}) /\ SubCalls({}) /\ H \in Int /\ H <= -8 /\ language \in Languages
  BY <1>2, MovesHere
<1>4. /\ Leaves(Head(agenda)) = Pushed(type) /\ type \in Types /\ type.size \in Nat
      /\ right \in Types /\ Pushed(right) = Pushed(type)
      /\ Pushed(type) \in Nat /\ Pushed(type) >= 8
      /\ Pushed(type) = IF type.size <= 8 THEN 8 ELSE type.size
  <2>1. type = Scalar => type.size \in Nat /\ type.size <= 8
    BY <1>3, TypesOfLanguage
  <2>2. /\ type \in Types /\ type.size \in Nat
        /\ Pushed(type) = IF type.size <= 8 THEN 8 ELSE type.size
        /\ Leaves(Head(agenda)) = Pushed(type)
    BY <1>2, <1>3, <2>1, LeavesOfCalls, PushedOf, TypesOfLanguage
  <2>3. right \in Types /\ Pushed(right) = Pushed(type)
    BY <1>1, <1>3, <2>2, PushedOf
  <2> QED BY <2>2, <2>3
<1> HIDE DEF H
<1>5. T \in Int /\ T <= -16
  BY <1>3, <1>4
<1>6. Fits(Expr(right), H, T, Excess, Height, {})
  BY <1>3, <1>4, <1>5 DEF SubCalls
<1> HIDE DEF T
<1>7. /\ Fits(Address(type), T, T - 8, Excess, Height, {})
      /\ Fits(pop, T - 8, T, Excess, Height, {}) /\ Fits(pop, T, T + 8, Excess, Height, {})
      /\ Fits(push, T + 8, T, Excess, Height, {})
  BY <1>3, <1>4, <1>5 DEF Moves, SubCalls
<1>8. CASE type.size <= 8
  <2>1. <<Expr(right), Address(type), pop>> \o popVarFromStack(type.size) = whole
    <3>1. popVarFromStack(type.size) = <<pop, push>>
      BY <1>8 DEF popVarFromStack
    <3>2. <<Expr(right), Address(type), pop>> \o <<pop, push>>
             = <<Expr(right), Address(type), pop, pop, push>>
      BY TripleAndPair, Zenon
    <3> QED BY <3>1, <3>2, Zenon
  <2>2. whole \in Seq(Tasks) /\ Len(whole) = 5 /\ whole # <<>>
    BY <1>6, <1>7 DEF Fits
  <2>3. \A i \in 1..5 : Fits(whole[i], d[i], d[i + 1], Excess, Height, {})
    BY <1>6, <1>7
  <2>4. d[1] = Height /\ d[6] = Height - Leaves(Head(agenda))
    BY <1>4 DEF H, T
  <2>5. Continues(whole)
    BY <1>2, <2>1
  <2> HIDE DEF whole, d
  <2>6. Steps(whole, d, {}) /\ 6 = Len(whole) + 1
    BY <2>2, <2>3 DEF Steps
  <2> QED BY <1>2, <2>4, <2>5, <2>6, WalkListed
<1>9. CASE ~(type.size <= 8)
  <2>1. <<Expr(right), Address(type), pop>> \o popVarFromStack(type.size) = part
    BY <1>9 DEF popVarFromStack
  <2>2. part \in Seq(Tasks) /\ Len(part) = 3 /\ part # <<>>
    BY <1>6, <1>7 DEF Fits
  <2>3. \A i \in 1..3 : Fits(part[i], e[i], e[i + 1], Excess, Height, {})
    BY <1>6, <1>7
  <2>4. e[1] = Height /\ e[4] = Height - Leaves(Head(agenda))
    BY <1>4 DEF H, T
  <2>5. Continues(part)
    BY <1>2, <2>1
  <2> HIDE DEF part, e
  <2>6. Steps(part, e, {}) /\ 4 = Len(part) + 1
    BY <2>2, <2>3 DEF Steps
  <2> QED BY <1>2, <2>4, <2>5, <2>6, WalkListed
<1> QED BY <1>8, <1>9

LEMMA AssignOpListed ==
    ASSUME GenInv, LargeReturnsLast, Listed, gen_ASSIGN_op
    PROVE  Listed'
<1> DEFINE H == Height
           tasks == <<Address(Scalar), push, Expr(Scalar), pop, pop, push, pop, pop, push>>
           d == <<H, H - 8, H - 16, H - 24, H - 16, H - 8, H - 16, H - 8, H, H - 8>>
<1>1. /\ Ready /\ type = Scalar /\ Continues(tasks)
      /\ Head(agenda).do = "expr" /\ Head(agenda).do \notin Enders
  BY LeafContinues DEF gen_ASSIGN_op, Calling, Ready, AtGen, GenCalls, Enders
<1>2. Moves({}) /\ SubCalls({}) /\ H \in Int /\ H <= -8 /\ language \in Languages
  BY <1>1, MovesHere
<1>3. Leaves(Head(agenda)) = 8 /\ Scalar \in Types /\ Pushed(Scalar) = 8
  BY <1>1, <1>2, LeavesOfCalls, PushedOf, TypesOfLanguage
<1> HIDE DEF H
<1>4. /\ Fits(Address(Scalar), H, H - 8, Excess, Height, {})
      /\ Fits(Expr(Scalar), H - 16, H - 24, Excess, Height, {})
  BY <1>2, <1>3 DEF SubCalls
<1>5. /\ Fits(push, H - 8, H - 16, Excess, Height, {})
      /\ Fits(pop, H - 24, H - 16, Excess, Height, {})
      /\ Fits(pop, H - 16, H - 8, Excess, Height, {})
      /\ Fits(pop, H - 8, H, Excess, Height, {})
      /\ Fits(push, H, H - 8, Excess, Height, {})
  BY <1>2 DEF Moves
<1>6. tasks \in Seq(Tasks) /\ Len(tasks) = 9 /\ tasks # <<>>
  BY <1>4, <1>5 DEF Fits
<1>7. \A i \in 1..9 : Fits(tasks[i], d[i], d[i + 1], Excess, Height, {})
  BY <1>4, <1>5
<1>8. d[1] = Height /\ d[10] = Height - Leaves(Head(agenda))
  BY <1>3 DEF H
<1> HIDE DEF tasks, d
<1>9. Steps(tasks, d, {}) /\ 10 = Len(tasks) + 1
  BY <1>6, <1>7 DEF Steps
<1> QED BY <1>1, <1>8, <1>9, WalkListed

LEMMA BinaryListed ==
    ASSUME GenInv, LargeReturnsLast, Listed, gen_binary
    PROVE  Listed'
<1>1. PICK left \in Operands, right \in Operands :
          Node(<<Expr(left), Expr(right), pop, pop, push>>)
  BY DEF gen_binary
<1> DEFINE H == Height
           tasks == <<Expr(left), Expr(right), pop, pop, push>>
           d == <<H, H - 8, H - 16, H - 8, H, H - 8>>
<1>2. /\ Ready /\ type = Scalar /\ Continues(tasks)
      /\ Head(agenda).do = "expr" /\ Head(agenda).do \notin Enders
  BY <1>1, LeafContinues DEF gen_binary, Calling, Ready, AtGen, GenCalls, Enders
<1>3. Moves({}) /\ SubCalls({}) /\ H \in Int /\ H <= -8 /\ language \in Languages
  BY <1>2, MovesHere
<1>4. /\ Leaves(Head(agenda)) = 8 /\ left \in Types /\ right \in Types
      /\ Pushed(left) = 8 /\ Pushed(right) = 8
  BY <1>2, <1>3, LeavesOfCalls, PushedOf
<1> HIDE DEF H
<1>5. /\ Fits(Expr(left), H, H - 8, Excess, Height, {})
      /\ Fits(Expr(right), H - 8, H - 16, Excess, Height, {})
  BY <1>3, <1>4 DEF SubCalls
<1>6. /\ Fits(pop, H - 16, H - 8, Excess, Height, {})
      /\ Fits(pop, H - 8, H, Excess, Height, {})
      /\ Fits(push, H, H - 8, Excess, Height, {})
  BY <1>3 DEF Moves
<1>7. tasks \in Seq(Tasks) /\ Len(tasks) = 5 /\ tasks # <<>>
  BY <1>5, <1>6 DEF Fits
<1>8. \A i \in 1..5 : Fits(tasks[i], d[i], d[i + 1], Excess, Height, {})
  BY <1>5, <1>6
<1>9. d[1] = Height /\ d[6] = Height - Leaves(Head(agenda))
  BY <1>4 DEF H
<1> HIDE DEF tasks, d
<1>10. Steps(tasks, d, {}) /\ 6 = Len(tasks) + 1
  BY <1>7, <1>8 DEF Steps
<1> QED BY <1>2, <1>9, <1>10, WalkListed

LEMMA FreshLabels ==
    ASSUME Ready
    PROVE  /\ \A name \in LabelNames, item \in Nat : Label(name, labelIndex, item) \in Fresh
           /\ \A l \in Fresh : /\ l.index = labelIndex
                               /\ Fits(define(l), Height, Height, Excess, Height, Fresh)
                               /\ Fits(jmp(l), Height, Height, Excess, Height, Fresh)
                               /\ Fits(jcc(l), Height, Height, Excess, Height, Fresh)
           /\ \A l \in Fresh : Head(agenda).do \in Statements =>
                                   Fits(Case(l), Height, Height, Excess, Height, Fresh)
<1>1. labelIndex + 1 \in Nat /\ labelIndex \in 0..((labelIndex + 1) - 1)
  BY Numbers DEF Ready
<1>2. /\ Excess \in Int /\ Height \in Int /\ Height <= SavedR12
      /\ Head(agenda).do \in Statements => Height = SavedR12 /\ Excess = local_variable_stack
  BY SpotsHere
<1>3. \A name \in LabelNames, item \in Nat : Label(name, labelIndex, item) \in Fresh
  BY <1>1, LabelBelow DEF Fresh
<1>4. ASSUME NEW l \in Fresh
      PROVE  /\ l.index = labelIndex
             /\ Fits(define(l), Height, Height, Excess, Height, Fresh)
             /\ Fits(jmp(l), Height, Height, Excess, Height, Fresh)
             /\ Fits(jcc(l), Height, Height, Excess, Height, Fresh)
             /\ Head(agenda).do \in Statements =>
                    Fits(Case(l), Height, Height, Excess, Height, Fresh)
  <2>1. l \in LabelsBelow(labelIndex + 1) /\ l.index = labelIndex
    BY DEF Fresh
  <2> QED BY <1>1, <1>2, <2>1, FitsLabels
<1> QED BY <1>3, <1>4

LEMMA LogicalListed ==
    ASSUME GenInv, LargeReturnsLast, Listed,
           NEW name \in {"ND_LOGICAL_AND", "ND_LOGICAL_OR"}, gen_LOGICAL(name)
    PROVE  Listed'
<1> DEFINE H == Height
           short == Label(name, labelIndex, 0)
           end   == Label("end", labelIndex, 0)
           Tasks10(left, right) == <<Expr(left), pop, jcc(short), Expr(right), pop, jcc(short),
                                     jmp(end), define(short), define(end), push>>
           d == <<H, H - 8, H, H, H - 8, H, H, H, H, H, H - 8>>
<1>1. PICK left \in Operands, right \in Operands : Node(Tasks10(left, right))
  BY DEF gen_LOGICAL
<1> DEFINE tasks == Tasks10(left, right)
<1>2. /\ Ready /\ type = Scalar /\ Continues(tasks)
      /\ Head(agenda).do = "expr" /\ Head(agenda).do \notin Enders
  BY <1>1, LeafContinues DEF gen_LOGICAL, Calling, Ready, AtGen, GenCalls, Enders
<1>3. Moves(Fresh) /\ SubCalls(Fresh) /\ H \in Int /\ H <= -8 /\ language \in Languages
  BY <1>2, MovesHere
<1>4. /\ Leaves(Head(agenda)) = 8 /\ left \in Types /\ right \in Types
      /\ Pushed(left) = 8 /\ Pushed(right) = 8
  BY <1>2, <1>3, LeavesOfCalls, PushedOf
<1>5. short \in Fresh /\ end \in Fresh /\ \A l \in Fresh : l.index = labelIndex
  BY <1>2, FreshLabels DEF LabelNames
<1> HIDE DEF short, end
<1>6. /\ Fits(jcc(short), H, H, Excess, Height, Fresh)
      /\ Fits(define(short), H, H, Excess, Height, Fresh)
      /\ Fits(jmp(end), H, H, Excess, Height, Fresh)
      /\ Fits(define(end), H, H, Excess, Height, Fresh)
  BY <1>2, <1>5, FreshLabels
<1> HIDE DEF H
<1>7. /\ Fits(Expr(left), H, H - 8, Excess, Height, Fresh)
      /\ Fits(Expr(right), H, H - 8, Excess, Height, Fresh)
  BY <1>3, <1>4 DEF SubCalls
<1>8. /\ Fits(pop, H - 8, H, Excess, Height, Fresh)
      /\ Fits(push, H, H - 8, Excess, Height, Fresh)
  BY <1>3 DEF Moves
<1>9. tasks \in Seq(Tasks) /\ Len(tasks) = 10 /\ tasks # <<>>
  BY <1>6, <1>7, <1>8 DEF Fits
<1>10. \A i \in 1..10 : Fits(tasks[i], d[i], d[i + 1], Excess, Height, Fresh)
  BY <1>6, <1>7, <1>8
<1>11. d[1] = Height /\ d[11] = Height - Leaves(Head(agenda))
  BY <1>4 DEF H
<1> HIDE DEF tasks, d
<1>12. Steps(tasks, d, Fresh) /\ 11 = Len(tasks) + 1
  BY <1>9, <1>10 DEF Steps
<1> QED BY <1>2, <1>5, <1>11, <1>12, WalkListed

LEMMA AddressLvarListed ==
    ASSUME GenInv, LargeReturnsLast, Listed, gen_address_LVAR
    PROVE  Listed'
<1>1. /\ Ready /\ Continues(<<push>>)
      /\ Head(agenda).do \in {"address", "lvalue"} /\ Head(agenda).do \notin Enders
  BY DEF gen_address_LVAR, Calling, Ready, AtGen, GenCalls, Enders, Continues
<1> DEFINE H == Height
           tasks == <<push>>
           d == <<H, H - 8>>
<1>2. Moves({}) /\ H \in Int /\ H <= -8
  BY <1>1, MovesHere
<1>3. Leaves(Head(agenda)) = 8
  BY <1>1, LeavesOfCalls
<1> HIDE DEF H
<1>4. Fits(push, H, H - 8, Excess, Height, {})
  BY <1>2 DEF Moves
<1>5. tasks \in Seq(Tasks) /\ Len(tasks) = 1 /\ tasks # <<>>
  BY <1>4 DEF Fits
<1>6. \A i \in 1..1 : Fits(tasks[i], d[i], d[i + 1], Excess, Height, {})
  BY <1>4
<1>7. d[1] = Height /\ d[2] = Height - Leaves(Head(agenda))
  BY <1>3 DEF H
<1>8. Continues(tasks)
  BY <1>1
<1> HIDE DEF tasks, d
<1>9. Steps(tasks, d, {}) /\ 2 = Len(tasks) + 1
  BY <1>5, <1>6 DEF Steps
<1> QED BY <1>1, <1>7, <1>8, <1>9, WalkListed

LEMMA AddressStructListed ==
    ASSUME GenInv, LargeReturnsLast, Listed, gen_address_STRUCT
    PROVE  Listed'
<1>1. PICK t \in StructTypes : agenda' = <<Address(t), pop, push>> \o Tail(agenda)
  BY DEF gen_address_STRUCT
<1> DEFINE H == Height
           tasks == <<Address(t), pop, push>>
           d == <<H, H - 8, H, H - 8>>
<1>2. /\ Ready /\ Continues(tasks)
      /\ Head(agenda).do \in {"address", "lvalue"} /\ Head(agenda).do \notin Enders
  BY <1>1 DEF gen_address_STRUCT, Calling, Ready, AtGen, GenCalls, Enders, Continues
<1>3. Moves({}) /\ SubCalls({}) /\ H \in Int /\ H <= -8 /\ language \in Languages
  BY <1>2, MovesHere
<1>4. Leaves(Head(agenda)) = 8 /\ t \in Types
  BY <1>2, <1>3, LeavesOfCalls, TypesOfLanguage
<1> HIDE DEF H
<1>5. /\ Fits(Address(t), H, H - 8, Excess, Height, {})
      /\ Fits(pop, H - 8, H, Excess, Height, {})
      /\ Fits(push, H, H - 8, Excess, Height, {})
  BY <1>3, <1>4 DEF Moves, SubCalls
<1>6. tasks \in Seq(Tasks) /\ Len(tasks) = 3 /\ tasks # <<>>
  BY <1>5 DEF Fits
<1>7. \A i \in 1..3 : Fits(tasks[i], d[i], d[i + 1], Excess, Height, {})
  BY <1>5
<1>8. d[1] = Height /\ d[4] = Height - Leaves(Head(agenda))
  BY <1>4 DEF H
<1> HIDE DEF tasks, d
<1>9. Steps(tasks, d, {}) /\ 4 = Len(tasks) + 1
  BY <1>6, <1>7 DEF Steps
<1> QED BY <1>2, <1>8, <1>9, WalkListed

LEMMA AddressDerefListed ==
    ASSUME GenInv, LargeReturnsLast, Listed, gen_address_DEREF
    PROVE  Listed'
<1>1. PICK t \in Operands : agenda' = <<Expr(t)>> \o Tail(agenda)
  BY DEF gen_address_DEREF
<1> DEFINE H == Height
           tasks == <<Expr(t)>>
           d == <<H, H - 8>>
<1>2. /\ Ready /\ Continues(tasks)
      /\ Head(agenda).do \in {"address", "lvalue"} /\ Head(agenda).do \notin Enders
  BY <1>1 DEF gen_address_DEREF, Calling, Ready, AtGen, GenCalls, Enders, Continues
<1>3. SubCalls({}) /\ H \in Int /\ H <= -8 /\ language \in Languages
  BY <1>2, MovesHere
<1>4. Leaves(Head(agenda)) = 8 /\ t \in Types /\ Pushed(t) = 8
  BY <1>2, <1>3, LeavesOfCalls, PushedOf
<1> HIDE DEF H
<1>5. Fits(Expr(t), H, H - 8, Excess, Height, {})
  BY <1>3, <1>4 DEF SubCalls
<1>6. tasks \in Seq(Tasks) /\ Len(tasks) = 1 /\ tasks # <<>>
  BY <1>5 DEF Fits
<1>7. \A i \in 1..1 : Fits(tasks[i], d[i], d[i + 1], Excess, Height, {})
  BY <1>5
<1>8. d[1] = Height /\ d[2] = Height - Leaves(Head(agenda))
  BY <1>4 DEF H
<1> HIDE DEF tasks, d
<1>9. Steps(tasks, d, {}) /\ 2 = Len(tasks) + 1
  BY <1>6, <1>7 DEF Steps
<1> QED BY <1>2, <1>8, <1>9, WalkListed

\* The compiler stops: nothing that the listing is about changes.
LEMMA StopListed ==
    ASSUME Listed, UNCHANGED <<language, agenda, alignmentCount, out>>
    PROVE  Listed'
<1>1. PICK L : Transcript(L)
  BY DEF Listed
<1>2. Lines' = Lines /\ (\A y : LineOK(y)' = LineOK(y))
  <2>1. Tasks' = Tasks
    BY SameTasks
  <2> QED BY <2>1 DEF Lines, LineOK
<1>3. Listing(L)'
  BY <1>1, <1>2 DEF Transcript, Listing
<1>4. Transcript(L)'
  BY <1>1, <1>3 DEF Transcript
<1> QED BY <1>4 DEF Listed

-----------------------------------------------------------------------------
(* Statements. *)

\* A statement is at the saved r12.
LEMMA StatementHere ==
    ASSUME Ready, Head(agenda).do \in Statements, NEW own
    PROVE  /\ Height = -8 /\ Excess = local_variable_stack /\ Excess \in Int
           /\ language \in Languages
           /\ Leaves(Head(agenda)) = 0
           /\ Height - Leaves(Head(agenda)) = -8
           /\ Moves(own) /\ SubCalls(own)
           /\ \A t \in {Stmt, OtherStmt, Return, ReturnNothing, Case(NoLabel)} :
                 Fits(t, -8, -8, Excess, Height, own)
           /\ Fits(Expr(Scalar), -8, -16, Excess, Height, own)
           /\ Fits(push, -8, -16, Excess, Height, own)
           /\ Fits(pop, -16, -8, Excess, Height, own)
           /\ Fits(pop, -8, 0, Excess, Height, own)
<1>1. /\ Height = -8 /\ Excess = local_variable_stack /\ Excess \in Int /\ Height = SavedR12
      /\ language \in Languages /\ SavedR12 = -8
  BY SpotsHere DEF SavedR12
<1>2. Leaves(Head(agenda)) = 0
  BY LeavesOfCalls
<1>3. Moves(own) /\ SubCalls(own)
  BY MovesHere
<1>4. Scalar \in Types /\ Pushed(Scalar) = 8
  BY <1>1, PushedOf, TypesOfLanguage
<1>5. \A t \in {Stmt, OtherStmt, Return, ReturnNothing, Case(NoLabel)} :
          Fits(t, -8, -8, Excess, Height, own)
  <2>1. -8 \in Int /\ -8 <= SavedR12 /\ -8 = SavedR12
    BY <1>1
  <2> QED BY <1>1, <2>1, FitsCalls
<1>6. Fits(Expr(Scalar), -8, -16, Excess, Height, own)
  BY <1>3, <1>4 DEF SubCalls
<1>7. /\ Fits(push, -8, -16, Excess, Height, own)
      /\ Fits(pop, -16, -8, Excess, Height, own)
      /\ Fits(pop, -8, 0, Excess, Height, own)
  BY <1>3 DEF Moves
<1> QED BY <1>1, <1>2, <1>3, <1>5, <1>6, <1>7

LEMMA StatementLabels ==
    ASSUME Ready, Head(agenda).do \in Statements
    PROVE  /\ \A name \in LabelNames, item \in Nat : Label(name, labelIndex, item) \in Fresh
           /\ \A l \in Fresh : /\ Fits(define(l), -8, -8, Excess, Height, Fresh)
                               /\ Fits(jmp(l), -8, -8, Excess, Height, Fresh)
                               /\ Fits(jcc(l), -8, -8, Excess, Height, Fresh)
                               /\ Fits(Case(l), -8, -8, Excess, Height, Fresh)
<1>1. Height = -8
  BY StatementHere
<1> QED BY <1>1, FreshLabels

LEMMA DeclarationListed ==
    ASSUME GenInv, LargeReturnsLast, Listed, gen_DECLARATION
    PROVE  Listed'
<1> DEFINE tasks == <<>>
<1>1. /\ Ready /\ Continues(tasks)
      /\ Head(agenda).do \in Statements /\ Head(agenda).do \notin Enders
  BY LeafContinues DEF gen_DECLARATION, Calling, Ready, AtGen, GenCalls, Statements, Enders
<1>2. Height = -8 /\ Height - Leaves(Head(agenda)) = -8
  BY <1>1, StatementHere
<1>3. Runs(tasks, Height, {}, SpotAt(Height), SpotAt(Height - Leaves(Head(agenda))))
  BY <1>2, RunsNone
<1>4. tasks \in Seq(Tasks)
  OBVIOUS
<1> HIDE DEF tasks
<1> QED BY <1>1, <1>3, <1>4, RunListed

LEMMA BlockListed ==
    ASSUME GenInv, LargeReturnsLast, Listed, gen_BLOCK
    PROVE  Listed'
<1>1. PICK k \in 0..language.maxStmts : Node([i \in 1..k |-> Stmt])
  BY DEF gen_BLOCK
<1> DEFINE tasks == [i \in 1..k |-> Stmt]
           d == [i \in 1..(k + 1) |-> -8]
<1>2. /\ Ready /\ Continues(tasks)
      /\ Head(agenda).do \in Statements /\ Head(agenda).do \notin Enders
  BY <1>1, LeafContinues DEF gen_BLOCK, Calling, Ready, AtGen, GenCalls, Statements, Enders
<1>3. /\ Height = -8 /\ Height - Leaves(Head(agenda)) = -8 /\ language \in Languages
      /\ Fits(Stmt, -8, -8, Excess, Height, {})
  BY <1>2, StatementHere
<1>4. k \in Nat
  BY <1>3, CodeGenAssumption
<1>5. tasks \in Seq(Tasks) /\ Len(tasks) = k
  BY <1>3, <1>4 DEF Fits
<1>6. \A i \in 1..k : Fits(tasks[i], d[i], d[i + 1], Excess, Height, {})
  BY <1>3, <1>4
<1>7. k # 0 => d[1] = Height /\ d[k + 1] = Height - Leaves(Head(agenda))
  BY <1>3, <1>4
<1>8. k = 0 => tasks = <<>>
  OBVIOUS
<1> HIDE DEF tasks, d
<1>9. CASE k = 0
  <2>1. Runs(tasks, Height, {}, SpotAt(Height), SpotAt(Height - Leaves(Head(agenda))))
    BY <1>3, <1>8, <1>9, RunsNone
  <2> QED BY <1>2, <1>5, <2>1, RunListed
<1>10. CASE k # 0
  <2>1. Steps(tasks, d, {}) /\ k + 1 = Len(tasks) + 1
    BY <1>4, <1>5, <1>6, <1>10 DEF Steps
  <2> QED BY <1>2, <1>7, <1>10, <2>1, WalkListed
<1> QED BY <1>9, <1>10

\* The conditional statements: their tasks and what the heights of the blocks are.
LEMMA IfListed ==
    ASSUME GenInv, LargeReturnsLast, Listed, gen_IF
    PROVE  Listed'
<1> DEFINE ifend == Label("ifend", labelIndex, 0)
           tasks == <<Expr(Scalar), pop, jcc(ifend), Stmt, define(ifend)>>
           d == <<-8, -16, -8, -8, -8, -8>>
<1>1. /\ Ready /\ Continues(tasks)
      /\ Head(agenda).do \in Statements /\ Head(agenda).do \notin Enders
  BY LeafContinues DEF gen_IF, Calling, Ready, AtGen, GenCalls, Statements, Enders
<1>2. /\ Height = -8 /\ Height - Leaves(Head(agenda)) = -8
      /\ Fits(Expr(Scalar), -8, -16, Excess, Height, Fresh)
      /\ Fits(pop, -16, -8, Excess, Height, Fresh)
      /\ Fits(Stmt, -8, -8, Excess, Height, Fresh)
  BY <1>1, StatementHere
<1>3. ifend \in Fresh
  BY <1>1, StatementLabels DEF LabelNames
<1> HIDE DEF ifend
<1>4. /\ Fits(jcc(ifend), -8, -8, Excess, Height, Fresh)
      /\ Fits(define(ifend), -8, -8, Excess, Height, Fresh)
  BY <1>1, <1>3, StatementLabels
<1>5. tasks \in Seq(Tasks) /\ Len(tasks) = 5 /\ tasks # <<>>
  BY <1>2, <1>4 DEF Fits
<1>6. \A i \in 1..5 : Fits(tasks[i], d[i], d[i + 1], Excess, Height, Fresh)
  BY <1>2, <1>4
<1>7. d[1] = Height /\ d[6] = Height - Leaves(Head(agenda))
  BY <1>2
<1> HIDE DEF tasks, d
<1>8. Steps(tasks, d, Fresh) /\ 6 = Len(tasks) + 1
  BY <1>5, <1>6 DEF Steps
<1> QED BY <1>1, <1>7, <1>8, WalkListed

LEMMA ElseListed ==
    ASSUME GenInv, LargeReturnsLast, Listed, gen_ELSE
    PROVE  Listed'
<1> DEFINE else == Label("else", labelIndex, 0)
           end  == Label("ifelseend", labelIndex, 0)
           tasks == <<Expr(Scalar), pop, jcc(else), Stmt, jmp(end),
                      define(else), Stmt, define(end)>>
           d == <<-8, -16, -8, -8, -8, -8, -8, -8, -8>>
<1>1. /\ Ready /\ Continues(tasks)
      /\ Head(agenda).do \in Statements /\ Head(agenda).do \notin Enders
  BY LeafContinues DEF gen_ELSE, Calling, Ready, AtGen, GenCalls, Statements, Enders
<1>2. /\ Height = -8 /\ Height - Leaves(Head(agenda)) = -8
      /\ Fits(Expr(Scalar), -8, -16, Excess, Height, Fresh)
      /\ Fits(pop, -16, -8, Excess, Height, Fresh)
      /\ Fits(Stmt, -8, -8, Excess, Height, Fresh)
  BY <1>1, StatementHere
<1>3. else \in Fresh /\ end \in Fresh
  BY <1>1, StatementLabels DEF LabelNames
<1> HIDE DEF else, end
<1>4. /\ Fits(jcc(else), -8, -8, Excess, Height, Fresh)
      /\ Fits(jmp(end), -8, -8, Excess, Height, Fresh)
      /\ Fits(define(else), -8, -8, Excess, Height, Fresh)
      /\ Fits(define(end), -8, -8, Excess, Height, Fresh)
  BY <1>1, <1>3, StatementLabels
<1>5. tasks \in Seq(Tasks) /\ Len(tasks) = 8 /\ tasks # <<>>
  BY <1>2, <1>4 DEF Fits
<1>6. \A i \in 1..8 : Fits(tasks[i], d[i], d[i + 1], Excess, Height, Fresh)
  BY <1>2, <1>4
<1>7. d[1] = Height /\ d[9] = Height - Leaves(Head(agenda))
  BY <1>2
<1> HIDE DEF tasks, d
<1>8. Steps(tasks, d, Fresh) /\ 9 = Len(tasks) + 1
  BY <1>5, <1>6 DEF Steps
<1> QED BY <1>1, <1>7, <1>8, WalkListed

LEMMA WhileListed ==
    ASSUME GenInv, LargeReturnsLast, Listed, gen_WHILE
    PROVE  Listed'
<1> DEFINE while == Label("while", labelIndex, 0)
           end   == Label("whileend", labelIndex, 0)
           tasks == <<define(while), Expr(Scalar), pop, jcc(end), Stmt, jmp(while),
                      define(end)>>
           d == <<-8, -8, -16, -8, -8, -8, -8, -8>>
<1>1. /\ Ready /\ Continues(tasks)
      /\ Head(agenda).do \in Statements /\ Head(agenda).do \notin Enders
  BY LeafContinues DEF gen_WHILE, Calling, Ready, AtGen, GenCalls, Statements, Enders
<1>2. /\ Height = -8 /\ Height - Leaves(Head(agenda)) = -8
      /\ Fits(Expr(Scalar), -8, -16, Excess, Height, Fresh)
      /\ Fits(pop, -16, -8, Excess, Height, Fresh)
      /\ Fits(Stmt, -8, -8, Excess, Height, Fresh)
  BY <1>1, StatementHere
<1>3. while \in Fresh /\ end \in Fresh
  BY <1>1, StatementLabels DEF LabelNames
<1> HIDE DEF while, end
<1>4. /\ Fits(define(while), -8, -8, Excess, Height, Fresh)
      /\ Fits(jcc(end), -8, -8, Excess, Height, Fresh)
      /\ Fits(jmp(while), -8, -8, Excess, Height, Fresh)
      /\ Fits(define(end), -8, -8, Excess, Height, Fresh)
  BY <1>1, <1>3, StatementLabels
<1>5. tasks \in Seq(Tasks) /\ Len(tasks) = 7 /\ tasks # <<>>
  BY <1>2, <1>4 DEF Fits
<1>6. \A i \in 1..7 : Fits(tasks[i], d[i], d[i + 1], Excess, Height, Fresh)
  BY <1>2, <1>4
<1>7. d[1] = Height /\ d[8] = Height - Leaves(Head(agenda))
  BY <1>2
<1> HIDE DEF tasks, d
<1>8. Steps(tasks, d, Fresh) /\ 8 = Len(tasks) + 1
  BY <1>5, <1>6 DEF Steps
<1> QED BY <1>1, <1>7, <1>8, WalkListed

\* Blocks that are put together of others.
LEMMA StepsRun ==
    ASSUME Ready, NEW tasks, NEW own, NEW d, Steps(tasks, d, own),
           NEW m, m = Len(tasks) + 1, NEW a, a = d[1], NEW b, b = d[m]
    PROVE  Runs(tasks, Height, own, SpotAt(a), SpotAt(b)) /\ tasks \in Seq(Tasks)
BY WalkHere DEF Steps

LEMMA PopsRun ==
    ASSUME Ready, NEW own, NEW size \in Nat, NEW a \in Int, NEW n, n = (size + 7) \div 8,
           NEW b, b = a + 8 * n, b <= 0
    PROVE  Runs(stack_pop(size), Height, own, SpotAt(a), SpotAt(b)) /\ stack_pop(size) \in Seq(Tasks)
<1> DEFINE tasks == [i \in 1..n |-> pop]
           d == [i \in 1..(n + 1) |-> a + 8 * (i - 1)]
<1>1. Moves(own)
  BY MovesHere
<1>2. n \in Nat /\ b \in Int /\ stack_pop(size) = tasks
  BY DEF stack_pop
<1>3. Fits(pop, -16, -8, Excess, Height, own)
  BY <1>1 DEF Moves
<1>4. tasks \in Seq(Tasks) /\ Len(tasks) = n
  BY <1>2, <1>3 DEF Fits
<1>5. ASSUME NEW i \in 1..n
      PROVE  Fits(tasks[i], d[i], d[i + 1], Excess, Height, own)
  <2>1. d[i] \in Int /\ d[i + 1] \in Int /\ d[i] <= -8 /\ d[i + 1] = d[i] + 8
    BY <1>2
  <2>2. tasks[i] = pop
    OBVIOUS
  <2> HIDE DEF d, tasks
  <2> QED BY <1>1, <2>1, <2>2 DEF Moves
<1>6. n # 0 => a = d[1] /\ b = d[n + 1]
  BY <1>2
<1>7. n = 0 => tasks = <<>> /\ b = a
  OBVIOUS
<1> HIDE DEF tasks, d
<1>8. CASE n = 0
  BY <1>2, <1>4, <1>7, <1>8, RunsNone
<1>9. CASE n # 0
  <2>1. Steps(tasks, d, own) /\ n + 1 = Len(tasks) + 1
    BY <1>2, <1>4, <1>5, <1>9 DEF Steps
  <2> QED BY <1>2, <1>6, <1>9, <2>1, StepsRun
<1> QED BY <1>8, <1>9

\* The value of a statement is popped.
LEMMA PoppedWhole ==
    ASSUME Orderly, language \in Languages, NEW t \in Types
    PROVE  /\ t.size \in Nat /\ Pushed(t) \in Nat
           /\ 8 * ((t.size + 7) \div 8) = Pushed(t)
           /\ t.dataType = "ARRAY" => t.size <= 8
<1>1. t.size \in Nat /\ Pushed(t) \in Nat
  BY SmallNumbers
<1>2. CASE t \in ArrayTypes
  <2>1. t.size \in Nat \ {0} /\ t.size <= 8
    BY <1>2, CodeGenAssumption DEF Orderly, ArrayTypes, Array
  <2> QED BY <1>1, <1>2, <2>1, PushedOf
<1>3. CASE t \in StructTypes
  BY <1>1, <1>3, PushedOf
<1>4. CASE t = Scalar
  BY <1>1, <1>4, PushedOf, TypesOfLanguage DEF Scalar
<1>5. CASE t = Void
  BY <1>1, <1>5, PushedOf DEF Void
<1> QED BY <1>2, <1>3, <1>4, <1>5 DEF Types

LEMMA SinglestmtListed ==
    ASSUME GenInv, LargeReturnsLast, Listed, Orderly, gen_SINGLESTMT
    PROVE  Listed'
<1>1. PICK t \in Types : Leaf(<<Expr(t)>> \o stack_pop(t.size))
  BY DEF gen_SINGLESTMT
<1> DEFINE first == <<Expr(t)>>
           d == <<-8, -8 - Pushed(t)>>
           T == -8 - Pushed(t)
<1>2. /\ Ready /\ Continues(first \o stack_pop(t.size))
      /\ Head(agenda).do \in Statements /\ Head(agenda).do \notin Enders
  BY <1>1, LeafContinues DEF gen_SINGLESTMT, Calling, Ready, AtGen, GenCalls, Statements, Enders
<1>3. /\ Height = -8 /\ Height - Leaves(Head(agenda)) = -8 /\ language \in Languages
      /\ SubCalls({})
  BY <1>2, StatementHere
<1> DEFINE n == (t.size + 7) \div 8
<1>4. /\ t.size \in Nat /\ T \in Int /\ T = -8 - Pushed(t) /\ -8 = T + 8 * n
  BY <1>3, PoppedWhole
<1>5. Fits(Expr(t), -8, T, Excess, Height, {})
  <2> HIDE DEF T, n
  <2> QED BY <1>3, <1>4 DEF SubCalls
<1>6. Runs(first, Height, {}, SpotAt(-8), SpotAt(T)) /\ first \in Seq(Tasks)
  <2>1. first \in Seq(Tasks) /\ Len(first) = 1 /\ first # <<>>
    BY <1>5 DEF Fits
  <2>2. \A i \in 1..1 : Fits(first[i], d[i], d[i + 1], Excess, Height, {})
    BY <1>5
  <2>3. d[1] = -8 /\ d[2] = T
    OBVIOUS
  <2> HIDE DEF first, d, T
  <2>4. Steps(first, d, {}) /\ 2 = Len(first) + 1
    BY <2>1, <2>2 DEF Steps
  <2> QED BY <1>2, <2>3, <2>4, StepsRun
<1> HIDE DEF first, T
<1>7. /\ Runs(stack_pop(t.size), Height, {}, SpotAt(T), SpotAt(-8))
      /\ stack_pop(t.size) \in Seq(Tasks)
  <2>1. -8 <= 0 /\ n = (t.size + 7) \div 8
    OBVIOUS
  <2> HIDE DEF n
  <2> QED BY <1>2, <1>4, <2>1, PopsRun
<1>8. Runs(first \o stack_pop(t.size), Height, {}, SpotAt(-8), SpotAt(-8))
  BY <1>6, <1>7, RunsCat
<1>9. first \o stack_pop(t.size) \in Seq(Tasks)
  BY <1>6, <1>7
<1> DEFINE tasks == first \o stack_pop(t.size)
<1> HIDE DEF tasks
<1>10. tasks \in Seq(Tasks) /\ Continues(tasks) /\ Runs(tasks, Height, {}, SpotAt(-8), SpotAt(-8))
  BY <1>2, <1>8, <1>9 DEF tasks
<1> QED BY <1>2, <1>3, <1>10, RunFresh

LEMMA ClauseRun ==
    ASSUME Ready, Head(agenda).do \in Statements, Orderly,
           NEW c \in {<<>>} \cup {<<Expr(t), pop>> : t \in language.clauses}
    PROVE  Runs(c, Height, Fresh, SpotAt(-8), SpotAt(-8)) /\ c \in Seq(Tasks)
<1>1. CASE c = <<>>
  <2>1. c \in Seq(Tasks)
    BY <1>1
  <2> QED BY <1>1, <2>1, RunsNone
<1>2. ASSUME NEW t \in language.clauses, c = <<Expr(t), pop>>
      PROVE  Runs(c, Height, Fresh, SpotAt(-8), SpotAt(-8)) /\ c \in Seq(Tasks)
  <2> DEFINE tasks == <<Expr(t), pop>>
             d == <<-8, -16, -8>>
  <2>1. /\ language \in Languages /\ SubCalls(Fresh)
        /\ Fits(pop, -16, -8, Excess, Height, Fresh)
    BY StatementHere
  <2>2. t \in Types /\ Pushed(t) = 8
    <3>1. Pushed(t) = 8
      BY <2>1 DEF Orderly
    <3>2. language.clauses \subseteq {Scalar, Void} \cup {Struct(size) : size \in language.structs}
                       \cup {Array(size) : size \in language.arrays}
      BY <2>1, CodeGenAssumption
    <3>3. language.clauses \subseteq Types
      BY <3>2 DEF Types, StructTypes, ArrayTypes
    <3> QED BY <3>1, <3>3
  <2>3. Fits(Expr(t), -8, -16, Excess, Height, Fresh)
    BY <2>1, <2>2 DEF SubCalls
  <2>4. tasks \in Seq(Tasks) /\ Len(tasks) = 2 /\ tasks # <<>>
    BY <2>1, <2>3 DEF Fits
  <2>5. \A i \in 1..2 : Fits(tasks[i], d[i], d[i + 1], Excess, Height, Fresh)
    BY <2>1, <2>3
  <2>6. d[1] = -8 /\ d[3] = -8 /\ c = tasks
    BY <1>2
  <2> HIDE DEF tasks, d
  <2>7. Steps(tasks, d, Fresh) /\ 3 = Len(tasks) + 1
    BY <2>4, <2>5 DEF Steps
  <2>8. Runs(tasks, Height, Fresh, SpotAt(-8), SpotAt(-8)) /\ tasks \in Seq(Tasks)
    BY <2>6, <2>7, StepsRun
  <2> QED BY <2>6, <2>8
<1> QED BY <1>1, <1>2

LEMMA ForListed ==
    ASSUME GenInv, LargeReturnsLast, Listed, Orderly, gen_FOR
    PROVE  Listed'
<1> DEFINE for == Label("for", labelIndex, 0)
           end == Label("forend", labelIndex, 0)
           Clause == {<<>>} \cup {<<Expr(t), pop>> : t \in language.clauses}
           m1 == <<define(for), Expr(Scalar), pop, jcc(end), Stmt>>
           m2 == <<jmp(for), define(end)>>
           d1 == <<-8, -8, -16, -8, -8, -8>>
           d2 == <<-8, -8, -8>>
<1>1. PICK first \in Clause, third \in Clause : Node(first \o m1 \o third \o m2)
  BY DEF gen_FOR
<1>2. /\ Ready /\ Continues(first \o m1 \o third \o m2)
      /\ Head(agenda).do \in Statements /\ Head(agenda).do \notin Enders
  BY <1>1, LeafContinues DEF gen_FOR, Calling, Ready, AtGen, GenCalls, Statements, Enders
<1>3. /\ Height = -8 /\ Height - Leaves(Head(agenda)) = -8
      /\ Fits(Expr(Scalar), -8, -16, Excess, Height, Fresh)
      /\ Fits(pop, -16, -8, Excess, Height, Fresh)
      /\ Fits(Stmt, -8, -8, Excess, Height, Fresh)
  BY <1>2, StatementHere
<1>4. for \in Fresh /\ end \in Fresh
  BY <1>2, StatementLabels DEF LabelNames
<1>5. /\ Runs(first, Height, Fresh, SpotAt(-8), SpotAt(-8)) /\ first \in Seq(Tasks)
      /\ Runs(third, Height, Fresh, SpotAt(-8), SpotAt(-8)) /\ third \in Seq(Tasks)
  BY <1>2, ClauseRun
<1> HIDE DEF for, end, Clause
<1>6. /\ Fits(define(for), -8, -8, Excess, Height, Fresh)
      /\ Fits(jcc(end), -8, -8, Excess, Height, Fresh)
      /\ Fits(jmp(for), -8, -8, Excess, Height, Fresh)
      /\ Fits(define(end), -8, -8, Excess, Height, Fresh)
  BY <1>2, <1>4, StatementLabels
<1>7. Runs(m1, Height, Fresh, SpotAt(-8), SpotAt(-8)) /\ m1 \in Seq(Tasks)
  <2>1. m1 \in Seq(Tasks) /\ Len(m1) = 5 /\ m1 # <<>>
    BY <1>3, <1>6 DEF Fits
  <2>2. \A i \in 1..5 : Fits(m1[i], d1[i], d1[i + 1], Excess, Height, Fresh)
    BY <1>3, <1>6
  <2>3. d1[1] = -8 /\ d1[6] = -8
    OBVIOUS
  <2> HIDE DEF m1, d1
  <2>4. Steps(m1, d1, Fresh) /\ 6 = Len(m1) + 1
    BY <2>1, <2>2 DEF Steps
  <2> QED BY <1>2, <2>3, <2>4, StepsRun
<1>8. Runs(m2, Height, Fresh, SpotAt(-8), SpotAt(-8)) /\ m2 \in Seq(Tasks)
  <2>1. m2 \in Seq(Tasks) /\ Len(m2) = 2 /\ m2 # <<>>
    BY <1>6 DEF Fits
  <2>2. \A i \in 1..2 : Fits(m2[i], d2[i], d2[i + 1], Excess, Height, Fresh)
    BY <1>6
  <2>3. d2[1] = -8 /\ d2[3] = -8
    OBVIOUS
  <2> HIDE DEF m2, d2
  <2>4. Steps(m2, d2, Fresh) /\ 3 = Len(m2) + 1
    BY <2>1, <2>2 DEF Steps
  <2> QED BY <1>2, <2>3, <2>4, StepsRun
<1> DEFINE two == first \o m1
           three == two \o third
           tasks == three \o m2
<1>9. Continues(tasks)
  BY <1>2
<1> HIDE DEF m1, m2
<1>10. Runs(two, Height, Fresh, SpotAt(-8), SpotAt(-8)) /\ two \in Seq(Tasks)
  BY <1>5, <1>7, RunsCat
<1> HIDE DEF two
<1>11. Runs(three, Height, Fresh, SpotAt(-8), SpotAt(-8)) /\ three \in Seq(Tasks)
  BY <1>5, <1>10, RunsCat
<1> HIDE DEF three
<1>12. Runs(tasks, Height, Fresh, SpotAt(-8), SpotAt(-8)) /\ tasks \in Seq(Tasks)
  BY <1>8, <1>11, RunsCat
<1> HIDE DEF tasks
<1> QED BY <1>2, <1>3, <1>9, <1>12, RunFresh

LEMMA CaseListed ==
    ASSUME GenInv, LargeReturnsLast, Listed, gen_CASE, Head(agenda).label # NoLabel
    PROVE  Listed'
<1> DEFINE label == Head(agenda).label
           own == {label}
           tasks == <<define(label), Stmt>>
           d == <<-8, -8, -8>>
<1>1. /\ Ready /\ Continues(tasks)
      /\ Head(agenda).do \in {"case", "stmt", "other"}
      /\ Head(agenda).do \in Statements /\ Head(agenda).do \notin Enders
  BY LeafContinues DEF gen_CASE, Calling, Ready, AtGen, GenCalls, Statements, Enders
<1>2. /\ Height = -8 /\ Height - Leaves(Head(agenda)) = -8
      /\ Fits(Stmt, -8, -8, Excess, Height, own)
  BY <1>1, StatementHere
<1>3. Head(agenda) \in Work(labelIndex) /\ labelIndex \in Nat
  <2>1. Head(agenda).do # "entry"
    BY <1>1
  <2>2. Inside(labelIndex) /\ labelIndex \in Nat
    BY <1>1, <2>1, SituationFacts DEF Ready, AtGen, GenInv
  <2> QED BY <1>1, <2>2, HeadTail DEF Inside, Ready, AtGen
<1>4. Head(agenda).do = "case" /\ label \in LabelsBelow(labelIndex)
  <2>1. Head(agenda).do = "case"
    BY <1>1, <1>3 DEF Work, GenCalls
  <2>2. label \in LabelsBelow(labelIndex)
    BY <1>3 DEF Work, Tasks, LabelsBelow
  <2> QED BY <2>1, <2>2
<1>5. Fits(define(label), -8, -8, Excess, Height, own)
  <2>1. label \in own /\ Height \in Int /\ Height <= SavedR12 /\ Excess \in Int
    BY <1>1, SpotsHere
  <2>2. Fits(define(label), Height, Height, Excess, Height, own)
    BY <1>3, <1>4, <2>1, FitsLabels
  <2> QED BY <1>2, <2>2
<1>6. \A l \in own : Labelled(Head(agenda)) /\ l = Head(agenda).label
  BY <1>4 DEF Labelled
<1> HIDE DEF label, own
<1>7. tasks \in Seq(Tasks) /\ Len(tasks) = 2 /\ tasks # <<>>
  BY <1>2, <1>5 DEF Fits
<1>8. \A i \in 1..2 : Fits(tasks[i], d[i], d[i + 1], Excess, Height, own)
  BY <1>2, <1>5
<1>9. d[1] = -8 /\ d[3] = -8
  OBVIOUS
<1> HIDE DEF tasks, d
<1>10. Steps(tasks, d, own) /\ 3 = Len(tasks) + 1
  BY <1>7, <1>8 DEF Steps
<1>11. Runs(tasks, Height, own, SpotAt(-8), SpotAt(-8))
  BY <1>1, <1>9, <1>10, StepsRun
<1>12. Runs(tasks, Height, own, SpotAt(Height), SpotAt(Height - Leaves(Head(agenda))))
  BY <1>2, <1>11
<1> QED BY <1>1, <1>6, <1>7, <1>12, RunListed

LEMMA ReturnNothingListed ==
    ASSUME GenInv, LargeReturnsLast, Listed, gen_RETURN_nothing
    PROVE  Listed'
<1> DEFINE tasks == <<epilogue(0)>>
           d == <<-8, -8>>
<1>1. Ready /\ Continues(tasks) /\ Head(agenda).do \in Statements
  BY LeafContinues DEF gen_RETURN_nothing, Calling, Ready, AtGen, GenCalls, Statements
<1>2. /\ Height = -8 /\ Height - Leaves(Head(agenda)) = -8
      /\ Excess = local_variable_stack /\ Excess \in Int /\ language \in Languages
  BY <1>1, StatementHere
<1>3. Fits(epilogue(0), -8, -8, Excess, Height, {})
  <2>1. -8 \in Int /\ -8 <= SavedR12 /\ -8 = SavedR12 /\ 0 \in Int /\ 0 <= 8
    BY DEF SavedR12
  <2> QED BY <1>2, <2>1, FitsCalls
<1>4. tasks \in Seq(Tasks) /\ Len(tasks) = 1 /\ tasks # <<>> /\ tasks[1].do \in Enders
  BY <1>3 DEF Fits, epilogue, Instr, Task, Enders
<1>5. \A i \in 1..1 : Fits(tasks[i], d[i], d[i + 1], Excess, Height, {})
  BY <1>3
<1>6. d[1] = -8 /\ d[2] = -8
  OBVIOUS
<1> HIDE DEF tasks, d
<1>7. Steps(tasks, d, {}) /\ 2 = Len(tasks) + 1
  BY <1>4, <1>5 DEF Steps
<1>8. Runs(tasks, Height, {}, SpotAt(-8), SpotAt(-8))
  BY <1>1, <1>6, <1>7, StepsRun
<1>9. Runs(tasks, Height, {}, SpotAt(Height), SpotAt(Height - Leaves(Head(agenda))))
  BY <1>2, <1>8
<1>10. \A own : own = {} => \A l \in own : l.index = labelIndex
  OBVIOUS
<1> QED BY <1>1, <1>4, <1>9, <1>10, RunListed

\* A large result is returned with its caller's r12 read again from the stack.
LEMMA LargeReturnRun ==
    ASSUME Ready, Head(agenda).do \in Statements, NEW t \in Types, NEW n, n = t.size,
           n \in Nat, n > 8, Pushed(t) = n
    PROVE  LET tasks == <<Expr(t), mov_r12_saved(n), epilogue(n)>>
           IN  tasks \in Seq(Tasks) /\ Runs(tasks, Height, {}, SpotAt(-8), SpotAt(-8))
<1> DEFINE T == -8 - n
           tasks == <<Expr(t), mov_r12_saved(n), epilogue(n)>>
           x == Line(Expr(t), -8, -8 + Excess, Unknown, 4)
           y == Line(mov_r12_saved(n), T, T + Excess, Unknown, 4)
           z == Line(epilogue(n), T, T + Excess, Callers, 4)
           B == <<x, y, z>>
           s == SpotAt(-8)
<1>1. /\ Height = -8 /\ Excess \in Int /\ language \in Languages /\ SubCalls({})
      /\ SavedR12 = -8
  BY StatementHere DEF SavedR12
<1>2. T \in Int /\ T <= -8 /\ T = -8 - Pushed(t) /\ T + n = -8
  OBVIOUS
<1> HIDE DEF T
<1>3. Fits(Expr(t), -8, T, Excess, Height, {})
  <2>1. \A b \in Int : b = -8 - Pushed(t) => Fits(Expr(t), -8, b, Excess, Height, {})
    BY <1>1 DEF SubCalls
  <2> QED BY <1>2, <2>1
<1>4. /\ Expr(t) \in Tasks /\ mov_r12_saved(n) \in Tasks /\ epilogue(n) \in Tasks
      /\ Expr(t).do = "expr" /\ Expr(t).type = t
      /\ mov_r12_saved(n).do = "mov_r12_saved" /\ mov_r12_saved(n).n = n
      /\ epilogue(n).do = "epilogue" /\ epilogue(n).n = n
  <2>1. 1 \in Nat /\ 1 > 0 /\ n \in Int
    OBVIOUS
  <2>2. {mov_r12_saved(n), epilogue(n)} \subseteq Silent(1)
    BY <2>1, InstructionsAreWork
  <2>3. \A u \in Silent(1) : u \in Tasks
    BY DEF Silent, Work
  <2>4. /\ Expr(t).do = "expr" /\ Expr(t).type = t
        /\ mov_r12_saved(n).do = "mov_r12_saved" /\ mov_r12_saved(n).n = n
        /\ epilogue(n).do = "epilogue" /\ epilogue(n).n = n
    BY DEF Expr, mov_r12_saved, epilogue, Instr, Task
  <2> QED BY <1>3, <2>2, <2>3, <2>4 DEF Fits
<1>5. /\ x.instr = Expr(t) /\ x.at = -8 /\ x.count = -8 + Excess /\ x.r12 = Unknown
      /\ x.place = 4
      /\ y.instr = mov_r12_saved(n) /\ y.at = T /\ y.count = T + Excess /\ y.r12 = Unknown
      /\ y.place = 4
      /\ z.instr = epilogue(n) /\ z.at = T /\ z.count = T + Excess /\ z.r12 = Callers
      /\ z.place = 4
      /\ s.at = -8 /\ s.count = -8 + Excess /\ s.r12 = Unknown
  BY DEF Line, SpotAt, Spot
<1>6. x \in Lines /\ y \in Lines /\ z \in Lines
  BY <1>1, <1>2, <1>4 DEF Lines, Line, Unknown, Callers
<1> HIDE DEF x, y, z, s
<1>7. LineOK(x)
  BY <1>3, <1>5, FitsOK
<1>8. LineOK(y) /\ LineOK(z)
  BY <1>1, <1>2, <1>4, <1>5 DEF LineOK, Statements, GenCalls
<1>9. Passes(x, y)
  <2>1. Moved(Expr(t)) = 0 /\ Counted(Expr(t)) = 0 /\ Leaves(Expr(t)) = Pushed(t)
    BY <1>4 DEF Moved, Counted, Leaves
  <2> QED BY <1>1, <1>2, <1>5, <2>1 DEF Passes
<1>10. Passes(y, z)
  <2>1. Moved(y.instr) = 0 /\ Counted(y.instr) = 0 /\ Leaves(y.instr) = 0
    BY <1>4, <1>5 DEF Moved, Counted, Leaves
  <2>2. R12After(y) = Callers
    BY <1>1, <1>2, <1>4, <1>5 DEF R12After
  <2> QED BY <1>1, <1>2, <1>5, <2>1, <2>2 DEF Passes
<1>11. Passes(z, s)
  BY <1>4, <1>5 DEF Passes, Large
<1>12. Admits(s, x)
  BY <1>5 DEF Admits
<1>13. tasks \in Seq(Tasks) /\ Len(tasks) = 3
  BY <1>4
<1>14. /\ B \in Seq(Lines) /\ Len(B) = 3 /\ DOMAIN B = 1..3 /\ B # <<>>
       /\ B[1] = x /\ B[2] = y /\ B[3] = z
  BY <1>6
<1>15. tasks[1] = Expr(t) /\ tasks[2] = mov_r12_saved(n) /\ tasks[3] = epilogue(n)
  OBVIOUS
<1> HIDE DEF B, tasks
<1>16. ASSUME NEW i \in DOMAIN B
       PROVE  /\ B[i].instr = tasks[i] /\ B[i].place = 4 /\ LineOK(B[i])
              /\ Labelled(tasks[i]) => B[i].at = Height /\ tasks[i].label \in {}
  <2>1. i = 1 \/ i = 2 \/ i = 3
    BY <1>14
  <2>2. ~Labelled(tasks[i])
    BY <1>4, <1>15, <2>1 DEF Labelled
  <2> QED BY <1>5, <1>7, <1>8, <1>14, <1>15, <2>1, <2>2
<1>17. \A i \in DOMAIN B : i + 1 \in DOMAIN B => Passes(B[i], B[i + 1])
  <2> SUFFICES ASSUME NEW i \in DOMAIN B, i + 1 \in DOMAIN B PROVE Passes(B[i], B[i + 1])
    OBVIOUS
  <2>1. i = 1 \/ i = 2
    BY <1>14
  <2> QED BY <1>9, <1>10, <1>14, <2>1
<1>18. Admits(s, B[1]) /\ Passes(B[Len(B)], s)
  BY <1>11, <1>12, <1>14
<1>19. Runs(tasks, Height, {}, s, s)
  BY <1>13, <1>14, <1>16, <1>17, <1>18 DEF Runs
<1> QED BY <1>13, <1>19 DEF tasks, s

LEMMA ReturnListed ==
    ASSUME GenInv, LargeReturnsLast, Listed, Orderly, gen_RETURN
    PROVE  Listed'
<1> DEFINE Mid(t) == IF t.size > 8 THEN <<mov_r12_saved(t.size)>> ELSE <<pop>>
<1>1. PICK t \in Types \ {Void} : Leaf(<<Expr(t)>> \o Mid(t) \o <<epilogue(t.size)>>)
  BY DEF gen_RETURN
<1>2. /\ Ready /\ Continues(<<Expr(t)>> \o Mid(t) \o <<epilogue(t.size)>>)
      /\ Head(agenda).do \in Statements
  BY <1>1, LeafContinues DEF gen_RETURN, Calling, Ready, AtGen, GenCalls, Statements
<1>3. /\ Height = -8 /\ Height - Leaves(Head(agenda)) = -8 /\ language \in Languages
      /\ Excess = local_variable_stack /\ Excess \in Int /\ SubCalls({})
      /\ Fits(pop, -16, -8, Excess, Height, {})
  BY <1>2, StatementHere
<1>4. t.size \in Nat /\ t.size > 0 /\ Pushed(t) = (IF t.size > 8 THEN t.size ELSE 8)
  <2>1. t.size \in Nat /\ (t.dataType = "ARRAY" => t.size <= 8)
    BY <1>3, PoppedWhole
  <2>2. CASE t \in ArrayTypes
    <3>1. t.size \in Nat \ {0}
      BY <1>3, <2>2, CodeGenAssumption DEF ArrayTypes, Array
    <3> QED BY <1>3, <2>1, <2>2, <3>1, PushedOf
  <2>3. CASE t \in StructTypes
    BY <1>3, <2>3, PushedOf
  <2>4. CASE t = Scalar
    BY <1>3, <2>4, PushedOf, TypesOfLanguage
  <2> QED BY <2>2, <2>3, <2>4 DEF Types
<1>5. epilogue(t.size).do = "epilogue"
  BY DEF epilogue, Instr, Task
<1>6. ASSUME NEW tasks \in Seq(Tasks), Continues(tasks), Len(tasks) = 3,
             tasks[3] = epilogue(t.size), Runs(tasks, Height, {}, SpotAt(-8), SpotAt(-8))
      PROVE  Listed'
  <2>1. Runs(tasks, Height, {}, SpotAt(Height), SpotAt(Height - Leaves(Head(agenda))))
    BY <1>3, <1>6
  <2>2. tasks # <<>> /\ tasks[3].do \in Enders
    <3>1. tasks[3].do \in Enders
      BY <1>5, <1>6, Zenon DEF Enders
    <3>2. Len(tasks) # 0
      BY <1>6
    <3> QED BY <3>1, <3>2
  <2>3. \A own : own = {} => \A l \in own : l.index = labelIndex
    OBVIOUS
  <2>4. tasks[Len(tasks)].do \in Enders
    BY <1>6, <2>2
  <2> QED BY <1>2, <1>6, <2>1, <2>2, <2>3, <2>4, RunListed
<1>7. CASE t.size > 8
  <2> DEFINE tasks == <<Expr(t), mov_r12_saved(t.size), epilogue(t.size)>>
  <2>1. tasks \in Seq(Tasks) /\ Runs(tasks, Height, {}, SpotAt(-8), SpotAt(-8))
    BY <1>2, <1>4, <1>7, LargeReturnRun
  <2>2. Continues(tasks)
    <3>1. Mid(t) = <<mov_r12_saved(t.size)>>
      BY <1>7
    <3>2. <<Expr(t)>> \o Mid(t) \o <<epilogue(t.size)>> = tasks
      BY <3>1, Triple, Zenon
    <3> QED BY <1>2, <3>2
  <2>3. Len(tasks) = 3 /\ tasks[3] = epilogue(t.size)
    OBVIOUS
  <2> HIDE DEF tasks
  <2> QED BY <1>6, <2>1, <2>2, <2>3
<1>8. CASE ~(t.size > 8)
  <2> DEFINE tasks == <<Expr(t), pop, epilogue(t.size)>>
             d == <<-8, -16, -8, -8>>
  <2>1. Fits(Expr(t), -8, -16, Excess, Height, {})
    BY <1>3, <1>4, <1>8 DEF SubCalls
  <2>2. Fits(epilogue(t.size), -8, -8, Excess, Height, {})
    <3>1. -8 \in Int /\ -8 <= SavedR12 /\ -8 = SavedR12 /\ t.size \in Int /\ t.size <= 8
      BY <1>4, <1>8 DEF SavedR12
    <3> QED BY <1>3, <3>1, FitsCalls
  <2>3. tasks \in Seq(Tasks) /\ Len(tasks) = 3 /\ tasks # <<>> /\ tasks[3] = epilogue(t.size)
    BY <1>3, <2>1, <2>2 DEF Fits
  <2>4. \A i \in 1..3 : Fits(tasks[i], d[i], d[i + 1], Excess, Height, {})
    BY <1>3, <2>1, <2>2
  <2>5. d[1] = -8 /\ d[4] = -8
    OBVIOUS
  <2>6. Continues(tasks)
    <3>1. Mid(t) = <<pop>>
      BY <1>8
    <3>2. <<Expr(t)>> \o Mid(t) \o <<epilogue(t.size)>> = tasks
      BY <3>1, Triple, Zenon
    <3> QED BY <1>2, <3>2
  <2> HIDE DEF tasks, d
  <2>7. Steps(tasks, d, {}) /\ 4 = Len(tasks) + 1
    BY <2>3, <2>4 DEF Steps
  <2>8. Runs(tasks, Height, {}, SpotAt(-8), SpotAt(-8))
    BY <1>2, <2>5, <2>7, StepsRun
  <2> QED BY <1>6, <2>3, <2>6, <2>8
<1> QED BY <1>7, <1>8

\* Blocks that each end where they start.
LEMMA FlattenEven ==
    ASSUME NEW seqs \in Seq(Seq(Tasks)), NEW base, NEW own, NEW s,
           \A i \in 1..Len(seqs) : Runs(seqs[i], base, own, s, s)
    PROVE  Runs(FlattenSeq(seqs), base, own, s, s) /\ FlattenSeq(seqs) \in Seq(Tasks)
<1> DEFINE spot == [i \in Nat |-> s]
<1>1. \A i \in Nat : spot[i] = s
  OBVIOUS
<1>2. Len(seqs) \in Nat /\ 0 \in Nat /\ \A i \in 1..Len(seqs) : i \in Nat /\ i - 1 \in Nat
  OBVIOUS
<1> HIDE DEF spot
<1>3. \A i \in 1..Len(seqs) : Runs(seqs[i], base, own, spot[i - 1], spot[i])
  BY <1>1, <1>2
<1>4. Runs(FlattenSeq(seqs), base, own, spot[0], spot[Len(seqs)])
  BY <1>3, RunsFlatten
<1>5. FlattenSeq(seqs) \in Seq(Tasks)
  BY FlattenInSeq
<1> QED BY <1>1, <1>2, <1>4, <1>5

LEMMA CompareRun ==
    ASSUME Ready, Head(agenda).do \in Statements, NEW l \in Fresh
    PROVE  LET tasks == <<Expr(Scalar), pop, pop, jcc(l), push>>
           IN  Runs(tasks, Height, Fresh, SpotAt(-16), SpotAt(-16)) /\ tasks \in Seq(Tasks)
<1> DEFINE tasks == <<Expr(Scalar), pop, pop, jcc(l), push>>
           d == <<-16, -24, -16, -8, -8, -16>>
<1>1. /\ Moves(Fresh) /\ SubCalls(Fresh) /\ language \in Languages
      /\ Fits(pop, -16, -8, Excess, Height, Fresh)
      /\ Fits(push, -8, -16, Excess, Height, Fresh)
  BY StatementHere
<1>2. Fits(jcc(l), -8, -8, Excess, Height, Fresh)
  BY StatementLabels
<1>3. Fits(pop, -24, -16, Excess, Height, Fresh)
  BY <1>1 DEF Moves
<1>4. Fits(Expr(Scalar), -16, -24, Excess, Height, Fresh)
  <2>1. Scalar \in Types /\ Pushed(Scalar) = 8
    BY <1>1, PushedOf, TypesOfLanguage
  <2> QED BY <1>1, <2>1 DEF SubCalls
<1>5. tasks \in Seq(Tasks) /\ Len(tasks) = 5 /\ tasks # <<>>
  BY <1>1, <1>2, <1>4 DEF Fits
<1>6. \A i \in 1..5 : Fits(tasks[i], d[i], d[i + 1], Excess, Height, Fresh)
  BY <1>1, <1>2, <1>3, <1>4
<1>7. d[1] = -16 /\ d[6] = -16
  OBVIOUS
<1> HIDE DEF tasks, d
<1>8. Steps(tasks, d, Fresh) /\ 6 = Len(tasks) + 1
  BY <1>5, <1>6 DEF Steps
<1>9. Runs(tasks, Height, Fresh, SpotAt(-16), SpotAt(-16)) /\ tasks \in Seq(Tasks)
  BY <1>7, <1>8, StepsRun
<1> QED BY <1>9 DEF tasks

LEMMA ItemsRun ==
    ASSUME Ready, Head(agenda).do \in Statements, NEW n \in Nat,
           NEW items \in Seq(Tasks), Len(items) = n,
           \A j \in 1..n : Fits(items[j], -8, -8, Excess, Height, Fresh)
    PROVE  Runs(items, Height, Fresh, SpotAt(-8), SpotAt(-8))
<1> DEFINE d == [i \in 1..(n + 1) |-> -8]
<1>1. \A j \in 1..(n + 1) : d[j] = -8
  OBVIOUS
<1> HIDE DEF d
<1>2. CASE n = 0
  <2>1. items = <<>>
    BY <1>2
  <2> QED BY <2>1, RunsNone
<1>3. CASE n # 0
  <2>1. \A j \in 1..n : j \in 1..(n + 1) /\ j + 1 \in 1..(n + 1)
    OBVIOUS
  <2>2. \A j \in 1..n : Fits(items[j], d[j], d[j + 1], Excess, Height, Fresh)
    BY <1>1, <2>1
  <2>3. Steps(items, d, Fresh) /\ n + 1 = Len(items) + 1
    BY <1>3, <2>2 DEF Steps
  <2>4. d[1] = -8 /\ d[n + 1] = -8
    BY <1>1
  <2> QED BY <2>3, <2>4, StepsRun
<1> QED BY <1>2, <1>3

LEMMA SwitchListed ==
    ASSUME GenInv, LargeReturnsLast, Listed, Orderly,
           NEW body \in language.bodies, gen_SWITCH(body)
    PROVE  Listed'
<1> DEFINE k == DefaultOf(body)
           L(j) == ItemLabel(body, j)
           default == DefaultLabel(body)
           compare(j) ==
               IF body[j] = "case" /\ L(j) # NoLabel
               THEN <<Expr(Scalar), pop, pop, jcc(L(j)), push>>
               ELSE <<>>
           item(j) == IF body[j] = "stmt" THEN Stmt ELSE Case(L(j))
           value == <<Expr(Scalar)>>
           compares == [j \in DOMAIN body |-> compare(j)]
           flat == FlattenSeq(compares)
           choose == IF body = <<>> THEN <<>> ELSE <<pop, jmp(default)>>
           items == [j \in DOMAIN body |-> item(j)]
           append == IF body = <<>> \/ k # 0 THEN <<>> ELSE <<define(default), push, pop>>
<1>1. /\ Ready /\ Continues(value \o flat \o choose \o items \o append)
      /\ Head(agenda).do \in Statements /\ Head(agenda).do \notin Enders
  BY LeafContinues DEF gen_SWITCH, Calling, Ready, AtGen, GenCalls, Statements, Enders
<1>2. /\ Height = -8 /\ Height - Leaves(Head(agenda)) = -8 /\ language \in Languages
      /\ Fits(Expr(Scalar), -8, -16, Excess, Height, Fresh)
      /\ Fits(pop, -16, -8, Excess, Height, Fresh)
      /\ Fits(push, -8, -16, Excess, Height, Fresh)
      /\ Fits(Stmt, -8, -8, Excess, Height, Fresh)
      /\ Fits(Case(NoLabel), -8, -8, Excess, Height, Fresh)
  BY <1>1, StatementHere
<1>3. body \in Seq(Items) /\ DOMAIN body = 1..Len(body) /\ Len(body) \in Nat /\ body # <<>>
  <2>1. body \in Seq(Items)
    BY <1>2, ListsOfLanguage
  <2> QED BY <1>2, <2>1 DEF Orderly
<1>4. /\ \A j \in DOMAIN body : L(j) # NoLabel => L(j) \in Fresh
      /\ default \in Fresh
  BY <1>3, ItemLabels DEF Fresh
<1> HIDE DEF L, default, k
<1>5. Runs(value, Height, Fresh, SpotAt(-8), SpotAt(-16)) /\ value \in Seq(Tasks)
  <2> DEFINE d == <<-8, -16>>
  <2>1. value \in Seq(Tasks) /\ Len(value) = 1 /\ value # <<>>
    BY <1>2 DEF Fits
  <2>2. \A i \in 1..1 : Fits(value[i], d[i], d[i + 1], Excess, Height, Fresh)
    BY <1>2
  <2>3. d[1] = -8 /\ d[2] = -16
    OBVIOUS
  <2> HIDE DEF value, d
  <2>4. Steps(value, d, Fresh) /\ 2 = Len(value) + 1
    BY <2>1, <2>2 DEF Steps
  <2> QED BY <1>1, <2>3, <2>4, StepsRun
<1>6. Runs(flat, Height, Fresh, SpotAt(-16), SpotAt(-16)) /\ flat \in Seq(Tasks)
  <2>1. ASSUME NEW j \in DOMAIN body
        PROVE  Runs(compare(j), Height, Fresh, SpotAt(-16), SpotAt(-16)) /\ compare(j) \in Seq(Tasks)
    <3>1. CASE body[j] = "case" /\ L(j) # NoLabel
      BY <1>1, <1>4, <3>1, CompareRun
    <3>2. CASE ~(body[j] = "case" /\ L(j) # NoLabel)
      <4>1. compare(j) = <<>> /\ <<>> \in Seq(Tasks)
        BY <3>2
      <4> HIDE DEF compare
      <4> QED BY <4>1, RunsNone
    <3> QED BY <3>1, <3>2
  <2> HIDE DEF compare
  <2>2. /\ compares \in Seq(Seq(Tasks)) /\ Len(compares) = Len(body)
        /\ \A j \in DOMAIN body : compares[j] = compare(j)
    BY <1>3, <2>1
  <2> HIDE DEF compares
  <2>3. \A i \in 1..Len(compares) : Runs(compares[i], Height, Fresh, SpotAt(-16), SpotAt(-16))
    BY <1>3, <2>1, <2>2
  <2> QED BY <2>2, <2>3, FlattenEven
<1>7. Runs(choose, Height, Fresh, SpotAt(-16), SpotAt(-8)) /\ choose \in Seq(Tasks)
  <2> DEFINE pair == <<pop, jmp(default)>>
             d == <<-16, -8, -8>>
  <2>1. choose = pair
    BY <1>3
  <2>2. Fits(jmp(default), -8, -8, Excess, Height, Fresh)
    BY <1>1, <1>4, StatementLabels
  <2>3. pair \in Seq(Tasks) /\ Len(pair) = 2 /\ pair # <<>>
    BY <1>2, <2>2 DEF Fits
  <2>4. \A i \in 1..2 : Fits(pair[i], d[i], d[i + 1], Excess, Height, Fresh)
    BY <1>2, <2>2
  <2>5. d[1] = -16 /\ d[3] = -8
    OBVIOUS
  <2> HIDE DEF pair, choose, d
  <2>6. Steps(pair, d, Fresh) /\ 3 = Len(pair) + 1
    BY <2>3, <2>4 DEF Steps
  <2>7. Runs(pair, Height, Fresh, SpotAt(-16), SpotAt(-8))
    BY <1>1, <2>5, <2>6, StepsRun
  <2> QED BY <2>1, <2>3, <2>7
<1>8. Runs(items, Height, Fresh, SpotAt(-8), SpotAt(-8)) /\ items \in Seq(Tasks)
  <2>1. ASSUME NEW j \in DOMAIN body
        PROVE  Fits(item(j), -8, -8, Excess, Height, Fresh)
    <3>1. CASE body[j] = "stmt" \/ L(j) = NoLabel
      BY <1>2, <3>1
    <3>2. CASE body[j] # "stmt" /\ L(j) # NoLabel
      <4>1. Fits(Case(L(j)), -8, -8, Excess, Height, Fresh)
        BY <1>1, <1>4, <3>2, StatementLabels
      <4> QED BY <3>2, <4>1
    <3> QED BY <3>1, <3>2
  <2> HIDE DEF item
  <2>2. \A j \in DOMAIN body : item(j) \in Tasks
    BY <2>1 DEF Fits
  <2>3. items \in Seq(Tasks) /\ Len(items) = Len(body) /\ \A j \in 1..Len(body) : items[j] = item(j)
    BY <1>3, <2>2
  <2> HIDE DEF items
  <2>4. \A j \in 1..Len(body) : Fits(items[j], -8, -8, Excess, Height, Fresh)
    BY <1>3, <2>1, <2>3
  <2> QED BY <1>1, <1>3, <2>3, <2>4, ItemsRun
<1>9. Runs(append, Height, Fresh, SpotAt(-8), SpotAt(-8)) /\ append \in Seq(Tasks)
  <2>1. CASE k # 0
    <3>1. append = <<>> /\ <<>> \in Seq(Tasks)
      BY <2>1
    <3> HIDE DEF append
    <3> QED BY <3>1, RunsNone
  <2>2. CASE k = 0
    <3> DEFINE three == <<define(default), push, pop>>
               d == <<-8, -8, -16, -8>>
    <3>1. append = three
      BY <1>3, <2>2
    <3>2. Fits(define(default), -8, -8, Excess, Height, Fresh)
      BY <1>1, <1>4, StatementLabels
    <3>3. three \in Seq(Tasks) /\ Len(three) = 3 /\ three # <<>>
      BY <1>2, <3>2 DEF Fits
    <3>4. \A i \in 1..3 : Fits(three[i], d[i], d[i + 1], Excess, Height, Fresh)
      BY <1>2, <3>2
    <3>5. d[1] = -8 /\ d[4] = -8
      OBVIOUS
    <3> HIDE DEF three, append, d
    <3>6. Steps(three, d, Fresh) /\ 4 = Len(three) + 1
      BY <3>3, <3>4 DEF Steps
    <3>7. Runs(three, Height, Fresh, SpotAt(-8), SpotAt(-8))
      BY <1>1, <3>5, <3>6, StepsRun
    <3> QED BY <3>1, <3>3, <3>7
  <2> QED BY <2>1, <2>2
<1> DEFINE two == value \o flat
           three == two \o choose
           four == three \o items
           tasks == four \o append
<1>10. Continues(tasks)
  BY <1>1
<1> HIDE DEF value, flat, choose, items, append
<1>11. Runs(two, Height, Fresh, SpotAt(-8), SpotAt(-16)) /\ two \in Seq(Tasks)
  BY <1>5, <1>6, RunsCat
<1> HIDE DEF two
<1>12. Runs(three, Height, Fresh, SpotAt(-8), SpotAt(-8)) /\ three \in Seq(Tasks)
  BY <1>7, <1>11, RunsCat
<1> HIDE DEF three
<1>13. Runs(four, Height, Fresh, SpotAt(-8), SpotAt(-8)) /\ four \in Seq(Tasks)
  BY <1>8, <1>12, RunsCat
<1> HIDE DEF four
<1>14. Runs(tasks, Height, Fresh, SpotAt(-8), SpotAt(-8)) /\ tasks \in Seq(Tasks)
  BY <1>9, <1>13, RunsCat
<1> HIDE DEF tasks
<1> QED BY <1>1, <1>2, <1>10, <1>14, RunFresh

-----------------------------------------------------------------------------
(* ND_FUNCCALL: how much the arguments take. *)

\* st[i] is the sum of the weights of the first i positions of the list.
Sums(list, w, st, total) ==
    /\ st \in [0..Len(list) -> Nat] /\ st[0] = 0 /\ st[Len(list)] = total
    /\ \A i \in 1..Len(list) : st[i] = st[i - 1] + w[list[i]]

LEMMA SumsPrepend ==
    ASSUME NEW S, NEW list \in Seq(S), NEW w, NEW st, NEW total, Sums(list, w, st, total),
           NEW p \in S, \A q \in S : w[q] \in Nat
    PROVE  \E new : Sums(<<p>> \o list, w, new, total + w[p])
<1> DEFINE m == Len(list)
           D == <<p>> \o list
           new == [i \in 0..(m + 1) |-> IF i = 0 THEN 0 ELSE st[i - 1] + w[p]]
<1>1. m \in Nat /\ D \in Seq(S) /\ Len(D) = m + 1
  OBVIOUS
<1>2. D[1] = p /\ \A i \in 1..m : D[i + 1] = list[i]
  OBVIOUS
<1>3. /\ st \in [0..m -> Nat] /\ st[0] = 0 /\ st[m] = total
      /\ \A i \in 1..m : st[i] = st[i - 1] + w[list[i]]
  BY DEF Sums
<1> HIDE DEF D
<1>4. new \in [0..(m + 1) -> Nat]
  <2> SUFFICES ASSUME NEW i \in 0..(m + 1), i # 0 PROVE st[i - 1] + w[p] \in Nat
    OBVIOUS
  <2>1. i - 1 \in 0..m
    BY <1>1
  <2>2. st[i - 1] \in Nat /\ w[p] \in Nat
    BY <1>3, <2>1
  <2> QED BY <2>2
<1>5. new[0] = 0 /\ \A i \in 1..(m + 1) : new[i] = st[i - 1] + w[p]
  BY <1>1
<1> HIDE DEF new, m
<1>6. new[m + 1] = total + w[p]
  <2>1. m + 1 \in 1..(m + 1) /\ (m + 1) - 1 = m
    BY <1>1
  <2> QED BY <1>3, <1>5, <2>1
<1>7. ASSUME NEW i \in 1..(m + 1)
      PROVE  new[i] = new[i - 1] + w[D[i]]
  <2>1. CASE i = 1
    <3>1. 1 \in 1..(m + 1) /\ 1 - 1 = 0
      BY <1>1
    <3> QED BY <1>2, <1>3, <1>5, <2>1, <3>1
  <2>2. CASE i # 1
    <3>1. i - 1 \in 1..m /\ i - 1 \in 1..(m + 1) /\ i = (i - 1) + 1 /\ (i - 1) - 1 \in 0..m
      BY <1>1, <2>2
    <3>2. D[i] = list[i - 1] /\ st[i - 1] = st[(i - 1) - 1] + w[list[i - 1]]
      BY <1>2, <1>3, <3>1
    <3>3. new[i] = st[i - 1] + w[p] /\ new[i - 1] = st[(i - 1) - 1] + w[p]
      BY <1>5, <3>1
    <3>4. st[i - 1] \in Nat /\ st[(i - 1) - 1] \in Nat
      BY <1>3, <3>1
    <3>5. w[list[i - 1]] = w[D[i]]
      BY <3>2
    <3>6. w[list[i - 1]] \in Nat /\ w[p] \in Nat
      <4>1. list[i - 1] \in S
        BY <1>1, <3>1 DEF m
      <4> QED BY <4>1
    <3> QED BY <3>2, <3>3, <3>4, <3>5, <3>6
  <2> QED BY <2>1, <2>2
<1>8. Sums(D, w, new, total + w[p])
  BY <1>1, <1>4, <1>5, <1>6, <1>7 DEF Sums
<1> QED BY <1>8 DEF D

LEMMA DescendingSums ==
    ASSUME NEW n \in Nat, NEW S, S \subseteq 1..n, NEW w, \A q \in S : w[q] \in Nat,
           NEW total, total[0] = 0,
           \A p \in 1..n : total[p] = total[p - 1] + (IF p \in S THEN w[p] ELSE 0)
    PROVE  /\ Descending(S, n) \in Seq(S)
           /\ \E st : Sums(Descending(S, n), w, st, total[n])
<1>0. PICK from : Descends(from, S, n)
  BY DescendingSteps
<1>1. /\ from[0] = <<>> /\ Descending(S, n) = from[n]
      /\ \A p \in 1..n : from[p] = (IF p \in S THEN <<p>> ELSE <<>>) \o from[p - 1]
  BY <1>0, Zenon DEF Descends
<1> DEFINE G == {p \in Nat : /\ from[p] \in Seq(S) /\ total[p] \in Nat
                             /\ \E st : Sums(from[p], w, st, total[p])}
<1>2. 0 \in G
  <2> DEFINE st == [i \in 0..0 |-> 0]
  <2>1. from[0] \in Seq(S) /\ Len(from[0]) = 0
    BY <1>1
  <2>2. st \in [0..0 -> Nat] /\ st[0] = 0 /\ 1..0 = {}
    OBVIOUS
  <2> HIDE DEF st
  <2>3. Sums(from[0], w, st, total[0])
    BY <2>1, <2>2 DEF Sums
  <2> QED BY <2>1, <2>3
<1>3. ASSUME NEW p \in 1..n, p - 1 \in G
      PROVE  p \in G
  <2>a. from[p] = (IF p \in S THEN <<p>> ELSE <<>>) \o from[p - 1]
    BY <1>1, Zenon
  <2>b. total[p] = total[p - 1] + (IF p \in S THEN w[p] ELSE 0)
    OBVIOUS
  <2>c. from[p - 1] \in Seq(S) /\ total[p - 1] \in Nat
    BY <1>3, Zenon
  <2>1. /\ p \in Nat /\ from[p - 1] \in Seq(S) /\ total[p - 1] \in Nat
        /\ from[p] = (IF p \in S THEN <<p>> ELSE <<>>) \o from[p - 1]
        /\ total[p] = total[p - 1] + (IF p \in S THEN w[p] ELSE 0)
    <3>1. p \in Nat
      OBVIOUS
    <3> QED BY <2>a, <2>b, <2>c, <3>1, Zenon
  <2>2. PICK st : Sums(from[p - 1], w, st, total[p - 1])
    BY <1>3
  <2>3. CASE p \in S
    <3>1. from[p] = <<p>> \o from[p - 1] /\ total[p] = total[p - 1] + w[p] /\ w[p] \in Nat
      BY <2>1, <2>3
    <3>2. \E new : Sums(from[p], w, new, total[p])
      <4> DEFINE list == from[p - 1]
                 sum == total[p - 1]
      <4>1. list \in Seq(S) /\ Sums(list, w, st, sum)
        BY <2>1, <2>2
      <4>2. from[p] = <<p>> \o list /\ total[p] = sum + w[p]
        BY <3>1
      <4> HIDE DEF list, sum
      <4>3. \E new : Sums(<<p>> \o list, w, new, sum + w[p])
        BY <2>3, <4>1, SumsPrepend
      <4> QED BY <4>2, <4>3
    <3>3. from[p] \in Seq(S) /\ total[p] \in Nat
      BY <2>1, <2>3, <3>1
    <3> QED BY <2>1, <3>2, <3>3
  <2>4. CASE p \notin S
    <3>1. from[p] = from[p - 1] /\ total[p] = total[p - 1]
      BY <2>1, <2>4
    <3> QED BY <2>1, <2>2, <3>1
  <2> QED BY <2>3, <2>4
<1>4. n \in G
  <2> HIDE DEF G
  <2>1. 0..n \subseteq G
    BY <1>2, <1>3, UpTo
  <2> QED BY <2>1
<1> QED BY <1>1, <1>4

\* The words of those that are passed in registers.
CountsWords(total, S, n) ==
    /\ total[0] = 0 /\ total[n] = 8 * Cardinality(S)
    /\ \A p \in 1..n : total[p] = total[p - 1] + (IF p \in S THEN 8 ELSE 0)

LEMMA RegisterTotals ==
    ASSUME NEW n \in Nat, NEW S, S \subseteq 1..n
    PROVE  \E total : CountsWords(total, S, n)
<1> DEFINE U(p) == {q \in S : q <= p}
           total == [p \in 0..n |-> 8 * Cardinality(U(p))]
<1>1. IsFiniteSet(S)
  <2>1. IsFiniteSet(1..n)
    BY FS_Interval
  <2> QED BY <2>1, FS_Subset
<1>2. \A p \in 0..n : IsFiniteSet(U(p)) /\ Cardinality(U(p)) \in Nat
  <2>1. \A p \in 0..n : U(p) \subseteq S
    OBVIOUS
  <2> QED BY <1>1, <2>1, FS_Subset, FS_CardinalityType
<1>3. U(0) = {} /\ U(n) = S
  <2>1. \A q \in S : q \in Nat /\ q >= 1 /\ q <= n
    OBVIOUS
  <2>2. U(0) = {}
    <3>1. \A q \in S : ~(q <= 0)
      BY <2>1
    <3> QED BY <3>1
  <2>3. U(n) = S
    BY <2>1
  <2> QED BY <2>2, <2>3
<1>4. total[0] = 0 /\ total[n] = 8 * Cardinality(S)
  BY <1>3, FS_EmptySet
<1>5. ASSUME NEW p \in 1..n
      PROVE  total[p] = total[p - 1] + (IF p \in S THEN 8 ELSE 0)
  <2>1. p \in 0..n /\ p - 1 \in 0..n
    OBVIOUS
  <2>2. total[p] = 8 * Cardinality(U(p)) /\ total[p - 1] = 8 * Cardinality(U(p - 1))
    BY <2>1
  <2>3. CASE p \in S
    <3>1. U(p) = U(p - 1) \cup {p} /\ p \notin U(p - 1)
      <4>1. \A q \in S : q \in Nat /\ ((q <= p) <=> (q <= p - 1 \/ q = p))
        OBVIOUS
      <4>2. ~(p <= p - 1) /\ p <= p
        OBVIOUS
      <4>3. \A q : q \in U(p) <=> q \in U(p - 1) \/ q = p
        BY <2>3, <4>1, <4>2
      <4> QED BY <4>2, <4>3
    <3> HIDE DEF U
    <3>2. Cardinality(U(p)) = Cardinality(U(p - 1)) + 1
      BY <1>2, <2>1, <3>1, FS_AddElement
    <3> QED BY <1>2, <2>1, <2>2, <2>3, <3>2
  <2>4. CASE p \notin S
    <3>1. U(p) = U(p - 1)
      <4>1. \A q \in S : q # p /\ ((q <= p) <=> (q <= p - 1))
        BY <2>4
      <4>2. \A q : q \in U(p) <=> q \in U(p - 1)
        BY <4>1
      <4> QED BY <4>2
    <3> HIDE DEF U
    <3> QED BY <1>2, <2>1, <2>2, <2>4, <3>1
  <2> QED BY <2>3, <2>4
<1>6. CountsWords(total, S, n)
  <2> HIDE DEF total
  <2> QED BY <1>4, <1>5 DEF CountsWords
<1> QED BY <1>6

LEMMA SumsConcat ==
    ASSUME NEW S, NEW a \in Seq(S), NEW c \in Seq(S), NEW w, \A q \in S : w[q] \in Nat,
           NEW sa, NEW ta, Sums(a, w, sa, ta), NEW sc, NEW tc, Sums(c, w, sc, tc)
    PROVE  \E st : Sums(a \o c, w, st, ta + tc)
<1> DEFINE m == Len(a)
           k == Len(c)
           list == a \o c
           st == [i \in 0..(m + k) |-> IF i <= m THEN sa[i] ELSE ta + sc[i - m]]
<1>1. m \in Nat /\ k \in Nat /\ list \in Seq(S) /\ Len(list) = m + k
  OBVIOUS
<1>2. (\A i \in 1..m : list[i] = a[i]) /\ (\A i \in 1..k : list[m + i] = c[i])
  OBVIOUS
<1>3. /\ sa \in [0..m -> Nat] /\ sa[0] = 0 /\ sa[m] = ta
      /\ \A i \in 1..m : sa[i] = sa[i - 1] + w[a[i]]
      /\ sc \in [0..k -> Nat] /\ sc[0] = 0 /\ sc[k] = tc
      /\ \A i \in 1..k : sc[i] = sc[i - 1] + w[c[i]]
  BY DEF Sums
<1>4. \A i \in 1..k : w[c[i]] \in Nat
  OBVIOUS
<1> HIDE DEF list, m, k
<1>5. ta \in Nat /\ tc \in Nat
  BY <1>1, <1>3
<1>6. st \in [0..(m + k) -> Nat]
  <2> SUFFICES ASSUME NEW i \in 0..(m + k)
               PROVE  (IF i <= m THEN sa[i] ELSE ta + sc[i - m]) \in Nat
    OBVIOUS
  <2>1. CASE i <= m
    <3>1. i \in 0..m
      BY <1>1, <2>1
    <3> QED BY <1>3, <2>1, <3>1
  <2>2. CASE ~(i <= m)
    <3>1. i - m \in 0..k
      BY <1>1, <2>2
    <3>2. sc[i - m] \in Nat
      BY <1>3, <3>1
    <3> QED BY <1>5, <2>2, <3>2
  <2> QED BY <2>1, <2>2
<1>7. (\A i \in 0..m : st[i] = sa[i]) /\ (\A i \in 0..k : st[m + i] = ta + sc[i])
  <2>1. \A i \in 0..m : st[i] = sa[i]
    BY <1>1
  <2>2. ASSUME NEW i \in 0..k
        PROVE  st[m + i] = ta + sc[i]
    <3>1. CASE i = 0
      <4>1. m + i = m /\ m \in 0..m
        BY <1>1, <3>1
      <4> QED BY <1>3, <1>5, <2>1, <3>1, <4>1
    <3>2. CASE i # 0
      <4>1. m + i \in 0..(m + k) /\ ~(m + i <= m) /\ (m + i) - m = i
        BY <1>1, <3>2
      <4> QED BY <4>1
    <3> QED BY <3>1, <3>2
  <2> QED BY <2>1, <2>2
<1> HIDE DEF st
<1>8. st[0] = 0 /\ st[m + k] = ta + tc
  <2>1. 0 \in 0..m /\ k \in 0..k
    BY <1>1
  <2> QED BY <1>3, <1>7, <2>1
<1>9. ASSUME NEW i \in 1..(m + k)
      PROVE  st[i] = st[i - 1] + w[list[i]]
  <2>1. CASE i <= m
    <3>1. i \in 1..m /\ i \in 0..m /\ i - 1 \in 0..m
      BY <1>1, <2>1
    <3> QED BY <1>2, <1>3, <1>7, <3>1
  <2>2. CASE i > m
    <3> DEFINE j == i - m
    <3>1. j \in 1..k /\ j \in 0..k /\ j - 1 \in 0..k /\ i = m + j /\ i - 1 = m + (j - 1)
      BY <1>1, <2>2
    <3> HIDE DEF j
    <3>2. st[i] = ta + sc[j] /\ st[i - 1] = ta + sc[j - 1] /\ list[i] = c[j]
      BY <1>2, <1>7, <3>1
    <3>3. sc[j] = sc[j - 1] + w[c[j]] /\ sc[j - 1] \in Nat /\ w[c[j]] \in Nat
      BY <1>3, <1>4, <3>1
    <3> QED BY <1>5, <3>2, <3>3
  <2> QED BY <1>1, <2>1, <2>2
<1>10. Sums(list, w, st, ta + tc)
  BY <1>1, <1>6, <1>8, <1>9 DEF Sums
<1> QED BY <1>10 DEF list

\* The assertion of the code leaves at most seven arguments for registers.
LEMMA SevenAtMost ==
    ASSUME NEW T, NEW args \in Seq(T), ~TooMany(args)
    PROVE  Cardinality(InRegisters(args)) \in 0..7
<1> DEFINE R == InRegisters(args)
<1>1. DOMAIN args = 1..Len(args) /\ Len(args) \in Nat /\ R \subseteq 1..Len(args)
  BY DEF InRegisters
<1>2. IsFiniteSet(R) /\ Cardinality(R) \in Nat
  <2>1. IsFiniteSet(1..Len(args))
    BY <1>1, FS_Interval
  <2>2. IsFiniteSet(R)
    BY <1>1, <2>1, FS_Subset
  <2> HIDE DEF R
  <2> QED BY <2>2, FS_CardinalityType
<1> HIDE DEF R
<1>3. CASE R = {}
  BY <1>3, FS_EmptySet DEF R
<1>4. CASE R # {}
  <2>1. PICK p \in R : \A q \in R : p <= q
    <3>1. R \subseteq Nat
      BY <1>1
    <3> QED BY <1>4, <3>1, Least
  <2>2. {q \in R : q > p} = R \ {p}
    <3>1. \A q \in R : (q > p) <=> (q # p)
      <4> SUFFICES ASSUME NEW q \in R PROVE (q > p) <=> (q # p)
        OBVIOUS
      <4>1. q \in Nat /\ p \in Nat /\ p <= q
        BY <1>1, <2>1
      <4> QED BY <4>1
    <3> QED BY <3>1
  <2>3. Cardinality({q \in R : q > p}) <= 6
    <3>1. p \in DOMAIN args
      BY <1>1, <2>1
    <3>2. ~(Cardinality({q \in R : q > p}) > 6)
      BY <3>1 DEF TooMany, R
    <3>3. Cardinality({q \in R : q > p}) \in Nat
      <4>1. IsFiniteSet(R \ {p})
        BY <1>2, FS_Subset
      <4> QED BY <2>2, <4>1, FS_CardinalityType
    <3> QED BY <3>2, <3>3
  <2>4. Cardinality(R \ {p}) = Cardinality(R) - 1
    BY <1>2, <2>1, FS_RemoveElement
  <2>5. Cardinality(R) \in 0..7
    <3>1. Cardinality(R) - 1 <= 6
      BY <2>2, <2>3, <2>4
    <3> QED BY <1>2, <3>1
  <2> QED BY <2>5 DEF R
<1> QED BY <1>3, <1>4

\* What the arguments leave on the stack, in the order in which they are evaluated, and
\* how much that is in all: what is counted as passed in memory, and a word for every
\* argument that is passed in a register.
LEMMA MemoryEven ==
    ASSUME language \in Languages, NEW args \in Seq(Types)
    PROVE  SumSizes(InMemory(args), args) \in Nat /\ SumSizes(InMemory(args), args) % 8 = 0
<1>1. \A t \in Types : t.size \in Nat
  BY TypesOfLanguage
<1>0. PICK sum : AddsUp(sum, InMemory(args), args)
  <2> DEFINE T == Types
  <2>1. (\A t \in T : t.size \in Nat) /\ args \in Seq(T)
    BY <1>1
  <2> HIDE DEF T
  <2> QED BY <2>1, SumSizesSteps
<1>2. /\ sum[0] = 0 /\ SumSizes(InMemory(args), args) = sum[Len(args)]
      /\ \A p \in 1..Len(args) :
            sum[p] = sum[p - 1] + (IF p \in InMemory(args) THEN args[p].size ELSE 0)
  BY <1>0, Zenon DEF AddsUp
<1> DEFINE G == {p \in Nat : sum[p] \in Nat /\ sum[p] % 8 = 0}
           n == Len(args)
<1>3. 0 \in G /\ n \in Nat
  BY <1>2
<1>4. ASSUME NEW p \in 1..n, p - 1 \in G
      PROVE  p \in G
  <2>1. sum[p - 1] \in Nat /\ sum[p - 1] % 8 = 0 /\ p \in Nat
    BY <1>4
  <2>2. CASE p \in InMemory(args)
    <3>1. args[p] \in Types /\ args[p].dataType # "ARRAY" /\ args[p].size > 8
      BY <2>2 DEF InMemory
    <3>2. args[p] \in StructTypes
      BY <1>1, <3>1, TypesOfLanguage DEF Types, ArrayTypes, Array, Scalar, Void
    <3>3. args[p].size \in Nat /\ args[p].size % 8 = 0
      BY <3>2, PushedOf
    <3>4. sum[p] = sum[p - 1] + args[p].size
      BY <1>2, <2>2
    <3>5. \A a, b \in Nat : a % 8 = 0 /\ b % 8 = 0 => a + b \in Nat /\ (a + b) % 8 = 0
      OBVIOUS
    <3>6. sum[p] \in Nat /\ sum[p] % 8 = 0
      BY <2>1, <3>3, <3>4, <3>5, Zenon
    <3> QED BY <2>1, <3>6
  <2>3. CASE p \notin InMemory(args)
    <3>1. sum[p] = sum[p - 1]
      BY <1>2, <2>1, <2>3
    <3> QED BY <2>1, <3>1
  <2> QED BY <2>2, <2>3
<1>5. n \in G
  <2> HIDE DEF G, n
  <2>1. 0..n \subseteq G
    BY <1>3, <1>4, UpTo
  <2> QED BY <1>3, <2>1
<1> QED BY <1>2, <1>5

LEMMA ArgumentSums ==
    ASSUME Orderly, language \in Languages, NEW args \in language.argLists, ~TooMany(args),
           NEW order, order = Linked(InMemory(args), args) \o Linked(InRegisters(args), args),
           NEW w, w = [p \in DOMAIN args |-> Pushed(args[p])],
           NEW total, total = SumSizes(InMemory(args), args) + 8 * Cardinality(InRegisters(args))
    PROVE  /\ order \in Seq(DOMAIN args)
           /\ \E st : Sums(order, w, st, total)
<1>sum. PICK sum : AddsUp(sum, InMemory(args), args)
  <2> DEFINE T == Types
  <2>1. (\A t \in T : t.size \in Nat) /\ args \in Seq(T)
    BY ListsOfLanguage, TypesOfLanguage
  <2> HIDE DEF T
  <2> QED BY <2>1, SumSizesSteps
<1>0. /\ sum[0] = 0 /\ SumSizes(InMemory(args), args) = sum[Len(args)]
      /\ \A p \in 1..Len(args) :
            sum[p] = sum[p - 1] + (IF p \in InMemory(args) THEN args[p].size ELSE 0)
  BY <1>sum, Zenon DEF AddsUp
<1> DEFINE n == Len(args)
           M == InMemory(args)
           R == InRegisters(args)
           D == DOMAIN args
<1>1. args \in Seq(Types) /\ n \in Nat /\ D = 1..n
  BY ListsOfLanguage
<1>2. M \subseteq D /\ R \subseteq D /\ \A p \in D : p \in M \/ p \in R
  BY DEF InMemory, InRegisters
<1>3. /\ \A p \in D : args[p].dataType # "VOID"
      /\ Linked(M, args) = Descending(M, n) /\ Linked(R, args) = Descending(R, n)
  BY DEF Orderly
<1>4. \A p \in D : args[p] \in Types /\ Pushed(args[p]) \in Nat
  BY <1>1, SmallNumbers
<1>5. \A p \in D : w[p] = Pushed(args[p]) /\ w[p] \in Nat
  BY <1>4
<1>6. ASSUME NEW p \in M
      PROVE  w[p] = args[p].size
  <2>1. args[p].dataType # "ARRAY" /\ args[p].size > 8 /\ p \in D
    BY DEF InMemory
  <2>2. args[p].size \in Nat
    BY <1>4, <2>1, SmallNumbers
  <2>3. Pushed(args[p]) = args[p].size
    BY <2>1, <2>2 DEF Pushed
  <2> QED BY <1>5, <2>1, <2>3
<1>7. ASSUME NEW p \in R
      PROVE  w[p] = 8
  <2>1. p \in D /\ (args[p].dataType = "ARRAY" \/ ~(args[p].size > 8))
    BY DEF InRegisters, InMemory
  <2>2. args[p] # Void /\ args[p].size \in Nat /\ args[p] \in Types
    BY <1>3, <1>4, <2>1, SmallNumbers DEF Void
  <2>3. CASE args[p] \in Operands
    BY <1>5, <2>1, <2>3, PushedOf
  <2>4. CASE args[p] \in StructTypes
    BY <1>5, <2>1, <2>2, <2>4, PushedOf
  <2> QED BY <2>2, <2>3, <2>4 DEF Types, Operands
<1>8. /\ sum[0] = 0 /\ SumSizes(M, args) = sum[n]
      /\ \A p \in 1..n :
            sum[p] = sum[p - 1] + (IF p \in M THEN args[p].size ELSE 0)
  BY <1>0
<1>9. \A p \in 1..n : sum[p] = sum[p - 1] + (IF p \in M THEN w[p] ELSE 0)
  BY <1>6, <1>8
<1> HIDE DEF M, R, D, n
<1>10. /\ Descending(M, n) \in Seq(M)
       /\ \E st : Sums(Descending(M, n), w, st, sum[n])
  <2>1. M \subseteq 1..n /\ \A q \in M : w[q] \in Nat
    BY <1>1, <1>2, <1>5
  <2> QED BY <1>1, <1>8, <1>9, <2>1, DescendingSums
<1>11. /\ Descending(R, n) \in Seq(R)
       /\ \E st : Sums(Descending(R, n), w, st, 8 * Cardinality(R))
  <2>1. R \subseteq 1..n /\ \A q \in R : w[q] \in Nat
    BY <1>1, <1>2, <1>5
  <2>0. PICK words : CountsWords(words, R, n)
    BY <1>1, <2>1, RegisterTotals
  <2>2. /\ words[0] = 0 /\ words[n] = 8 * Cardinality(R)
        /\ \A p \in 1..n : words[p] = words[p - 1] + (IF p \in R THEN 8 ELSE 0)
    BY <2>0 DEF CountsWords
  <2>3. \A p \in 1..n : words[p] = words[p - 1] + (IF p \in R THEN w[p] ELSE 0)
    BY <1>7, <2>2
  <2>4. /\ Descending(R, n) \in Seq(R)
        /\ \E st : Sums(Descending(R, n), w, st, words[n])
    BY <1>1, <2>1, <2>2, <2>3, DescendingSums
  <2> QED BY <2>2, <2>4
<1>12. PICK sm : Sums(Descending(M, n), w, sm, sum[n])
  BY <1>10
<1>13. PICK sr : Sums(Descending(R, n), w, sr, 8 * Cardinality(R))
  BY <1>11
<1>14. Descending(M, n) \in Seq(D) /\ Descending(R, n) \in Seq(D)
  BY <1>2, <1>10, <1>11
<1>15. \E st : Sums(Descending(M, n) \o Descending(R, n), w, st, sum[n] + 8 * Cardinality(R))
  <2>1. \A q \in D : w[q] \in Nat
    BY <1>5
  <2> QED BY <1>12, <1>13, <1>14, <2>1, SumsConcat
<1>16. order = Descending(M, n) \o Descending(R, n) /\ total = sum[n] + 8 * Cardinality(R)
  BY <1>3, <1>8 DEF M, R
<1>17. order \in Seq(D)
  BY <1>14, <1>16
<1> QED BY <1>15, <1>16, <1>17 DEF D

-----------------------------------------------------------------------------
(* ND_FUNCCALL: the pieces of the code of a call. *)

LEMMA RemainderOf ==
    ASSUME NEW x \in Int, x % 8 = 0
    PROVE  Rem16(x) \in {-8, 0, 8} /\ (x - Rem16(x)) % 16 = 0
<1>1. CASE x >= 0
  <2>1. Rem16(x) = x % 16
    BY <1>1 DEF Rem16
  <2>2. x % 16 \in {0, 8} /\ (x - (x % 16)) % 16 = 0
    BY <1>1
  <2> QED BY <2>1, <2>2
<1>2. CASE ~(x >= 0)
  <2>1. Rem16(x) = -((-x) % 16)
    BY <1>2 DEF Rem16
  <2>2. (-x) % 16 \in {0, 8} /\ (x + ((-x) % 16)) % 16 = 0
    BY <1>2
  <2> QED BY <2>1, <2>2
<1> QED BY <1>1, <1>2

LEMMA RunsLine ==
    ASSUME NEW x \in Lines, x.place = 4, LineOK(x), ~Labelled(x.instr),
           NEW base, NEW own, NEW s, NEW t, Admits(s, x), Passes(x, t),
           NEW task, task = x.instr
    PROVE  Runs(<<task>>, base, own, s, t) /\ <<task>> \in Seq(Tasks)
<1> DEFINE B == <<x>>
           tasks == <<task>>
<1>1. /\ B \in Seq(Lines) /\ Len(B) = 1 /\ DOMAIN B = 1..1 /\ B[1] = x /\ B # <<>>
      /\ Len(tasks) = 1 /\ tasks[1] = x.instr
  OBVIOUS
<1>2. x.instr \in Tasks
  BY DEF Lines
<1> HIDE DEF B, tasks
<1>3. \A i \in DOMAIN B : i = 1 /\ i + 1 \notin DOMAIN B
  BY <1>1
<1>4. Runs(tasks, base, own, s, t)
  <2>1. \A i \in DOMAIN B :
              /\ B[i].instr = tasks[i] /\ B[i].place = 4 /\ LineOK(B[i])
              /\ Labelled(tasks[i]) => B[i].at = base /\ tasks[i].label \in own
    BY <1>1, <1>3
  <2>2. \A i \in DOMAIN B : i + 1 \in DOMAIN B => Passes(B[i], B[i + 1])
    BY <1>3
  <2>3. Admits(s, B[1]) /\ Passes(B[Len(B)], t) /\ Len(B) = Len(tasks)
    BY <1>1
  <2> QED BY <1>1, <2>1, <2>2, <2>3 DEF Runs
<1> QED BY <1>2, <1>4 DEF tasks

LEMMA FunctionIsSeq ==
    ASSUME NEW T, NEW n \in Nat, NEW f \in [1..n -> T]
    PROVE  f \in Seq(T) /\ Len(f) = n
OBVIOUS

\* The arguments, each left on the stack by its expression.
ArgumentFrame(args, order, w, st, total, a, k, id, pieces, b) ==
    /\ args \in Seq(Types) /\ order \in Seq(DOMAIN args)
    /\ w = [p \in DOMAIN args |-> Pushed(args[p])]
    /\ Sums(order, w, st, total)
    /\ a \in Int /\ a <= SavedR12 /\ k \in Int /\ id \in Nat /\ b = a - total
    /\ pieces = [i \in DOMAIN order |->
                    LET p == order[i] IN <<Expr(args[p]), argument(args[p], id, p)>>]

LEMMA ArgumentsRun ==
    ASSUME language \in Languages, NEW args, NEW order, NEW w, NEW st, NEW total, NEW a, NEW k,
           NEW id, NEW pieces, NEW b, NEW base, NEW own,
           ArgumentFrame(args, order, w, st, total, a, k, id, pieces, b)
    PROVE  /\ Runs(FlattenSeq(pieces), base, own, Spot(a, a + k, Unknown), Spot(b, b + k, Unknown))
           /\ FlattenSeq(pieces) \in Seq(Tasks)
<1> USE DEF ArgumentFrame
<1> DEFINE n == Len(order)
           spot == [i \in 0..n |-> Spot(a - st[i], a - st[i] + k, Unknown)]
<1>1. /\ n \in Nat /\ DOMAIN order = 1..n
      /\ st \in [0..n -> Nat] /\ st[0] = 0 /\ st[n] = total
      /\ \A i \in 1..n : st[i] = st[i - 1] + w[order[i]]
  BY DEF Sums
<1>2. ASSUME NEW i \in 1..n
      PROVE  /\ pieces[i] \in Seq(Tasks)
             /\ Runs(pieces[i], base, own, spot[i - 1], spot[i])
  <2> DEFINE p == order[i]
             t == args[p]
             tasks == <<Expr(t), argument(t, id, p)>>
             c == a - st[i - 1]
             d == <<c, c - Pushed(t), c - Pushed(t)>>
  <2>1. p \in DOMAIN args /\ p \in Nat /\ t \in Types /\ w[p] = Pushed(t) /\ pieces[i] = tasks
    BY <1>1
  <2>2. /\ i - 1 \in 0..n /\ i \in 0..n /\ st[i - 1] \in Nat /\ st[i] = st[i - 1] + Pushed(t)
        /\ Pushed(t) \in Nat
    <3>1. i - 1 \in 0..n /\ i \in 0..n
      BY <1>1
    <3>2. st[i] = st[i - 1] + w[p]
      BY <1>1
    <3>3. Pushed(t) \in Nat
      BY <2>1, SmallNumbers
    <3> HIDE DEF n, p, t
    <3> QED BY <1>1, <2>1, <3>1, <3>2, <3>3
  <2>3. /\ c \in Int /\ c <= SavedR12 /\ c - Pushed(t) \in Int /\ c - Pushed(t) <= SavedR12
        /\ a - st[i] = c - Pushed(t)
    <3>1. SavedR12 = -8
      BY DEF SavedR12
    <3> HIDE DEF p, t, n, spot, tasks
    <3> QED BY <2>2, <3>1, SMTT(30)
  <2>4. spot[i - 1] = Spot(c, c + k, Unknown)
    BY <2>2
  <2>5. spot[i] = Spot(c - Pushed(t), c - Pushed(t) + k, Unknown)
    BY <2>2, <2>3
  <2> HIDE DEF spot, c
  <2>6. Fits(Expr(t), c, c - Pushed(t), k, base, own)
    <3> HIDE DEF t, p
    <3> QED BY <2>1, <2>3, FitsCalls
  <2>7. Fits(argument(t, id, p), c - Pushed(t), c - Pushed(t), k, base, own)
    <3> DEFINE e == c - Pushed(t)
    <3>1. e \in Int /\ e <= SavedR12
      BY <2>3
    <3> HIDE DEF t, p, e
    <3>2. Fits(argument(t, id, p), e, e, k, base, own)
      BY <2>1, <3>1, FitsMoves
    <3> QED BY <3>2 DEF e
  <2>8. tasks \in Seq(Tasks) /\ Len(tasks) = 2 /\ tasks # <<>>
    BY <2>6, <2>7 DEF Fits
  <2>9. \A j \in 1..2 : Fits(tasks[j], d[j], d[j + 1], k, base, own)
    BY <2>6, <2>7
  <2>10. d[1] = c /\ d[3] = c - Pushed(t)
    OBVIOUS
  <2> HIDE DEF tasks, d, t
  <2>11. Runs(tasks, base, own, Spot(d[1], d[1] + k, Unknown), Spot(d[3], d[3] + k, Unknown))
    <3>1. \A j \in 1..Len(tasks) : Fits(tasks[j], d[j], d[j + 1], k, base, own)
      BY <2>8, <2>9
    <3>2. Len(tasks) + 1 = 3
      BY <2>8
    <3>3. Runs(tasks, base, own, Spot(d[1], d[1] + k, Unknown),
               Spot(d[Len(tasks) + 1], d[Len(tasks) + 1] + k, Unknown))
      BY <2>8, <3>1, Walk
    <3> QED BY <3>2, <3>3
  <2> QED BY <2>1, <2>4, <2>5, <2>8, <2>10, <2>11
<1>3. pieces \in Seq(Seq(Tasks)) /\ Len(pieces) = n
  <2> DEFINE pair(i) == <<Expr(args[order[i]]), argument(args[order[i]], id, order[i])>>
  <2>1. n \in Nat /\ pieces = [i \in 1..n |-> pair(i)]
    BY <1>1
  <2>2. \A i \in 1..n : pair(i) \in Seq(Tasks)
    BY <1>2, <2>1
  <2> HIDE DEF n, pair
  <2>3. pieces \in [1..n -> Seq(Tasks)]
    BY <2>1, <2>2
  <2> QED BY <2>1, <2>3, FunctionIsSeq
<1>4. spot[0] = Spot(a, a + k, Unknown) /\ spot[n] = Spot(b, b + k, Unknown)
  <2>1. 0 \in 0..n /\ n \in 0..n /\ a - st[0] = a /\ a - st[n] = b
    BY <1>1
  <2> QED BY <2>1
<1> HIDE DEF spot, n
<1>5. Runs(FlattenSeq(pieces), base, own, spot[0], spot[n])
  <2>1. \A i \in 1..Len(pieces) : Runs(pieces[i], base, own, spot[i - 1], spot[i])
    BY <1>2, <1>3
  <2> QED BY <1>3, <2>1, RunsFlatten
<1>6. FlattenSeq(pieces) \in Seq(Tasks)
  BY <1>3, FlattenInSeq
<1> QED BY <1>4, <1>5, <1>6

LEMMA RegistersRun ==
    ASSUME language \in Languages, NEW n \in Nat, NEW a \in Int, NEW b, b = a + 8 * n, b <= 0,
           NEW k \in Int, NEW base, NEW own,
           NEW tasks, tasks = [i \in 1..n |-> pop_register(i)]
    PROVE  /\ Runs(tasks, base, own, Spot(a, a + k, Unknown), Spot(b, b + k, Unknown))
           /\ tasks \in Seq(Tasks)
<1> DEFINE d == [i \in 1..(n + 1) |-> a + 8 * (i - 1)]
<1>1. ASSUME NEW i \in 1..n
      PROVE  Fits(tasks[i], d[i], d[i + 1], k, base, own)
  <2>1. d[i] \in Int /\ d[i] <= SavedR12 /\ d[i + 1] = d[i] + 8 /\ i \in Nat
    BY DEF SavedR12
  <2>2. tasks[i] = pop_register(i)
    OBVIOUS
  <2> HIDE DEF d
  <2> QED BY <2>1, <2>2, FitsMoves
<1>2. Len(tasks) = n /\ DOMAIN tasks = 1..n
  OBVIOUS
<1>3. tasks \in Seq(Tasks)
  <2>1. \A i \in 1..n : pop_register(i) \in Tasks
    BY <1>1 DEF Fits
  <2> QED BY <2>1
<1>4. d[1] = a /\ d[n + 1] = b
  OBVIOUS
<1> HIDE DEF d
<1>5. CASE n = 0
  <2>1. tasks = <<>> /\ a = b
    BY <1>5
  <2> QED BY <1>3, <2>1, RunsNone
<1>6. CASE n # 0
  <2>1. tasks # <<>>
    BY <1>2, <1>6
  <2>2. \A i \in 1..Len(tasks) : Fits(tasks[i], d[i], d[i + 1], k, base, own)
    BY <1>1, <1>2
  <2>3. Runs(tasks, base, own, Spot(d[1], d[1] + k, Unknown),
             Spot(d[Len(tasks) + 1], d[Len(tasks) + 1] + k, Unknown))
    BY <1>3, <2>1, <2>2, Walk
  <2> QED BY <1>2, <1>3, <1>4, <2>3
<1> QED BY <1>5, <1>6

\* The place for the result is reserved, and the padding, which the count goes up by when
\* rsp goes down.
LEMMA OpenRun ==
    ASSUME language \in Languages, NEW a \in Int, a <= SavedR12, NEW k \in Int,
           NEW size \in Nat, size % 8 = 0, NEW adjust \in Int, adjust % 8 = 0,
           a - size <= SavedR12, NEW base, NEW own,
           NEW b, b = a - size - adjust, NEW e, e = k + 2 * adjust
    PROVE  /\ Runs(<<sub(size), align(adjust)>>, base, own,
                   Spot(a, a + k, Unknown), Spot(b, b + e, Unknown))
           /\ <<sub(size), align(adjust)>> \in Seq(Tasks)
<1> DEFINE c == a - size
           x == Line(sub(size), a, a + k, Unknown, 4)
           y == Line(align(adjust), c, c + k, Unknown, 4)
<1>1. /\ sub(size) \in Tasks /\ sub(size).do = "sub" /\ sub(size).n = size
      /\ align(adjust) \in Tasks /\ align(adjust).do = "align" /\ align(adjust).n = adjust
  <2>1. {sub(size), align(adjust)} \subseteq Silent(1)
    BY InstructionsAreWork
  <2>2. \A u \in Silent(1) : u \in Tasks
    BY DEF Silent, Work
  <2> QED BY <2>1, <2>2 DEF sub, align, Instr, Task
<1>2. c \in Int /\ c <= SavedR12
  OBVIOUS
<1>3. /\ x.instr = sub(size) /\ x.at = a /\ x.count = a + k /\ x.r12 = Unknown /\ x.place = 4
      /\ y.instr = align(adjust) /\ y.at = c /\ y.count = c + k /\ y.r12 = Unknown
      /\ y.place = 4
  BY DEF Line
<1>4. x \in Lines /\ y \in Lines
  BY <1>1, <1>2 DEF Lines, Line, Unknown
<1> HIDE DEF x, y
<1>5. LineOK(x) /\ LineOK(y) /\ ~Labelled(x.instr) /\ ~Labelled(y.instr)
  <2> HIDE DEF c
  <2> QED BY <1>1, <1>2, <1>3 DEF LineOK, Statements, GenCalls, Labelled
<1>6. Admits(Spot(a, a + k, Unknown), x) /\ Admits(Spot(c, c + k, Unknown), y)
  BY <1>3 DEF Admits, Spot
<1>7. Passes(x, Spot(c, c + k, Unknown))
  <2>1. Moved(x.instr) = -size /\ Counted(x.instr) = -size /\ Leaves(x.instr) = 0
    BY <1>1, <1>3 DEF Moved, Counted, Leaves
  <2> QED BY <1>3, <2>1 DEF Passes, Spot
<1>8. Passes(y, Spot(b, b + e, Unknown))
  <2>1. Moved(y.instr) = -adjust /\ Counted(y.instr) = adjust /\ Leaves(y.instr) = 0
    BY <1>1, <1>3 DEF Moved, Counted, Leaves
  <2>2. b = c - adjust - 0 /\ b + e = (c + k) + adjust - 0
    OBVIOUS
  <2> HIDE DEF c
  <2> QED BY <1>2, <1>3, <2>1, <2>2 DEF Passes, Spot
<1>9. /\ Runs(<<sub(size)>>, base, own, Spot(a, a + k, Unknown), Spot(c, c + k, Unknown))
      /\ <<sub(size)>> \in Seq(Tasks)
  BY <1>3, <1>4, <1>5, <1>6, <1>7, RunsLine
<1>10. /\ Runs(<<align(adjust)>>, base, own, Spot(c, c + k, Unknown), Spot(b, b + e, Unknown))
       /\ <<align(adjust)>> \in Seq(Tasks)
  BY <1>3, <1>4, <1>5, <1>6, <1>8, RunsLine
<1>11. <<sub(size)>> \o <<align(adjust)>> = <<sub(size), align(adjust)>>
  BY Pair, Zenon
<1>12. Runs(<<sub(size)>> \o <<align(adjust)>>, base, own,
            Spot(a, a + k, Unknown), Spot(b, b + e, Unknown))
  BY <1>9, <1>10, RunsCat
<1>13. <<sub(size), align(adjust)>> \in Seq(Tasks)
  BY <1>1
<1> QED BY <1>11, <1>12, <1>13, Zenon

\* r12 gets an address from rsp, and the function is called.
LEMMA CallRun ==
    ASSUME language \in Languages, NEW a \in Int, a <= SavedR12, NEW c \in Int,
           NEW n \in Int, NEW place \in Int, place % 8 = 0, NEW t \in Types, NEW id \in Nat,
           NEW reg, reg = a + n, NEW after, after = (IF t.size > 8 THEN Unknown ELSE reg),
           SixRegistersSuffice => reg = place, ArgumentsPadded => a % 16 = 0,
           NEW base, NEW own
    PROVE  /\ Runs(<<mov_r12_rsp(n), call(t, place, id)>>, base, own,
                   Spot(a, c, Unknown), Spot(a, c, after))
           /\ <<mov_r12_rsp(n), call(t, place, id)>> \in Seq(Tasks)
<1> DEFINE x == Line(mov_r12_rsp(n), a, c, Unknown, 4)
           y == Line(call(t, place, id), a, c, reg, 4)
<1>1. /\ mov_r12_rsp(n) \in Tasks /\ mov_r12_rsp(n).do = "mov_r12_rsp" /\ mov_r12_rsp(n).n = n
      /\ call(t, place, id) \in Tasks /\ call(t, place, id).do = "call"
      /\ call(t, place, id).n = place /\ call(t, place, id).type = t
  <2>1. id + 1 \in Nat /\ id + 1 > 0 /\ id \in 0..((id + 1) - 1)
    OBVIOUS
  <2>2. {mov_r12_rsp(n), call(t, place, id)} \subseteq Silent(id + 1)
    BY <2>1, InstructionsAreWork
  <2>3. \A u \in Silent(id + 1) : u \in Tasks
    BY DEF Silent, Work
  <2> QED BY <2>2, <2>3 DEF mov_r12_rsp, call, Instr, Task
<1>2. /\ x.instr = mov_r12_rsp(n) /\ x.at = a /\ x.count = c /\ x.r12 = Unknown /\ x.place = 4
      /\ y.instr = call(t, place, id) /\ y.at = a /\ y.count = c /\ y.r12 = reg /\ y.place = 4
  BY DEF Line
<1>3. x \in Lines /\ y \in Lines
  BY <1>1 DEF Lines, Line, Unknown
<1> HIDE DEF x, y
<1>4. LineOK(x) /\ LineOK(y) /\ ~Labelled(x.instr) /\ ~Labelled(y.instr)
  BY <1>1, <1>2 DEF LineOK, Statements, GenCalls, Labelled
<1>5. Admits(Spot(a, c, Unknown), x) /\ Admits(Spot(a, c, reg), y)
  BY <1>2 DEF Admits, Spot
<1>6. /\ Moved(x.instr) = 0 /\ Counted(x.instr) = 0 /\ Leaves(x.instr) = 0
      /\ Moved(y.instr) = 0 /\ Counted(y.instr) = 0 /\ Leaves(y.instr) = 0
  BY <1>1, <1>2 DEF Moved, Counted, Leaves
<1>7. R12After(x) = reg /\ R12After(y) = after
  BY <1>1, <1>2 DEF R12After
<1>8. Passes(x, Spot(a, c, reg)) /\ Passes(y, Spot(a, c, after))
  BY <1>2, <1>6, <1>7 DEF Passes, Spot
<1>9. /\ Runs(<<mov_r12_rsp(n)>>, base, own, Spot(a, c, Unknown), Spot(a, c, reg))
      /\ <<mov_r12_rsp(n)>> \in Seq(Tasks)
  BY <1>2, <1>3, <1>4, <1>5, <1>8, RunsLine
<1>10. /\ Runs(<<call(t, place, id)>>, base, own, Spot(a, c, reg), Spot(a, c, after))
       /\ <<call(t, place, id)>> \in Seq(Tasks)
  BY <1>2, <1>3, <1>4, <1>5, <1>8, RunsLine
<1>11. <<mov_r12_rsp(n)>> \o <<call(t, place, id)>> = <<mov_r12_rsp(n), call(t, place, id)>>
  BY Pair, Zenon
<1>12. Runs(<<mov_r12_rsp(n)>> \o <<call(t, place, id)>>, base, own,
            Spot(a, c, Unknown), Spot(a, c, after))
  BY <1>9, <1>10, RunsCat
<1>13. <<mov_r12_rsp(n), call(t, place, id)>> \in Seq(Tasks)
  BY <1>1
<1> QED BY <1>11, <1>12, <1>13, Zenon

\* A pop leaves r12 alone.
LEMMA CarryPop ==
    ASSUME NEW a \in Int, a <= SavedR12, NEW c \in Int, NEW reg \in Int, NEW base, NEW own
    PROVE  /\ Runs(<<pop>>, base, own, Spot(a, c, reg), Spot(a + 8, c + 8, reg))
           /\ Runs(<<pop>>, base, own, Spot(a, c, reg), Spot(a + 8, c + 8, Unknown))
           /\ <<pop>> \in Seq(Tasks) /\ pop \in Tasks
<1> DEFINE x == Line(pop, a, c, reg, 4)
<1>1. pop \in Tasks /\ pop.do = "pop" /\ pop.n = 8
  <2>1. pop \in Silent(1)
    BY InstructionsAreWork
  <2> QED BY <2>1 DEF Silent, Work, pop, Instr, Task
<1>2. /\ x.instr = pop /\ x.at = a /\ x.count = c /\ x.r12 = reg /\ x.place = 4
  BY DEF Line
<1>3. x \in Lines
  BY <1>1 DEF Lines, Line
<1> HIDE DEF x
<1>4. LineOK(x) /\ ~Labelled(x.instr) /\ Admits(Spot(a, c, reg), x)
  BY <1>1, <1>2 DEF LineOK, Statements, GenCalls, Labelled, Admits, Spot
<1>5. \A r \in {reg, Unknown} : Passes(x, Spot(a + 8, c + 8, r))
  <2>1. Moved(x.instr) = 8 /\ Counted(x.instr) = 8 /\ Leaves(x.instr) = 0 /\ R12After(x) = reg
    BY <1>1, <1>2 DEF Moved, Counted, Leaves, R12After
  <2> QED BY <1>2, <2>1 DEF Passes, Spot
<1> QED BY <1>1, <1>2, <1>3, <1>4, <1>5, RunsLine

LEMMA CarryPops ==
    ASSUME NEW size \in Nat, NEW a \in Int, NEW n, n = (size + 7) \div 8,
           NEW b, b = a + 8 * n, b <= 0, NEW k \in Int, NEW reg \in Int, NEW base, NEW own
    PROVE  /\ Runs(stack_pop(size), base, own, Spot(a, a + k, reg), Spot(b, b + k, reg))
           /\ stack_pop(size) \in Seq(Tasks)
<1> DEFINE tasks == [i \in 1..n |-> pop]
           B == [i \in 1..n |-> Line(pop, a + 8 * (i - 1), a + 8 * (i - 1) + k, reg, 4)]
           s == Spot(a, a + k, reg)
           t == Spot(b, b + k, reg)
<1>1. n \in Nat /\ b \in Int /\ stack_pop(size) = tasks
  BY DEF stack_pop
<1>2. pop \in Tasks /\ pop.do = "pop" /\ pop.n = 8
  <2>1. pop \in Silent(1)
    BY InstructionsAreWork
  <2> QED BY <2>1 DEF Silent, Work, pop, Instr, Task
<1>3. tasks \in Seq(Tasks) /\ Len(tasks) = n /\ \A i \in 1..n : tasks[i] = pop
  BY <1>1, <1>2
<1>4. B \in Seq(Lines) /\ Len(B) = n /\ DOMAIN B = 1..n
  <2>1. \A i \in 1..n : Line(pop, a + 8 * (i - 1), a + 8 * (i - 1) + k, reg, 4) \in Lines
    BY <1>1, <1>2 DEF Lines, Line
  <2>2. B \in [1..n -> Lines]
    BY <2>1
  <2> HIDE DEF B
  <2> QED BY <1>1, <2>2, FunctionIsSeq
<1>5. ASSUME NEW i \in 1..n
      PROVE  /\ B[i].instr = pop /\ B[i].at = a + 8 * (i - 1)
             /\ B[i].count = a + 8 * (i - 1) + k /\ B[i].r12 = reg /\ B[i].place = 4
             /\ B[i].at \in Int /\ B[i].at <= -8
  <2>1. B[i] = Line(pop, a + 8 * (i - 1), a + 8 * (i - 1) + k, reg, 4)
    OBVIOUS
  <2>2. a + 8 * (i - 1) \in Int /\ a + 8 * (i - 1) <= -8
    BY <1>1
  <2> HIDE DEF B
  <2> QED BY <2>1, <2>2 DEF Line
<1>6. /\ s.at = a /\ s.count = a + k /\ s.r12 = reg
      /\ t.at = b /\ t.count = b + k /\ t.r12 = reg
  BY DEF Spot
<1> HIDE DEF B, s, t, tasks
<1>7. ASSUME NEW i \in 1..n
      PROVE  LineOK(B[i]) /\ ~Labelled(tasks[i]) /\ B[i].instr = tasks[i]
  <2>1. /\ B[i].instr = tasks[i] /\ B[i].instr.do = "pop" /\ tasks[i].do = "pop"
        /\ B[i].place = 4 /\ B[i].at <= -8
    BY <1>2, <1>3, <1>5
  <2>2. LineOK(B[i])
    BY <2>1 DEF LineOK, Statements, GenCalls, SavedR12
  <2> QED BY <2>1, <2>2 DEF Labelled
<1>8. ASSUME NEW i \in 1..n, NEW x, x.at = a + 8 * i, x.count = a + 8 * i + k, x.r12 = reg
      PROVE  Passes(B[i], x)
  <2>1. /\ Moved(B[i].instr) = 8 /\ Counted(B[i].instr) = 8 /\ Leaves(B[i].instr) = 0
        /\ R12After(B[i]) = reg
    BY <1>2, <1>5 DEF Moved, Counted, Leaves, R12After
  <2>2. a + 8 * i = a + 8 * (i - 1) + 8 - 0 /\ a + 8 * i + k = a + 8 * (i - 1) + k + 8 - 0
    OBVIOUS
  <2> QED BY <1>5, <1>8, <2>1, <2>2 DEF Passes
<1>9. ASSUME NEW i \in DOMAIN B, i + 1 \in DOMAIN B
      PROVE  Passes(B[i], B[i + 1])
  <2>1. i \in 1..n /\ i + 1 \in 1..n /\ (i + 1) - 1 = i
    BY <1>1, <1>4, <1>9
  <2> QED BY <1>5, <1>8, <2>1
<1>10. IF B = <<>> THEN t.at = s.at /\ t.count = s.count /\ t.r12 \in {Unknown, s.r12}
       ELSE Admits(s, B[1]) /\ Passes(B[Len(B)], t)
  <2>1. CASE n = 0
    <3>1. B = <<>> /\ a = b
      BY <1>4, <2>1
    <3> QED BY <1>6, <3>1
  <2>2. CASE n # 0
    <3>1. 1 \in 1..n /\ n \in 1..n /\ B # <<>> /\ b = a + 8 * n
      BY <1>1, <1>4, <2>2
    <3>2. B[1].at = a /\ B[1].count = a + k
      BY <1>5, <3>1
    <3>3. Admits(s, B[1])
      BY <1>5, <1>6, <3>1, <3>2 DEF Admits
    <3>4. Passes(B[n], t)
      BY <1>6, <1>8, <3>1
    <3> QED BY <1>4, <3>1, <3>3, <3>4
  <2> QED BY <2>1, <2>2
<1>11. \A i \in DOMAIN B :
              /\ B[i].instr = tasks[i] /\ B[i].place = 4 /\ LineOK(B[i])
              /\ Labelled(tasks[i]) => B[i].at = base /\ tasks[i].label \in own
  BY <1>4, <1>5, <1>7
<1>12. Runs(tasks, base, own, s, t)
  BY <1>3, <1>4, <1>9, <1>10, <1>11 DEF Runs
<1> QED BY <1>1, <1>3, <1>12 DEF s, t

\* The padding is taken off, and the result is written to where it is expected.
LEMMA UnalignRun ==
    ASSUME NEW place \in Int, NEW adjust \in Int, adjust % 8 = 0, NEW a, a = place - adjust,
           a <= SavedR12, NEW k \in Int, NEW e, e = k + 2 * adjust, NEW reg \in Int,
           NEW base, NEW own, NEW r \in {reg, Unknown}
    PROVE  /\ Runs(<<unalign(adjust)>>, base, own, Spot(a, a + e, reg), Spot(place, place + k, r))
           /\ <<unalign(adjust)>> \in Seq(Tasks)
<1> DEFINE x == Line(unalign(adjust), a, a + e, reg, 4)
<1>1. unalign(adjust) \in Tasks /\ unalign(adjust).do = "unalign" /\ unalign(adjust).n = adjust
  <2>1. unalign(adjust) \in Silent(1)
    BY InstructionsAreWork
  <2> QED BY <2>1 DEF Silent, Work, unalign, Instr, Task
<1>2. /\ x.instr = unalign(adjust) /\ x.at = a /\ x.count = a + e /\ x.r12 = reg /\ x.place = 4
  BY DEF Line
<1>3. x \in Lines
  BY <1>1 DEF Lines, Line
<1> HIDE DEF x
<1>4. LineOK(x) /\ ~Labelled(x.instr) /\ Admits(Spot(a, a + e, reg), x)
  BY <1>1, <1>2 DEF LineOK, Statements, GenCalls, Labelled, Admits, Spot
<1>5. Passes(x, Spot(place, place + k, r))
  <2>1. /\ Moved(x.instr) = adjust /\ Counted(x.instr) = -adjust /\ Leaves(x.instr) = 0
        /\ R12After(x) = reg
    BY <1>1, <1>2 DEF Moved, Counted, Leaves, R12After
  <2>2. place = a + adjust - 0 /\ place + k = (a + e) + (-adjust) - 0
    OBVIOUS
  <2>3. /\ Spot(place, place + k, r).at = place /\ Spot(place, place + k, r).count = place + k
        /\ Spot(place, place + k, r).r12 \in {Unknown, reg}
    BY DEF Spot
  <2> QED BY <1>2, <2>1, <2>2, <2>3 DEF Passes
<1> QED BY <1>1, <1>2, <1>3, <1>4, <1>5, RunsLine

ResultFrame(place, k, reg, t, size, result, b) ==
    /\ place \in Int /\ place % 8 = 0 /\ place <= SavedR12
    /\ k \in Int /\ reg \in Int /\ (t.size <= 8 /\ SixRegistersSuffice => reg = place)
    /\ t \in {Scalar, Void} \cup StructTypes
    /\ size = (IF t.size < 8 THEN 8 ELSE t.size)
    /\ result = (IF t.size = 0 THEN <<pop>> ELSE IF size <= 8 THEN <<mov_to_r12(place)>> ELSE <<>>)
    /\ b = (place + size) - Pushed(t)

LEMMA ResultRun ==
    ASSUME language \in Languages, NEW place, NEW k, NEW reg, NEW t, NEW size, NEW result, NEW b,
           NEW base, NEW own, ResultFrame(place, k, reg, t, size, result, b)
    PROVE  \E r \in {reg, Unknown} :
              /\ Runs(result, base, own, Spot(place, place + k, r), Spot(b, b + k, Unknown))
              /\ result \in Seq(Tasks)
<1> USE DEF ResultFrame
<1>1. /\ t.size \in Nat
      /\ Pushed(t) = IF t.size = 0 THEN 0 ELSE IF t.size <= 8 THEN 8 ELSE t.size
  <2>1. t.size \in Nat
    BY SmallNumbers DEF Types
  <2>2. t.dataType # "ARRAY"
    BY PushedOf DEF Scalar, Void
  <2> QED BY <2>1, <2>2 DEF Pushed
<1>2. CASE t.size = 0
  <2>1. result = <<pop>> /\ b = place + 8 /\ b + k = (place + k) + 8
    BY <1>1, <1>2
  <2>2. place + k \in Int
    OBVIOUS
  <2>3. Runs(<<pop>>, base, own, Spot(place, place + k, reg), Spot(place + 8, (place + k) + 8, Unknown))
    BY <2>2, CarryPop
  <2>4. <<pop>> \in Seq(Tasks)
    BY <2>2, CarryPop
  <2> QED BY <2>1, <2>3, <2>4
<1>3. CASE t.size # 0 /\ size <= 8
  <2>1. result = <<mov_to_r12(place)>> /\ b = place
    BY <1>1, <1>3
  <2> DEFINE x == Line(mov_to_r12(place), place, place + k, reg, 4)
  <2>2. /\ mov_to_r12(place) \in Tasks /\ mov_to_r12(place).do = "mov_to_r12"
        /\ mov_to_r12(place).n = place
    <3>1. mov_to_r12(place) \in Silent(1)
      BY InstructionsAreWork
    <3> QED BY <3>1 DEF Silent, Work, mov_to_r12, Instr, Task
  <2>3. /\ x.instr = mov_to_r12(place) /\ x.at = place /\ x.count = place + k /\ x.r12 = reg
        /\ x.place = 4
    BY DEF Line
  <2>4. x \in Lines
    BY <2>2 DEF Lines, Line
  <2> HIDE DEF x
  <2>5. LineOK(x) /\ ~Labelled(x.instr) /\ Admits(Spot(place, place + k, reg), x)
    BY <1>1, <1>3, <2>2, <2>3 DEF LineOK, Statements, GenCalls, Labelled, Admits, Spot
  <2>6. Passes(x, Spot(place, place + k, Unknown))
    <3>1. Moved(x.instr) = 0 /\ Counted(x.instr) = 0 /\ Leaves(x.instr) = 0
      BY <2>2, <2>3 DEF Moved, Counted, Leaves
    <3> QED BY <2>3, <3>1 DEF Passes, Spot
  <2>7. /\ Runs(<<mov_to_r12(place)>>, base, own,
                Spot(place, place + k, reg), Spot(place, place + k, Unknown))
        /\ <<mov_to_r12(place)>> \in Seq(Tasks)
    BY <2>3, <2>4, <2>5, <2>6, RunsLine
  <2> QED BY <2>1, <2>7
<1>4. CASE t.size # 0 /\ ~(size <= 8)
  <2>1. result = <<>> /\ b = place
    BY <1>1, <1>4
  <2>2. Runs(<<>>, base, own, Spot(place, place + k, Unknown), Spot(place, place + k, Unknown))
    BY RunsNone
  <2>3. <<>> \in Seq(Tasks)
    OBVIOUS
  <2> QED BY <2>1, <2>2, <2>3
<1> QED BY <1>2, <1>3, <1>4

\* The numbers of a call: what is behind the padding and behind the arguments, and where
\* r12 is then set to.
CallFrame(height, count, size, adjust, memory, inRegs, n, spill, offset, place, a, b, c) ==
    /\ height \in Int /\ count \in Int /\ height % 8 = 0 /\ (count - height) % 16 = 0
    /\ height <= SavedR12 /\ size \in Nat /\ size % 8 = 0 /\ size >= 8
    /\ adjust = Rem16(count - size)
    /\ memory \in Nat /\ memory % 8 = 0 /\ inRegs \in 0..7
    /\ n = (IF inRegs <= 6 THEN inRegs ELSE 6)
    /\ spill = (IF inRegs <= 6 THEN 0 ELSE inRegs - 6)
    /\ offset = memory + spill /\ place = height - size /\ a = place - adjust
    /\ b = a - (memory + 8 * inRegs) /\ c = b + 8 * n

LEMMA CallNumbers ==
    ASSUME NEW height, NEW count, NEW size, NEW adjust, NEW memory, NEW inRegs, NEW n, NEW spill,
           NEW offset, NEW place, NEW a, NEW b, NEW c,
           CallFrame(height, count, size, adjust, memory, inRegs, n, spill, offset, place, a, b, c)
    PROVE  /\ adjust \in Int /\ adjust % 8 = 0 /\ place \in Int /\ place % 8 = 0
           /\ place <= SavedR12 /\ a \in Int /\ a <= SavedR12 /\ b \in Int
           /\ c \in Int /\ c <= SavedR12 /\ n \in Nat /\ offset \in Nat
           /\ a = c + 8 * ((offset + 7) \div 8)
           /\ spill = 0 => c + (offset + adjust) = place
           /\ (memory + 8 * spill) % 16 = 0 => c % 16 = 0
<1> USE DEF CallFrame
<1>1. count - size \in Int /\ (count - size) % 8 = 0
  <2>1. count % 8 = 0
    OBVIOUS
  <2> QED BY <2>1
<1>2. adjust \in {-8, 0, 8} /\ ((count - size) - adjust) % 16 = 0
  BY <1>1, RemainderOf
<1>3. /\ place \in Int /\ place % 8 = 0 /\ place <= -16 /\ a \in Int /\ a <= -8
      /\ b \in Int /\ c \in Int /\ n \in Nat /\ offset \in Nat /\ SavedR12 = -8
  BY <1>2 DEF SavedR12
<1>4. spill \in {0, 1} /\ inRegs = n + spill
  OBVIOUS
<1>5. c = a - (memory + 8 * spill) /\ c <= -8
  BY <1>3, <1>4
<1>6. 8 * ((offset + 7) \div 8) = memory + 8 * spill
  <2>1. CASE spill = 0
    BY <2>1
  <2>2. CASE spill = 1
    BY <2>2
  <2> QED BY <1>4, <2>1, <2>2
<1>7. a % 16 = 0
  <2>1. (height - count) % 16 = 0
    OBVIOUS
  <2>2. a = ((count - size) - adjust) + (height - count)
    BY <1>2
  <2>3. (count - size) - adjust \in Int /\ height - count \in Int
    BY <1>2
  <2>4. (((count - size) - adjust) + (height - count)) % 16 = 0
    BY <1>2, <2>1, <2>3, SumMultiple
  <2> QED BY <2>2, <2>4
<1>8. (memory + 8 * spill) % 16 = 0 => c % 16 = 0
  BY <1>4, <1>5, <1>7
<1>9. spill = 0 => c + (offset + adjust) = place
  BY <1>2, <1>5
<1>10. a = c + 8 * ((offset + 7) \div 8)
  BY <1>3, <1>5, <1>6
<1>11. adjust \in Int /\ adjust % 8 = 0
  <2>1. \A x \in {-8, 0, 8} : x \in Int /\ x % 8 = 0
    OBVIOUS
  <2> QED BY <1>2, <2>1
<1>12. place <= SavedR12 /\ a <= SavedR12 /\ c <= SavedR12
  <2> HIDE DEF SavedR12
  <2> QED BY <1>3, <1>5
<1> QED BY <1>3, <1>8, <1>9, <1>10, <1>11, <1>12

LEMMA CallListed ==
    ASSUME GenInv, LargeReturnsLast, Listed, Orderly,
           NEW args \in language.argLists, gen_FUNCCALL(args)
    PROVE  Listed'
<1> DEFINE size   == IF type.size < 8 THEN 8 ELSE type.size
           inRegs == Cardinality(InRegisters(args))
           spill  == IF inRegs <= 6 THEN 0 ELSE inRegs - 6
           n      == IF inRegs <= 6 THEN inRegs ELSE 6
           memory == SumSizes(InMemory(args), args)
           offset == memory + spill
           adjust == adjustAligment(size)
           place  == Height - size
           order  == Linked(InMemory(args), args) \o Linked(InRegisters(args), args)
           opening == <<sub(size), align(adjust)>>
           pieces == [i \in DOMAIN order |->
                         LET p == order[i] IN <<Expr(args[p]), argument(args[p], labelIndex, p)>>]
           loading == [k \in 1..n |-> pop_register(k)]
           calling == <<mov_r12_rsp(offset + adjust), call(type, place, labelIndex)>>
           closing == <<unalign(adjust)>>
           result == IF type.size = 0 THEN <<pop>>
                     ELSE IF size <= 8 THEN <<mov_to_r12(place)>> ELSE <<>>
           tasks  == opening \o FlattenSeq(pieces) \o loading \o calling
                     \o stack_pop(offset) \o closing \o result
           total  == memory + 8 * inRegs
           a == place - adjust
           b == a - total
           c == b + 8 * n
           reg == c + (offset + adjust)
           after == IF type.size > 8 THEN Unknown ELSE reg
           k == Excess
           e == k + 2 * adjust
<1>1. /\ agenda # <<>> /\ Head(agenda).do = "expr" /\ type \in {Scalar, Void} \cup StructTypes
      /\ Stop("abort") \/ (~TooMany(args) /\ (Leaf(tasks) \/ Node(tasks)))
  BY DEF gen_FUNCCALL, Calling
<1>2. CASE Stop("abort")
  BY <1>2, StopListed DEF Stop
<1>3. CASE ~TooMany(args) /\ (Leaf(tasks) \/ Node(tasks))
  <2> HIDE DEF tasks
  <2>1. Ready /\ Continues(tasks) /\ Head(agenda).do \notin Enders
    BY <1>1, <1>3, LeafContinues DEF Ready, AtGen, GenCalls, Enders
  <2>2. /\ Height \in Int /\ alignmentCount \in Int /\ Height <= SavedR12
        /\ Height % 8 = 0 /\ (alignmentCount - Height) % 16 = 0 /\ language \in Languages
    BY <2>1, HereCalled DEF Ready, AtGen
  <2>3. k \in Int /\ SpotAt(Height) = Spot(Height, Height + k, Unknown)
    BY <2>2 DEF Excess, SpotAt
  <2>4. /\ type \in Types /\ size \in Nat /\ size % 8 = 0 /\ size >= 8
    <3>1. type.size \in Nat /\ type \in Types
      BY <1>1, <2>2, TypesOfLanguage
    <3>2. type.size >= 8 => type.size % 8 = 0
      BY <1>1, <2>2, TypesOfLanguage
    <3> QED BY <3>1, <3>2
  <2>5. args \in Seq(Types) /\ inRegs \in 0..7 /\ memory \in Nat /\ memory % 8 = 0
    <3>1. args \in Seq(Types)
      BY <2>2, ListsOfLanguage
    <3>2. inRegs \in 0..7
      BY <1>3, <3>1, SevenAtMost
    <3> QED BY <2>2, <3>1, <3>2, MemoryEven
  <2>6. labelIndex \in Nat
    BY DEF GenInv, Situation
  <2>7. adjust = Rem16(alignmentCount - size)
    BY DEF adjustAligment
  <2>8. /\ order \in Seq(DOMAIN args)
        /\ \E st : Sums(order, [p \in DOMAIN args |-> Pushed(args[p])], st, total)
    BY <1>3, <2>2, ArgumentSums
  <2>9. spill = Spilled(args)
    BY DEF Spilled
  <2> HIDE DEF size, inRegs, memory, adjust, order, k
  <2>10. /\ adjust \in Int /\ adjust % 8 = 0 /\ place \in Int /\ place % 8 = 0
         /\ place <= SavedR12 /\ a \in Int /\ a <= SavedR12 /\ b \in Int
         /\ c \in Int /\ c <= SavedR12 /\ n \in Nat /\ offset \in Nat
         /\ a = c + 8 * ((offset + 7) \div 8)
         /\ spill = 0 => c + (offset + adjust) = place
         /\ (memory + 8 * spill) % 16 = 0 => c % 16 = 0
    <3> HIDE DEF spill, n, offset, place, a, b, c
    <3>1. /\ n = (IF inRegs <= 6 THEN inRegs ELSE 6)
          /\ spill = (IF inRegs <= 6 THEN 0 ELSE inRegs - 6)
          /\ offset = memory + spill /\ place = Height - size /\ a = place - adjust
          /\ b = a - (memory + 8 * inRegs) /\ c = b + 8 * n
      BY DEF spill, n, offset, place, a, b, c
    <3>2. CallFrame(Height, alignmentCount, size, adjust, memory, inRegs, n, spill, offset,
                    place, a, b, c)
      BY <2>2, <2>4, <2>5, <2>7, <3>1, Zenon DEF CallFrame
    <3> QED BY <3>2, CallNumbers
  <2>11. SixRegistersSuffice => reg = place
    <3>1. SixRegistersSuffice => spill = 0
      BY <1>3, <2>2, <2>9, Zenon DEF SixRegistersSuffice
    <3> QED BY <2>10, <3>1
  <2>12. ArgumentsPadded => c % 16 = 0
    <3>1. ArgumentsPadded => (memory + 8 * spill) % 16 = 0
      BY <1>3, <2>2, <2>9, Zenon DEF ArgumentsPadded, memory
    <3> QED BY <2>10, <3>1
  <2>13. reg \in Int /\ e \in Int /\ after \in Int
    <3> HIDE DEF spill, n, offset, place, a, b, c, total
    <3>1. c \in Int /\ offset \in Nat /\ adjust \in Int
      BY <2>10, Zenon
    <3> QED BY <2>3, <3>1 DEF Unknown
  <2>after. after = (IF type.size > 8 THEN Unknown ELSE reg)
    OBVIOUS
  <2>facts. /\ a = Height - size - adjust /\ e = k + 2 * adjust /\ b = a - total
            /\ c = b + 8 * n /\ reg = c + (offset + adjust) /\ a = place - adjust
            /\ place + size = Height /\ b + e \in Int /\ c + e \in Int /\ c <= 0 /\ a <= 0
            /\ Height - size <= SavedR12
    BY <2>2, <2>3, <2>4, <2>10 DEF SavedR12
  <2> HIDE DEF spill, n, offset, place, a, b, c, e, reg, after, total
  <2>14. /\ Runs(opening, Height, {}, SpotAt(Height), Spot(a, a + e, Unknown))
         /\ opening \in Seq(Tasks)
    BY <2>2, <2>3, <2>4, <2>10, <2>facts, OpenRun
  <2>15. /\ Runs(FlattenSeq(pieces), Height, {}, Spot(a, a + e, Unknown), Spot(b, b + e, Unknown))
         /\ FlattenSeq(pieces) \in Seq(Tasks)
    <3> DEFINE w == [p \in DOMAIN args |-> Pushed(args[p])]
               list == pieces
    <3>1. PICK st : Sums(order, w, st, total)
      BY <2>8
    <3>2. w = [p \in DOMAIN args |-> Pushed(args[p])]
          /\ list = [i \in DOMAIN order |->
                       LET p == order[i] IN <<Expr(args[p]), argument(args[p], labelIndex, p)>>]
      OBVIOUS
    <3> HIDE DEF w, list
    <3>3. /\ Runs(FlattenSeq(list), Height, {}, Spot(a, a + e, Unknown), Spot(b, b + e, Unknown))
          /\ FlattenSeq(list) \in Seq(Tasks)
      <4>1. ArgumentFrame(args, order, w, st, total, a, e, labelIndex, list, b)
        BY <2>5, <2>6, <2>8, <2>10, <2>13, <2>facts, <3>1, <3>2, Zenon DEF ArgumentFrame
      <4> QED BY <2>2, <4>1, ArgumentsRun, Zenon
    <3> QED BY <3>3 DEF list
  <2>16. /\ Runs(loading, Height, {}, Spot(b, b + e, Unknown), Spot(c, c + e, Unknown))
         /\ loading \in Seq(Tasks)
    <3>1. loading = [i \in 1..n |-> pop_register(i)]
      OBVIOUS
    <3> HIDE DEF loading
    <3> QED BY <2>2, <2>10, <2>13, <2>facts, <3>1, RegistersRun
  <2>17. /\ Runs(calling, Height, {}, Spot(c, c + e, Unknown), Spot(c, c + e, after))
         /\ calling \in Seq(Tasks)
    <3>1. offset + adjust \in Int
      BY <2>10
    <3>2. /\ language \in Languages /\ type \in Types /\ labelIndex \in Nat
          /\ place \in Int /\ place % 8 = 0 /\ c \in Int /\ c <= SavedR12 /\ c + e \in Int
          /\ reg = c + (offset + adjust)
      BY <2>2, <2>4, <2>6, <2>10, <2>facts
    <3> QED BY <2>11, <2>12, <2>after, <3>1, <3>2, CallRun
  <2>18. /\ Runs(stack_pop(offset), Height, {}, Spot(c, c + e, after), Spot(a, a + e, after))
         /\ stack_pop(offset) \in Seq(Tasks)
    BY <2>10, <2>13, <2>facts, CarryPops
  <2> DEFINE t == Height - Pushed(type)
  <2>19. \E r \in {after, Unknown} :
            /\ Runs(result, Height, {}, Spot(place, place + k, r), Spot(t, t + k, Unknown))
            /\ result \in Seq(Tasks)
    <3>1. /\ size = (IF type.size < 8 THEN 8 ELSE type.size)
          /\ t = (place + size) - Pushed(type)
          /\ result = (IF type.size = 0 THEN <<pop>>
                       ELSE IF size <= 8 THEN <<mov_to_r12(place)>> ELSE <<>>)
      BY <2>facts DEF size
    <3>2. type.size <= 8 /\ SixRegistersSuffice => after = place
      <4>1. type.size \in Nat
        BY <2>2, <2>4, TypesOfLanguage
      <4> QED BY <2>11, <2>after, <4>1
    <3> HIDE DEF result, t
    <3>3. ResultFrame(place, k, after, type, size, result, t)
      BY <1>1, <2>3, <2>10, <2>13, <3>1, <3>2, Zenon DEF ResultFrame
    <3> QED BY <2>2, <3>3, ResultRun, Zenon
  <2>20. PICK r \in {after, Unknown} :
            /\ Runs(result, Height, {}, Spot(place, place + k, r), Spot(t, t + k, Unknown))
            /\ result \in Seq(Tasks)
    BY <2>19
  <2>21. /\ Runs(closing, Height, {}, Spot(a, a + e, after), Spot(place, place + k, r))
         /\ closing \in Seq(Tasks)
    BY <2>3, <2>10, <2>13, <2>facts, UnalignRun, ZenonT(30)
  <2>22. Spot(t, t + k, Unknown) = SpotAt(Height - Leaves(Head(agenda)))
    BY <1>1, LeavesOfCalls DEF SpotAt, k
  <2> DEFINE flat == FlattenSeq(pieces)
             pops == stack_pop(offset)
  <2> HIDE DEF opening, loading, calling, closing, result, pieces, flat, pops, t
  <2>23. tasks = opening \o flat \o loading \o calling \o pops \o closing \o result
    BY DEF tasks, flat, pops
  <2> DEFINE two == opening \o flat
  <2>flat. Runs(flat, Height, {}, Spot(a, a + e, Unknown), Spot(b, b + e, Unknown)) /\ flat \in Seq(Tasks)
    BY <2>15 DEF flat
  <2>24. Runs(two, Height, {}, SpotAt(Height), Spot(b, b + e, Unknown)) /\ two \in Seq(Tasks)
    BY <2>14, <2>flat, RunsCat
  <2> HIDE DEF two
  <2> DEFINE three == two \o loading
  <2>25. Runs(three, Height, {}, SpotAt(Height), Spot(c, c + e, Unknown)) /\ three \in Seq(Tasks)
    BY <2>16, <2>24, RunsCat
  <2> HIDE DEF three
  <2> DEFINE four == three \o calling
  <2>26. Runs(four, Height, {}, SpotAt(Height), Spot(c, c + e, after)) /\ four \in Seq(Tasks)
    BY <2>17, <2>25, RunsCat
  <2> HIDE DEF four
  <2> DEFINE five == four \o pops
  <2>pops. Runs(pops, Height, {}, Spot(c, c + e, after), Spot(a, a + e, after)) /\ pops \in Seq(Tasks)
    BY <2>18 DEF pops
  <2>27. Runs(five, Height, {}, SpotAt(Height), Spot(a, a + e, after)) /\ five \in Seq(Tasks)
    BY <2>pops, <2>26, RunsCat
  <2> HIDE DEF five
  <2> DEFINE six == five \o closing
  <2>28. Runs(six, Height, {}, SpotAt(Height), Spot(place, place + k, r)) /\ six \in Seq(Tasks)
    BY <2>21, <2>27, RunsCat
  <2> HIDE DEF six
  <2> DEFINE all == six \o result
  <2>29. Runs(all, Height, {}, SpotAt(Height), Spot(t, t + k, Unknown)) /\ all \in Seq(Tasks)
    BY <2>20, <2>28, RunsCat
  <2> HIDE DEF all
  <2>30. tasks = all
    BY <2>23 DEF two, three, four, five, six, all
  <2>31. /\ Runs(tasks, Height, {}, SpotAt(Height), SpotAt(Height - Leaves(Head(agenda))))
         /\ tasks \in Seq(Tasks)
    BY <2>22, <2>29, <2>30
  <2> QED BY <2>1, <2>31, RunFresh
<1> QED BY <1>1, <1>2, <1>3

-----------------------------------------------------------------------------
(* A function starts. *)

\* What precedes the first statement leaves rsp below the saved r12.
FrameSpot == Spot(-8, -8 + local_variable_stack, Unknown)

FrameSpotAt(a) == Spot(a, a + local_variable_stack, Unknown)
FrameSteps(tasks, d) ==
    /\ tasks # <<>>
    /\ tasks \in Seq(Tasks)
    /\ \A i \in 1..Len(tasks) : Fits(tasks[i], d[i], d[i + 1], local_variable_stack, -8, {})

LEMMA FrameWalk ==
    ASSUME language \in Languages, NEW tasks, NEW d, NEW m, m = Len(tasks) + 1,
           FrameSteps(tasks, d)
    PROVE  Runs(tasks, -8, {}, FrameSpotAt(d[1]), FrameSpotAt(d[m]))
<1> DEFINE k == local_variable_stack
<1>1. k \in Int /\ Unknown \in Int /\ -8 \in Int
  BY DEF local_variable_stack, Unknown
<1>2. /\ tasks # <<>> /\ tasks \in Seq(Tasks)
      /\ \A i \in 1..Len(tasks) : Fits(tasks[i], d[i], d[i + 1], k, -8, {})
  BY DEF FrameSteps
<1>3. FrameSpotAt(d[1]) = Spot(d[1], d[1] + k, Unknown) /\ FrameSpotAt(d[m]) = Spot(d[m], d[m] + k, Unknown)
  BY DEF FrameSpotAt
<1> HIDE DEF k
<1> QED BY <1>1, <1>2, <1>3, Walk

LEMMA FrameJoin ==
    ASSUME NEW r, NEW t, NEW p, NEW q, NEW u,
           Runs(r, -8, {}, p, q), r \in Seq(Tasks), Runs(t, -8, {}, q, u), t \in Seq(Tasks)
    PROVE  Runs(r \o t, -8, {}, p, u) /\ r \o t \in Seq(Tasks)
BY RunsCat

LEMMA ParameterRun ==
    ASSUME language \in Languages, NEW t \in Types
    PROVE  /\ Runs(Parameter(t), -8, {}, FrameSpot, FrameSpot)
           /\ Parameter(t) \in Seq(Tasks)
<1> DEFINE k == local_variable_stack
<1>1. k \in Int /\ SavedR12 = -8 /\ FrameSpot = FrameSpotAt(-8)
  BY DEF local_variable_stack, SavedR12, FrameSpot, FrameSpotAt
<1> HIDE DEF k
<1>2. ASSUME NEW a \in Int, a <= -8
      PROVE  /\ Fits(push, a, a - 8, k, -8, {}) /\ Fits(pop, a, a + 8, k, -8, {})
             /\ \A n \in Int : n % 8 = 0 => Fits(sub(n), a, a - n, k, -8, {})
  BY <1>1, <1>2, FitsMoves
<1>4. CASE t.dataType # "STRUCT"
  <2> DEFINE tasks == <<push, pop>>
             d == <<-8, -16, -8>>
  <2>1. Fits(push, -8, -16, k, -8, {}) /\ Fits(pop, -16, -8, k, -8, {})
    <3>1. Fits(push, -8, -8 - 8, k, -8, {}) /\ Fits(pop, -16, -16 + 8, k, -8, {})
      BY <1>2
    <3> QED BY <3>1
  <2>2. tasks \in Seq(Tasks) /\ Len(tasks) = 2 /\ tasks # <<>>
    BY <2>1 DEF Fits
  <2>3. \A i \in 1..2 : Fits(tasks[i], d[i], d[i + 1], k, -8, {})
    BY <2>1
  <2>4. d[1] = -8 /\ d[3] = -8 /\ Parameter(t) = tasks
    BY <1>4 DEF Parameter
  <2> HIDE DEF tasks, d
  <2>5. Runs(tasks, -8, {}, FrameSpotAt(d[1]), FrameSpotAt(d[3]))
    <3>1. FrameSteps(tasks, d) /\ 3 = Len(tasks) + 1
      BY <2>2, <2>3 DEF FrameSteps, k
    <3> QED BY <3>1, FrameWalk, Zenon
  <2> QED BY <1>1, <2>2, <2>4, <2>5
<1>5. CASE t.dataType = "STRUCT" /\ t.size <= 8
  <2> DEFINE up == <<pop>>
             down == <<push>>
             again == <<push, pop>>
             back == <<pop, push>>
             d == <<-8, -16>>
             e == <<-16, -24, -16>>
             f == <<-16, -8, -16>>
             g == <<-16, -8>>
  <2>1. t.size = 8
    <3>1. t \in StructTypes
      BY <1>5 DEF Types, ArrayTypes, Array, Scalar, Void
    <3>2. t.size \in Nat /\ t.size > 0 /\ t.size % 8 = 0
      BY <3>1, PushedOf
    <3> QED BY <1>5, <3>2
  <2>2. /\ Fits(push, -8, -16, k, -8, {}) /\ Fits(pop, -16, -8, k, -8, {})
        /\ Fits(push, -16, -24, k, -8, {}) /\ Fits(pop, -24, -16, k, -8, {})
    <3>1. /\ Fits(push, -8, -8 - 8, k, -8, {}) /\ Fits(pop, -16, -16 + 8, k, -8, {})
          /\ Fits(push, -16, -16 - 8, k, -8, {}) /\ Fits(pop, -24, -24 + 8, k, -8, {})
      BY <1>2
    <3> QED BY <3>1
  <2>3. FrameSteps(down, d) /\ FrameSteps(again, e) /\ FrameSteps(back, f) /\ FrameSteps(up, g)
    <3>1. push \in Tasks /\ pop \in Tasks
      BY <2>2 DEF Fits
    <3>2. FrameSteps(down, d)
      BY <2>2, <3>1 DEF FrameSteps, k
    <3>3. FrameSteps(again, e)
      BY <2>2, <3>1 DEF FrameSteps, k
    <3>4. FrameSteps(back, f)
      BY <2>2, <3>1 DEF FrameSteps, k
    <3>5. FrameSteps(up, g)
      BY <2>2, <3>1 DEF FrameSteps, k
    <3> QED BY <3>2, <3>3, <3>4, <3>5
  <2>4. /\ 2 = Len(down) + 1 /\ 3 = Len(again) + 1 /\ 3 = Len(back) + 1 /\ 2 = Len(up) + 1
        /\ d[1] = -8 /\ d[2] = -16 /\ e[1] = -16 /\ e[3] = -16
        /\ f[1] = -16 /\ f[3] = -16 /\ g[1] = -16 /\ g[2] = -8
    OBVIOUS
  <2>5. Parameter(t) = down \o again \o back \o up
    <3>1. /\ pushVarToStack(8) = <<push>> /\ popVarFromStack(8) = <<pop, push>>
          /\ stack_pop(8) = <<pop>>
      <4>1. (8 + 7) \div 8 = 1
        OBVIOUS
      <4> QED BY <4>1 DEF pushVarToStack, popVarFromStack, stack_pop
    <3> QED BY <1>5, <2>1, <3>1 DEF Parameter
  <2>6. /\ down \in Seq(Tasks) /\ again \in Seq(Tasks) /\ back \in Seq(Tasks) /\ up \in Seq(Tasks)
    BY <2>3 DEF FrameSteps
  <2> HIDE DEF up, down, again, back, d, e, f, g
  <2>7. Runs(down, -8, {}, FrameSpotAt(d[1]), FrameSpotAt(d[2]))
    BY <2>3, <2>4, FrameWalk, Zenon
  <2>8. Runs(again, -8, {}, FrameSpotAt(e[1]), FrameSpotAt(e[3]))
    BY <2>3, <2>4, FrameWalk, Zenon
  <2>9. Runs(back, -8, {}, FrameSpotAt(f[1]), FrameSpotAt(f[3]))
    BY <2>3, <2>4, FrameWalk, Zenon
  <2>10. Runs(up, -8, {}, FrameSpotAt(g[1]), FrameSpotAt(g[2]))
    BY <2>3, <2>4, FrameWalk, Zenon
  <2>11. /\ Runs(down, -8, {}, FrameSpotAt(-8), FrameSpotAt(-16))
         /\ Runs(again, -8, {}, FrameSpotAt(-16), FrameSpotAt(-16))
         /\ Runs(back, -8, {}, FrameSpotAt(-16), FrameSpotAt(-16))
         /\ Runs(up, -8, {}, FrameSpotAt(-16), FrameSpotAt(-8))
    BY <2>4, <2>7, <2>8, <2>9, <2>10
  <2>12. /\ Runs(down \o again, -8, {}, FrameSpotAt(-8), FrameSpotAt(-16))
         /\ down \o again \in Seq(Tasks)
    BY <2>6, <2>11, FrameJoin, Zenon
  <2>13. /\ Runs(down \o again \o back, -8, {}, FrameSpotAt(-8), FrameSpotAt(-16))
         /\ down \o again \o back \in Seq(Tasks)
    BY <2>6, <2>11, <2>12, FrameJoin, Zenon
  <2>14. /\ Runs(down \o again \o back \o up, -8, {}, FrameSpotAt(-8), FrameSpotAt(-8))
         /\ down \o again \o back \o up \in Seq(Tasks)
    <3> DEFINE r == down \o again \o back
               q == FrameSpotAt(-16)
               u == FrameSpotAt(-8)
    <3>1. /\ Runs(r, -8, {}, u, q) /\ r \in Seq(Tasks)
          /\ Runs(up, -8, {}, q, u) /\ up \in Seq(Tasks)
      BY <2>6, <2>11, <2>13
    <3> HIDE DEF r, q, u
    <3>2. Runs(r \o up, -8, {}, u, u) /\ r \o up \in Seq(Tasks)
      BY <3>1, FrameJoin, Zenon
    <3> QED BY <3>2 DEF r, u
  <2> QED BY <1>1, <2>5, <2>14
<1>6. CASE t.dataType = "STRUCT" /\ ~(t.size <= 8)
  <2> DEFINE n == t.size
             a == -8 - n
             space == <<sub(n)>>
             again == <<push, pop>>
             d == <<-8, a>>
             e == <<a, a - 8, a>>
  <2>1. n \in Nat /\ n % 8 = 0
    <3>1. t \in StructTypes
      BY <1>6 DEF Types, ArrayTypes, Array, Scalar, Void
    <3> QED BY <3>1, PushedOf
  <2>2. a \in Int /\ a <= -8 /\ a - 8 \in Int /\ a - 8 <= -8
    BY <2>1
  <2>3. -8 = a + 8 * ((n + 7) \div 8)
    <3>1. a = -8 - n
      OBVIOUS
    <3> HIDE DEF n, a
    <3>2. 8 * ((n + 7) \div 8) = n
      BY <2>1
    <3> QED BY <2>1, <3>1, <3>2
  <2>4. Fits(sub(n), -8, a, k, -8, {})
    BY <1>2, <2>1
  <2> HIDE DEF n
  <2>5. Fits(push, a, a - 8, k, -8, {})
    <3> HIDE DEF a
    <3> QED BY <1>2, <2>2
  <2>6. Fits(pop, a - 8, a, k, -8, {})
    <3>1. Fits(pop, a - 8, (a - 8) + 8, k, -8, {})
      <4> HIDE DEF a
      <4> QED BY <1>2, <2>2
    <3>2. (a - 8) + 8 = a
      BY <2>2
    <3> QED BY <3>1, <3>2
  <2> HIDE DEF a
  <2>7. FrameSteps(space, d) /\ FrameSteps(again, e)
    <3>1. sub(n) \in Tasks /\ push \in Tasks /\ pop \in Tasks
      BY <2>4, <2>5, <2>6 DEF Fits
    <3>2. FrameSteps(space, d)
      BY <2>4, <3>1 DEF FrameSteps, k
    <3>3. FrameSteps(again, e)
      BY <2>5, <2>6, <3>1 DEF FrameSteps, k
    <3> QED BY <3>2, <3>3
  <2>8. /\ 2 = Len(space) + 1 /\ 3 = Len(again) + 1
        /\ d[1] = -8 /\ d[2] = a /\ e[1] = a /\ e[3] = a
    OBVIOUS
  <2>9. Parameter(t) = space \o again \o <<>> \o stack_pop(n)
    <3>1. pushVarToStack(n) = <<sub(n)>> /\ popVarFromStack(n) = <<>>
      BY <1>6 DEF pushVarToStack, popVarFromStack, n
    <3> QED BY <1>6, <3>1 DEF Parameter, n
  <2>10. space \in Seq(Tasks) /\ again \in Seq(Tasks) /\ <<>> \in Seq(Tasks)
    BY <2>7 DEF FrameSteps
  <2> HIDE DEF space, again, d, e
  <2>11. /\ Runs(space \o again \o <<>>, -8, {}, FrameSpotAt(-8), FrameSpotAt(a))
         /\ space \o again \o <<>> \in Seq(Tasks)
    <3>1. Runs(space, -8, {}, FrameSpotAt(d[1]), FrameSpotAt(d[2]))
      BY <2>7, <2>8, FrameWalk, Zenon
    <3>2. Runs(again, -8, {}, FrameSpotAt(e[1]), FrameSpotAt(e[3]))
      BY <2>7, <2>8, FrameWalk, Zenon
    <3>3. /\ Runs(space, -8, {}, FrameSpotAt(-8), FrameSpotAt(a))
          /\ Runs(again, -8, {}, FrameSpotAt(a), FrameSpotAt(a))
      BY <2>8, <3>1, <3>2
    <3>4. Runs(<<>>, -8, {}, FrameSpotAt(a), FrameSpotAt(a))
      BY RunsNone
    <3>5. /\ Runs(space \o again, -8, {}, FrameSpotAt(-8), FrameSpotAt(a))
          /\ space \o again \in Seq(Tasks)
      BY <2>10, <3>3, FrameJoin, Zenon
    <3> QED BY <2>10, <3>4, <3>5, FrameJoin, Zenon
  <2>12. Runs(stack_pop(n), -8, {}, FrameSpotAt(a), FrameSpotAt(-8)) /\ stack_pop(n) \in Seq(Tasks)
    <3>1. Unknown \in Int /\ -8 <= 0
      BY DEF Unknown
    <3> DEFINE b == -8
               q == (n + 7) \div 8
    <3>2. b = a + 8 * q /\ b <= 0 /\ q = (n + 7) \div 8
      BY <2>3
    <3> HIDE DEF b, q
    <3>3. /\ Runs(stack_pop(n), -8, {}, Spot(a, a + k, Unknown), Spot(b, b + k, Unknown))
          /\ stack_pop(n) \in Seq(Tasks)
      BY <1>1, <2>1, <2>2, <3>1, <3>2, CarryPops
    <3> QED BY <3>3 DEF FrameSpotAt, b, k
  <2>13. /\ Runs(space \o again \o <<>> \o stack_pop(n), -8, {}, FrameSpotAt(-8), FrameSpotAt(-8))
         /\ space \o again \o <<>> \o stack_pop(n) \in Seq(Tasks)
    BY <2>11, <2>12, FrameJoin, Zenon
  <2> QED BY <1>1, <2>9, <2>13
<1> QED BY <1>4, <1>5, <1>6

LEMMA ParametersRun ==
    ASSUME language \in Languages, NEW params \in Seq(Types)
    PROVE  LET moves == FlattenSeq([p \in DOMAIN params |-> Parameter(params[p])])
           IN  Runs(moves, -8, {}, FrameSpot, FrameSpot) /\ moves \in Seq(Tasks)
<1> DEFINE n == Len(params)
           seqs == [p \in DOMAIN params |-> Parameter(params[p])]
<1>1. n \in Nat /\ DOMAIN params = 1..n /\ \A p \in 1..n : params[p] \in Types
  OBVIOUS
<1>2. \A p \in 1..n : /\ Runs(Parameter(params[p]), -8, {}, FrameSpot, FrameSpot)
                      /\ Parameter(params[p]) \in Seq(Tasks)
  BY <1>1, ParameterRun
<1>3. seqs = [p \in 1..n |-> Parameter(params[p])]
  BY <1>1
<1>4. \A p \in 1..n : seqs[p] = Parameter(params[p])
  BY <1>3
<1>5. seqs \in [1..n -> Seq(Tasks)]
  BY <1>2, <1>3
<1> HIDE DEF n, seqs
<1>6. seqs \in Seq(Seq(Tasks)) /\ Len(seqs) = n
  BY <1>1, <1>5, FunctionIsSeq
<1>7. \A i \in 1..Len(seqs) : Runs(seqs[i], -8, {}, FrameSpot, FrameSpot)
  BY <1>2, <1>4, <1>6
<1>8. Runs(FlattenSeq(seqs), -8, {}, FrameSpot, FrameSpot) /\ FlattenSeq(seqs) \in Seq(Tasks)
  BY <1>6, <1>7, FlattenEven
<1> QED BY <1>8 DEF seqs

LEMMA StatementsRun ==
    ASSUME language \in Languages, NEW k \in Nat,
           NEW last \in {<<Return>>, <<OtherStmt, ReturnNothing>>}
    PROVE  LET body == [i \in 1..k |-> Stmt]
           IN  /\ Runs(body, -8, {}, FrameSpot, FrameSpot) /\ body \in Seq(Tasks)
               /\ Runs(last, -8, {}, FrameSpot, FrameSpot) /\ last \in Seq(Tasks)
               /\ last # <<>> /\ last[Len(last)].do \in Enders
<1> DEFINE body == [i \in 1..k |-> Stmt]
           m == local_variable_stack
<1>1. m \in Int /\ -8 \in Int /\ SavedR12 = -8 /\ -8 <= SavedR12 /\ FrameSpot = FrameSpotAt(-8)
  BY DEF local_variable_stack, SavedR12, FrameSpot, FrameSpotAt
<1>2. m = local_variable_stack
  OBVIOUS
<1> HIDE DEF m
<1>3. \A t \in {Stmt, OtherStmt, Return, ReturnNothing, Case(NoLabel)} : Fits(t, -8, -8, m, -8, {})
  BY <1>1, <1>2, FitsCalls, Zenon
<1>4. /\ Fits(Stmt, -8, -8, m, -8, {}) /\ Fits(OtherStmt, -8, -8, m, -8, {})
      /\ Fits(Return, -8, -8, m, -8, {}) /\ Fits(ReturnNothing, -8, -8, m, -8, {})
  BY <1>3
<1>5. Stmt \in Tasks /\ OtherStmt \in Tasks /\ Return \in Tasks /\ ReturnNothing \in Tasks
  BY <1>4 DEF Fits
<1>6. Runs(body, -8, {}, FrameSpot, FrameSpot) /\ body \in Seq(Tasks)
  <2> DEFINE d == [i \in 1..(k + 1) |-> -8]
  <2>1. body \in Seq(Tasks) /\ Len(body) = k /\ \A i \in 1..k : body[i] = Stmt
    BY <1>5
  <2>2. \A j \in 1..(k + 1) : d[j] = -8
    OBVIOUS
  <2> HIDE DEF body, d
  <2>3. CASE k = 0
    <3>1. body = <<>>
      BY <2>1, <2>3
    <3> QED BY <2>1, <3>1, RunsNone
  <2>4. CASE k # 0
    <3>1. \A j \in 1..k : j \in 1..(k + 1) /\ j + 1 \in 1..(k + 1)
      OBVIOUS
    <3>2. \A j \in 1..Len(body) : Fits(body[j], d[j], d[j + 1], m, -8, {})
      BY <1>4, <2>1, <2>2, <3>1
    <3>3. FrameSteps(body, d) /\ k + 1 = Len(body) + 1
      BY <1>2, <2>1, <2>4, <3>2 DEF FrameSteps
    <3>4. d[1] = -8 /\ d[k + 1] = -8
      BY <2>2
    <3>5. Runs(body, -8, {}, FrameSpotAt(d[1]), FrameSpotAt(d[k + 1]))
      BY <3>3, FrameWalk, Zenon
    <3> QED BY <1>1, <2>1, <3>4, <3>5
  <2> QED BY <2>3, <2>4
<1>7. CASE last = <<Return>>
  <2> DEFINE d == <<-8, -8>>
  <2>1. Len(last) = 1 /\ last[1] = Return /\ last # <<>> /\ last \in Seq(Tasks)
    BY <1>5, <1>7
  <2>2. d[1] = -8 /\ d[2] = -8
    OBVIOUS
  <2> HIDE DEF d
  <2>3. FrameSteps(last, d) /\ 2 = Len(last) + 1
    BY <1>2, <1>4, <2>1, <2>2 DEF FrameSteps
  <2>4. Runs(last, -8, {}, FrameSpotAt(d[1]), FrameSpotAt(d[2]))
    BY <2>3, FrameWalk, Zenon
  <2>5. Return.do = "return"
    BY DEF Return, Task
  <2> QED BY <1>1, <1>6, <2>1, <2>2, <2>4, <2>5 DEF Enders
<1>8. CASE last = <<OtherStmt, ReturnNothing>>
  <2> DEFINE d == <<-8, -8, -8>>
  <2>1. /\ Len(last) = 2 /\ last[1] = OtherStmt /\ last[2] = ReturnNothing
        /\ last # <<>> /\ last \in Seq(Tasks)
    BY <1>5, <1>8
  <2>2. d[1] = -8 /\ d[2] = -8 /\ d[3] = -8
    OBVIOUS
  <2> HIDE DEF d
  <2>3. FrameSteps(last, d) /\ 3 = Len(last) + 1
    BY <1>2, <1>4, <2>1, <2>2 DEF FrameSteps
  <2>4. Runs(last, -8, {}, FrameSpotAt(d[1]), FrameSpotAt(d[3]))
    BY <2>3, FrameWalk, Zenon
  <2>5. ReturnNothing.do = "return_nothing"
    BY DEF ReturnNothing, Task
  <2> QED BY <1>1, <1>6, <2>1, <2>2, <2>4, <2>5 DEF Enders
<1> QED BY <1>7, <1>8

\* The prologue, and the lines of what follows it.
Prologue == <<entry, push, frame, push>>
PrologueLines ==
    LET top == local_variable_stack + 8
    IN  << Line(entry, top, top, Unknown, 0), Line(push, top, top, Unknown, 1),
           Line(frame, top - 8, top - 8, Unknown, 2), Line(push, 0, top - 8, Unknown, 3) >>

LEMMA PrologueFacts ==
    /\ Prologue \in Seq(Tasks) /\ PrologueLines \in Seq(Lines)
    /\ Len(Prologue) = 4 /\ Len(PrologueLines) = 4
    /\ \A i \in 1..4 : /\ PrologueLines[i].instr = Prologue[i]
                       /\ ~Labelled(PrologueLines[i].instr)
                       /\ LineOK(PrologueLines[i])
    /\ \A i \in 1..3 : Follows(PrologueLines[i], PrologueLines[i + 1])
    /\ PrologueLines[1].instr.do = "entry" /\ PrologueLines[1].count = local_variable_stack + 8
    /\ PrologueLines[4].place = 3
    /\ \A y : Admits(FrameSpot, y) => Passes(PrologueLines[4], y)
<1> DEFINE P == PrologueLines
<1>1. entry \in Tasks /\ push \in Tasks /\ frame \in Tasks
  BY DEF entry, push, frame, Instr, Task, Tasks, Instructions, NoLabel, LabelNames, local_variable_stack
<1>2. /\ P[1] = Line(entry, 33816, 33816, Unknown, 0) /\ P[2] = Line(push, 33816, 33816, Unknown, 1)
      /\ P[3] = Line(frame, 33808, 33808, Unknown, 2) /\ P[4] = Line(push, 0, 33808, Unknown, 3)
      /\ Len(P) = 4 /\ DOMAIN P = 1..4
      /\ P = <<P[1], P[2], P[3], P[4]>>
  BY DEF PrologueLines, local_variable_stack
<1>3. /\ P[1].instr = entry /\ P[1].at = 33816 /\ P[1].count = 33816 /\ P[1].place = 0
      /\ P[2].instr = push /\ P[2].at = 33816 /\ P[2].count = 33816 /\ P[2].place = 1
      /\ P[3].instr = frame /\ P[3].at = 33808 /\ P[3].count = 33808 /\ P[3].place = 2
      /\ P[4].instr = push /\ P[4].at = 0 /\ P[4].count = 33808 /\ P[4].place = 3
      /\ P[1].r12 = Unknown /\ P[2].r12 = Unknown /\ P[3].r12 = Unknown /\ P[4].r12 = Unknown
  BY <1>2 DEF Line
<1>4. P[1] \in Lines /\ P[2] \in Lines /\ P[3] \in Lines /\ P[4] \in Lines
  BY <1>1, <1>2 DEF Line, Lines, Unknown
<1>5. P \in Seq(Lines)
  <2>1. \A a, b, c, d \in Lines : <<a, b, c, d>> \in Seq(Lines)
    OBVIOUS
  <2>2. <<P[1], P[2], P[3], P[4]>> \in Seq(Lines)
    <3> HIDE DEF P
    <3> QED BY <1>4, <2>1, Zenon
  <2>3. P = <<P[1], P[2], P[3], P[4]>>
    BY <1>2
  <2> HIDE DEF P
  <2> QED BY <2>2, <2>3, Zenon
<1> HIDE DEF P
<1>6. /\ Len(Prologue) = 4 /\ Prologue[1] = entry /\ Prologue[2] = push
      /\ Prologue[3] = frame /\ Prologue[4] = push /\ Prologue \in Seq(Tasks)
  BY <1>1 DEF Prologue
<1>7. /\ entry.do = "entry" /\ push.do = "push" /\ push.n = 8
      /\ frame.do = "frame" /\ frame.n = 33808
  BY DEF entry, push, frame, Instr, Task, local_variable_stack
<1>8. /\ ~Labelled(entry) /\ ~Labelled(push) /\ ~Labelled(frame)
      /\ ~Large(entry) /\ ~Large(push) /\ ~Large(frame)
  BY <1>7 DEF Labelled, Large
<1>9. /\ Leaves(entry) = 0 /\ Leaves(push) = 0 /\ Leaves(frame) = 0
      /\ Moved(entry) = 0 /\ Moved(push) = -8 /\ Moved(frame) = -33808
      /\ Counted(entry) = 0 /\ Counted(push) = -8 /\ Counted(frame) = 0
  BY <1>7 DEF Leaves, Moved, Counted
<1>10. \A i \in 1..4 : P[i].instr = Prologue[i] /\ ~Labelled(P[i].instr)
  BY <1>3, <1>6, <1>8
<1>11. LineOK(P[1]) /\ LineOK(P[2]) /\ LineOK(P[3]) /\ LineOK(P[4])
  <2>1. LineOK(P[1])
    BY <1>3, <1>7 DEF LineOK, Statements, GenCalls, local_variable_stack
  <2>2. LineOK(P[2])
    BY <1>3, <1>7 DEF LineOK, Statements, GenCalls
  <2>3. LineOK(P[3])
    BY <1>3, <1>7 DEF LineOK, Statements, GenCalls
  <2>4. LineOK(P[4])
    BY <1>3, <1>7 DEF LineOK, Statements, GenCalls
  <2> QED BY <2>1, <2>2, <2>3, <2>4
<1>12. Follows(P[1], P[2]) /\ Follows(P[2], P[3]) /\ Follows(P[3], P[4])
  BY <1>3, <1>7, <1>9 DEF Follows, Passes
<1>13. ASSUME NEW y, Admits(FrameSpot, y)
       PROVE  Passes(P[4], y)
  <2>1. /\ FrameSpot.at = -8 /\ FrameSpot.count = 33800 /\ FrameSpot.r12 = Unknown
    BY DEF FrameSpot, Spot, local_variable_stack
  <2>2. y.at = -8 /\ y.count = 33800 /\ y.r12 = Unknown
    BY <1>13, <2>1 DEF Admits
  <2> QED BY <1>3, <1>9, <2>2 DEF Passes
<1>14. \A i \in 1..4 : LineOK(P[i])
  BY <1>11
<1>15. \A i \in 1..3 : Follows(P[i], P[i + 1])
  BY <1>12
<1>16. P[1].instr.do = "entry" /\ P[1].count = local_variable_stack + 8 /\ P[4].place = 3
  BY <1>3, <1>7 DEF local_variable_stack
<1> QED BY <1>2, <1>5, <1>6, <1>10, <1>13, <1>14, <1>15, <1>16 DEF P

LEMMA PrologueListing ==
    ASSUME NEW tasks \in Seq(Tasks), tasks # <<>>, tasks[Len(tasks)].do \in Enders,
           NEW base, Runs(tasks, base, {}, FrameSpot, FrameSpot)
    PROVE  \E G : /\ Listing(G) /\ Len(G) = Len(Prologue \o tasks) /\ G # <<>>
                  /\ \A i \in DOMAIN G : /\ G[i].instr = (Prologue \o tasks)[i]
                                         /\ ~Labelled(G[i].instr)
                  /\ G[1].count = local_variable_stack + 8
<1>1. PICK B \in Seq(Lines) :
        /\ Len(B) = Len(tasks)
        /\ \A i \in DOMAIN B :
              /\ B[i].instr = tasks[i] /\ B[i].place = 4 /\ LineOK(B[i])
              /\ Labelled(tasks[i]) => B[i].at = base /\ tasks[i].label \in {}
        /\ \A i \in DOMAIN B : i + 1 \in DOMAIN B => Passes(B[i], B[i + 1])
        /\ B # <<>> => Admits(FrameSpot, B[1])
  BY Zenon DEF Runs
<1> DEFINE P == PrologueLines
           n == Len(B)
           G == P \o B
           all == Prologue \o tasks
<1>2. n \in Nat /\ n >= 1 /\ DOMAIN B = 1..n /\ B # <<>> /\ n = Len(tasks)
  BY <1>1
<1>3. /\ P \in Seq(Lines) /\ Len(P) = 4 /\ Len(Prologue) = 4 /\ Prologue \in Seq(Tasks)
      /\ \A i \in 1..4 : P[i].instr = Prologue[i] /\ ~Labelled(P[i].instr) /\ LineOK(P[i])
      /\ \A i \in 1..3 : Follows(P[i], P[i + 1])
      /\ P[1].instr.do = "entry" /\ P[1].count = local_variable_stack + 8 /\ P[4].place = 3
      /\ Passes(P[4], B[1])
  <2>1. Admits(FrameSpot, B[1])
    BY <1>1, <1>2
  <2> QED BY <2>1, PrologueFacts
<1> HIDE DEF P
<1>4. /\ G \in Seq(Lines) /\ Len(G) = Len(all) /\ Len(G) = 4 + n /\ DOMAIN G = 1..(4 + n)
      /\ \A i \in 1..4 : G[i] = P[i] /\ all[i] = Prologue[i]
      /\ \A i \in 1..n : G[4 + i] = B[i] /\ all[4 + i] = tasks[i]
  <2>1. DOMAIN P = 1..4
    BY <1>3
  <2>2. /\ Len(P) = Len(Prologue) /\ Len(B) = Len(tasks)
        /\ P \in Seq(Lines) /\ B \in Seq(Lines)
        /\ Prologue \in Seq(Tasks) /\ tasks \in Seq(Tasks)
    BY <1>1, <1>3
  <2>3. /\ P \o B \in Seq(Lines) /\ Len(P \o B) = Len(Prologue \o tasks)
        /\ Len(P \o B) = Len(P) + Len(B)
        /\ DOMAIN (P \o B) = 1..(Len(P) + Len(B))
        /\ \A i \in DOMAIN P : (P \o B)[i] = P[i] /\ (Prologue \o tasks)[i] = Prologue[i]
        /\ \A i \in DOMAIN B : /\ (P \o B)[Len(P) + i] = B[i]
                               /\ (Prologue \o tasks)[Len(P) + i] = tasks[i]
    <3> DEFINE S == Lines
               T == Tasks
               p == Prologue
    <3>1. /\ P \in Seq(S) /\ B \in Seq(S) /\ p \in Seq(T) /\ tasks \in Seq(T)
          /\ Len(P) = Len(p) /\ Len(B) = Len(tasks)
      BY <2>2
    <3>2. S = Lines /\ p = Prologue
      OBVIOUS
    <3> HIDE DEF S, T, p
    <3>3. /\ P \o B \in Seq(S) /\ Len(P \o B) = Len(p \o tasks)
          /\ Len(P \o B) = Len(P) + Len(B)
          /\ DOMAIN (P \o B) = 1..(Len(P) + Len(B))
          /\ \A i \in DOMAIN P : (P \o B)[i] = P[i] /\ (p \o tasks)[i] = p[i]
          /\ \A i \in DOMAIN B : /\ (P \o B)[Len(P) + i] = B[i]
                                 /\ (p \o tasks)[Len(P) + i] = tasks[i]
      BY <3>1, ConcatFacts, SMTT(30)
    <3> QED BY <3>2, <3>3
  <2> HIDE DEF n
  <2> QED BY <1>2, <1>3, <2>1, <2>3 DEF n
<1> HIDE DEF n, G, all
<1>5. \A i \in 1..n : B[i].instr = tasks[i] /\ B[i].place = 4 /\ LineOK(B[i]) /\ ~Labelled(B[i].instr)
  BY <1>1, <1>2
<1>6. ASSUME NEW i \in 1..(4 + n)
      PROVE  i \in 1..4 \/ (i - 4 \in 1..n /\ i = 4 + (i - 4))
  BY <1>2
<1>7. ASSUME NEW i \in DOMAIN G
      PROVE  G[i].instr = all[i] /\ ~Labelled(G[i].instr) /\ LineOK(G[i])
  <2>1. CASE i \in 1..4
    BY <1>3, <1>4, <2>1
  <2>2. CASE i - 4 \in 1..n /\ i = 4 + (i - 4)
    <3> DEFINE j == i - 4
    <3>1. j \in 1..n /\ i = 4 + j
      BY <2>2
    <3> HIDE DEF j
    <3>2. G[4 + j] = B[j] /\ all[4 + j] = tasks[j]
      BY <1>4, <3>1
    <3> QED BY <1>5, <3>1, <3>2
  <2> QED BY <1>4, <1>6, <2>1, <2>2
<1>8. ASSUME NEW i \in 1..n, i + 1 \in 1..n
      PROVE  Follows(B[i], B[i + 1])
  <2>1. Passes(B[i], B[i + 1])
    BY <1>1, <1>2, <1>8
  <2>2. B[i + 1].instr.do # "entry"
    <3>1. B[i + 1].place = 4 /\ LineOK(B[i + 1])
      BY <1>5, <1>8
    <3> QED BY <3>1 DEF LineOK
  <2>3. B[i].place = 4 /\ B[i + 1].place = 4
    BY <1>5, <1>8
  <2> QED BY <2>1, <2>2, <2>3 DEF Follows
<1>9. Follows(P[4], B[1])
  <2>1. B[1].place = 4 /\ LineOK(B[1])
    BY <1>2, <1>5
  <2>2. B[1].instr.do # "entry"
    BY <2>1 DEF LineOK
  <2> QED BY <1>3, <2>1, <2>2 DEF Follows
<1>10. ASSUME NEW i \in DOMAIN G, i + 1 \in DOMAIN G
       PROVE  Follows(G[i], G[i + 1])
  <2>1. CASE i \in 1..3
    <3>1. i \in 1..4 /\ i + 1 \in 1..4
      BY <2>1
    <3>2. G[i] = P[i] /\ G[i + 1] = P[i + 1]
      BY <1>4, <3>1
    <3> QED BY <1>3, <2>1, <3>2
  <2>2. CASE i = 4
    <3>1. 1 \in 1..n /\ 4 \in 1..4
      BY <1>2
    <3>2. G[4] = P[4] /\ G[4 + 1] = B[1]
      BY <1>4, <3>1
    <3>3. i + 1 = 4 + 1
      BY <2>2
    <3> QED BY <1>9, <2>2, <3>2, <3>3
  <2>3. CASE i > 4
    <3> DEFINE j == i - 4
    <3>1. j \in 1..n /\ j + 1 \in 1..n /\ i = 4 + j /\ i + 1 = 4 + (j + 1)
      BY <1>2, <1>4, <1>10, <2>3
    <3> HIDE DEF j
    <3>2. G[4 + j] = B[j] /\ G[4 + (j + 1)] = B[j + 1]
      BY <1>4, <3>1
    <3> QED BY <1>8, <3>1, <3>2
  <2> QED BY <1>2, <1>4, <2>1, <2>2, <2>3
<1>11. G[1].instr.do = "entry" /\ G[1].count = local_variable_stack + 8
  <2>1. G[1] = P[1]
    BY <1>4
  <2> QED BY <1>3, <2>1
<1>12. G[Len(G)].instr.do \in Enders
  <2>1. n \in 1..n
    BY <1>2
  <2>2. G[4 + n] = B[n] /\ B[n].instr = tasks[n]
    BY <1>4, <1>5, <2>1
  <2> QED BY <1>2, <1>4, <2>2
<1>13. G # <<>>
  <2>1. 1 \in DOMAIN G
    BY <1>2, <1>4
  <2> QED BY <2>1
<1>14. Listing(G)
  BY <1>4, <1>7, <1>10, <1>11, <1>12 DEF Listing
<1> QED BY <1>4, <1>7, <1>11, <1>13, <1>14 DEF all

\* A function behind the others.
Joins(L, G, M) ==
    /\ Listing(M) /\ Len(M) = Len(L) + Len(G)
    /\ \A i \in DOMAIN L : M[i] = L[i]
    /\ \A i \in DOMAIN G : M[Len(L) + i] = G[i]

LEMMA ListingCat ==
    ASSUME NEW L, Listing(L), NEW G, Listing(G), G # <<>>,
           \A i \in DOMAIN G : ~Labelled(G[i].instr)
    PROVE  Joins(L, G, L \o G)
<1> DEFINE M == L \o G
           n == Len(L)
           m == Len(G)
<1>1. /\ L \in Seq(Lines) /\ G \in Seq(Lines) /\ n \in Nat /\ m \in Nat /\ m >= 1
      /\ DOMAIN L = 1..n /\ DOMAIN G = 1..m
  <2>1. L \in Seq(Lines) /\ G \in Seq(Lines)
    BY DEF Listing
  <2> QED BY <2>1
<1>2. M \in Seq(Lines) /\ Len(M) = n + m /\ DOMAIN M = 1..(n + m)
  <2>1. M \in Seq(Lines) /\ Len(M) = n + m
    BY <1>1
  <2> HIDE DEF M, n, m
  <2> QED BY <1>1, <2>1
<1>3. \A i \in 1..n : M[i] = L[i]
  BY <1>1
<1>4. \A i \in 1..m : M[n + i] = G[i]
  BY <1>1
<1>5. n = Len(L) /\ m = Len(G)
  OBVIOUS
<1> HIDE DEF M, n, m
<1>6. ASSUME NEW i \in DOMAIN M
      PROVE  i \in 1..n \/ (i - n \in 1..m /\ i = n + (i - n))
  BY <1>1, <1>2
<1>7. \A i \in 1..n : LineOK(L[i])
  BY <1>1 DEF Listing
<1>8. \A i \in 1..m : LineOK(G[i]) /\ ~Labelled(G[i].instr)
  BY <1>1 DEF Listing
<1>9. ASSUME NEW i \in DOMAIN M
      PROVE  LineOK(M[i]) /\ (Labelled(M[i].instr) => i \in DOMAIN L /\ M[i] = L[i])
  <2>1. CASE i \in 1..n
    BY <1>1, <1>3, <1>7, <2>1
  <2>2. CASE i - n \in 1..m /\ i = n + (i - n)
    <3> DEFINE j == i - n
    <3>1. j \in 1..m /\ i = n + j
      BY <2>2
    <3> HIDE DEF j
    <3>2. M[n + j] = G[j]
      BY <1>4, <3>1
    <3> QED BY <1>8, <3>1, <3>2
  <2> QED BY <1>6, <2>1, <2>2
<1>10. /\ G[1].instr.do = "entry" /\ G[m].instr.do \in Enders
       /\ n # 0 => L[1].instr.do = "entry" /\ L[n].instr.do \in Enders
  <2>1. n # 0 => L # <<>>
    BY <1>5
  <2> QED BY <1>5, <2>1 DEF Listing
<1>11. ASSUME NEW i \in DOMAIN M, i + 1 \in DOMAIN M
       PROVE  Follows(M[i], M[i + 1])
  <2>1. CASE i + 1 <= n
    <3>1. i \in 1..n /\ i + 1 \in 1..n
      BY <1>1, <1>2, <2>1
    <3>2. Follows(L[i], L[i + 1])
      BY <1>1, <3>1 DEF Listing
    <3> QED BY <1>3, <3>1, <3>2
  <2>2. CASE i = n
    <3>1. n \in 1..n /\ 1 \in 1..m /\ n # 0
      BY <1>1, <1>2, <2>2
    <3>2. M[n] = L[n] /\ M[n + 1] = G[1]
      BY <1>3, <1>4, <3>1
    <3>3. Follows(L[n], G[1])
      BY <1>10, <3>1 DEF Follows
    <3> QED BY <2>2, <3>2, <3>3
  <2>3. CASE i > n
    <3> DEFINE j == i - n
    <3>1. j \in 1..m /\ j + 1 \in 1..m /\ i = n + j /\ i + 1 = n + (j + 1)
      BY <1>1, <1>2, <1>11, <2>3
    <3> HIDE DEF j
    <3>2. M[n + j] = G[j] /\ M[n + (j + 1)] = G[j + 1]
      BY <1>4, <3>1
    <3>3. Follows(G[j], G[j + 1])
      BY <1>1, <3>1 DEF Listing
    <3> QED BY <3>1, <3>2, <3>3
  <2> QED BY <1>1, <1>2, <2>1, <2>2, <2>3
<1>12. ASSUME NEW i \in DOMAIN M, NEW j \in DOMAIN M,
              Labelled(M[i].instr), Labelled(M[j].instr), M[i].instr.label = M[j].instr.label
       PROVE  M[i].at = M[j].at
  <2>1. i \in DOMAIN L /\ M[i] = L[i] /\ j \in DOMAIN L /\ M[j] = L[j]
    BY <1>9, <1>12
  <2> QED BY <1>12, <2>1 DEF Listing
<1>13. M[1].instr.do = "entry" /\ M[Len(M)].instr.do \in Enders
  <2>1. 1 \in 1..m /\ m \in 1..m
    BY <1>1
  <2>2. M[n + m] = G[m]
    BY <1>4, <2>1
  <2>3. M[Len(M)].instr.do \in Enders
    BY <1>2, <1>10, <2>2
  <2>4. CASE n = 0
    <3>1. M[n + 1] = G[1] /\ n + 1 = 1
      BY <1>4, <2>1, <2>4
    <3> QED BY <1>10, <2>3, <3>1
  <2>5. CASE n # 0
    <3>1. 1 \in 1..n
      BY <1>1, <2>5
    <3>2. M[1] = L[1]
      BY <1>3, <3>1
    <3> QED BY <1>10, <2>3, <2>5, <3>2
  <2> QED BY <2>4, <2>5
<1>14. Listing(M)
  <2>1. \A i \in DOMAIN M : LineOK(M[i])
    BY <1>9
  <2>2. \A i \in DOMAIN M : i + 1 \in DOMAIN M => Follows(M[i], M[i + 1])
    BY <1>11
  <2>3. \A i, j \in DOMAIN M :
          Labelled(M[i].instr) /\ Labelled(M[j].instr) /\ M[i].instr.label = M[j].instr.label
              => M[i].at = M[j].at
    BY <1>12
  <2> QED BY <1>2, <1>13, <2>1, <2>2, <2>3 DEF Listing
<1>15. Joins(L, G, M)
  <2>1. Len(M) = Len(L) + Len(G)
    BY <1>2, <1>5
  <2>2. \A i \in DOMAIN L : M[i] = L[i]
    BY <1>1, <1>3
  <2>3. \A i \in DOMAIN G : M[Len(L) + i] = G[i]
    BY <1>1, <1>4, <1>5
  <2> QED BY <1>14, <2>1, <2>2, <2>3, Zenon DEF Joins
<1> QED BY <1>15 DEF M

LEMMA FuncdefineListed ==
    ASSUME GenInv, LargeReturnsLast, Listed,
           NEW params \in language.paramLists, gen_FUNCDEFINE(params)
    PROVE  Listed'
<1> DEFINE Body(k) == [i \in 1..k |-> Stmt]
           moves == FlattenSeq([p \in DOMAIN params |-> Parameter(params[p])])
<1>1. PICK k \in 0..(language.maxStmts - 1), last \in {<<Return>>, <<OtherStmt, ReturnNothing>>} :
          agenda' = Prologue \o moves \o Body(k) \o last
  BY DEF gen_FUNCDEFINE, Prologue
<1>2. /\ agenda = <<>> /\ alignmentCount' = local_variable_stack + 8
      /\ language' = language /\ out' = out
  BY DEF gen_FUNCDEFINE
<1>3. language \in Languages /\ params \in Seq(Types) /\ k \in Nat
  <2>1. language \in Languages
    BY SituationFacts DEF GenInv, Situation
  <2>2. language.paramLists \subseteq Seq(Types) /\ language.maxStmts \in Nat
    BY <2>1, ListsOfLanguage
  <2> QED BY <2>1, <2>2
<1> DEFINE body == Body(k)
           tasks == moves \o body \o last
<1>4. Runs(moves, -8, {}, FrameSpot, FrameSpot) /\ moves \in Seq(Tasks)
  BY <1>3, ParametersRun
<1>5. /\ Runs(body, -8, {}, FrameSpot, FrameSpot) /\ body \in Seq(Tasks)
      /\ Runs(last, -8, {}, FrameSpot, FrameSpot) /\ last \in Seq(Tasks)
      /\ last # <<>> /\ last[Len(last)].do \in Enders
  BY <1>3, StatementsRun
<1>6. agenda' = Prologue \o moves \o body \o last
  BY <1>1
<1> HIDE DEF moves, body
<1>7. /\ Runs(moves \o body, -8, {}, FrameSpot, FrameSpot) /\ moves \o body \in Seq(Tasks)
  BY <1>4, <1>5, FrameJoin, Zenon
<1>8. /\ Runs(tasks, -8, {}, FrameSpot, FrameSpot) /\ tasks \in Seq(Tasks)
  <2> DEFINE r == moves \o body
  <2>1. Runs(r, -8, {}, FrameSpot, FrameSpot) /\ r \in Seq(Tasks)
    BY <1>7
  <2> HIDE DEF r
  <2>2. Runs(r \o last, -8, {}, FrameSpot, FrameSpot) /\ r \o last \in Seq(Tasks)
    BY <1>5, <2>1, FrameJoin, Zenon
  <2> QED BY <2>2 DEF r
<1>9. tasks # <<>> /\ tasks[Len(tasks)] = last[Len(last)]
  <2> DEFINE r == moves \o body
  <2>1. r \in Seq(Tasks) /\ last \in Seq(Tasks) /\ last # <<>>
    BY <1>5, <1>7
  <2> HIDE DEF r
  <2>2. /\ Len(r \o last) = Len(r) + Len(last) /\ Len(last) \in Nat /\ Len(last) >= 1
        /\ Len(r) \in Nat /\ r \o last \in Seq(Tasks)
    BY <2>1
  <2>3. (r \o last)[Len(r) + Len(last)] = last[Len(last)]
    BY <2>1, <2>2
  <2>4. r \o last # <<>>
    BY <2>2
  <2> QED BY <2>2, <2>3, <2>4 DEF r
<1>10. agenda' = Prologue \o tasks
  <2> DEFINE T == Tasks
             p == Prologue
  <2>1. p \in Seq(T) /\ moves \in Seq(T) /\ body \in Seq(T) /\ last \in Seq(T)
    BY <1>4, <1>5, PrologueFacts
  <2> HIDE DEF p, T
  <2>2. p \o moves \in Seq(T) /\ moves \o body \in Seq(T)
    BY <2>1
  <2>3. ((p \o moves) \o body) \o last = (p \o (moves \o body)) \o last
    BY <2>1, ConcatAssociative
  <2>4. (p \o (moves \o body)) \o last = p \o ((moves \o body) \o last)
    <3> DEFINE u == moves \o body
    <3>1. u \in Seq(T)
      BY <2>2
    <3> HIDE DEF u
    <3>2. (p \o u) \o last = p \o (u \o last)
      BY <2>1, <3>1, ConcatAssociative, SMTT(30)
    <3> QED BY <3>2 DEF u
  <2> QED BY <1>6, <2>3, <2>4 DEF p
<1>11. tasks[Len(tasks)].do \in Enders
  BY <1>5, <1>9
<1> HIDE DEF tasks
<1>12. PICK G : /\ Listing(G) /\ Len(G) = Len(Prologue \o tasks) /\ G # <<>>
                /\ \A i \in DOMAIN G : /\ G[i].instr = (Prologue \o tasks)[i]
                                       /\ ~Labelled(G[i].instr)
                /\ G[1].count = local_variable_stack + 8
  BY <1>8, <1>9, <1>11, PrologueListing, Zenon
<1>13. PICK L : Transcript(L)
  BY DEF Listed
<1> DEFINE M == L \o G
           n == Len(out)
<1>14. /\ n \in Nat /\ DOMAIN out = 1..n /\ agenda' \in Seq(Tasks) /\ n = Len(out)
       /\ Len(L) = n /\ Listing(L) /\ L \in Seq(Lines) /\ DOMAIN L = 1..n
       /\ \A i \in 1..n : L[i].instr = out[i].instr /\ L[i].at = out[i].at
  <2>1. out \in Seq(Printed(labelIndex))
    BY SituationFacts DEF GenInv
  <2>2. n \in Nat /\ DOMAIN out = 1..n
    BY <2>1
  <2>3. Listing(L) /\ L \in Seq(Lines) /\ Len(L) = n + Len(agenda)
    BY <1>13 DEF Transcript, Listing
  <2>4. Len(agenda) = 0
    BY <1>2
  <2>5. agenda' \in Seq(Tasks)
    <3>1. Prologue \in Seq(Tasks) /\ tasks \in Seq(Tasks)
      BY <1>8, PrologueFacts
    <3> QED BY <1>10, <3>1
  <2>6. \A i \in DOMAIN out : L[i].instr = out[i].instr /\ L[i].at = out[i].at
    BY <1>13 DEF Transcript
  <2> HIDE DEF n
  <2>7. Len(L) = n /\ DOMAIN L = 1..n
    BY <2>2, <2>3, <2>4
  <2> QED BY <2>2, <2>3, <2>5, <2>6, <2>7 DEF n
<1>15. /\ G \in Seq(Lines) /\ Len(G) = Len(agenda') /\ Len(G) >= 1 /\ Len(G) \in Nat
       /\ DOMAIN G = 1..Len(G) /\ DOMAIN agenda' = 1..Len(G)
       /\ \A i \in 1..Len(G) : G[i].instr = agenda'[i]
  <2>1. G \in Seq(Lines)
    BY <1>12 DEF Listing
  <2>2. G # <<>> /\ Len(G) = Len(agenda') /\ \A i \in DOMAIN G : G[i].instr = agenda'[i]
    BY <1>10, <1>12
  <2>3. /\ Len(G) \in Nat /\ DOMAIN G = 1..Len(G) /\ Len(G) >= 1
    BY <2>1, <2>2
  <2>4. DOMAIN agenda' = 1..Len(agenda')
    BY <1>14
  <2> QED BY <2>1, <2>2, <2>3, <2>4
<1>16. /\ Listing(M) /\ Len(M) = Len(L) + Len(G)
       /\ \A i \in DOMAIN L : M[i] = L[i]
       /\ \A i \in DOMAIN G : M[Len(L) + i] = G[i]
  <2>1. /\ Listing(L) /\ Listing(G) /\ G # <<>>
        /\ \A i \in DOMAIN G : ~Labelled(G[i].instr)
    BY <1>12, <1>14
  <2>2. Joins(L, G, L \o G)
    BY <2>1, ListingCat, Zenon
  <2> QED BY <2>2, Zenon DEF Joins, M
<1> HIDE DEF M, n
<1>17. Transcript(M)'
  <2>1. Len(M) = Len(out') + Len(agenda')
    BY <1>2, <1>14, <1>15, <1>16
  <2>2. \A i \in DOMAIN out' : M[i].instr = out'[i].instr /\ M[i].at = out'[i].at
    BY <1>2, <1>14, <1>16
  <2>3. \A i \in DOMAIN agenda' : M[Len(out') + i].instr = agenda'[i]
    BY <1>2, <1>14, <1>15, <1>16
  <2>4. M[Len(out') + 1].count = alignmentCount'
    <3>1. 1 \in DOMAIN G
      BY <1>15
    <3> QED BY <1>2, <1>12, <1>14, <1>16, <3>1, ZenonT(30)
  <2>5. Listing(M)'
    <3>1. Tasks' = Tasks
      BY <1>2, SameTasks
    <3>2. Lines' = Lines /\ \A x : LineOK(x)' <=> LineOK(x)
      BY <3>1 DEF Lines, LineOK
    <3> QED BY <1>16, <3>2 DEF Listing
  <2> QED BY <2>1, <2>2, <2>3, <2>4, <2>5 DEF Transcript
<1> QED BY <1>17 DEF Listed

\* What is printed stays where it was in the listing.
LEMMA PrintListed ==
    ASSUME GenInv, LargeReturnsLast, LargeReturnsLast', Listed, asmPrint
    PROVE  Listed'
<1> DEFINE n == Len(out)
           N == Len(agenda)
<1>1. PICK L : Transcript(L)
  BY DEF Listed
<1>2. /\ agenda # <<>> /\ Head(agenda).do \in Instructions
      /\ out' = Append(out, [instr |-> Head(agenda), at |-> Height])
      /\ alignmentCount' = alignmentCount + Counted(Head(agenda))
      /\ agenda' = Tail(agenda) /\ language' = language
  BY DEF asmPrint
<1>3. /\ agenda \in Seq(Tasks) /\ out \in Seq(Printed(labelIndex))
      /\ Tail(agenda) \in Seq(Work(labelIndex))
      /\ alignmentCount \in Int /\ language \in Languages
  BY <1>2, SituationFacts DEF GenInv, Situation
<1>4. /\ n \in Nat /\ N \in Nat /\ N >= 1 /\ DOMAIN out = 1..n /\ DOMAIN agenda = 1..N
      /\ Head(agenda) = agenda[1] /\ Head(agenda) \in Tasks
      /\ Len(agenda') = N - 1 /\ DOMAIN agenda' = 1..(N - 1)
      /\ \A i \in 1..(N - 1) : agenda'[i] = agenda[i + 1] /\ agenda'[i] \in Work(labelIndex)
  BY <1>2, <1>3
<1>5. /\ Len(out') = n + 1 /\ DOMAIN out' = 1..(n + 1)
      /\ \A i \in 1..n : out'[i] = out[i]
      /\ out'[n + 1] = [instr |-> Head(agenda), at |-> Height]
  BY <1>2, <1>3
<1> HIDE DEF n, N
<1>6. /\ Listing(L) /\ L \in Seq(Lines) /\ Len(L) = n + N /\ DOMAIN L = 1..(n + N)
      /\ \A i \in 1..n : L[i].instr = out[i].instr /\ L[i].at = out[i].at
      /\ \A i \in 1..N : L[n + i].instr = agenda[i]
      /\ L[n + 1].count = alignmentCount
  <2>1. Listing(L) /\ L \in Seq(Lines) /\ Len(L) = n + N
    BY <1>1 DEF Transcript, Listing, n, N
  <2>2. DOMAIN L = 1..(n + N)
    BY <1>4, <2>1
  <2>3. /\ \A i \in 1..n : L[i].instr = out[i].instr /\ L[i].at = out[i].at
        /\ \A i \in 1..N : L[n + i].instr = agenda[i]
        /\ L[n + 1].count = alignmentCount
    BY <1>1, <1>2, <1>4 DEF Transcript, n
  <2> QED BY <2>1, <2>2, <2>3
<1>7. n + 1 \in DOMAIN L /\ L[n + 1] \in Lines /\ LineOK(L[n + 1]) /\ L[n + 1].instr = Head(agenda)
  <2>1. n + 1 \in DOMAIN L /\ 1 \in 1..N
    BY <1>4, <1>6
  <2> QED BY <1>4, <1>6, <2>1 DEF Listing
<1>8. L[n + 1].at = Height
  <2>1. CASE Head(agenda).do = "entry"
    BY <1>7, <2>1 DEF LineOK, Height
  <2>2. CASE Head(agenda).do # "entry"
    BY <1>1, <1>2, <2>2, Here DEF n
  <2> QED BY <2>1, <2>2
<1>9. ASSUME N - 1 > 0
      PROVE  L[n + 2].count = alignmentCount + Counted(Head(agenda))
  <2>1. /\ n + 2 \in DOMAIN L /\ (n + 1) + 1 = n + 2 /\ 2 \in 1..N /\ 1 \in 1..(N - 1)
        /\ (n + 1) + 1 \in DOMAIN L
    BY <1>4, <1>6, <1>9
  <2>2. L[n + 2].instr = agenda[2] /\ agenda'[1] = agenda[2] /\ agenda[2] \in Work(labelIndex)
    <3>1. agenda'[1] = agenda[1 + 1] /\ agenda'[1] \in Work(labelIndex)
      BY <1>4, <2>1
    <3> QED BY <1>6, <2>1, <3>1
  <2>3. agenda[2].do # "entry"
    BY <2>2 DEF Work
  <2>4. Follows(L[n + 1], L[(n + 1) + 1])
    BY <1>6, <1>7, <2>1 DEF Listing
  <2>5. Passes(L[n + 1], L[n + 2])
    BY <2>1, <2>2, <2>3, <2>4 DEF Follows
  <2>6. ~Large(Head(agenda))
    <3>1. n + 1 \in DOMAIN out' /\ ~(n + 1 < Len(out')) /\ out'[n + 1].instr = Head(agenda)
      BY <1>4, <1>5
    <3>2. agenda' # <<>> /\ Head(agenda') = agenda'[1]
      <4> DEFINE S == Work(labelIndex)
                 s == agenda'
      <4>1. s \in Seq(S) /\ Len(s) = N - 1 /\ N \in Nat
        BY <1>2, <1>3, <1>4
      <4> HIDE DEF S, s
      <4>2. s # <<>> /\ Head(s) = s[1]
        BY <1>9, <4>1
      <4> QED BY <4>2 DEF s
    <3>3. Large(Head(agenda)) => Head(agenda').do = "entry"
      BY <3>1, <3>2 DEF LargeReturnsLast, Large
    <3> QED BY <2>2, <2>3, <3>2, <3>3
  <2>7. Leaves(Head(agenda)) = 0
    BY <1>2 DEF Leaves, Instructions
  <2>8. Counted(Head(agenda)) \in Int
    BY <1>3, <1>4, ChangesAreInt
  <2>9. L[n + 2].count = L[n + 1].count + Counted(Head(agenda)) - Leaves(Head(agenda))
    BY <1>7, <2>5, <2>6 DEF Passes
  <2> QED BY <1>3, <1>6, <2>7, <2>8, <2>9
<1>10. Listing(L)'
  <2>1. Tasks' = Tasks
    BY <1>2, SameTasks
  <2>2. Lines' = Lines /\ \A x : LineOK(x)' <=> LineOK(x)
    BY <2>1 DEF Lines, LineOK
  <2> QED BY <1>6, <2>2 DEF Listing
<1>11. Len(L) = Len(out') + Len(agenda')
  BY <1>4, <1>5, <1>6
<1>12. ASSUME NEW i \in DOMAIN out'
       PROVE  L[i].instr = out'[i].instr /\ L[i].at = out'[i].at
  <2>1. CASE i \in 1..n
    BY <1>5, <1>6, <2>1
  <2>2. CASE i = n + 1
    BY <1>5, <1>7, <1>8, <2>2
  <2> QED BY <1>4, <1>5, <2>1, <2>2
<1>13. ASSUME NEW i \in DOMAIN agenda'
       PROVE  L[Len(out') + i].instr = agenda'[i]
  <2>1. i \in 1..(N - 1) /\ N \in Nat /\ n \in Nat
    BY <1>4
  <2>2. i + 1 \in 1..N /\ (n + 1) + i = n + (i + 1)
    BY <2>1
  <2>3. L[n + (i + 1)].instr = agenda[i + 1] /\ agenda'[i] = agenda[i + 1]
    BY <1>4, <1>6, <2>1, <2>2
  <2> QED BY <1>5, <2>2, <2>3
<1>14. agenda' # <<>> => L[Len(out') + 1].count = alignmentCount'
  <2>1. agenda' # <<>> => N - 1 > 0
    BY <1>2, <1>3, <1>4
  <2>2. Len(out') + 1 = n + 2
    BY <1>4, <1>5
  <2> QED BY <1>2, <1>9, <2>1, <2>2
<1>15. Transcript(L)'
  BY <1>10, <1>11, <1>12, <1>13, <1>14 DEF Transcript
<1> QED BY <1>15 DEF Listed

LEMMA GenStepListed ==
    ASSUME Orderly, GenInv, LargeReturnsLast, LargeReturnsLast', Listed, [GenNext]_genvars
    PROVE  Listed'
<1>1. language \in Languages
  BY DEF GenInv, Situation
<1>2. ASSUME NEW how, Stop(how)
      PROVE  Listed'
  BY <1>2, StopListed DEF Stop
<1>3. CASE GenExpr
  BY <1>3, ArrayListed, NumListed, LvarListed, AddrListed, AssignListed, AssignOpListed,
     LogicalListed, BinaryListed, CallListed
     DEF GenExpr
<1>4. CASE GenAddress
  <2>1. CASE gen_address_error
    BY <1>2, <2>1 DEF gen_address_error
  <2> QED BY <1>4, <2>1, AddressLvarListed, AddressStructListed, AddressDerefListed
          DEF GenAddress
<1>5. CASE GenStmt
  <2>1. CASE gen_CASE
    <3>1. CASE Head(agenda).label = NoLabel
      BY <1>2, <2>1, <3>1 DEF gen_CASE
    <3> QED BY <2>1, <3>1, CaseListed
  <2>2. CASE gen_SWITCH_simple
    BY <1>1, <2>2 DEF gen_SWITCH_simple, Calling, Orderly
  <2> QED BY <1>5, <2>1, <2>2, DeclarationListed, SinglestmtListed, BlockListed, IfListed,
          ElseListed, WhileListed, ForListed, SwitchListed, ReturnListed, ReturnNothingListed
          DEF GenStmt
<1>6. CASE asmPrint
  BY <1>6, PrintListed
<1>7. CASE \E params \in language.paramLists : gen_FUNCDEFINE(params)
  BY <1>7, FuncdefineListed
<1>8. CASE gens_end
  BY <1>2, <1>8 DEF gens_end
<1>9. CASE UNCHANGED genvars
  BY <1>9, StopListed DEF genvars
<1> QED BY <1>3, <1>4, <1>5, <1>6, <1>7, <1>8, <1>9 DEF GenNext, GenStep, GenStopped

LEMMA GenInitListed ==
    ASSUME GenInit
    PROVE  Listed
<1> DEFINE L == <<>>
<1>1. out = <<>> /\ agenda = <<>>
  BY DEF GenInit
<1>2. L \in Seq(Lines) /\ Len(L) = 0 /\ DOMAIN L = {} /\ L = <<>> /\ Len(out) = 0 /\ Len(agenda) = 0
      /\ DOMAIN out = {} /\ DOMAIN agenda = {}
  BY <1>1
<1> HIDE DEF L
<1>3. Listing(L)
  BY <1>2 DEF Listing
<1>4. Transcript(L)
  BY <1>1, <1>2, <1>3 DEF Transcript
<1> QED BY <1>4 DEF Listed

\* A statement starts with the temporaries of all expressions before it popped, for
\* all expressions and nestings of statements: what is pushed is what is popped, of
\* a word, a struct or an array, in both arms of a branch (codegen.c:441-611).
THEOREM StatementsBalanced ==
    Orderly => (GenSpec /\ []LargeReturnsLast => []StatementsStartBalanced)
<1> SUFFICES ASSUME Orderly
             PROVE  GenSpec /\ []LargeReturnsLast => []StatementsStartBalanced
  OBVIOUS
<1>1. ASSUME GenInv, LargeReturnsLast, Listed
      PROVE  StatementsStartBalanced
  <2> SUFFICES ASSUME agenda # <<>>, Head(agenda).do \in Statements
               PROVE  alignmentCount = local_variable_stack - 8
    BY DEF StatementsStartBalanced, Statements
  <2>1. Head(agenda).do \in GenCalls
    BY DEF Statements, GenCalls
  <2>2. /\ Height \in Int /\ alignmentCount \in Int
        /\ Height = SavedR12 /\ alignmentCount - Height = local_variable_stack
    BY <1>1, <2>1, HereCalled
  <2> QED BY <2>2 DEF SavedR12, local_variable_stack
<1>2. GenInit => Listed
  BY GenInitListed
<1>3. GenInv /\ LargeReturnsLast /\ LargeReturnsLast' /\ Listed /\ [GenNext]_genvars => Listed'
  BY GenStepListed
<1> QED BY <1>1, <1>2, <1>3, GenInvariant, PTL DEF GenSpec

-----------------------------------------------------------------------------
(* The processor. *)

\* Where rsp and r12 are when the next instruction is that of the line pc.
Placed(L) ==
    /\ pc \in Nat
    /\ status # "printed" => pc = 0
    /\ pc = 0 => rsp = local_variable_stack + 8
    /\ Running => rsp = L[pc].at /\ (L[pc].r12 # Unknown => r12 = L[pc].r12)

MachineInv == GenInv /\ \E L : Transcript(L) /\ Placed(L)

\* What the listing says of the next instruction.
LEMMA RunningLine ==
    ASSUME GenInv, NEW L, Transcript(L), Running
    PROVE  /\ pc \in DOMAIN L /\ L[pc].instr = instr /\ L[pc].at = out[pc].at
           /\ L[pc] \in Lines /\ LineOK(L[pc]) /\ instr \in Tasks /\ instr.do \in Instructions
           /\ language \in Languages /\ DOMAIN out = 1..Len(out) /\ Len(out) \in Nat
           /\ DOMAIN L = 1..Len(L)
<1>1. out \in Seq(Printed(labelIndex)) /\ agenda \in Seq(Tasks) /\ language \in Languages
  BY SituationFacts DEF GenInv, Situation
<1>2. /\ L \in Seq(Lines) /\ Len(L) = Len(out) + Len(agenda)
      /\ \A i \in DOMAIN out : L[i].instr = out[i].instr /\ L[i].at = out[i].at
  BY DEF Transcript, Listing
<1>3. pc \in DOMAIN out /\ instr = out[pc].instr
  BY DEF Running, instr
<1>4. DOMAIN out = 1..Len(out) /\ Len(out) \in Nat /\ Len(agenda) \in Nat /\ DOMAIN L = 1..Len(L)
  BY <1>1, <1>2
<1>5. pc \in DOMAIN L
  BY <1>2, <1>3, <1>4
<1>6. L[pc] \in Lines /\ LineOK(L[pc])
  BY <1>2, <1>5 DEF Transcript, Listing
<1>7. instr \in Tasks /\ instr.do \in Instructions
  <2>1. out[pc] \in Printed(labelIndex)
    BY <1>1, <1>3
  <2> QED BY <1>3, <2>1 DEF Printed
<1> QED BY <1>1, <1>2, <1>3, <1>4, <1>5, <1>6, <1>7

\* A line is followed by the next one, unless a function ends there.
LEMMA NextLine ==
    ASSUME GenInv, NEW L, Transcript(L), Running, instr.do # "epilogue", pc + 1 \in DOMAIN out
    PROVE  /\ L[pc + 1].at = L[pc].at + Moved(instr)
           /\ L[pc + 1].r12 \in {Unknown, R12After(L[pc])}
<1>1. /\ pc \in DOMAIN L /\ L[pc].instr = instr /\ L[pc] \in Lines
      /\ instr \in Tasks /\ instr.do \in Instructions /\ language \in Languages
      /\ DOMAIN out = 1..Len(out) /\ DOMAIN L = 1..Len(L) /\ Len(out) \in Nat
  BY RunningLine
<1>2. pc + 1 \in DOMAIN L
  <2>1. Len(L) = Len(out) + Len(agenda) /\ Len(agenda) \in Nat
    BY SituationFacts DEF Transcript, GenInv
  <2> QED BY <1>1, <2>1
<1>3. Follows(L[pc], L[pc + 1])
  BY <1>1, <1>2 DEF Transcript, Listing
<1>4. instr.do \notin Enders /\ Leaves(instr) = 0 /\ ~Large(instr)
  BY <1>1 DEF Enders, Leaves, Instructions, Large
<1>5. Passes(L[pc], L[pc + 1])
  BY <1>1, <1>3, <1>4 DEF Follows
<1>6. Moved(instr) \in Int /\ L[pc].at \in Int
  <2>1. L[pc].at \in Int
    BY <1>1 DEF Lines
  <2> QED BY <1>1, <2>1, ChangesAreInt
<1> QED BY <1>1, <1>4, <1>5, <1>6 DEF Passes

\* A step of the processor that leaves what gen() has done alone.
LEMMA SameTranscript ==
    ASSUME UNCHANGED genvars, NEW L
    PROVE  Transcript(L)' = Transcript(L)
<1>1. UNCHANGED <<language, agenda, alignmentCount, out>>
  BY DEF genvars
<1>2. Lines' = Lines /\ (\A y : LineOK(y)' = LineOK(y))
  <2>1. Tasks' = Tasks
    BY <1>1, SameTasks
  <2> QED BY <2>1 DEF Lines, LineOK
<1>3. Listing(L)' = Listing(L)
  BY <1>2 DEF Listing
<1> QED BY <1>1, <1>3 DEF Transcript

LEMMA GoesOn ==
    ASSUME GenInv, NEW L, Transcript(L), Placed(L), Running, instr.do # "epilogue",
           UNCHANGED genvars, pc' = pc + 1, rsp' = rsp + Moved(instr),
           \/ r12' = r12
           \/ instr.do \in {"mov_r12_rsp", "mov_r12_saved"}
           \/ instr.do = "call" /\ instr.type.size > 8,
           instr.do \in {"mov_r12_rsp", "mov_r12_saved"} =>
              r12' = IF instr.do = "mov_r12_rsp" THEN rsp + instr.n
                     ELSE IF rsp + instr.n = SavedR12 THEN Callers ELSE Unknown
    PROVE  Placed(L)'
<1>1. /\ L[pc].instr = instr /\ pc \in Nat /\ pc # 0 /\ status = "printed"
      /\ rsp = L[pc].at /\ (L[pc].r12 # Unknown => r12 = L[pc].r12)
  <2>1. L[pc].instr = instr /\ pc \in 1..Len(out)
    BY RunningLine DEF Running
  <2> QED BY <2>1 DEF Placed
<1>2. out' = out /\ status' = status
  BY DEF genvars
<1>3. ASSUME pc + 1 \in DOMAIN out
      PROVE  rsp' = L[pc + 1].at /\ (L[pc + 1].r12 # Unknown => r12' = L[pc + 1].r12)
  <2>1. /\ L[pc + 1].at = L[pc].at + Moved(instr)
        /\ L[pc + 1].r12 \in {Unknown, R12After(L[pc])}
    BY <1>3, NextLine
  <2>2. rsp' = L[pc + 1].at
    BY <1>1, <2>1
  <2>3. ASSUME L[pc + 1].r12 # Unknown
        PROVE  r12' = L[pc + 1].r12
    <3>1. R12After(L[pc]) # Unknown /\ L[pc + 1].r12 = R12After(L[pc])
      BY <2>1, <2>3
    <3>2. CASE instr.do \in {"mov_r12_rsp", "mov_r12_saved"}
      BY <1>1, <3>1, <3>2 DEF R12After
    <3>3. CASE instr.do \notin {"mov_r12_rsp", "mov_r12_saved"}
      <4>1. R12After(L[pc]) = L[pc].r12 /\ ~(instr.do = "call" /\ instr.type.size > 8)
        BY <1>1, <3>1, <3>3 DEF R12After
      <4> QED BY <1>1, <3>1, <3>3, <4>1
    <3> QED BY <3>2, <3>3
  <2> QED BY <2>2, <2>3
<1>4. pc + 1 \in Nat /\ pc + 1 # 0
  BY <1>1
<1> QED BY <1>1, <1>2, <1>3, <1>4 DEF Placed, Running

LEMMA StartPlaced ==
    ASSUME GenInv, NEW L, Transcript(L), Placed(L), Start
    PROVE  Placed(L)'
<1>1. /\ status' = status /\ out' = out /\ rsp' = rsp /\ status = "printed" /\ pc = 0
      /\ pc' \in DOMAIN out /\ out[pc'].instr.do = "entry"
  BY DEF Start, genvars
<1>2. DOMAIN out = 1..Len(out) /\ Len(out) \in Nat /\ L \in Seq(Lines) /\ DOMAIN L = 1..Len(L)
      /\ Len(L) = Len(out) + Len(agenda) /\ Len(agenda) \in Nat
  <2>1. out \in Seq(Printed(labelIndex)) /\ agenda \in Seq(Tasks)
    BY SituationFacts DEF GenInv
  <2>2. L \in Seq(Lines) /\ Len(L) = Len(out) + Len(agenda)
    BY DEF Transcript, Listing
  <2> QED BY <2>1, <2>2
<1>3. pc' \in DOMAIN L /\ L[pc'].instr.do = "entry" /\ pc' \in Nat /\ pc' # 0
  <2>1. L[pc'].instr = out[pc'].instr
    BY <1>1 DEF Transcript
  <2> QED BY <1>1, <1>2, <2>1
<1>4. L[pc'].at = local_variable_stack + 8 /\ L[pc'].r12 = Unknown
  <2>1. LineOK(L[pc'])
    BY <1>3 DEF Transcript, Listing
  <2> QED BY <1>3, <2>1 DEF LineOK
<1> QED BY <1>1, <1>3, <1>4 DEF Placed

LEMMA JumpPlaced ==
    ASSUME GenInv, NEW L, Transcript(L), Placed(L), Jump
    PROVE  Placed(L)'
<1>1. /\ Running /\ instr.do \in {"jmp", "jcc"} /\ UNCHANGED genvars
      /\ status' = status /\ out' = out /\ rsp' = rsp /\ r12' = r12
  BY DEF Jump, genvars
<1>2. Moved(instr) = 0
  BY <1>1 DEF Moved
<1>3. /\ pc \in DOMAIN L /\ L[pc].instr = instr /\ DOMAIN out = 1..Len(out) /\ Len(out) \in Nat
      /\ DOMAIN L = 1..Len(L) /\ pc \in 1..Len(out) /\ L[pc] \in Lines
  BY <1>1, RunningLine DEF Running
<1>4. rsp = L[pc].at /\ status = "printed" /\ rsp \in Int
  BY <1>1, <1>3 DEF Placed, Lines
<1>5. CASE pc' = pc + 1
  <2>1. rsp' = rsp + Moved(instr)
    BY <1>1, <1>2, <1>4
  <2> QED BY <1>1, <1>5, <2>1, GoesOn
<1>6. CASE pc' \in {i \in DOMAIN out : out[i].instr = define(instr.label)}
  <2>1. pc' \in DOMAIN out /\ out[pc'].instr = define(instr.label) /\ pc' \in Nat /\ pc' # 0
    BY <1>3, <1>6
  <2>2. pc' \in DOMAIN L
    <3>1. Len(L) = Len(out) + Len(agenda) /\ Len(agenda) \in Nat
      BY SituationFacts DEF Transcript, GenInv
    <3> QED BY <1>3, <2>1, <3>1
  <2>3. L[pc'].instr.do = "label" /\ L[pc'].instr.label = instr.label
    <3>1. L[pc'].instr = out[pc'].instr
      BY <2>1 DEF Transcript
    <3> QED BY <2>1, <3>1 DEF define, Task
  <2>4. L[pc].at = L[pc'].at
    <3>1. Labelled(L[pc].instr) /\ Labelled(L[pc'].instr) /\ L[pc].instr.label = L[pc'].instr.label
      BY <1>1, <1>3, <2>3 DEF Labelled
    <3> QED BY <1>3, <2>2, <3>1 DEF Transcript, Listing
  <2>5. L[pc'].r12 = Unknown
    <3>1. LineOK(L[pc'])
      BY <2>2 DEF Transcript, Listing
    <3> QED BY <2>3, <3>1 DEF LineOK
  <2> QED BY <1>1, <1>4, <2>1, <2>4, <2>5 DEF Placed
<1> QED BY <1>5, <1>6 DEF Jump

LEMMA EpiloguePlaced ==
    ASSUME GenInv, NEW L, Transcript(L), Placed(L), Epilogue
    PROVE  Placed(L)'
<1>1. /\ Running /\ pc' = Len(out) + 1 /\ status' = status /\ out' = out
  BY DEF Epilogue, genvars
<1>2. DOMAIN out = 1..Len(out) /\ Len(out) \in Nat /\ pc \in 1..Len(out)
  BY <1>1, RunningLine DEF Running
<1>3. status = "printed"
  BY <1>2 DEF Placed
<1>4. pc' \in Nat /\ pc' # 0 /\ pc' \notin DOMAIN out'
  BY <1>1, <1>2
<1> QED BY <1>1, <1>3, <1>4 DEF Placed, Running

LEMMA ProcessorPlaced ==
    ASSUME GenInv, NEW L, Transcript(L), Placed(L), UNCHANGED genvars,
           Start \/ Straight \/ Evaluated \/ PopRegister \/ Jump \/ SetR12 \/ Epilogue
             \/ UNCHANGED vars
    PROVE  Placed(L)'
<1>1. Running => rsp \in Int
  <2>1. Running => L[pc] \in Lines
    BY RunningLine
  <2> QED BY <2>1 DEF Placed, Lines
<1>2. CASE Straight
  <2>1. /\ Running /\ pc' = pc + 1 /\ rsp' = rsp + Moved(instr)
        /\ r12' = r12 \/ (instr.do = "call" /\ instr.type.size > 8)
        /\ instr.do # "epilogue" /\ instr.do \notin {"mov_r12_rsp", "mov_r12_saved"}
    BY <1>2 DEF Straight
  <2> QED BY <2>1, GoesOn
<1>3. CASE Evaluated
  <2>1. Running /\ pc' = pc + 1 /\ rsp' = rsp /\ r12' = r12 /\ instr.do = "argument"
    BY <1>3 DEF Evaluated
  <2>2. Moved(instr) = 0
    BY <2>1 DEF Moved
  <2>3. rsp' = rsp + Moved(instr)
    BY <1>1, <2>1, <2>2
  <2> QED BY <2>1, <2>3, GoesOn
<1>4. CASE PopRegister
  <2>1. /\ Running /\ pc' = pc + 1 /\ rsp' = rsp + Moved(instr) /\ r12' = r12
        /\ instr.do = "pop_register"
    BY <1>4 DEF PopRegister
  <2> QED BY <2>1, GoesOn
<1>5. CASE SetR12
  <2>1. /\ Running /\ pc' = pc + 1 /\ rsp' = rsp
        /\ instr.do \in {"mov_r12_rsp", "mov_r12_saved"}
        /\ r12' = IF instr.do = "mov_r12_rsp" THEN rsp + instr.n
                  ELSE IF rsp + instr.n = SavedR12 THEN Callers ELSE Unknown
    BY <1>5 DEF SetR12
  <2>2. Moved(instr) = 0
    BY <2>1 DEF Moved
  <2>3. rsp' = rsp + Moved(instr)
    BY <1>1, <2>1, <2>2
  <2> QED BY <2>1, <2>3, GoesOn
<1>6. CASE UNCHANGED vars
  BY <1>6 DEF vars, genvars, Placed, Running
<1> QED BY <1>2, <1>3, <1>4, <1>5, <1>6, StartPlaced, JumpPlaced, EpiloguePlaced

LEMMA NextIsGen ==
    ASSUME [Next]_vars
    PROVE  [GenNext]_genvars
<1>1. CASE Generate
  BY <1>1 DEF Generate, GenNext
<1>2. CASE UNCHANGED vars
  BY <1>2 DEF vars
<1> QED BY <1>1, <1>2 DEF Next, Start, Straight, Evaluated, PopRegister, Jump, SetR12, Epilogue,
        Stopped

LEMMA MachineStep ==
    ASSUME Orderly, MachineInv, LargeReturnsLast, LargeReturnsLast', [Next]_vars
    PROVE  MachineInv'
<1>1. GenInv /\ GenInv' /\ [GenNext]_genvars
  BY NextIsGen, GenStepInv DEF MachineInv
<1>2. PICK L : Transcript(L) /\ Placed(L)
  BY DEF MachineInv
<1>3. CASE Generate
  <2>1. Listed'
    BY <1>1, <1>2, GenStepListed DEF Listed
  <2>2. pc' = pc /\ rsp' = rsp /\ status = "generating"
    BY <1>3 DEF Generate, GenStep, GenExpr, GenAddress, GenStmt, asmPrint, gen_FUNCDEFINE, gens_end,
       gen_array, gen_NUM, gen_LVAR, gen_ADDR, gen_ASSIGN_EQ, gen_ASSIGN_op, gen_LOGICAL, gen_binary,
       gen_FUNCCALL, gen_address_LVAR, gen_address_STRUCT, gen_address_DEREF, gen_address_error,
       gen_DECLARATION, gen_SINGLESTMT, gen_BLOCK, gen_IF, gen_ELSE, gen_WHILE, gen_FOR, gen_SWITCH,
       gen_SWITCH_simple, gen_CASE, gen_RETURN, gen_RETURN_nothing, Calling
  <2>3. pc = 0 /\ rsp = local_variable_stack + 8
    BY <1>2, <2>2 DEF Placed
  <2>4. 0 \notin DOMAIN out'
    <3>1. \E S : out' \in Seq(S)
      BY <1>1, SituationFacts DEF GenInv, Situation
    <3> QED BY <3>1
  <2>5. PICK M : Transcript(M)'
    BY <2>1 DEF Listed
  <2>6. Placed(M)'
    BY <2>2, <2>3, <2>4 DEF Placed, Running
  <2> QED BY <1>1, <2>5, <2>6 DEF MachineInv
<1>4. CASE ~Generate
  <2>1. /\ UNCHANGED genvars
        /\ Start \/ Straight \/ Evaluated \/ PopRegister \/ Jump \/ SetR12 \/ Epilogue
             \/ UNCHANGED vars
    BY <1>4 DEF Next, Start, Straight, Evaluated, PopRegister, Jump, SetR12, Epilogue, Stopped, vars
  <2>2. Placed(L)'
    BY <1>1, <1>2, <2>1, ProcessorPlaced
  <2>3. Transcript(L)'
    BY <1>2, <2>1, SameTranscript
  <2> QED BY <1>1, <2>2, <2>3 DEF MachineInv
<1> QED BY <1>3, <1>4

LEMMA MachineStarts ==
    ASSUME MachineInit
    PROVE  MachineInv
<1>1. GenInit /\ pc = 0 /\ rsp = local_variable_stack + 8
  BY DEF MachineInit
<1>2. GenInv /\ Listed
  BY <1>1, GenInitInv, GenInitListed
<1>3. ~Running
  BY <1>1 DEF GenInit, Running
<1>4. \A L : Placed(L)
  BY <1>1, <1>3 DEF Placed
<1> QED BY <1>2, <1>4 DEF Listed, MachineInv

LEMMA MachineInvariant ==
    ASSUME Orderly
    PROVE  Spec /\ []LargeReturnsLast => []MachineInv
<1>1. MachineInit => MachineInv
  BY MachineStarts
<1>2. MachineInv /\ LargeReturnsLast /\ LargeReturnsLast' /\ [Next]_vars => MachineInv'
  BY MachineStep
<1> QED BY <1>1, <1>2, PTL DEF Spec

\* Where the code is executed, on whatever path, rsp is what it was when that place
\* was printed: both arms of a branch and any number of rounds of a loop leave it alone,
\* so that gen() may count pushes and pops in the order of the text (codegen.c:12).
THEOREM HeightStatic == Orderly => (Spec /\ []LargeReturnsLast => []HeightIsStatic)
<1> SUFFICES ASSUME Orderly
             PROVE  Spec /\ []LargeReturnsLast => []HeightIsStatic
  OBVIOUS
<1>1. ASSUME MachineInv
      PROVE  HeightIsStatic
  <2>1. PICK L : Transcript(L) /\ Placed(L)
    BY <1>1 DEF MachineInv
  <2> SUFFICES ASSUME Running
               PROVE  rsp = out[pc].at
    BY DEF HeightIsStatic
  <2>2. L[pc].at = out[pc].at
    BY <1>1, <2>1, RunningLine DEF MachineInv
  <2> QED BY <2>1, <2>2 DEF Placed
<1> QED BY <1>1, MachineInvariant, PTL

LEMMA PlaceOfNext ==
    ASSUME NEW L, Listing(L), NEW i \in Nat, i \in DOMAIN L, i + 1 \in DOMAIN L,
           L[i + 1].instr.do # "entry", NEW p \in 0..3, L[i].place >= p
    PROVE  L[i + 1].place >= p + 1
<1>1. Follows(L[i], L[i + 1]) /\ L[i].place \in 0..4
  <2>1. L \in Seq(Lines) /\ Follows(L[i], L[i + 1])
    BY DEF Listing
  <2>2. L[i] \in Lines
    BY <2>1
  <2> QED BY <2>1, <2>2 DEF Lines
<1>2. L[i + 1].place = (IF L[i].place < 4 THEN L[i].place + 1 ELSE 4)
  BY <1>1 DEF Follows
<1> QED BY <1>1, <1>2

\* No path of a function's body pops the r12 that its prologue has saved, or a local
\* below it: every temporary that is popped was pushed on the same path (codegen.c:382).
THEOREM TemporariesBelow == Orderly => (Spec /\ []LargeReturnsLast => []TemporariesBelowFrame)
<1> SUFFICES ASSUME Orderly
             PROVE  Spec /\ []LargeReturnsLast => []TemporariesBelowFrame
  OBVIOUS
<1>1. ASSUME MachineInv
      PROVE  TemporariesBelowFrame
  <2>1. PICK L : Transcript(L) /\ Placed(L)
    BY <1>1 DEF MachineInv
  <2> SUFFICES ASSUME InBody
               PROVE  rsp <= SavedR12
    BY DEF TemporariesBelowFrame
  <2>2. Running /\ pc > 4 /\ \A k \in (pc - 3)..pc : out[k].instr.do # "entry"
    BY DEF InBody
  <2>3. /\ pc \in DOMAIN L /\ LineOK(L[pc]) /\ L[pc] \in Lines
        /\ DOMAIN out = 1..Len(out) /\ Len(out) \in Nat /\ DOMAIN L = 1..Len(L)
    BY <1>1, <2>1, <2>2, RunningLine DEF MachineInv
  <2>4. Listing(L) /\ \A i \in DOMAIN out : L[i].instr = out[i].instr
    BY <2>1 DEF Transcript
  <2>5. /\ pc \in Nat /\ pc \in 1..Len(out) /\ pc \in 1..Len(L) /\ pc > 4
    BY <2>1, <2>2, <2>3 DEF Running, Placed
  <2>6. PICK q \in Nat : q = pc - 4 /\ pc = q + 4
    <3>1. pc - 4 \in Nat /\ pc = (pc - 4) + 4
      BY <2>5
    <3> QED BY <3>1
  <2>7. \A k \in {q + 1, q + 2, q + 3, q + 4} : k \in DOMAIN L /\ L[k].instr.do # "entry"
    <3>1. \A k \in {q + 1, q + 2, q + 3, q + 4} : k \in (pc - 3)..pc /\ k \in 1..Len(out) /\ k \in 1..Len(L)
      BY <2>3, <2>5, <2>6
    <3> QED BY <2>2, <2>3, <2>4, <3>1
  <2>8. q \in DOMAIN L /\ L[q].place >= 0
    <3>1. q \in 1..Len(L) /\ L \in Seq(Lines)
      BY <2>4, <2>5, <2>6 DEF Listing
    <3>2. q \in DOMAIN L /\ L[q] \in Lines
      BY <2>3, <3>1
    <3> QED BY <3>2 DEF Lines
  <2>9. L[q + 1].place >= 1
    BY <2>4, <2>7, <2>8, PlaceOfNext
  <2>10. L[q + 2].place >= 2
    <3>1. q + 1 \in Nat /\ (q + 1) + 1 = q + 2
      OBVIOUS
    <3>2. L[(q + 1) + 1].place >= 1 + 1
      BY <2>4, <2>7, <2>9, <3>1, PlaceOfNext
    <3> QED BY <3>1, <3>2
  <2>11. L[q + 3].place >= 3
    <3>1. q + 2 \in Nat /\ (q + 2) + 1 = q + 3
      OBVIOUS
    <3>2. L[(q + 2) + 1].place >= 2 + 1
      BY <2>4, <2>7, <2>10, <3>1, PlaceOfNext
    <3> QED BY <3>1, <3>2
  <2>12. L[q + 4].place >= 4
    <3>1. q + 3 \in Nat /\ (q + 3) + 1 = q + 4
      OBVIOUS
    <3>2. L[(q + 3) + 1].place >= 3 + 1
      BY <2>4, <2>7, <2>11, <3>1, PlaceOfNext
    <3> QED BY <3>1, <3>2
  <2>13. L[pc].place = 4
    <3>1. L[pc].place \in 0..4
      BY <2>3 DEF Lines
    <3> QED BY <2>6, <2>12, <3>1
  <2>14. rsp = L[pc].at
    BY <2>1, <2>2 DEF Placed
  <2> QED BY <2>3, <2>13, <2>14 DEF LineOK
<1> QED BY <1>1, MachineInvariant, PTL

\* A function returns with its caller's r12, from the saved place right below the value
\* of a word, or before the copy of a larger one to where the caller wants it
\* (codegen.c:567-611).
THEOREM ReturnFinds == Orderly => (Spec /\ []LargeReturnsLast => []ReturnFindsSavedR12)
<1> SUFFICES ASSUME Orderly
             PROVE  Spec /\ []LargeReturnsLast => []ReturnFindsSavedR12
  OBVIOUS
<1>1. ASSUME MachineInv
      PROVE  ReturnFindsSavedR12
  <2>1. PICK L : Transcript(L) /\ Placed(L)
    BY <1>1 DEF MachineInv
  <2> SUFFICES ASSUME Running, instr.do = "epilogue"
               PROVE  IF instr.n > 8 THEN r12 = Callers ELSE rsp = SavedR12
    BY DEF ReturnFindsSavedR12
  <2>2. LineOK(L[pc]) /\ L[pc].instr = instr
    BY <1>1, <2>1, RunningLine DEF MachineInv
  <2>3. rsp = L[pc].at /\ (L[pc].r12 # Unknown => r12 = L[pc].r12)
    BY <2>1 DEF Placed
  <2>4. IF instr.n > 8 THEN L[pc].r12 = Callers ELSE L[pc].at = SavedR12
    BY <2>2 DEF LineOK
  <2> QED BY <2>3, <2>4 DEF Callers, Unknown
<1> QED BY <1>1, MachineInvariant, PTL

\* rsp is a multiple of 16 at every call, through nested calls and results of any size
\* (common.h:11), if the arguments in memory have a multiple of 16 bytes together: the
\* padding is computed before they are pushed (codegen.c:316-318).
THEOREM CallsAreAligned ==
    Orderly /\ ArgumentsPadded => (Spec /\ []LargeReturnsLast => []CallAligned)
<1> SUFFICES ASSUME Orderly, ArgumentsPadded
             PROVE  Spec /\ []LargeReturnsLast => []CallAligned
  OBVIOUS
<1>1. ASSUME MachineInv
      PROVE  CallAligned
  <2>1. PICK L : Transcript(L) /\ Placed(L)
    BY <1>1 DEF MachineInv
  <2> SUFFICES ASSUME Running, instr.do = "call"
               PROVE  rsp % 16 = 0
    BY DEF CallAligned
  <2>2. LineOK(L[pc]) /\ L[pc].instr = instr
    BY <1>1, <2>1, RunningLine DEF MachineInv
  <2>3. rsp = L[pc].at
    BY <2>1 DEF Placed
  <2> QED BY <2>2, <2>3 DEF LineOK
<1> QED BY <1>1, MachineInvariant, PTL

\* The function called finds in r12 the place reserved for its result, and the store of
\* a small result finds it on top of the stack: arguments, padding and the calls among
\* the arguments are taken off exactly (codegen.c:354-371), if no call has more than six
\* arguments outside of memory: r12 is set as if a seventh took one byte (codegen.c:356).
THEOREM ResultOnTop ==
    Orderly /\ SixRegistersSuffice => (Spec /\ []LargeReturnsLast => []ResultSlotOnTop)
<1> SUFFICES ASSUME Orderly, SixRegistersSuffice
             PROVE  Spec /\ []LargeReturnsLast => []ResultSlotOnTop
  OBVIOUS
<1>1. ASSUME MachineInv
      PROVE  ResultSlotOnTop
  <2>1. PICK L : Transcript(L) /\ Placed(L)
    BY <1>1 DEF MachineInv
  <2> SUFFICES ASSUME Running
               PROVE  /\ instr.do = "call" => r12 = instr.n
                      /\ instr.do = "mov_to_r12" => r12 = instr.n /\ rsp = instr.n
    BY DEF ResultSlotOnTop
  <2>2. LineOK(L[pc]) /\ L[pc].instr = instr /\ instr \in Tasks
    BY <1>1, <2>1, RunningLine DEF MachineInv
  <2>3. rsp = L[pc].at /\ (L[pc].r12 # Unknown => r12 = L[pc].r12)
    BY <2>1 DEF Placed
  <2>4. ASSUME instr.do \in {"call", "mov_to_r12"}
        PROVE  L[pc].r12 = instr.n /\ instr.n # Unknown
    <3>1. instr.n % 8 = 0 /\ L[pc].r12 = instr.n
      BY <2>2, <2>4 DEF LineOK
    <3>2. 2 % 8 = 2
      OBVIOUS
    <3> QED BY <3>1, <3>2 DEF Unknown
  <2>5. instr.do = "mov_to_r12" => L[pc].at = instr.n
    BY <2>2 DEF LineOK
  <2> QED BY <2>3, <2>4, <2>5
<1> QED BY <1>1, MachineInvariant, PTL

=============================================================================
