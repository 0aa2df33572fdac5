----------------------------- MODULE Parser_proofs -----------------------------
(***************************************************************************)
(* For every set of programs, every set of names and every length of       *)
(* code[]: the cursor stays within the tokens, code[] within its bounds,   *)
(* and each call of the parser finds the results that it uses.             *)
(*                                                                         *)
(* The argument is that of a stack machine: each call takes a number of    *)
(* results and gives a number, and what it calls instead of itself takes   *)
(* and gives as many in sum.                                               *)
(***************************************************************************)
EXTENDS Parser, TLAPS

\* How many results a call uses, and how many it leaves in their place.
Fresh ==
    {"num", "unary_expr", "operand of sizeof", "primary_expr", "unknown", "typeSpec", "stmt",
     "value of return", "first of for", "program", "function", "prototype"}
Silent == {"expect", "consume", "consume all"}

Takes(c) ==
    IF c.do = "node" THEN c.arg[2]
    ELSE IF c.do \in Fresh \cup Silent THEN 0
    ELSE IF c.do \in {"append", "swap", "element", "third of for"} THEN 2
    ELSE IF c.do = "for" THEN 4 ELSE 1

Gives(c) ==
    IF c.do \in Silent \cup {"drop"} THEN 0 ELSE IF c.do = "swap" THEN 2 ELSE 1

\* The calls that program() goes round with: one of them is always the last.
Bottoms == {"program", "function", "prototype", "code"}

\* A call remembers a place up to n and names of the program.
Made(c, n) ==
    /\ c.do = "node" => c.arg[2] \in Nat
    /\ c.do \in {"typeName", "function", "prototype"} => c.arg \in 1..n
    /\ c.do = "new_identifier" => c.arg[2] \in Idents \cup {""}
    /\ c.do = "unknown" => c.arg \in Idents

IsSeq(s) == \E S : s \in Seq(S)

\* From d results on the calls find what they use, and leave e results.
Runs(calls, d, e, n) ==
    /\ IsSeq(calls)
    /\ \A i \in 1..Len(calls) : Made(calls[i], n) /\ calls[i].do \notin Bottoms
    /\ \E f \in [0..Len(calls) -> Nat] :
          /\ f[0] = d /\ f[Len(calls)] = e
          /\ \A i \in 1..Len(calls) :
                Takes(calls[i]) <= f[i - 1] /\ f[i] = f[i - 1] - Takes(calls[i]) + Gives(calls[i])

\* What is left to do: calls, and then the rest of program().
Agenda(a, d, n, room) ==
    \E calls, last, e :
        /\ a = calls \o <<last>>
        /\ Runs(calls, d, e, n)
        /\ last.do \in Bottoms /\ Made(last, n) /\ Takes(last) <= e
        /\ last.do # "program" => room

Known(names) ==
    /\ IsSeq(names)
    /\ \A i \in DOMAIN names : names[i].name \in Idents /\ names[i].kind \in {"LVAR", "GVAR", "FUNC"}

State ==
    /\ text \in Texts /\ status \in Statuses
    /\ IsSeq(tokens) /\ token \in 1..(Len(tokens) + 1)
    /\ IsSeq(values)
    /\ Known(identifiers)
    /\ IsSeq(code) /\ Len(code) <= CodeSize

PInv == State /\ (Running => Agenda(agenda, Len(values), Len(tokens) + 1, Len(code) < CodeSize))

-----------------------------------------------------------------------------
(* Sequences. *)

LEMMA SeqFacts ==
    ASSUME NEW s, IsSeq(s)
    PROVE  Len(s) \in Nat /\ DOMAIN s = 1..Len(s)
BY DEF IsSeq

LEMMA SeqCat ==
    ASSUME NEW s, IsSeq(s), NEW t, IsSeq(t)
    PROVE  /\ IsSeq(s \o t) /\ Len(s \o t) = Len(s) + Len(t)
           /\ \A i \in 1..Len(s) : (s \o t)[i] = s[i]
           /\ \A i \in 1..Len(t) : (s \o t)[Len(s) + i] = t[i]
<1>1. PICK S : s \in Seq(S)
  BY DEF IsSeq
<1>2. PICK T : t \in Seq(T)
  BY DEF IsSeq
<1> DEFINE U == S \cup T
<1>3. s \in Seq(U) /\ t \in Seq(U)
  BY <1>1, <1>2
<1> HIDE DEF U
<1>4. s \o t \in Seq(U)
  BY <1>3
<1> QED BY <1>3, <1>4 DEF IsSeq

LEMMA SeqCatAssoc ==
    ASSUME NEW s, IsSeq(s), NEW t, IsSeq(t), NEW u, IsSeq(u)
    PROVE  (s \o t) \o u = s \o (t \o u)
<1>1. PICK S : s \in Seq(S)
  BY DEF IsSeq
<1>2. PICK T : t \in Seq(T)
  BY DEF IsSeq
<1>3. PICK R : u \in Seq(R)
  BY DEF IsSeq
<1> DEFINE U == S \cup T \cup R
<1>4. s \in Seq(U) /\ t \in Seq(U) /\ u \in Seq(U)
  BY <1>1, <1>2, <1>3
<1> HIDE DEF U
<1> QED BY <1>4

LEMMA SeqOne ==
    ASSUME NEW c
    PROVE  IsSeq(<<c>>) /\ Len(<<c>>) = 1 /\ <<c>>[1] = c /\ Head(<<c>>) = c /\ Tail(<<c>>) = <<>>
<1>1. <<c>> \in Seq({c})
  OBVIOUS
<1>2. Len(<<c>>) = 1 /\ <<c>>[1] = c /\ Head(<<c>>) = c
  OBVIOUS
<1>3. Tail(<<c>>) = <<>>
  BY <1>1
<1> QED BY <1>1, <1>2, <1>3 DEF IsSeq

LEMMA SeqEmpty == IsSeq(<<>>) /\ Len(<<>>) = 0
<1>1. <<>> \in Seq({})
  OBVIOUS
<1> QED BY <1>1 DEF IsSeq

LEMMA SeqAppend ==
    ASSUME NEW s, IsSeq(s), NEW x
    PROVE  /\ IsSeq(Append(s, x)) /\ Len(Append(s, x)) = Len(s) + 1
           /\ Append(s, x)[Len(s) + 1] = x
           /\ \A i \in 1..Len(s) : Append(s, x)[i] = s[i]
<1>1. PICK S : s \in Seq(S)
  BY DEF IsSeq
<1> DEFINE U == S \cup {x}
<1>2. s \in Seq(U) /\ x \in U
  BY <1>1
<1> HIDE DEF U
<1>3. Append(s, x) \in Seq(U)
  BY <1>2
<1> QED BY <1>2, <1>3 DEF IsSeq

\* The head and the tail of a sequence.
LEMMA SeqCons ==
    ASSUME NEW s, IsSeq(s), s # <<>>
    PROVE  /\ Len(s) \in Nat \ {0} /\ Head(s) = s[1]
           /\ IsSeq(Tail(s)) /\ Len(Tail(s)) = Len(s) - 1
           /\ \A i \in 1..(Len(s) - 1) : Tail(s)[i] = s[i + 1]
<1>1. PICK S : s \in Seq(S)
  BY DEF IsSeq
<1>2. Tail(s) \in Seq(S) /\ Len(s) \in Nat \ {0} /\ Len(Tail(s)) = Len(s) - 1
  BY <1>1
<1>3. \A i \in 1..(Len(s) - 1) : Tail(s)[i] = s[i + 1]
  BY <1>1, <1>2
<1> QED BY <1>1, <1>2, <1>3 DEF IsSeq

LEMMA TailCat ==
    ASSUME NEW s, IsSeq(s), s # <<>>, NEW t, IsSeq(t)
    PROVE  Head(s \o t) = Head(s) /\ Tail(s \o t) = Tail(s) \o t /\ s \o t # <<>>
<1>1. PICK S : s \in Seq(S)
  BY DEF IsSeq
<1>2. PICK T : t \in Seq(T)
  BY DEF IsSeq
<1> DEFINE U == S \cup T
<1>3. s \in Seq(U) /\ t \in Seq(U)
  BY <1>1, <1>2
<1> HIDE DEF U
<1> QED BY <1>3

LEMMA EmptyCat ==
    ASSUME NEW s, IsSeq(s)
    PROVE  <<>> \o s = s /\ s \o <<>> = s
BY DEF IsSeq

-----------------------------------------------------------------------------
(* How calls follow each other. *)

LEMMA RunNone ==
    ASSUME NEW n, NEW d \in Nat
    PROVE  Runs(<<>>, d, d, n)
<1> DEFINE f == [i \in 0..0 |-> d]
<1>1. f \in [0..0 -> Nat] /\ f[0] = d
  OBVIOUS
<1> HIDE DEF f
<1>2. \A i \in 1..Len(<<>>) : FALSE
  BY SeqEmpty
<1>3. \E g \in [0..Len(<<>>) -> Nat] :
          /\ g[0] = d /\ g[Len(<<>>)] = d
          /\ \A i \in 1..Len(<<>>) :
                Takes(<<>>[i]) <= g[i - 1] /\ g[i] = g[i - 1] - Takes(<<>>[i]) + Gives(<<>>[i])
  BY <1>1, <1>2, SeqEmpty
<1> QED BY <1>2, <1>3, SeqEmpty DEF Runs

LEMMA RunEmpty ==
    ASSUME NEW n, NEW d, NEW e, Runs(<<>>, d, e, n)
    PROVE  d = e /\ d \in Nat
<1>1. PICK f \in [0..Len(<<>>) -> Nat] : f[0] = d /\ f[Len(<<>>)] = e
  BY DEF Runs
<1> QED BY <1>1, SeqEmpty

\* A call that takes t results and gives g.
Is(c, t, g, n) == Made(c, n) /\ c.do \notin Bottoms /\ Takes(c) = t /\ Gives(c) = g

LEMMA RunOne ==
    ASSUME NEW n, NEW c, NEW t \in Nat, NEW g \in Nat, Is(c, t, g, n), NEW d \in Nat, t <= d
    PROVE  Runs(<<c>>, d, d - t + g, n)
<1> DEFINE f == [i \in 0..1 |-> IF i = 0 THEN d ELSE d - t + g]
<1>1. f \in [0..1 -> Nat] /\ f[0] = d /\ f[1] = d - t + g
  OBVIOUS
<1> HIDE DEF f
<1>2. Takes(c) = t /\ Gives(c) = g /\ Made(c, n) /\ c.do \notin Bottoms
  BY DEF Is
<1>3. \A i \in 1..1 : i = 1 /\ i - 1 = 0
  OBVIOUS
<1>4. \A i \in 1..1 :
          Takes(<<c>>[i]) <= f[i - 1] /\ f[i] = f[i - 1] - Takes(<<c>>[i]) + Gives(<<c>>[i])
  BY <1>1, <1>2, <1>3, SeqOne
<1>5. \E h \in [0..1 -> Nat] :
          /\ h[0] = d /\ h[1] = d - t + g
          /\ \A i \in 1..1 :
                Takes(<<c>>[i]) <= h[i - 1] /\ h[i] = h[i - 1] - Takes(<<c>>[i]) + Gives(<<c>>[i])
  BY <1>1, <1>4
<1>6. \A i \in 1..1 : Made(<<c>>[i], n) /\ <<c>>[i].do \notin Bottoms
  BY <1>2, <1>3, SeqOne
<1> QED BY <1>5, <1>6, SeqOne DEF Runs

\* The usual shapes: a call that gives one result, one that leaves as many as it takes,
\* and one that makes one of two.
LEMMA Adds ==
    ASSUME NEW n, NEW c, Is(c, 0, 1, n), NEW d \in Nat
    PROVE  Runs(<<c>>, d, d + 1, n)
<1>1. 0 <= d /\ d - 0 + 1 = d + 1
  OBVIOUS
<1> QED BY <1>1, RunOne

LEMMA Keeps ==
    ASSUME NEW n, NEW c, NEW t \in Nat, Is(c, t, t, n), NEW d \in Nat, t <= d
    PROVE  Runs(<<c>>, d, d, n)
<1>1. d - t + t = d
  OBVIOUS
<1> QED BY <1>1, RunOne

LEMMA Joins ==
    ASSUME NEW n, NEW c, Is(c, 2, 1, n), NEW d \in Nat \ {0}
    PROVE  Runs(<<c>>, d + 1, d, n)
<1>1. d + 1 \in Nat /\ 2 <= d + 1 /\ (d + 1) - 2 + 1 = d
  OBVIOUS
<1> QED BY <1>1, RunOne

LEMMA Behind ==
    ASSUME NEW k \in Nat, NEW l \in Nat, NEW i \in 1..(k + l), ~(i <= k)
    PROVE  \E j \in 1..l : i = k + j /\ j \in 0..l /\ j - 1 \in 0..l /\ i - 1 = k + (j - 1)
<1>1. /\ i - k \in 1..l /\ i = k + (i - k) /\ i - k \in 0..l
      /\ (i - k) - 1 \in 0..l /\ i - 1 = k + ((i - k) - 1)
  OBVIOUS
<1> QED BY <1>1

LEMMA RunCat ==
    ASSUME NEW n, NEW a, NEW b, NEW d, NEW e, NEW f, Runs(a, d, e, n), Runs(b, e, f, n)
    PROVE  Runs(a \o b, d, f, n)
<1> DEFINE s == a \o b
<1>1. IsSeq(a) /\ IsSeq(b)
  BY DEF Runs
<1>2. /\ Len(a) \in Nat /\ Len(b) \in Nat /\ IsSeq(s) /\ Len(s) = Len(a) + Len(b)
      /\ \A i \in 1..Len(a) : s[i] = a[i]
      /\ \A i \in 1..Len(b) : s[Len(a) + i] = b[i]
  BY <1>1, SeqFacts, SeqCat
<1> HIDE DEF s
<1>3. PICK x \in [0..Len(a) -> Nat] :
          /\ x[0] = d /\ x[Len(a)] = e
          /\ \A i \in 1..Len(a) : Takes(a[i]) <= x[i - 1] /\ x[i] = x[i - 1] - Takes(a[i]) + Gives(a[i])
  BY DEF Runs
<1>4. PICK y \in [0..Len(b) -> Nat] :
          /\ y[0] = e /\ y[Len(b)] = f
          /\ \A i \in 1..Len(b) : Takes(b[i]) <= y[i - 1] /\ y[i] = y[i - 1] - Takes(b[i]) + Gives(b[i])
  BY DEF Runs
<1> DEFINE z == [i \in 0..Len(s) |-> IF i <= Len(a) THEN x[i] ELSE y[i - Len(a)]]
<1>5. z \in [0..Len(s) -> Nat]
  <2> SUFFICES ASSUME NEW i \in 0..Len(s)
               PROVE  (IF i <= Len(a) THEN x[i] ELSE y[i - Len(a)]) \in Nat
    OBVIOUS
  <2>1. CASE i <= Len(a)
    <3>1. i \in 0..Len(a)
      BY <1>2, <2>1
    <3> QED BY <1>3, <2>1, <3>1
  <2>2. CASE ~(i <= Len(a))
    <3>1. i - Len(a) \in 0..Len(b)
      BY <1>2, <2>2
    <3> QED BY <1>4, <2>2, <3>1
  <2> QED BY <2>1, <2>2
<1>6. /\ \A i \in 0..Len(a) : z[i] = x[i]
      /\ \A i \in 0..Len(b) : z[Len(a) + i] = y[i]
  <2>1. ASSUME NEW i \in 0..Len(a)
        PROVE  z[i] = x[i]
    BY <1>2
  <2>2. ASSUME NEW i \in 0..Len(b)
        PROVE  z[Len(a) + i] = y[i]
    <3>1. Len(a) + i \in 0..Len(s) /\ (Len(a) + i) - Len(a) = i
      BY <1>2
    <3>2. CASE i = 0
      <4>1. Len(a) + i = Len(a) /\ Len(a) <= Len(a)
        BY <1>2, <3>2
      <4> QED BY <1>3, <1>4, <3>1, <3>2, <4>1
    <3>3. CASE i # 0
      <4>1. ~(Len(a) + i <= Len(a))
        BY <1>2, <3>3
      <4> QED BY <3>1, <4>1
    <3> QED BY <3>2, <3>3
  <2> QED BY <2>1, <2>2
<1> HIDE DEF z
<1>7. ASSUME NEW i \in 1..Len(s)
      PROVE  \/ i \in 1..Len(a) /\ i - 1 \in 0..Len(a) /\ i \in 0..Len(a)
             \/ \E j \in 1..Len(b) : /\ i = Len(a) + j /\ j \in 0..Len(b)
                                     /\ j - 1 \in 0..Len(b) /\ i - 1 = Len(a) + (j - 1)
  <2>1. CASE i <= Len(a)
    BY <1>2, <2>1
  <2>2. CASE ~(i <= Len(a))
    <3>1. Len(a) \in Nat /\ Len(b) \in Nat /\ i \in 1..(Len(a) + Len(b))
      BY <1>2
    <3>2. \E j \in 1..Len(b) : /\ i = Len(a) + j /\ j \in 0..Len(b)
                               /\ j - 1 \in 0..Len(b) /\ i - 1 = Len(a) + (j - 1)
      BY <2>2, <3>1, Behind
    <3> QED BY <3>2
  <2> QED BY <2>1, <2>2
<1>8. ASSUME NEW i \in 1..Len(s)
      PROVE  /\ Takes(s[i]) <= z[i - 1] /\ z[i] = z[i - 1] - Takes(s[i]) + Gives(s[i])
             /\ Made(s[i], n) /\ s[i].do \notin Bottoms
  <2>1. CASE i \in 1..Len(a) /\ i - 1 \in 0..Len(a) /\ i \in 0..Len(a)
    <3>1. s[i] = a[i] /\ z[i] = x[i] /\ z[i - 1] = x[i - 1]
      BY <1>2, <1>6, <2>1
    <3>2. Made(a[i], n) /\ a[i].do \notin Bottoms
      BY <2>1 DEF Runs
    <3> QED BY <1>3, <2>1, <3>1, <3>2
  <2>2. ASSUME NEW j \in 1..Len(b), i = Len(a) + j, j \in 0..Len(b), j - 1 \in 0..Len(b),
               i - 1 = Len(a) + (j - 1)
        PROVE  /\ Takes(s[i]) <= z[i - 1] /\ z[i] = z[i - 1] - Takes(s[i]) + Gives(s[i])
               /\ Made(s[i], n) /\ s[i].do \notin Bottoms
    <3>1. s[i] = b[j] /\ z[i] = y[j] /\ z[i - 1] = y[j - 1]
      BY <1>2, <1>6, <2>2
    <3>2. Made(b[j], n) /\ b[j].do \notin Bottoms
      BY DEF Runs
    <3> QED BY <1>4, <3>1, <3>2
  <2> QED BY <1>7, <2>1, <2>2
<1>9. z[0] = d /\ z[Len(s)] = f
  <2>1. 0 \in 0..Len(a) /\ Len(b) \in 0..Len(b) /\ Len(s) = Len(a) + Len(b)
    BY <1>2
  <2> QED BY <1>3, <1>4, <1>6, <2>1
<1>10. \E g \in [0..Len(s) -> Nat] :
          /\ g[0] = d /\ g[Len(s)] = f
          /\ \A i \in 1..Len(s) : Takes(s[i]) <= g[i - 1] /\ g[i] = g[i - 1] - Takes(s[i]) + Gives(s[i])
  BY <1>5, <1>8, <1>9
<1>11. Runs(s, d, f, n)
  BY <1>2, <1>8, <1>10 DEF Runs
<1> QED BY <1>11 DEF s

\* The first call, and what is left behind it.
LEMMA RunHead ==
    ASSUME NEW n, NEW s, NEW d, NEW e, Runs(s, d, e, n), s # <<>>
    PROVE  /\ d \in Nat /\ IsSeq(s) /\ IsSeq(Tail(s))
           /\ Made(Head(s), n) /\ Head(s).do \notin Bottoms
           /\ Takes(Head(s)) <= d
           /\ Runs(Tail(s), d - Takes(Head(s)) + Gives(Head(s)), e, n)
<1> DEFINE t == Tail(s)
<1>1. IsSeq(s)
  BY DEF Runs
<1>2. /\ Len(s) \in Nat \ {0} /\ Head(s) = s[1]
      /\ IsSeq(t) /\ Len(t) = Len(s) - 1
      /\ \A i \in 1..(Len(s) - 1) : t[i] = s[i + 1]
  BY <1>1, SeqCons
<1> HIDE DEF t
<1>3. PICK x \in [0..Len(s) -> Nat] :
          /\ x[0] = d /\ x[Len(s)] = e
          /\ \A i \in 1..Len(s) : Takes(s[i]) <= x[i - 1] /\ x[i] = x[i - 1] - Takes(s[i]) + Gives(s[i])
  BY DEF Runs
<1>4. 1 \in 1..Len(s) /\ 1 - 1 = 0 /\ 0 \in 0..Len(s) /\ 1 \in 0..Len(s)
  BY <1>2
<1>5. /\ d \in Nat /\ Takes(Head(s)) <= d /\ x[1] = d - Takes(Head(s)) + Gives(Head(s))
      /\ Made(Head(s), n) /\ Head(s).do \notin Bottoms
  <2>1. Takes(s[1]) <= x[0] /\ x[1] = x[0] - Takes(s[1]) + Gives(s[1]) /\ x[0] \in Nat
    BY <1>3, <1>4
  <2>2. Made(s[1], n) /\ s[1].do \notin Bottoms
    BY <1>4 DEF Runs
  <2> QED BY <1>2, <1>3, <2>1, <2>2
<1> DEFINE y == [i \in 0..Len(t) |-> x[i + 1]]
<1>6. \A i \in 0..Len(t) : i + 1 \in 0..Len(s) /\ y[i] = x[i + 1]
  BY <1>2
<1>7. y \in [0..Len(t) -> Nat]
  BY <1>3, <1>6
<1> HIDE DEF y
<1>8. ASSUME NEW i \in 1..Len(t)
      PROVE  /\ Takes(t[i]) <= y[i - 1] /\ y[i] = y[i - 1] - Takes(t[i]) + Gives(t[i])
             /\ Made(t[i], n) /\ t[i].do \notin Bottoms
  <2>1. /\ i \in 0..Len(t) /\ i - 1 \in 0..Len(t) /\ (i - 1) + 1 = i /\ i + 1 \in 1..Len(s)
        /\ (i + 1) - 1 = i /\ i \in 1..(Len(s) - 1)
    BY <1>2
  <2>2. y[i] = x[i + 1] /\ y[i - 1] = x[i] /\ t[i] = s[i + 1]
    BY <1>2, <1>6, <2>1
  <2>3. Made(s[i + 1], n) /\ s[i + 1].do \notin Bottoms
    BY <2>1 DEF Runs
  <2>4. Takes(s[i + 1]) <= x[i] /\ x[i + 1] = x[i] - Takes(s[i + 1]) + Gives(s[i + 1])
    BY <1>3, <2>1
  <2> QED BY <2>2, <2>3, <2>4
<1>9. y[0] = x[1] /\ y[Len(t)] = e
  <2>1. 0 \in 0..Len(t) /\ Len(t) \in 0..Len(t) /\ Len(t) + 1 = Len(s) /\ 0 + 1 = 1
    BY <1>2
  <2> QED BY <1>3, <1>6, <2>1
<1>10. \E g \in [0..Len(t) -> Nat] :
          /\ g[0] = x[1] /\ g[Len(t)] = e
          /\ \A i \in 1..Len(t) : Takes(t[i]) <= g[i - 1] /\ g[i] = g[i - 1] - Takes(t[i]) + Gives(t[i])
  BY <1>7, <1>8, <1>9
<1>11. Runs(t, x[1], e, n)
  BY <1>2, <1>8, <1>10 DEF Runs
<1> QED BY <1>1, <1>2, <1>5, <1>11 DEF t

-----------------------------------------------------------------------------
(* The calls. *)

\* Calls that leave as many results as they take, one.
Steady ==
    {"operators", "assign", "postfix_expr", "block", "list", "pointer", "name", "array",
     "declaration", "end of declaration", "initializer", "next of list", "list of", "more of",
     "sizeof", "else", "second of for", "parameters", "return"}

\* Calls that make a result of nothing.
Making ==
    {"num", "unary_expr", "operand of sizeof", "primary_expr", "typeSpec", "stmt",
     "value of return", "first of for"}

LEMMA SteadyCalls ==
    ASSUME NEW do \in Steady, NEW arg, NEW n
    PROVE  Is(Call(do, arg), 1, 1, n)
BY Zenon DEF Steady, Is, Call, Made, Takes, Gives, Bottoms, Fresh, Silent

LEMMA MakingCalls ==
    ASSUME NEW do \in Making, NEW arg, NEW n
    PROVE  Is(Call(do, arg), 0, 1, n)
BY Zenon DEF Making, Is, Call, Made, Takes, Gives, Bottoms, Fresh, Silent

LEMMA SilentCalls ==
    ASSUME NEW do \in Silent, NEW arg, NEW n
    PROVE  Is(Call(do, arg), 0, 0, n)
BY Zenon DEF Is, Call, Made, Takes, Gives, Bottoms, Fresh, Silent

LEMMA NodeCalls ==
    ASSUME NEW kind, NEW m \in Nat, NEW n
    PROVE  Is(node(kind, m), m, 1, n)
<1>1. node(kind, m).do = "node" /\ node(kind, m).arg[2] = m
  BY DEF node, Call
<1>2. Made(node(kind, m), n)
  BY <1>1, Zenon DEF Made
<1>3. Takes(node(kind, m)) = m /\ Gives(node(kind, m)) = 1 /\ node(kind, m).do \notin Bottoms
  BY <1>1, Zenon DEF Takes, Gives, Bottoms, Silent
<1> QED BY <1>2, <1>3 DEF Is

LEMMA OtherCalls ==
    ASSUME NEW arg, NEW n
    PROVE  /\ Is(append, 2, 1, n) /\ Is(drop, 1, 0, n) /\ Is(Call("swap", 0), 2, 2, n)
           /\ Is(Call("element", arg), 2, 1, n)
           /\ Is(Call("third of for", arg), 2, 1, n) /\ Is(Call("for", arg), 4, 1, n)
<1>1. Is(append, 2, 1, n) /\ Is(drop, 1, 0, n) /\ Is(Call("swap", 0), 2, 2, n)
  BY Zenon DEF append, drop, Is, Call, Made, Takes, Gives, Bottoms, Fresh, Silent
<1>2. Is(Call("element", arg), 2, 1, n)
  BY Zenon DEF Is, Call, Made, Takes, Gives, Bottoms, Fresh, Silent
<1>3. Is(Call("third of for", arg), 2, 1, n) /\ Is(Call("for", arg), 4, 1, n)
  BY Zenon DEF Is, Call, Made, Takes, Gives, Bottoms, Fresh, Silent
<1> QED BY <1>1, <1>2, <1>3

LEMMA RememberingCalls ==
    ASSUME NEW n, NEW k \in 1..n, NEW kind, NEW name \in Idents
    PROVE  /\ Is(Call("typeName", k), 1, 1, n)
           /\ Is(Call("new_identifier", <<kind, name>>), 1, 1, n)
           /\ Is(Call("new_identifier", <<kind, "">>), 1, 1, n)
           /\ Is(Call("unknown", name), 0, 1, n)
<1>1. Is(Call("typeName", k), 1, 1, n) /\ Is(Call("unknown", name), 0, 1, n)
  BY Zenon DEF Is, Call, Made, Takes, Gives, Bottoms, Fresh, Silent
<1>2. /\ Is(Call("new_identifier", <<kind, name>>), 1, 1, n)
      /\ Is(Call("new_identifier", <<kind, "">>), 1, 1, n)
  BY Zenon DEF Is, Call, Made, Takes, Gives, Bottoms, Fresh, Silent
<1> QED BY <1>1, <1>2

\* The last calls.
LEMMA BottomCalls ==
    ASSUME NEW n, NEW k \in 1..n
    PROVE  /\ Call("function", k).do \in Bottoms /\ Made(Call("function", k), n)
           /\ Takes(Call("function", k)) = 0 /\ Call("function", k).do # "program"
           /\ Call("prototype", k).do \in Bottoms /\ Made(Call("prototype", k), n)
           /\ Takes(Call("prototype", k)) = 0 /\ Call("prototype", k).do # "program"
           /\ Call("code", 0).do \in Bottoms /\ Made(Call("code", 0), n)
           /\ Takes(Call("code", 0)) = 1 /\ Call("code", 0).do # "program"
           /\ program.do \in Bottoms /\ Made(program, n)
           /\ Takes(program) = 0 /\ program.do = "program"
BY Zenon DEF Call, program, Made, Takes, Bottoms, Fresh, Silent

-----------------------------------------------------------------------------
(* Several calls. *)

LEMMA Two ==
    ASSUME NEW a, NEW b
    PROVE  <<a, b>> = <<a>> \o <<b>>
<1> DEFINE S == {a, b}
<1>1. <<a>> \in Seq(S) /\ <<b>> \in Seq(S) /\ <<a, b>> \in Seq(S)
  OBVIOUS
<1>2. Len(<<a>>) = 1 /\ Len(<<b>>) = 1 /\ Len(<<a, b>>) = 2
  OBVIOUS
<1>3. <<a>>[1] = a /\ <<b>>[1] = b /\ <<a, b>>[1] = a /\ <<a, b>>[2] = b
  OBVIOUS
<1> HIDE DEF S
<1>4. <<a, b>> = <<a>> \o <<b>>
  <2> DEFINE p == <<a>>
  <2> DEFINE q == <<b>>
  <2> DEFINE r == <<a, b>>
  <2>1. /\ p \in Seq(S) /\ q \in Seq(S) /\ r \in Seq(S) /\ Len(p) = 1 /\ Len(q) = 1 /\ Len(r) = 2
        /\ r[1] = p[1] /\ r[2] = q[1]
    BY <1>1, <1>2, <1>3
  <2> HIDE DEF p, q, r
  <2> DEFINE t == p \o q
  <2>2. t \in Seq(S)
    BY <2>1
  <2>3. Len(t) = 2 /\ t[1] = p[1] /\ t[2] = q[1]
    <3>1. IsSeq(p) /\ IsSeq(q)
      BY <2>1 DEF IsSeq
    <3>2. 1 \in 1..1 /\ 1 + 1 = 2
      OBVIOUS
    <3>3. /\ Len(t) = Len(p) + Len(q)
          /\ \A i \in 1..Len(p) : t[i] = p[i]
          /\ \A i \in 1..Len(q) : t[Len(p) + i] = q[i]
      BY <3>1, SeqCat
    <3>4. t[1] = p[1] /\ t[1 + 1] = q[1] /\ Len(t) = 1 + 1
      BY <2>1, <3>2, <3>3, Zenon
    <3> QED BY <3>2, <3>4
  <2> HIDE DEF t
  <2>4. r = [i \in 1..2 |-> r[i]] /\ t = [i \in 1..2 |-> t[i]]
    BY <2>1, <2>2, <2>3
  <2>5. \A i \in 1..2 : r[i] = t[i]
    BY <2>1, <2>3
  <2>6. r = t
    BY <2>4, <2>5, Zenon
  <2> QED BY <2>6 DEF p, q, r, t
<1> QED BY <1>4

LEMMA Five ==
    ASSUME NEW a, NEW b, NEW c, NEW x, NEW y
    PROVE  <<a, b, c, x, y>> = <<a, b, c, x>> \o <<y>>
OBVIOUS

LEMMA Run2 ==
    ASSUME NEW n, NEW a, NEW b, NEW d, NEW e, NEW f, Runs(<<a>>, d, e, n), Runs(<<b>>, e, f, n)
    PROVE  Runs(<<a, b>>, d, f, n)
BY Two, RunCat

LEMMA Run3 ==
    ASSUME NEW n, NEW a, NEW b, NEW c, NEW d, NEW e, NEW f,
           Runs(<<a, b>>, d, e, n), Runs(<<c>>, e, f, n)
    PROVE  Runs(<<a, b, c>>, d, f, n)
<1>1. <<a, b, c>> = <<a, b>> \o <<c>>
  OBVIOUS
<1> QED BY <1>1, RunCat

LEMMA Run4 ==
    ASSUME NEW n, NEW a, NEW b, NEW c, NEW x, NEW d, NEW e, NEW f,
           Runs(<<a, b, c>>, d, e, n), Runs(<<x>>, e, f, n)
    PROVE  Runs(<<a, b, c, x>>, d, f, n)
<1>1. <<a, b, c, x>> = <<a, b, c>> \o <<x>>
  OBVIOUS
<1> QED BY <1>1, RunCat

LEMMA Run5 ==
    ASSUME NEW n, NEW a, NEW b, NEW c, NEW x, NEW y, NEW d, NEW e, NEW f,
           Runs(<<a, b, c, x>>, d, e, n), Runs(<<y>>, e, f, n)
    PROVE  Runs(<<a, b, c, x, y>>, d, f, n)
<1>1. <<a, b, c, x, y>> = <<a, b, c, x>> \o <<y>>
  BY Five
<1> QED BY <1>1, RunCat

LEMMA Run8 ==
    ASSUME NEW n, NEW a, NEW b, NEW c, NEW x, NEW s, NEW t, NEW u, NEW v, NEW d, NEW e, NEW f,
           Runs(<<a, b, c, x>>, d, e, n), Runs(<<s, t, u, v>>, e, f, n)
    PROVE  Runs(<<a, b, c, x, s, t, u, v>>, d, f, n)
<1>1. <<a, b, c, x, s, t, u, v>> = <<a, b, c, x>> \o <<s, t, u, v>>
  OBVIOUS
<1> QED BY <1>1, RunCat

\* What the functions of the grammar call.
LEMMA RunExpressions ==
    ASSUME NEW n, NEW d \in Nat
    PROVE  /\ Runs(<<unary_expr>>, d, d + 1, n)
           /\ Runs(conditional_expr, d, d + 1, n)
           /\ Runs(assign_expr, d, d + 1, n)
           /\ Runs(expr, d, d + 1, n)
           /\ \A hi, lo : Runs(Waiting(hi, lo), d + 1, d + 1, n)
<1>1. Runs(<<unary_expr>>, d, d + 1, n)
  <2>1. Is(unary_expr, 0, 1, n)
    BY MakingCalls DEF Making, unary_expr
  <2> QED BY <2>1, Adds
<1>2. ASSUME NEW hi, NEW lo
      PROVE  Runs(Waiting(hi, lo), d + 1, d + 1, n)
  <2>1. Is(Call("operators", <<hi, lo>>), 1, 1, n)
    BY SteadyCalls DEF Steady
  <2>2. d + 1 \in Nat /\ 1 <= d + 1
    OBVIOUS
  <2>3. Runs(<<Call("operators", <<hi, lo>>)>>, d + 1, d + 1, n)
    BY <2>1, <2>2, Keeps
  <2>4. Runs(<<>>, d + 1, d + 1, n)
    BY <2>2, RunNone
  <2> QED BY <2>3, <2>4 DEF Waiting
<1>3. Runs(conditional_expr, d, d + 1, n)
  BY <1>1, <1>2, RunCat DEF conditional_expr
<1>4. Runs(assign_expr, d, d + 1, n)
  <2>1. Is(Call("assign", 1), 1, 1, n)
    BY SteadyCalls DEF Steady
  <2>2. Runs(<<Call("assign", 1)>>, d + 1, d + 1, n)
    <3>1. d + 1 \in Nat /\ 1 <= d + 1 /\ 1 \in Nat
      OBVIOUS
    <3> QED BY <2>1, <3>1, Keeps
  <2> QED BY <1>3, <2>2, RunCat DEF assign_expr
<1> QED BY <1>1, <1>2, <1>3, <1>4 DEF expr

\* One call, of those that are used most.
LEMMA RunCalls ==
    ASSUME NEW n, NEW d \in Nat
    PROVE  /\ \A do \in Making : \A arg : Runs(<<Call(do, arg)>>, d, d + 1, n)
           /\ \A do \in Silent : \A arg : Runs(<<Call(do, arg)>>, d, d, n)
           /\ \A do \in Steady : \A arg : Runs(<<Call(do, arg)>>, d + 1, d + 1, n)
           /\ \A kind : /\ Runs(<<node(kind, 0)>>, d, d + 1, n)
                        /\ Runs(<<node(kind, 1)>>, d + 1, d + 1, n)
                        /\ Runs(<<node(kind, 2)>>, d + 2, d + 1, n)
           /\ Runs(<<append>>, d + 2, d + 1, n)
           /\ Runs(<<drop>>, d + 1, d, n)
           /\ Runs(<<Call("swap", 0)>>, d + 2, d + 2, n)
           /\ \A arg : Runs(<<Call("element", arg)>>, d + 2, d + 1, n)
           /\ \A arg : Runs(<<Call("third of for", arg)>>, d + 2, d + 1, n)
           /\ \A arg : Runs(<<Call("for", arg)>>, d + 4, d + 1, n)
<1>1. /\ d + 1 \in Nat /\ d + 1 \in Nat \ {0} /\ d + 2 \in Nat /\ 1 <= d + 1 /\ 0 <= d
      /\ 2 <= d + 2 /\ (d + 1) + 1 = d + 2 /\ 0 \in Nat /\ 1 \in Nat /\ 2 \in Nat
  OBVIOUS
<1>2. \A do \in Making : \A arg : Runs(<<Call(do, arg)>>, d, d + 1, n)
  BY MakingCalls, Adds
<1>3. \A do \in Silent : \A arg : Runs(<<Call(do, arg)>>, d, d, n)
  BY <1>1, SilentCalls, Keeps
<1>4. \A do \in Steady : \A arg : Runs(<<Call(do, arg)>>, d + 1, d + 1, n)
  BY <1>1, SteadyCalls, Keeps
<1>5. ASSUME NEW kind
      PROVE  /\ Runs(<<node(kind, 0)>>, d, d + 1, n)
             /\ Runs(<<node(kind, 1)>>, d + 1, d + 1, n)
             /\ Runs(<<node(kind, 2)>>, d + 2, d + 1, n)
  <2>1. Is(node(kind, 0), 0, 1, n) /\ Is(node(kind, 1), 1, 1, n) /\ Is(node(kind, 2), 2, 1, n)
    BY <1>1, NodeCalls
  <2>2. Runs(<<node(kind, 0)>>, d, d + 1, n) /\ Runs(<<node(kind, 1)>>, d + 1, d + 1, n)
    BY <1>1, <2>1, Adds, Keeps
  <2>3. Runs(<<node(kind, 2)>>, (d + 1) + 1, d + 1, n)
    BY <1>1, <2>1, Joins
  <2> QED BY <1>1, <2>2, <2>3
<1>6. ASSUME NEW arg
      PROVE  /\ Runs(<<Call("element", arg)>>, d + 2, d + 1, n)
             /\ Runs(<<Call("third of for", arg)>>, d + 2, d + 1, n)
             /\ Runs(<<Call("for", arg)>>, d + 4, d + 1, n)
  <2> DEFINE E == Call("element", arg)
  <2> DEFINE T == Call("third of for", arg)
  <2> DEFINE F == Call("for", arg)
  <2>1. Is(E, 2, 1, n) /\ Is(T, 2, 1, n) /\ Is(F, 4, 1, n)
    BY OtherCalls
  <2> HIDE DEF E, T, F
  <2>2. Runs(<<E>>, (d + 1) + 1, d + 1, n) /\ Runs(<<T>>, (d + 1) + 1, d + 1, n)
    BY <1>1, <2>1, Joins
  <2>3. d + 4 \in Nat /\ 4 <= d + 4 /\ 4 \in Nat /\ (d + 4) - 4 + 1 = d + 1
    OBVIOUS
  <2>4. Runs(<<F>>, (d + 4) - 4 + 1 + 3, d + 1, n)
    <3>1. (d + 4) - 4 + 1 + 3 = d + 4
      OBVIOUS
    <3>2. Runs(<<F>>, d + 4, (d + 4) - 4 + 1, n)
      BY <1>1, <2>1, <2>3, RunOne
    <3> QED BY <2>3, <3>1, <3>2
  <2>5. (d + 4) - 4 + 1 + 3 = d + 4
    OBVIOUS
  <2> QED BY <1>1, <2>2, <2>4, <2>5 DEF E, T, F
<1>7. Runs(<<append>>, d + 2, d + 1, n) /\ Runs(<<Call("swap", 0)>>, d + 2, d + 2, n)
  <2> DEFINE S == Call("swap", 0)
  <2>1. Is(append, 2, 1, n) /\ Is(S, 2, 2, n)
    BY OtherCalls
  <2> HIDE DEF S
  <2>2. Runs(<<append>>, (d + 1) + 1, d + 1, n) /\ Runs(<<S>>, d + 2, d + 2, n)
    BY <1>1, <2>1, Joins, Keeps
  <2> QED BY <1>1, <2>2 DEF S
<1>8. Runs(<<drop>>, d + 1, d, n)
  <2>1. Is(drop, 1, 0, n)
    BY OtherCalls
  <2>2. (d + 1) - 1 + 0 = d
    OBVIOUS
  <2>3. Runs(<<drop>>, d + 1, (d + 1) - 1 + 0, n)
    BY <1>1, <2>1, RunOne
  <2> QED BY <2>2, <2>3
<1> QED BY <1>2, <1>3, <1>4, <1>5, <1>6, <1>7, <1>8

-----------------------------------------------------------------------------
(* The results. *)

LEMMA SubSeqLength ==
    ASSUME NEW s, IsSeq(s), NEW i \in Nat \ {0}, NEW j \in Nat, j <= Len(s), i <= j + 1
    PROVE  IsSeq(SubSeq(s, i, j)) /\ Len(SubSeq(s, i, j)) = j - i + 1
<1>1. PICK S : s \in Seq(S)
  BY DEF IsSeq
<1>2. SubSeq(s, i, j) \in Seq(S) /\ Len(SubSeq(s, i, j)) = j - i + 1
  BY <1>1
<1> QED BY <1>2 DEF IsSeq

LEMMA Results ==
    ASSUME IsSeq(values), NEW n \in Nat, n <= Len(values), NEW v
    PROVE  /\ IsSeq(Below(n)) /\ Len(Below(n)) = Len(values) - n
           /\ IsSeq(Args(n)) /\ Len(Args(n)) = n
           /\ IsSeq(Replaced(n, v)) /\ Len(Replaced(n, v)) = Len(values) - n + 1
<1>1. Len(values) \in Nat
  BY SeqFacts
<1>2. IsSeq(Below(n)) /\ Len(Below(n)) = Len(values) - n
  <2>1. 1 \in Nat \ {0} /\ Len(values) - n \in Nat /\ Len(values) - n <= Len(values)
        /\ 1 <= (Len(values) - n) + 1 /\ (Len(values) - n) - 1 + 1 = Len(values) - n
    BY <1>1
  <2>2. Len(SubSeq(values, 1, Len(values) - n)) = (Len(values) - n) - 1 + 1
        /\ IsSeq(SubSeq(values, 1, Len(values) - n))
    BY <2>1, SubSeqLength
  <2> QED BY <2>1, <2>2 DEF Below
<1>3. IsSeq(Args(n)) /\ Len(Args(n)) = n
  <2> DEFINE i == Len(values) - n + 1
  <2>1. i \in Nat \ {0} /\ Len(values) <= Len(values) /\ i <= Len(values) + 1
        /\ Len(values) - i + 1 = n
    BY <1>1
  <2> HIDE DEF i
  <2>2. Len(SubSeq(values, i, Len(values))) = n /\ IsSeq(SubSeq(values, i, Len(values)))
    BY <1>1, <2>1, SubSeqLength
  <2> QED BY <2>2 DEF Args, i
<1>4. IsSeq(Replaced(n, v)) /\ Len(Replaced(n, v)) = Len(values) - n + 1
  BY <1>2, SeqAppend DEF Replaced
<1> QED BY <1>2, <1>3, <1>4

LEMMA Turned ==
    ASSUME NEW s, IsSeq(s)
    PROVE  IsSeq(Reverse(s)) /\ Len(Reverse(s)) = Len(s)
<1>1. PICK S : s \in Seq(S)
  BY DEF IsSeq
<1>2. Len(s) \in Nat
  BY <1>1
<1>3. \A i \in 1..Len(s) : s[(Len(s) - i) + 1] \in S
  BY <1>1, <1>2
<1>4. Reverse(s) \in Seq(S) /\ Len(Reverse(s)) = Len(s)
  BY <1>2, <1>3 DEF Reverse
<1> QED BY <1>4 DEF IsSeq

-----------------------------------------------------------------------------
(* The agenda. *)

LEMMA AgendaCat ==
    ASSUME NEW new, NEW rest, NEW c, NEW d, NEW n, NEW room, Agenda(rest, d, n, room),
           Runs(new, c, d, n)
    PROVE  Agenda(new \o rest, c, n, room)
<1>1. PICK calls, last, e :
        /\ rest = calls \o <<last>>
        /\ Runs(calls, d, e, n)
        /\ last.do \in Bottoms /\ Made(last, n) /\ Takes(last) <= e
        /\ last.do # "program" => room
  BY DEF Agenda
<1> DEFINE z == <<last>>
<1>2. rest = calls \o z /\ IsSeq(z) /\ IsSeq(new) /\ IsSeq(calls)
  BY <1>1, SeqOne DEF Runs
<1> HIDE DEF z
<1>3. (new \o calls) \o z = new \o (calls \o z)
  BY <1>2, SeqCatAssoc, SMTT(30)
<1>4. new \o rest = (new \o calls) \o <<last>>
  BY <1>2, <1>3, Zenon DEF z
<1>5. Runs(new \o calls, c, e, n)
  BY <1>1, RunCat
<1> DEFINE all == new \o calls
<1>6. new \o rest = all \o <<last>> /\ Runs(all, c, e, n)
  BY <1>4, <1>5
<1> HIDE DEF all
<1> QED BY <1>1, <1>6, Zenon DEF Agenda

LEMMA StateFacts ==
    ASSUME State
    PROVE  /\ Len(tokens) \in Nat /\ Len(values) \in Nat /\ Len(code) \in Nat
           /\ IsSeq(tokens) /\ IsSeq(values) /\ token \in 1..(Len(tokens) + 1)
           /\ Len(tokens) + 1 \in Nat
BY SeqFacts DEF State

\* What an agenda looks like: its last call is the one that the program goes round with.
LEMMA Foremost ==
    ASSUME PInv, Running
    PROVE  /\ agenda # <<>> /\ Made(Current, Len(tokens) + 1) /\ Takes(Current) <= Len(values)
           /\ Current.do \in Bottoms => agenda = <<Current>> /\ Tail(agenda) = <<>>
           /\ Current.do \in Bottoms => (Current.do # "program" => Len(code) < CodeSize)
           /\ Current.do \notin Bottoms =>
                Agenda(Tail(agenda), Len(values) - Takes(Current) + Gives(Current),
                       Len(tokens) + 1, Len(code) < CodeSize)
<1> DEFINE n == Len(tokens) + 1
<1> DEFINE room == Len(code) < CodeSize
<1>1. PICK calls, last, e :
        /\ agenda = calls \o <<last>>
        /\ Runs(calls, Len(values), e, n)
        /\ last.do \in Bottoms /\ Made(last, n) /\ Takes(last) <= e
        /\ last.do # "program" => room
  BY DEF PInv, Agenda
<1>2. IsSeq(calls) /\ IsSeq(<<last>>)
  BY <1>1, SeqOne DEF Runs
<1>3. CASE calls = <<>>
  <2>1. agenda = <<last>> /\ Current = last /\ Tail(agenda) = <<>> /\ agenda # <<>>
    <3>1. agenda = <<last>>
      BY <1>1, <1>2, <1>3, EmptyCat
    <3>2. <<last>> # <<>>
      BY SeqOne, SeqEmpty
    <3> QED BY <3>1, <3>2, SeqOne DEF Current
  <2>2. e = Len(values)
    BY <1>1, <1>3, RunEmpty
  <2> QED BY <1>1, <2>1, <2>2
<1>4. CASE calls # <<>>
  <2>1. agenda # <<>> /\ Current = Head(calls) /\ Tail(agenda) = Tail(calls) \o <<last>>
    BY <1>1, <1>2, <1>4, TailCat DEF Current
  <2>2. /\ Made(Current, n) /\ Current.do \notin Bottoms /\ Takes(Current) <= Len(values)
        /\ Runs(Tail(calls), Len(values) - Takes(Current) + Gives(Current), e, n)
        /\ IsSeq(Tail(calls))
    BY <1>1, <1>4, <2>1, RunHead
  <2>3. Agenda(Tail(agenda), Len(values) - Takes(Current) + Gives(Current), n, room)
    BY <1>1, <2>1, <2>2 DEF Agenda
  <2> QED BY <2>1, <2>2, <2>3
<1> QED BY <1>3, <1>4

\* A call that is not the last is replaced by calls that do in sum what it does.
LEMMA GoOn ==
    ASSUME PInv, Running, Current.do \notin Bottoms, NEW new, NEW k \in 1..(Len(tokens) + 1),
           NEW v, IsSeq(v), Go(new, k, v), Known(identifiers'),
           Runs(new, Len(v), Len(values) - Takes(Current) + Gives(Current), Len(tokens) + 1)
    PROVE  PInv'
<1>1. Agenda(Tail(agenda), Len(values) - Takes(Current) + Gives(Current), Len(tokens) + 1,
             Len(code) < CodeSize)
  BY Foremost
<1>2. /\ agenda' = new \o Tail(agenda) /\ token' = k /\ values' = v
      /\ text' = text /\ tokens' = tokens /\ code' = code /\ status' = status
  BY DEF Go
<1>3. State'
  BY <1>2 DEF PInv, State
<1>4. Agenda(agenda', Len(v), Len(tokens) + 1, Len(code) < CodeSize)
  BY <1>1, <1>2, AgendaCat
<1>5. Agenda(agenda', Len(values'), Len(tokens') + 1, Len(code') < CodeSize)
  BY <1>2, <1>4
<1> QED BY <1>3, <1>5 DEF PInv, Running

\* The last call puts calls and another last call in its place.
LEMMA GoRound ==
    ASSUME PInv, Running, Current.do \in Bottoms, Len(code) < CodeSize, NEW new, NEW last,
           NEW k \in 1..(Len(tokens) + 1), NEW e,
           Go(new \o <<last>>, k, values), UNCHANGED identifiers,
           Runs(new, Len(values), e, Len(tokens) + 1),
           last.do \in Bottoms, Made(last, Len(tokens) + 1), Takes(last) <= e
    PROVE  PInv'
<1> DEFINE n == Len(tokens) + 1
<1>1. Tail(agenda) = <<>>
  BY Foremost
<1>2. /\ agenda' = (new \o <<last>>) \o <<>> /\ token' = k /\ values' = values
      /\ text' = text /\ tokens' = tokens /\ code' = code /\ status' = status
  BY <1>1 DEF Go
<1>3. State'
  BY <1>2 DEF PInv, State
<1>4. IsSeq(new) /\ IsSeq(<<last>>)
  BY SeqOne DEF Runs
<1>5. agenda' = new \o <<last>>
  BY <1>2, <1>4, SeqCat, EmptyCat
<1>6. Agenda(agenda', Len(values), n, Len(code) < CodeSize)
  BY <1>5 DEF Agenda
<1>7. Agenda(agenda', Len(values'), Len(tokens') + 1, Len(code') < CodeSize)
  BY <1>2, <1>6
<1> QED BY <1>3, <1>7 DEF PInv, Running

LEMMA FailsWell ==
    ASSUME PInv, NEW how \in Statuses \ {"parsing"}, Fail(how)
    PROVE  PInv'
<1>1. /\ text' = text /\ tokens' = tokens /\ token' = token /\ values' = values /\ status' = how
      /\ identifiers' = identifiers /\ code' = code
  BY DEF Fail
<1>2. State'
  BY <1>1 DEF PInv, State
<1>3. ~(Running')
  BY <1>1 DEF Running
<1> QED BY <1>2, <1>3 DEF PInv

-----------------------------------------------------------------------------
(* The steps. *)

\* A call that leaves one result in the place of one.
LEMMA SteadyGo ==
    ASSUME PInv, Running, Current.do \in Steady \cup {"typeName", "new_identifier"}
    PROVE  \E m \in Nat :
              /\ Len(values) = m + 1
              /\ \A new, v : /\ IsSeq(v) /\ Runs(new, Len(v), m + 1, Len(tokens) + 1)
                             /\ Known(identifiers')
                             /\ \E k \in 1..(Len(tokens) + 1) : Go(new, k, v)
                             => PInv'
<1>1. Takes(Current) = 1 /\ Gives(Current) = 1 /\ Current.do \notin Bottoms
  BY Zenon DEF Steady, Takes, Gives, Bottoms, Fresh, Silent
<1>2. Len(values) \in Nat /\ 1 <= Len(values)
  BY <1>1, Foremost, StateFacts DEF PInv
<1> DEFINE m == Len(values) - 1
<1>3. m \in Nat /\ Len(values) = m + 1 /\ Len(values) - Takes(Current) + Gives(Current) = m + 1
  BY <1>1, <1>2
<1> HIDE DEF m
<1> QED BY <1>1, <1>3, GoOn

\* A call that leaves one result more.
LEMMA MakingGo ==
    ASSUME PInv, Running, Current.do \in Making \cup {"unknown"},
           NEW new, NEW v, IsSeq(v), Runs(new, Len(v), Len(values) + 1, Len(tokens) + 1),
           Known(identifiers'), NEW k \in 1..(Len(tokens) + 1), Go(new, k, v)
    PROVE  PInv'
<1>1. Takes(Current) = 0 /\ Gives(Current) = 1 /\ Current.do \notin Bottoms
  BY Zenon DEF Making, Takes, Gives, Bottoms, Fresh, Silent
<1>2. Len(values) \in Nat
  BY StateFacts DEF PInv
<1>3. Len(values) - Takes(Current) + Gives(Current) = Len(values) + 1
  BY <1>1, <1>2
<1> QED BY <1>1, <1>3, GoOn

\* A call that only looks at the token.
LEMMA SilentGo ==
    ASSUME PInv, Running, Current.do \in Silent,
           NEW new, Runs(new, Len(values), Len(values), Len(tokens) + 1),
           UNCHANGED identifiers, NEW k \in 1..(Len(tokens) + 1), Go(new, k, values)
    PROVE  PInv'
<1>1. Takes(Current) = 0 /\ Gives(Current) = 0 /\ Current.do \notin Bottoms
  BY Zenon DEF Takes, Gives, Bottoms, Fresh, Silent
<1>2. Len(values) \in Nat /\ IsSeq(values) /\ Known(identifiers')
  BY StateFacts DEF PInv, State
<1>3. Len(values) - Takes(Current) + Gives(Current) = Len(values)
  BY <1>1, <1>2
<1> QED BY <1>1, <1>2, <1>3, GoOn

\* The places that a step may go to.
LEMMA Places ==
    ASSUME PInv, Running
    PROVE  /\ token \in 1..(Len(tokens) + 1)
           /\ token <= Len(tokens) => token + 1 \in 1..(Len(tokens) + 1)
           /\ \A do : Calling(do) /\ do \notin Builders => token <= Len(tokens)
           /\ \A do : Calling(do) => Current.do = do
           /\ Len(tokens) \in Nat /\ Len(values) \in Nat /\ IsSeq(values)
           /\ UNCHANGED identifiers => Known(identifiers')
<1>1. token \in 1..(Len(tokens) + 1) /\ Len(tokens) \in Nat /\ Len(values) \in Nat /\ IsSeq(values)
  BY StateFacts DEF PInv
<1>2. token <= Len(tokens) => token + 1 \in 1..(Len(tokens) + 1)
  BY <1>1
<1>3. \A do : Calling(do) /\ do \notin Builders => token <= Len(tokens)
  BY DEF Calling
<1>4. \A do : Calling(do) => Current.do = do
  BY DEF Calling
<1>5. UNCHANGED identifiers => Known(identifiers')
  BY DEF PInv, State
<1> QED BY <1>1, <1>2, <1>3, <1>4, <1>5

-----------------------------------------------------------------------------
(* Lists of calls. *)

\* The same calls from more results on.
LEMMA RunAt ==
    ASSUME NEW n, NEW d \in Nat
    PROVE  /\ \A do \in Making : \A arg : /\ Runs(<<Call(do, arg)>>, d, d + 1, n)
                                      /\ Runs(<<Call(do, arg)>>, d + 1, d + 2, n)
                                      /\ Runs(<<Call(do, arg)>>, d + 3, d + 4, n)
           /\ \A do \in Silent : \A arg : /\ Runs(<<Call(do, arg)>>, d, d, n)
                                      /\ Runs(<<Call(do, arg)>>, d + 1, d + 1, n)
                                      /\ Runs(<<Call(do, arg)>>, d + 2, d + 2, n)
                                      /\ Runs(<<Call(do, arg)>>, d + 3, d + 3, n)
           /\ \A do \in Steady : \A arg : /\ Runs(<<Call(do, arg)>>, d + 1, d + 1, n)
                                      /\ Runs(<<Call(do, arg)>>, d + 2, d + 2, n)
           /\ \A kind : /\ Runs(<<node(kind, 0)>>, d, d + 1, n)
                        /\ Runs(<<node(kind, 0)>>, d + 1, d + 2, n)
                        /\ Runs(<<node(kind, 1)>>, d + 1, d + 1, n)
                        /\ Runs(<<node(kind, 2)>>, d + 2, d + 1, n)
           /\ Runs(expr, d, d + 1, n) /\ Runs(expr, d + 1, d + 2, n) /\ Runs(expr, d + 2, d + 3, n)
<1>1. /\ d + 1 \in Nat /\ d + 2 \in Nat /\ d + 3 \in Nat
      /\ (d + 1) + 1 = d + 2 /\ (d + 2) + 1 = d + 3 /\ (d + 3) + 1 = d + 4
  OBVIOUS
<1>2. \A do \in Making : \A arg : /\ Runs(<<Call(do, arg)>>, d, d + 1, n)
                              /\ Runs(<<Call(do, arg)>>, d + 1, (d + 1) + 1, n)
                              /\ Runs(<<Call(do, arg)>>, d + 3, (d + 3) + 1, n)
  BY <1>1, RunCalls
<1>3. \A do \in Silent : \A arg : /\ Runs(<<Call(do, arg)>>, d, d, n)
                              /\ Runs(<<Call(do, arg)>>, d + 1, d + 1, n)
                              /\ Runs(<<Call(do, arg)>>, d + 2, d + 2, n)
                              /\ Runs(<<Call(do, arg)>>, d + 3, d + 3, n)
  BY <1>1, RunCalls
<1>4. \A do \in Steady : \A arg : /\ Runs(<<Call(do, arg)>>, d + 1, d + 1, n)
                              /\ Runs(<<Call(do, arg)>>, (d + 1) + 1, (d + 1) + 1, n)
  BY <1>1, RunCalls
<1>5. \A kind : /\ Runs(<<node(kind, 0)>>, d, d + 1, n)
                /\ Runs(<<node(kind, 0)>>, d + 1, (d + 1) + 1, n)
                /\ Runs(<<node(kind, 1)>>, d + 1, d + 1, n)
                /\ Runs(<<node(kind, 2)>>, d + 2, d + 1, n)
  BY <1>1, RunCalls
<1>6. Runs(expr, d, d + 1, n) /\ Runs(expr, d + 1, (d + 1) + 1, n) /\ Runs(expr, d + 2, (d + 2) + 1, n)
  BY <1>1, RunExpressions
<1> QED BY <1>1, <1>2, <1>3, <1>4, <1>5, <1>6

LEMMA Chain3 ==
    ASSUME NEW n, NEW a, NEW b, NEW c, NEW d, NEW e, NEW f, NEW g,
           Runs(<<a>>, d, e, n), Runs(<<b>>, e, f, n), Runs(<<c>>, f, g, n)
    PROVE  Runs(<<a, b, c>>, d, g, n)
<1>1. Runs(<<a, b>>, d, f, n)
  BY Run2
<1> QED BY <1>1, Run3

LEMMA Chain4 ==
    ASSUME NEW n, NEW a, NEW b, NEW c, NEW x, NEW d, NEW e, NEW f, NEW g, NEW h,
           Runs(<<a>>, d, e, n), Runs(<<b>>, e, f, n), Runs(<<c>>, f, g, n), Runs(<<x>>, g, h, n)
    PROVE  Runs(<<a, b, c, x>>, d, h, n)
<1>1. Runs(<<a, b, c>>, d, g, n)
  BY Chain3
<1> QED BY <1>1, Run4

\* Expressions.
LEMMA ExpressionLists ==
    ASSUME NEW n, NEW d \in Nat, NEW kind, NEW arg
    PROVE  /\ Runs(<<unary_expr, node(kind, 2)>>, d + 1, d + 1, n)
           /\ Runs(<<unary_expr, node(kind, 1)>>, d, d + 1, n)
           /\ Runs(<<unary_expr, Const("1"), node(kind, 2)>>, d, d + 1, n)
           /\ Runs(<<Call("primary_expr", 0), postfix_expr>>, d, d + 1, n)
           /\ Runs(<<unary_expr, Call("sizeof", 0)>>, d, d + 1, n)
           /\ Runs(<<Call("pointer", 0), Call("array", 0), expect(")"), Call("sizeof", 0)>>,
                   d + 1, d + 1, n)
           /\ \A other : Runs(<<Const("1"), node(kind, 2), Const("1"), node(other, 2), postfix_expr>>,
                              d + 1, d + 1, n)
           /\ Runs(<<Call("list of", arg), postfix_expr>>, d + 1, d + 1, n)
           /\ Runs(expr \o <<node("ND_ADD", 2), node("ND_DEREF", 1), expect("]"), postfix_expr>>,
                   d + 1, d + 1, n)
           /\ Runs(expr \o <<expect(")")>>, d, d + 1, n)
<1> DEFINE one == Const("1")
<1>1. /\ Runs(<<unary_expr>>, d, d + 1, n) /\ Runs(<<unary_expr>>, d + 1, d + 2, n)
      /\ Runs(<<one>>, d + 1, d + 2, n) /\ Runs(<<Call("primary_expr", 0)>>, d, d + 1, n)
  BY RunAt, Zenon DEF Making, unary_expr, Const
<1>2. /\ Runs(<<postfix_expr>>, d + 1, d + 1, n) /\ Runs(<<Call("sizeof", 0)>>, d + 1, d + 1, n)
      /\ Runs(<<Call("pointer", 0)>>, d + 1, d + 1, n) /\ Runs(<<Call("array", 0)>>, d + 1, d + 1, n)
      /\ Runs(<<Call("list of", arg)>>, d + 1, d + 1, n)
  BY RunAt, Zenon DEF Steady, postfix_expr
<1>3. \A t : Runs(<<expect(t)>>, d + 1, d + 1, n)
  BY RunAt, Zenon DEF Silent, expect
<1>4. \A k : Runs(<<node(k, 1)>>, d + 1, d + 1, n) /\ Runs(<<node(k, 2)>>, d + 2, d + 1, n)
  BY RunAt
<1>5. Runs(expr, d, d + 1, n) /\ Runs(expr, d + 1, d + 2, n)
  BY RunAt
<1> HIDE DEF one
<1>6. Runs(<<unary_expr, node(kind, 2)>>, d + 1, d + 1, n) /\ Runs(<<unary_expr, node(kind, 1)>>, d, d + 1, n)
  BY <1>1, <1>4, Run2
<1>7. Runs(<<unary_expr, one, node(kind, 2)>>, d, d + 1, n)
  BY <1>1, <1>4, Chain3
<1>8. /\ Runs(<<Call("primary_expr", 0), postfix_expr>>, d, d + 1, n)
      /\ Runs(<<unary_expr, Call("sizeof", 0)>>, d, d + 1, n)
  BY <1>1, <1>2, Run2
<1>9. Runs(<<Call("list of", arg), postfix_expr>>, d + 1, d + 1, n)
  BY <1>2, Run2, Zenon
<1>10. Runs(<<Call("pointer", 0), Call("array", 0), expect(")"), Call("sizeof", 0)>>, d + 1, d + 1, n)
  BY <1>2, <1>3, Chain4, Zenon
<1>11. ASSUME NEW other
       PROVE  Runs(<<one, node(kind, 2), one, node(other, 2), postfix_expr>>, d + 1, d + 1, n)
  <2>1. Runs(<<one, node(kind, 2), one, node(other, 2)>>, d + 1, d + 1, n)
    BY <1>1, <1>4, Chain4
  <2> QED BY <1>2, <2>1, Run5
<1>12. Runs(expr \o <<node("ND_ADD", 2), node("ND_DEREF", 1), expect("]"), postfix_expr>>,
            d + 1, d + 1, n)
  <2>1. Runs(<<node("ND_ADD", 2), node("ND_DEREF", 1), expect("]"), postfix_expr>>, d + 2, d + 1, n)
    BY <1>2, <1>3, <1>4, Chain4, Zenon
  <2> QED BY <1>5, <2>1, RunCat, Zenon
<1>13. Runs(expr \o <<expect(")")>>, d, d + 1, n)
  BY <1>3, <1>5, RunCat, Zenon
<1> QED BY <1>6, <1>7, <1>8, <1>9, <1>10, <1>11, <1>12, <1>13, Zenon DEF one

\* Declarations.
LEMMA DeclarationLists ==
    ASSUME NEW n, NEW d \in Nat, NEW kind, NEW arg, NEW other
    PROVE  /\ Runs(declarator(kind), d + 1, d + 1, n)
           /\ Runs(declaration(kind), d, d + 1, n)
           /\ Runs(declarator(kind) \o <<Call("end of declaration", arg)>>, d + 1, d + 1, n)
           /\ Runs(<<Call("initializer", 0), consume(arg)>>, d + 1, d + 1, n)
           /\ Runs(<<list(arg)>>, d + 1, d + 1, n)
           /\ Runs(<<Const("c"), Call("element", "0"), Const("0"), Call("element", "1")>>,
                   d + 1, d + 1, n)
           /\ Runs(assign_expr \o <<Call("element", arg)>>, d + 1, d + 1, n)
           /\ Runs(assign_expr \o <<Call("element", arg), Call("next of list", other)>>,
                   d + 1, d + 1, n)
           /\ Runs(Items(kind) \o <<append, Call("more of", arg)>>, d + 1, d + 1, n)
           /\ \A k \in 1..n : Runs(<<typeSpec(""), Call("typeName", k)>>, d, d + 1, n)
           /\ \A name \in Idents \cup {""} :
                 Runs(<<Call("array", 0), Call("new_identifier", <<kind, name>>)>>, d + 1, d + 1, n)
<1>0. d + 1 \in Nat /\ 1 <= d + 1 /\ 1 \in Nat
  OBVIOUS
<1>1. /\ Runs(<<Call("pointer", 0)>>, d + 1, d + 1, n) /\ Runs(<<Call("name", kind)>>, d + 1, d + 1, n)
      /\ Runs(<<Call("declaration", kind)>>, d + 1, d + 1, n)
      /\ Runs(<<Call("end of declaration", arg)>>, d + 1, d + 1, n)
      /\ Runs(<<Call("initializer", 0)>>, d + 1, d + 1, n) /\ Runs(<<list(arg)>>, d + 1, d + 1, n)
      /\ Runs(<<Call("next of list", other)>>, d + 1, d + 1, n)
      /\ Runs(<<Call("more of", arg)>>, d + 1, d + 1, n) /\ Runs(<<Call("array", 0)>>, d + 1, d + 1, n)
  BY RunAt, Zenon DEF Steady, list
<1>2. /\ Runs(<<typeSpec(kind)>>, d, d + 1, n) /\ Runs(<<typeSpec("")>>, d, d + 1, n)
      /\ Runs(<<Const("c")>>, d + 1, d + 2, n) /\ Runs(<<Const("0")>>, d + 1, d + 2, n)
  BY RunAt, Zenon DEF Making, typeSpec, Const
<1>3. Runs(<<consume(arg)>>, d + 1, d + 1, n)
  BY RunAt, Zenon DEF Silent, consume
<1>4. Runs(<<append>>, d + 2, d + 1, n) /\ \A a : Runs(<<Call("element", a)>>, d + 2, d + 1, n)
  BY RunCalls, Zenon
<1>5. Runs(expr, d + 1, d + 2, n) /\ Runs(assign_expr, d + 1, d + 2, n)
  BY RunAt DEF expr
<1>6. ASSUME NEW f
      PROVE  /\ Runs(declarator(f), d + 1, d + 1, n) /\ Runs(declaration(f), d, d + 1, n)
             /\ Runs(declaration(f), d + 1, d + 2, n)
  <2>1. /\ Runs(<<Call("pointer", 0)>>, d + 1, d + 1, n) /\ Runs(<<Call("name", f)>>, d + 1, d + 1, n)
        /\ Runs(<<typeSpec(f)>>, d, d + 1, n) /\ Runs(<<typeSpec(f)>>, d + 1, d + 2, n)
        /\ Runs(<<Call("declaration", f)>>, d + 1, d + 1, n)
        /\ Runs(<<Call("declaration", f)>>, d + 2, d + 2, n)
    BY RunAt, Zenon DEF Steady, Making, typeSpec
  <2> QED BY <2>1, Run2, Zenon DEF declarator, declaration
<1>7. Runs(declarator(kind) \o <<Call("end of declaration", arg)>>, d + 1, d + 1, n)
  BY <1>1, <1>6, RunCat, Zenon
<1>8. Runs(<<Call("initializer", 0), consume(arg)>>, d + 1, d + 1, n)
  BY <1>1, <1>3, Run2, Zenon
<1>9. Runs(<<Const("c"), Call("element", "0"), Const("0"), Call("element", "1")>>, d + 1, d + 1, n)
  BY <1>2, <1>4, Chain4, Zenon
<1>10. /\ Runs(assign_expr \o <<Call("element", arg)>>, d + 1, d + 1, n)
       /\ Runs(assign_expr \o <<Call("element", arg), Call("next of list", other)>>, d + 1, d + 1, n)
  <2>1. Runs(<<Call("element", arg), Call("next of list", other)>>, d + 2, d + 1, n)
    BY <1>1, <1>4, Run2, Zenon
  <2> QED BY <1>4, <1>5, <2>1, RunCat, Zenon
<1>11. Runs(Items(kind) \o <<append, Call("more of", arg)>>, d + 1, d + 1, n)
  <2>1. Runs(<<append, Call("more of", arg)>>, d + 2, d + 1, n)
    BY <1>1, <1>4, Run2, Zenon
  <2>2. Runs(Items(kind), d + 1, d + 2, n)
    BY <1>5, <1>6, Zenon DEF Items
  <2> QED BY <2>1, <2>2, RunCat, Zenon
<1>12. ASSUME NEW k \in 1..n
       PROVE  Runs(<<typeSpec(""), Call("typeName", k)>>, d, d + 1, n)
  <2>1. Is(Call("typeName", k), 1, 1, n)
    BY Zenon DEF Is, Call, Made, Takes, Gives, Bottoms, Fresh, Silent
  <2>2. Runs(<<Call("typeName", k)>>, d + 1, d + 1, n)
    BY <1>0, <2>1, Keeps
  <2> QED BY <1>2, <2>2, Run2, Zenon
<1>13. ASSUME NEW name \in Idents \cup {""}
       PROVE  Runs(<<Call("array", 0), Call("new_identifier", <<kind, name>>)>>, d + 1, d + 1, n)
  <2> DEFINE pair == <<kind, name>>
  <2>1. pair[2] \in Idents \cup {""}
    BY Zenon
  <2> HIDE DEF pair
  <2>2. Is(Call("new_identifier", pair), 1, 1, n)
    BY <2>1, Zenon DEF Is, Call, Made, Takes, Gives, Bottoms, Fresh, Silent
  <2>3. Runs(<<Call("new_identifier", pair)>>, d + 1, d + 1, n)
    BY <1>0, <2>2, Keeps, Zenon
  <2>4. Runs(<<Call("array", 0), Call("new_identifier", pair)>>, d + 1, d + 1, n)
    BY <1>1, <2>3, Run2, Zenon
  <2> QED BY <2>4, Zenon DEF pair
<1> QED BY <1>1, <1>6, <1>7, <1>8, <1>9, <1>10, <1>11, <1>12, <1>13, Zenon

\* Statements.
LEMMA StatementLists ==
    ASSUME NEW n, NEW d \in Nat, NEW kind, NEW arg, NEW t
    PROVE  /\ Runs((<<expect("(")>> \o expr \o <<expect(")")>>)
                      \o <<stmt, node(kind, 2), Call("else", 0)>>, d, d + 1, n)
           /\ Runs((<<expect("(")>> \o expr \o <<expect(")")>>) \o <<stmt, node(kind, 2)>>,
                   d, d + 1, n)
           /\ Runs(conditional_expr \o <<expect(t), stmt, node(kind, 2)>>, d, d + 1, n)
           /\ Runs(<<expect(t), stmt, node(kind, 1)>>, d, d + 1, n)
           /\ Runs(<<expect(t), Call("first of for", 0)>>, d, d + 1, n)
           /\ Runs(<<node(kind, 0), block>>, d, d + 1, n)
           /\ Runs(expr \o <<expect(t), node(kind, 1)>>, d, d + 1, n)
           /\ Runs(expr \o <<node(kind, 1), expect(t)>>, d, d + 1, n)
           /\ Runs(<<stmt, node(kind, 2)>>, d + 1, d + 1, n)
           /\ Runs(<<stmt, append, block>>, d + 1, d + 1, n)
           /\ Runs(<<node(kind, 0), append>>, d + 1, d + 1, n)
<1>1. /\ Runs(<<stmt>>, d, d + 1, n) /\ Runs(<<stmt>>, d + 1, d + 2, n)
      /\ Runs(<<Call("first of for", 0)>>, d, d + 1, n)
  BY RunAt, Zenon DEF Making, stmt
<1>2. /\ Runs(<<Call("else", 0)>>, d + 1, d + 1, n) /\ Runs(<<block>>, d + 1, d + 1, n)
  BY RunAt, Zenon DEF Steady, block
<1>3. \A u : Runs(<<expect(u)>>, d, d, n) /\ Runs(<<expect(u)>>, d + 1, d + 1, n)
  BY RunAt, Zenon DEF Silent, expect
<1>4. /\ Runs(<<node(kind, 0)>>, d, d + 1, n) /\ Runs(<<node(kind, 0)>>, d + 1, d + 2, n)
      /\ Runs(<<node(kind, 1)>>, d + 1, d + 1, n) /\ Runs(<<node(kind, 2)>>, d + 2, d + 1, n)
  BY RunAt
<1>5. Runs(expr, d, d + 1, n) /\ Runs(conditional_expr, d, d + 1, n)
  BY RunAt, RunExpressions
<1>6. Runs(<<append>>, d + 2, d + 1, n)
  BY RunCalls, Zenon
<1> DEFINE condition == <<expect("(")>> \o expr \o <<expect(")")>>
<1>7. Runs(condition, d, d + 1, n)
  <2>1. Runs(<<expect("(")>> \o expr, d, d + 1, n)
    BY <1>3, <1>5, RunCat, Zenon
  <2> QED BY <1>3, <2>1, RunCat, Zenon
<1> HIDE DEF condition
<1>8. Runs(<<stmt, node(kind, 2)>>, d + 1, d + 1, n)
  BY <1>1, <1>4, Run2, Zenon
<1>9. Runs(<<stmt, node(kind, 2), Call("else", 0)>>, d + 1, d + 1, n)
  BY <1>1, <1>2, <1>4, Chain3, Zenon
<1>10. /\ Runs(condition \o <<stmt, node(kind, 2), Call("else", 0)>>, d, d + 1, n)
       /\ Runs(condition \o <<stmt, node(kind, 2)>>, d, d + 1, n)
  BY <1>7, <1>8, <1>9, RunCat, Zenon
<1>11. Runs(conditional_expr \o <<expect(t), stmt, node(kind, 2)>>, d, d + 1, n)
  <2>1. Runs(<<expect(t), stmt, node(kind, 2)>>, d + 1, d + 1, n)
    BY <1>1, <1>3, <1>4, Chain3, Zenon
  <2> QED BY <1>5, <2>1, RunCat, Zenon
<1>12. Runs(<<expect(t), stmt, node(kind, 1)>>, d, d + 1, n)
  BY <1>1, <1>3, <1>4, Chain3, Zenon
<1>13. Runs(<<expect(t), Call("first of for", 0)>>, d, d + 1, n)
  BY <1>1, <1>3, Run2, Zenon
<1>14. /\ Runs(<<node(kind, 0), block>>, d, d + 1, n)
       /\ Runs(<<node(kind, 0), append>>, d + 1, d + 1, n)
  BY <1>2, <1>4, <1>6, Run2, Zenon
<1>15. /\ Runs(<<expect(t), node(kind, 1)>>, d + 1, d + 1, n)
       /\ Runs(<<node(kind, 1), expect(t)>>, d + 1, d + 1, n)
  BY <1>3, <1>4, Run2, Zenon
<1>16. /\ Runs(expr \o <<expect(t), node(kind, 1)>>, d, d + 1, n)
       /\ Runs(expr \o <<node(kind, 1), expect(t)>>, d, d + 1, n)
  BY <1>5, <1>15, RunCat, Zenon
<1>17. Runs(<<stmt, append, block>>, d + 1, d + 1, n)
  BY <1>1, <1>2, <1>6, Chain3, Zenon
<1> QED BY <1>8, <1>10, <1>11, <1>12, <1>13, <1>14, <1>16, <1>17, Zenon DEF condition

\* The parts of a for: two results wait below the third.
LEMMA ForLists ==
    ASSUME NEW n, NEW d \in Nat, NEW kind, NEW arg
    PROVE  /\ Runs(declaration(kind) \o <<Call("second of for", arg)>>, d, d + 1, n)
           /\ Runs(expr \o <<expect(";"), Call("second of for", arg)>>, d, d + 1, n)
           /\ Runs(<<Call("second of for", arg)>>, d + 1, d + 1, n)
           /\ Runs(<<Call("third of for", arg)>>, d + 2, d + 1, n)
           /\ Runs(expr \o <<expect(";"), Call("third of for", arg)>>, d + 1, d + 1, n)
           /\ Runs(<<stmt, Call("for", arg)>>, d + 3, d + 1, n)
           /\ Runs((expr \o <<expect(")")>>) \o <<stmt, Call("for", arg)>>, d + 2, d + 1, n)
<1>1. Runs(<<stmt>>, d + 3, d + 4, n)
  BY RunAt, Zenon DEF Making, stmt
<1>2. Runs(<<Call("second of for", arg)>>, d + 1, d + 1, n)
  BY RunAt, Zenon DEF Steady
<1>3. \A t : /\ Runs(<<expect(t)>>, d + 1, d + 1, n) /\ Runs(<<expect(t)>>, d + 2, d + 2, n)
             /\ Runs(<<expect(t)>>, d + 3, d + 3, n)
  BY RunAt, Zenon DEF Silent, expect
<1>4. Runs(<<Call("third of for", arg)>>, d + 2, d + 1, n) /\ Runs(<<Call("for", arg)>>, d + 4, d + 1, n)
  BY RunCalls, Zenon
<1>5. Runs(expr, d, d + 1, n) /\ Runs(expr, d + 1, d + 2, n) /\ Runs(expr, d + 2, d + 3, n)
  BY RunAt
<1>6. Runs(declaration(kind), d, d + 1, n)
  BY DeclarationLists, Zenon
<1>7. Runs(<<stmt, Call("for", arg)>>, d + 3, d + 1, n)
  BY <1>1, <1>4, Run2, Zenon
<1>8. /\ Runs(<<expect(";"), Call("second of for", arg)>>, d + 1, d + 1, n)
      /\ Runs(<<expect(";"), Call("third of for", arg)>>, d + 2, d + 1, n)
  BY <1>2, <1>3, <1>4, Run2, Zenon
<1>9. Runs((expr \o <<expect(")")>>) \o <<stmt, Call("for", arg)>>, d + 2, d + 1, n)
  <2>1. Runs(expr \o <<expect(")")>>, d + 2, d + 3, n)
    BY <1>3, <1>5, RunCat, Zenon
  <2> QED BY <1>7, <2>1, RunCat, Zenon
<1>10. /\ Runs(declaration(kind) \o <<Call("second of for", arg)>>, d, d + 1, n)
       /\ Runs(expr \o <<expect(";"), Call("second of for", arg)>>, d, d + 1, n)
       /\ Runs(expr \o <<expect(";"), Call("third of for", arg)>>, d + 1, d + 1, n)
  BY <1>2, <1>5, <1>6, <1>8, RunCat, Zenon
<1> QED BY <1>2, <1>4, <1>7, <1>9, <1>10, Zenon

\* The functions and variables of a file.
LEMMA FileLists ==
    ASSUME NEW n, NEW d \in Nat
    PROVE  /\ Runs(funcPrototype, d, d + 1, n)
           /\ Runs(funcDefine, d, d + 1, n)
           /\ Runs(<<Call("list of", "declaration"), expect("{"), node("ND_BLOCK", 0), stmt,
                     append, block, Call("return", 0), append>>, d + 1, d + 1, n)
           /\ \A set : Runs(<<typeSpec(""), drop, Call("consume all", "*"), consume(set)>>, d, d, n)
           /\ \A set : Runs(<<consume(set)>>, d, d, n)
<1>1. Runs(<<typeSpec("")>>, d, d + 1, n) /\ Runs(<<stmt>>, d + 2, d + 3, n)
  <2>1. d + 2 \in Nat /\ (d + 2) + 1 = d + 3
    OBVIOUS
  <2>2. Runs(<<typeSpec("")>>, d, d + 1, n) /\ Runs(<<stmt>>, d + 2, (d + 2) + 1, n)
    BY <2>1, RunAt, Zenon DEF Making, typeSpec, stmt
  <2> QED BY <2>1, <2>2, Zenon
<1>2. /\ Runs(<<Call("list of", "declaration")>>, d + 1, d + 1, n) /\ Runs(<<block>>, d + 2, d + 2, n)
      /\ Runs(<<Call("return", 0)>>, d + 2, d + 2, n) /\ Runs(<<Call("parameters", 0)>>, d + 1, d + 1, n)
  BY RunAt, Zenon DEF Steady, block
<1>3. /\ \A t : Runs(<<expect(t)>>, d + 1, d + 1, n)
      /\ \A set : Runs(<<consume(set)>>, d, d, n)
      /\ Runs(<<Call("consume all", "*")>>, d, d, n)
  BY RunAt, Zenon DEF Silent, expect, consume
<1>4. /\ \A kind : Runs(<<node(kind, 0)>>, d, d + 1, n) /\ Runs(<<node(kind, 0)>>, d + 1, d + 2, n)
      /\ Runs(<<append>>, d + 2, d + 1, n) /\ Runs(<<append>>, d + 3, d + 2, n)
      /\ Runs(<<drop>>, d + 1, d, n)
  <2>1. d + 1 \in Nat /\ (d + 1) + 1 = d + 2 /\ (d + 1) + 2 = d + 3
    OBVIOUS
  <2>2. Runs(<<append>>, (d + 1) + 2, (d + 1) + 1, n)
    BY <2>1, RunCalls, Zenon
  <2> QED BY <2>1, <2>2, RunAt, RunCalls, Zenon
<1>5. \A kind : Runs(declarator(kind), d + 1, d + 1, n)
  BY DeclarationLists, Zenon
<1>6. \A kind : Runs(<<typeSpec("")>> \o declarator(kind), d, d + 1, n)
  BY <1>1, <1>5, RunCat, Zenon
<1>7. Runs(funcDefine, d, d + 1, n)
  BY <1>2, <1>6, RunCat, Zenon DEF funcDefine
<1>8. Runs(funcPrototype, d, d + 1, n)
  <2>1. Runs(<<expect("("), expect(")"), expect(";"), drop>>, d + 1, d, n)
    BY <1>3, <1>4, Chain4, Zenon
  <2>2. Runs(<<expect("("), expect(")"), expect(";"), drop, node("ND_DECLARATION", 0)>>, d + 1, d + 1, n)
    BY <1>4, <2>1, Run5, Zenon
  <2> QED BY <1>6, <2>2, RunCat, Zenon DEF funcPrototype
<1>9. \A set : Runs(<<typeSpec(""), drop, Call("consume all", "*"), consume(set)>>, d, d, n)
  BY <1>1, <1>3, <1>4, Chain4, Zenon
<1>10. Runs(<<Call("list of", "declaration"), expect("{"), node("ND_BLOCK", 0), stmt,
              append, block, Call("return", 0), append>>, d + 1, d + 1, n)
  <2>1. Runs(<<Call("list of", "declaration"), expect("{"), node("ND_BLOCK", 0), stmt>>, d + 1, d + 3, n)
    BY <1>1, <1>2, <1>3, <1>4, Chain4, Zenon
  <2>2. Runs(<<append, block, Call("return", 0), append>>, d + 3, d + 1, n)
    BY <1>2, <1>4, Chain4, Zenon
  <2> QED BY <2>1, <2>2, Run8, Zenon
<1> QED BY <1>3, <1>7, <1>8, <1>9, <1>10

-----------------------------------------------------------------------------
(* What a call may do. *)

\* A step of a call that leaves one result in the place of one.
LEMMA SteadyDoes ==
    ASSUME PInv, NEW do \in Steady \cup {"typeName", "new_identifier"}, Calling(do)
    PROVE  \E m \in Nat :
              /\ Len(values) = m + 1
              /\ \A new : Runs(new, m + 1, m + 1, Len(tokens) + 1) => (Do(new) => PInv')
              /\ \A new : Runs(new, m + 1, m + 1, Len(tokens) + 1) =>
                             (do \notin Builders /\ Accept(new) => PInv')
              /\ \A new, x : Runs(new, m + 2, m + 1, Len(tokens) + 1) =>
                             (do \notin Builders /\ Push(new, x) => PInv')
              /\ \A new, x, k : Runs(new, m + 1, m + 1, Len(tokens) + 1) =>
                             (/\ k \in 1..(Len(tokens) + 1)
                              /\ Go(new, k, Replaced(1, x)) /\ Known(identifiers')
                              => PInv')
              /\ \A new, k : Runs(new, m, m + 1, Len(tokens) + 1) =>
                             (/\ k \in 1..(Len(tokens) + 1)
                              /\ Go(new, k, Below(1)) /\ Known(identifiers')
                              => PInv')
<1>1. Running /\ Current.do = do
  BY DEF Calling
<1>2. PICK m \in Nat :
              /\ Len(values) = m + 1
              /\ \A new, v : /\ IsSeq(v) /\ Runs(new, Len(v), m + 1, Len(tokens) + 1)
                             /\ Known(identifiers')
                             /\ \E k \in 1..(Len(tokens) + 1) : Go(new, k, v)
                             => PInv'
  BY <1>1, SteadyGo
<1>3. /\ token \in 1..(Len(tokens) + 1)
      /\ do \notin Builders => token + 1 \in 1..(Len(tokens) + 1)
      /\ IsSeq(values)
      /\ UNCHANGED identifiers => Known(identifiers')
  BY <1>1, Places
<1>4. m + 1 \in Nat /\ m + 2 \in Nat /\ 1 <= m + 1 /\ 1 \in Nat /\ (m + 1) - 1 + 1 = m + 1
      /\ (m + 1) - 1 = m /\ (m + 1) + 1 = m + 2
  OBVIOUS
<1>5. \A x : IsSeq(Replaced(1, x)) /\ Len(Replaced(1, x)) = m + 1
  BY <1>2, <1>3, <1>4, Results
<1>6. IsSeq(Below(1)) /\ Len(Below(1)) = m
  BY <1>2, <1>3, <1>4, Results
<1>7. ASSUME NEW new, NEW k, Runs(new, m, m + 1, Len(tokens) + 1),
              k \in 1..(Len(tokens) + 1), Go(new, k, Below(1)), Known(identifiers')
       PROVE  PInv'
  BY <1>2, <1>6, <1>7
<1>8. \A x : IsSeq(Append(values, x)) /\ Len(Append(values, x)) = m + 2
  BY <1>2, <1>3, <1>4, SeqAppend
<1>9. ASSUME NEW new, Runs(new, m + 1, m + 1, Len(tokens) + 1), Do(new)
      PROVE  PInv'
  BY <1>2, <1>3, <1>9 DEF Do
<1>10. ASSUME NEW new, Runs(new, m + 1, m + 1, Len(tokens) + 1), do \notin Builders, Accept(new)
      PROVE  PInv'
  BY <1>2, <1>3, <1>10 DEF Accept
<1>11. ASSUME NEW new, NEW x, Runs(new, m + 2, m + 1, Len(tokens) + 1), do \notin Builders,
             Push(new, x)
      PROVE  PInv'
  BY <1>2, <1>3, <1>8, <1>11 DEF Push
<1>12. ASSUME NEW new, NEW x, NEW k, Runs(new, m + 1, m + 1, Len(tokens) + 1),
              k \in 1..(Len(tokens) + 1), Go(new, k, Replaced(1, x)), Known(identifiers')
       PROVE  PInv'
  BY <1>2, <1>5, <1>12
<1> QED BY <1>2, <1>9, <1>10, <1>11, <1>12, <1>7

\* A step of a call that leaves one result more.
LEMMA MakingDoes ==
    ASSUME PInv, NEW do \in Making \cup {"unknown"}, Calling(do)
    PROVE  LET d == Len(values)
               n == Len(tokens) + 1
           IN  /\ d \in Nat /\ token \in 1..n
               /\ \A new : Runs(new, d, d + 1, n) => (Do(new) => PInv')
               /\ \A new : Runs(new, d, d + 1, n) => (do \notin Builders /\ Accept(new) => PInv')
               /\ \A new, x : Runs(new, d + 1, d + 1, n) =>
                                 (do \notin Builders /\ Push(new, x) => PInv')
               /\ \A x : /\ Return(Append(values, x)) => PInv'
                         /\ do \notin Builders /\ Push(<<>>, x) => PInv'
                         /\ Go(<<>>, token, Append(values, x)) /\ Known(identifiers') => PInv'
<1> DEFINE d == Len(values)
<1> DEFINE n == Len(tokens) + 1
<1>1. Running /\ Current.do = do
  BY DEF Calling
<1>2. /\ token \in 1..n
      /\ do \notin Builders => token + 1 \in 1..n
      /\ IsSeq(values) /\ d \in Nat
      /\ UNCHANGED identifiers => Known(identifiers')
  BY <1>1, Places
<1>3. \A new, v, k : /\ IsSeq(v) /\ Runs(new, Len(v), d + 1, n) /\ Known(identifiers')
                     /\ k \in 1..n /\ Go(new, k, v)
                     => PInv'
  BY <1>1, MakingGo
<1>4. \A x : IsSeq(Append(values, x)) /\ Len(Append(values, x)) = d + 1
  BY <1>2, SeqAppend
<1>5. Runs(<<>>, d + 1, d + 1, n)
  <2>1. d + 1 \in Nat
    BY <1>2
  <2> QED BY <2>1, RunNone
<1> HIDE DEF d, n
<1>6. ASSUME NEW new, Runs(new, d, d + 1, n), Do(new)
      PROVE  PInv'
  BY <1>2, <1>3, <1>6 DEF Do, d
<1>7. ASSUME NEW new, Runs(new, d, d + 1, n), do \notin Builders, Accept(new)
      PROVE  PInv'
  BY <1>2, <1>3, <1>7 DEF Accept, d
<1>8. ASSUME NEW new, NEW x, Runs(new, d + 1, d + 1, n), do \notin Builders, Push(new, x)
      PROVE  PInv'
  BY <1>2, <1>3, <1>4, <1>8 DEF Push
<1>9. ASSUME NEW x
      PROVE  /\ Return(Append(values, x)) => PInv'
             /\ do \notin Builders /\ Push(<<>>, x) => PInv'
             /\ Go(<<>>, token, Append(values, x)) /\ Known(identifiers') => PInv'
  <2>1. Go(<<>>, token, Append(values, x)) /\ Known(identifiers') => PInv'
    BY <1>2, <1>3, <1>4, <1>5
  <2>2. Return(Append(values, x)) => PInv'
    BY <1>2, <2>1 DEF Return
  <2>3. do \notin Builders /\ Push(<<>>, x) => PInv'
    BY <1>5, <1>8
  <2> QED BY <2>1, <2>2, <2>3
<1> QED BY <1>2, <1>6, <1>7, <1>8, <1>9 DEF d, n

-----------------------------------------------------------------------------
(* The steps. *)

LEMMA OperatorRuns ==
    ASSUME NEW n, NEW d \in Nat, NEW l, NEW lo
    PROVE  Runs(OperatorCalls(l, lo), d + 1, d + 1, n)
<1>1. d + 1 \in Nat /\ (d + 1) + 1 = d + 2
  OBVIOUS
<1>2. /\ Runs(<<unary_expr>>, d + 1, d + 2, n)
      /\ \A a, b : Runs(Waiting(a, b), d + 2, d + 2, n) /\ Runs(Waiting(a, b), d + 1, d + 1, n)
  <2>1. /\ Runs(<<unary_expr>>, d + 1, (d + 1) + 1, n)
        /\ \A a, b : Runs(Waiting(a, b), (d + 1) + 1, (d + 1) + 1, n)
        /\ \A a, b : Runs(Waiting(a, b), d + 1, d + 1, n)
    BY <1>1, RunExpressions
  <2> QED BY <1>1, <2>1
<1>3. Runs(<<Call("swap", 0)>>, d + 2, d + 2, n) /\ \A kind : Runs(<<node(kind, 2)>>, d + 2, d + 1, n)
  BY RunCalls, Zenon
<1>4. Runs(<<>>, d + 2, d + 2, n)
  <2>1. d + 2 \in Nat
    OBVIOUS
  <2> QED BY <2>1, RunNone
<1> DEFINE turn == IF Now \in {">", ">="} THEN <<Call("swap", 0)>> ELSE <<>>
<1>5. Runs(turn, d + 2, d + 2, n)
  BY <1>3, <1>4, Zenon
<1> HIDE DEF turn
<1> DEFINE right == <<unary_expr>> \o Waiting(Len(Levels), l + 1)
<1>6. Runs(right, d + 1, d + 2, n)
  BY <1>2, RunCat, Zenon
<1> HIDE DEF right
<1>7. Runs(right \o turn, d + 1, d + 2, n)
  BY <1>5, <1>6, RunCat, Zenon
<1>8. \A kind : Runs((right \o turn) \o <<node(kind, 2)>>, d + 1, d + 1, n)
  BY <1>3, <1>7, RunCat, Zenon
<1>9. \A kind : Runs(((right \o turn) \o <<node(kind, 2)>>) \o Waiting(l, lo), d + 1, d + 1, n)
  BY <1>2, <1>8, RunCat, Zenon
<1> QED BY <1>9, Zenon DEF OperatorCalls, right, turn

LEMMA OperatorSteps ==
    ASSUME PInv, operators \/ assign \/ postfix \/ sizeofType \/ typeName
    PROVE  PInv'
<1> DEFINE n == Len(tokens) + 1
<1>1. CASE operators
  <2>1. Calling("operators") /\ "operators" \in Steady /\ "operators" \notin Builders
    BY <1>1, Zenon DEF operators, Steady, Builders
  <2>2. PICK m \in Nat :
              /\ \A new : Runs(new, m + 1, m + 1, n) => (Do(new) => PInv')
              /\ \A new : Runs(new, m + 1, m + 1, n) =>
                             ("operators" \notin Builders /\ Accept(new) => PInv')
    BY <2>1, SteadyDoes
  <2>3. Runs(<<>>, m + 1, m + 1, n) /\ \A l, lo : Runs(OperatorCalls(l, lo), m + 1, m + 1, n)
    <3>1. m + 1 \in Nat
      BY <2>2
    <3> QED BY <2>2, <3>1, RunNone, OperatorRuns
  <2>4. Do(<<>>) \/ \E l, lo : Accept(OperatorCalls(l, lo))
    BY <1>1, Zenon DEF operators
  <2> QED BY <2>1, <2>2, <2>3, <2>4, Zenon
<1>2. CASE assign
  <2>1. Calling("assign") /\ "assign" \in Steady /\ "assign" \notin Builders
    BY <1>2, Zenon DEF assign, Steady, Builders
  <2>2. PICK m \in Nat :
              /\ \A new : Runs(new, m + 1, m + 1, n) => (Do(new) => PInv')
              /\ \A new : Runs(new, m + 1, m + 1, n) =>
                             ("assign" \notin Builders /\ Accept(new) => PInv')
    BY <2>1, SteadyDoes
  <2>3. /\ Runs(<<>>, m + 1, m + 1, n)
        /\ \A k, l : Runs(assign_expr \o <<node(k, 2), Call("assign", l)>>, m + 1, m + 1, n)
    <3>1. m + 1 \in Nat
      BY <2>2
    <3>2. /\ Runs(assign_expr, m + 1, m + 2, n) /\ \A k : Runs(<<node(k, 2)>>, m + 2, m + 1, n)
          /\ \A l : Runs(<<Call("assign", l)>>, m + 1, m + 1, n)
      BY <2>1, <2>2, RunAt DEF expr
    <3>3. \A k, l : Runs(<<node(k, 2), Call("assign", l)>>, m + 2, m + 1, n)
      BY <3>2, Run2, Zenon
    <3> QED BY <3>1, <3>2, <3>3, RunNone, RunCat, Zenon
  <2>4. Do(<<>>) \/ \E k, l : Accept(assign_expr \o <<node(k, 2), Call("assign", l)>>)
    BY <1>2, Zenon DEF assign
  <2> QED BY <2>1, <2>2, <2>3, <2>4, Zenon
<1>3. CASE postfix
  <2>1. Calling("postfix_expr") /\ "postfix_expr" \in Steady /\ "postfix_expr" \notin Builders
    BY <1>3, Zenon DEF postfix, Steady, Builders
  <2>2. PICK m \in Nat :
              /\ \A new : Runs(new, m + 1, m + 1, n) => (Do(new) => PInv')
              /\ \A new : Runs(new, m + 1, m + 1, n) =>
                             ("postfix_expr" \notin Builders /\ Accept(new) => PInv')
              /\ \A new, x, k : Runs(new, m + 1, m + 1, n) =>
                             (/\ k \in 1..n /\ Go(new, k, Replaced(1, x)) /\ Known(identifiers')
                              => PInv')
    BY <2>1, SteadyDoes
  <2>3. Runs(<<>>, m + 1, m + 1, n)
    <3>1. m + 1 \in Nat
      BY <2>2
    <3> QED BY <3>1, RunNone
  <2>4. \/ Do(<<>>)
        \/ Accept(expr \o <<node("ND_ADD", 2), node("ND_DEREF", 1), expect("]"), postfix_expr>>)
        \/ \E k, l : Accept(<<Const("1"), node(k, 2), Const("1"), node(l, 2), postfix_expr>>)
        \/ \E x : /\ Go(<<Call("list of", "expr"), postfix_expr>>, token + 1, Replaced(1, x))
                  /\ UNCHANGED identifiers
    BY <1>3, Zenon DEF postfix
  <2>5. token + 1 \in 1..n /\ (UNCHANGED identifiers => Known(identifiers'))
    BY <2>1, Places DEF Calling
  <2>6. /\ Runs(expr \o <<node("ND_ADD", 2), node("ND_DEREF", 1), expect("]"), postfix_expr>>,
                m + 1, m + 1, n)
        /\ \A k, l : Runs(<<Const("1"), node(k, 2), Const("1"), node(l, 2), postfix_expr>>,
                          m + 1, m + 1, n)
        /\ Runs(<<Call("list of", "expr"), postfix_expr>>, m + 1, m + 1, n)
    BY <2>2, ExpressionLists, Zenon
  <2> QED BY <2>1, <2>2, <2>3, <2>4, <2>5, <2>6, Zenon
<1>4. CASE sizeofType
  <2>1. Calling("sizeof") /\ "sizeof" \in Steady /\ "crash" \in Statuses \ {"parsing"}
    BY <1>4, Zenon DEF sizeofType, Steady, Statuses
  <2>2. PICK m \in Nat :
              \A new, x, k : Runs(new, m + 1, m + 1, n) =>
                             (/\ k \in 1..n /\ Go(new, k, Replaced(1, x)) /\ Known(identifiers')
                              => PInv')
    BY <2>1, SteadyDoes
  <2>3. Runs(<<>>, m + 1, m + 1, n)
    <3>1. m + 1 \in Nat
      BY <2>2
    <3> QED BY <3>1, RunNone
  <2>4. \/ Fail("crash")
        \/ \E x : Go(<<>>, token, Replaced(1, x)) /\ UNCHANGED identifiers
    BY <1>4, Zenon DEF sizeofType, Return
  <2>5. token \in 1..n /\ (UNCHANGED identifiers => Known(identifiers'))
    BY <2>1, Places DEF Calling
  <2> QED BY <2>1, <2>2, <2>3, <2>4, <2>5, FailsWell, Zenon
<1>5. CASE typeName
  <2>1. Calling("typeName") /\ "typeName" \in Steady \cup {"typeName", "new_identifier"}
    BY <1>5, Zenon DEF typeName
  <2>2. PICK m \in Nat :
              /\ \A new, k : Runs(new, m, m + 1, n) =>
                             (/\ k \in 1..n /\ Go(new, k, Below(1)) /\ Known(identifiers')
                              => PInv')
              /\ \A new : Runs(new, m + 1, m + 1, n) => (Do(new) => PInv')
    BY <2>1, SteadyDoes
  <2>3. /\ Runs(<<unary_expr, Call("sizeof", 0)>>, m, m + 1, n)
        /\ Runs(<<Call("pointer", 0), Call("array", 0), expect(")"), Call("sizeof", 0)>>,
                m + 1, m + 1, n)
    BY <2>2, ExpressionLists, Zenon
  <2>4. \/ /\ Go(<<unary_expr, Call("sizeof", 0)>>, Current.arg, Below(1))
           /\ UNCHANGED identifiers
        \/ Do(<<Call("pointer", 0), Call("array", 0), expect(")"), Call("sizeof", 0)>>)
    BY <1>5, Zenon DEF typeName, Do
  <2>5. /\ Running /\ Current.do = "typeName"
        /\ UNCHANGED identifiers => Known(identifiers')
    BY <2>1, Places DEF Calling
  <2>6. Current.arg \in 1..n
    BY <2>5, Foremost, Zenon DEF Made
  <2> QED BY <2>2, <2>3, <2>4, <2>5, <2>6, Zenon
<1> QED BY <1>1, <1>2, <1>3, <1>4, <1>5

LEMMA KnownAppend ==
    ASSUME NEW names, Known(names), NEW kind, NEW name \in Idents, NEW type
    PROVE  Known(Append(names, Identifier(kind, name, type)))
<1> DEFINE i == Identifier(kind, name, type)
<1>1. i.name \in Idents /\ i.kind \in {"LVAR", "GVAR", "FUNC"}
  BY Zenon DEF Identifier, IdentKind
<1> HIDE DEF i
<1> DEFINE longer == Append(names, i)
<1>2. IsSeq(names)
  BY DEF Known
<1>3. /\ IsSeq(longer) /\ Len(longer) = Len(names) + 1 /\ longer[Len(names) + 1] = i
      /\ \A k \in 1..Len(names) : longer[k] = names[k]
  BY <1>2, SeqAppend
<1>4. Len(names) \in Nat /\ DOMAIN names = 1..Len(names) /\ DOMAIN longer = 1..Len(longer)
  BY <1>2, <1>3, SeqFacts
<1> HIDE DEF longer
<1>5. \A k \in DOMAIN longer : k \in DOMAIN names \/ k = Len(names) + 1
  BY <1>3, <1>4
<1>6. \A k \in DOMAIN names : names[k].name \in Idents /\ names[k].kind \in {"LVAR", "GVAR", "FUNC"}
  BY DEF Known
<1>7. \A k \in DOMAIN longer :
         longer[k].name \in Idents /\ longer[k].kind \in {"LVAR", "GVAR", "FUNC"}
  BY <1>1, <1>3, <1>4, <1>5, <1>6
<1>8. Known(longer)
  BY <1>3, <1>7 DEF Known
<1> QED BY <1>8 DEF longer, i

LEMMA OperandSteps ==
    ASSUME PInv, Unary \/ sizeof \/ PrimaryName \/ Unknown \/ primary_expr \/ TypeSpec \/ new_node_num
    PROVE  PInv'
<1> DEFINE d == Len(values)
<1> DEFINE n == Len(tokens) + 1
<1>1. ASSUME NEW do \in Making \cup {"unknown"}, Calling(do)
      PROVE  /\ d \in Nat /\ token \in 1..n
             /\ \A new : Runs(new, d, d + 1, n) => (Do(new) => PInv')
             /\ \A new : Runs(new, d, d + 1, n) => (do \notin Builders /\ Accept(new) => PInv')
             /\ \A new, x : Runs(new, d + 1, d + 1, n) =>
                               (do \notin Builders /\ Push(new, x) => PInv')
             /\ \A x : /\ Return(Append(values, x)) => PInv'
                       /\ do \notin Builders /\ Push(<<>>, x) => PInv'
                       /\ Go(<<>>, token, Append(values, x)) /\ Known(identifiers') => PInv'
  BY <1>1, MakingDoes
<1>2. \A how \in Statuses \ {"parsing"} : Fail(how) => PInv'
  BY FailsWell
<1>3. "crash" \in Statuses \ {"parsing"} /\ "error_at" \in Statuses \ {"parsing"}
      /\ "parseError" \in Statuses \ {"parsing"}
  BY Zenon DEF Statuses
<1> HIDE DEF d, n
<1>4. CASE Unary
  <2>1. Calling("unary_expr") /\ "unary_expr" \in Making /\ "unary_expr" \notin Builders
    BY <1>4, Zenon DEF Unary, Making, Builders
  <2>2. \/ \E k, x : Push(<<unary_expr, node(k, 2)>>, x)
        \/ \E k : Accept(<<unary_expr, node(k, 1)>>)
        \/ \E k : Accept(<<unary_expr, Const("1"), node(k, 2)>>)
        \/ Accept(<<Call("operand of sizeof", 0)>>)
        \/ Do(<<Call("primary_expr", 0), postfix_expr>>)
    BY <1>4, Zenon DEF Unary
  <2>3. d \in Nat
    BY <1>1, <2>1, Zenon
  <2>4. /\ \A k : Runs(<<unary_expr, node(k, 2)>>, d + 1, d + 1, n)
        /\ \A k : Runs(<<unary_expr, node(k, 1)>>, d, d + 1, n)
        /\ \A k : Runs(<<unary_expr, Const("1"), node(k, 2)>>, d, d + 1, n)
        /\ Runs(<<Call("operand of sizeof", 0)>>, d, d + 1, n)
        /\ Runs(<<Call("primary_expr", 0), postfix_expr>>, d, d + 1, n)
    BY <2>3, ExpressionLists, RunAt, Zenon DEF Making
  <2> QED BY <1>1, <2>1, <2>2, <2>4, Zenon
<1>5. CASE sizeof
  <2>1. Calling("operand of sizeof") /\ "operand of sizeof" \in Making
        /\ "operand of sizeof" \notin Builders
    BY <1>5, Zenon DEF sizeof, Making, Builders
  <2>2. \/ Accept(<<typeSpec(""), Call("typeName", token)>>)
        \/ Do(<<unary_expr, Call("sizeof", 0)>>)
    BY <1>5, Zenon DEF sizeof
  <2>3. d \in Nat /\ token \in 1..n
    BY <1>1, <2>1, Zenon
  <2>4. /\ Runs(<<typeSpec(""), Call("typeName", token)>>, d, d + 1, n)
        /\ Runs(<<unary_expr, Call("sizeof", 0)>>, d, d + 1, n)
    BY <2>3, ExpressionLists, DeclarationLists, Zenon
  <2> QED BY <1>1, <2>1, <2>2, <2>4, Zenon
<1>6. CASE PrimaryName
  <2>1. Calling("primary_expr") /\ "primary_expr" \in Making /\ "primary_expr" \notin Builders
        /\ Now \in Idents
    BY <1>6, Zenon DEF PrimaryName, Making, Builders
  <2>2. (\E x : Push(<<>>, x)) \/ Accept(<<Call("unknown", Now)>>)
    BY <1>6, Zenon DEF PrimaryName
  <2>3. d \in Nat /\ token \in 1..n
    BY <1>1, <2>1, Zenon
  <2>4. Runs(<<Call("unknown", Now)>>, d, d + 1, n)
    <3>1. Is(Call("unknown", Now), 0, 1, n)
      BY <2>1, Zenon DEF Is, Call, Made, Takes, Gives, Bottoms, Fresh, Silent
    <3> QED BY <2>3, <3>1, Adds, Zenon
  <2> QED BY <1>1, <2>1, <2>2, <2>4, Zenon
<1>7. CASE Unknown
  <2>1. Calling("unknown") /\ Running /\ Current.do = "unknown"
    BY <1>7, Zenon DEF Unknown, Calling
  <2>2. \/ Fail("parseError")
        \/ /\ identifiers' = Append(identifiers, Identifier("ND_FUNCCALL", Current.arg, INT))
           /\ \E x : Go(<<>>, token, Append(values, x))
    BY <1>7, Zenon DEF Unknown
  <2>3. Current.arg \in Idents
    BY <2>1, Foremost, Zenon DEF Made
  <2>4. Known(identifiers)
    BY DEF PInv, State
  <2> QED BY <1>1, <1>2, <1>3, <2>1, <2>2, <2>3, <2>4, KnownAppend, Zenon
<1>8. CASE primary_expr
  <2>1. Calling("primary_expr") /\ "primary_expr" \in Making /\ "primary_expr" \notin Builders
    BY <1>8, Zenon DEF primary_expr, Making, Builders
  <2>2. Accept(expr \o <<expect(")")>>) \/ (\E x : Push(<<>>, x)) \/ Fail("error_at")
    BY <1>8, Zenon DEF primary_expr
  <2>3. d \in Nat
    BY <1>1, <2>1, Zenon
  <2>4. Runs(expr \o <<expect(")")>>, d, d + 1, n)
    BY <2>3, ExpressionLists, Zenon
  <2> QED BY <1>1, <1>2, <1>3, <2>1, <2>2, <2>4, Zenon
<1>9. CASE TypeSpec
  <2>1. Calling("typeSpec") /\ "typeSpec" \in Making /\ "typeSpec" \notin Builders
    BY <1>9, Zenon DEF TypeSpec, Making, Builders
  <2>2. (\E x : Push(<<>>, x)) \/ \E x : Return(Append(values, x))
    BY <1>9, Zenon DEF TypeSpec
  <2> QED BY <1>1, <2>1, <2>2, Zenon
<1>10. CASE new_node_num
  <2>1. Calling("num") /\ "num" \in Making
    BY <1>10, Zenon DEF new_node_num, Making
  <2>2. \E x : Return(Append(values, x))
    BY <1>10, Zenon DEF new_node_num
  <2> QED BY <1>1, <2>1, <2>2, Zenon
<1> QED BY <1>4, <1>5, <1>6, <1>7, <1>8, <1>9, <1>10

LEMMA SteadyAt ==
    ASSUME PInv, NEW do \in Steady \cup {"typeName", "new_identifier"}, Calling(do)
    PROVE  LET m == Len(values) - 1
               n == Len(tokens) + 1
           IN  /\ m \in Nat /\ Runs(<<>>, m + 1, m + 1, n)
               /\ \A new : Runs(new, m + 1, m + 1, n) => (Do(new) => PInv')
               /\ \A new : Runs(new, m + 1, m + 1, n) => (do \notin Builders /\ Accept(new) => PInv')
               /\ \A new, x : Runs(new, m + 2, m + 1, n) =>
                                 (do \notin Builders /\ Push(new, x) => PInv')
               /\ \A new, x : Runs(new, m + 1, m + 1, n) =>
                                 (do \notin Builders /\ UNCHANGED identifiers
                                    /\ Go(new, token + 1, Replaced(1, x)) => PInv')
               /\ \A new, x : Runs(new, m + 1, m + 1, n) =>
                                 (Known(identifiers') /\ Go(new, token, Replaced(1, x)) => PInv')
               /\ UNCHANGED identifiers => Known(identifiers')
<1> DEFINE n == Len(tokens) + 1
<1> DEFINE l == Len(values) - 1
<1>1. PICK m \in Nat :
              /\ Len(values) = m + 1
              /\ \A new : Runs(new, m + 1, m + 1, n) => (Do(new) => PInv')
              /\ \A new : Runs(new, m + 1, m + 1, n) => (do \notin Builders /\ Accept(new) => PInv')
              /\ \A new, x : Runs(new, m + 2, m + 1, n) =>
                                (do \notin Builders /\ Push(new, x) => PInv')
              /\ \A new, x, k : Runs(new, m + 1, m + 1, n) =>
                             (/\ k \in 1..n /\ Go(new, k, Replaced(1, x)) /\ Known(identifiers')
                              => PInv')
  BY SteadyDoes
<1>2. l = m /\ m + 1 \in Nat
  BY <1>1
<1>3. /\ token \in 1..n /\ (do \notin Builders => token + 1 \in 1..n)
      /\ UNCHANGED identifiers => Known(identifiers')
  BY Places DEF Calling
<1>4. Runs(<<>>, m + 1, m + 1, n)
  BY <1>2, RunNone
<1> HIDE DEF l, n
<1> QED BY <1>1, <1>2, <1>3, <1>4, Zenon DEF l, n

LEMMA DeclarationSteps ==
    ASSUME PInv,
           \/ Pointer \/ declaration_array \/ Name \/ new_identifier \/ Declaration \/ DeclarationEnd
           \/ initializer \/ initializer_list \/ initializer_next \/ paramList \/ paramList_next
    PROVE  PInv'
<1> DEFINE m == Len(values) - 1
<1> DEFINE n == Len(tokens) + 1
<1>1. ASSUME NEW do \in Steady \cup {"typeName", "new_identifier"}, Calling(do)
      PROVE  /\ m \in Nat /\ Runs(<<>>, m + 1, m + 1, n)
             /\ \A new : Runs(new, m + 1, m + 1, n) => (Do(new) => PInv')
             /\ \A new : Runs(new, m + 1, m + 1, n) => (do \notin Builders /\ Accept(new) => PInv')
             /\ \A new, x : Runs(new, m + 1, m + 1, n) =>
                               (do \notin Builders /\ UNCHANGED identifiers
                                  /\ Go(new, token + 1, Replaced(1, x)) => PInv')
             /\ \A new, x : Runs(new, m + 1, m + 1, n) =>
                               (Known(identifiers') /\ Go(new, token, Replaced(1, x)) => PInv')
             /\ UNCHANGED identifiers => Known(identifiers')
  BY <1>1, SteadyAt
<1> HIDE DEF m, n
<1>2. CASE Pointer
  <2>1. Calling("pointer") /\ "pointer" \in Steady /\ "pointer" \notin Builders
    BY <1>2, Zenon DEF Pointer, Steady, Builders
  <2>2. \/ \E x : Go(<<Current>>, token + 1, Replaced(1, x)) /\ UNCHANGED identifiers
        \/ Do(<<>>)
    BY <1>2, Zenon DEF Pointer
  <2>3. Runs(<<Current>>, m + 1, m + 1, n)
    <3>1. m \in Nat /\ Current.do = "pointer"
      BY <1>1, <2>1, Zenon DEF Calling
    <3>2. Is(Current, 1, 1, n)
      BY <3>1, Zenon DEF Is, Made, Takes, Gives, Bottoms, Fresh, Silent
    <3>3. m + 1 \in Nat /\ 1 <= m + 1 /\ 1 \in Nat
      BY <3>1
    <3> QED BY <3>2, <3>3, Keeps
  <2> QED BY <1>1, <2>1, <2>2, <2>3, Zenon
<1>3. CASE declaration_array
  <2>1. Calling("array") /\ "array" \in Steady /\ "array" \notin Builders
    BY <1>3, Zenon DEF declaration_array, Steady, Builders
  <2>2. \/ \E x : /\ Go(<<expect(Number), expect("]"), Current>>, token + 1, Replaced(1, x))
                  /\ UNCHANGED identifiers
        \/ Do(<<>>)
    BY <1>3, Zenon DEF declaration_array
  <2>3. Runs(<<expect(Number), expect("]"), Current>>, m + 1, m + 1, n)
    <3>1. m \in Nat /\ Current.do = "array"
      BY <1>1, <2>1, Zenon DEF Calling
    <3>2. Is(Current, 1, 1, n)
      BY <3>1, Zenon DEF Is, Made, Takes, Gives, Bottoms, Fresh, Silent
    <3>3. m + 1 \in Nat /\ 1 <= m + 1 /\ 1 \in Nat
      BY <3>1
    <3>4. Runs(<<Current>>, m + 1, m + 1, n)
      BY <3>2, <3>3, Keeps
    <3>5. \A t : Runs(<<expect(t)>>, m + 1, m + 1, n)
      BY <3>1, RunAt, Zenon DEF Silent, expect
    <3> QED BY <3>4, <3>5, Chain3, Zenon
  <2> QED BY <1>1, <2>1, <2>2, <2>3, Zenon
<1>4. CASE Name
  <2>1. Calling("name") /\ "name" \in Steady /\ "name" \notin Builders
    BY <1>4, Zenon DEF Name, Steady, Builders
  <2>2. \E k : \E name \in Idents \cup {""} :
           \/ Accept(<<Call("array", 0), Call("new_identifier", <<k, name>>)>>)
           \/ Do(<<Call("array", 0), Call("new_identifier", <<k, name>>)>>)
    BY <1>4, Zenon DEF Name
  <2>3. m \in Nat
    BY <1>1, <2>1, Zenon
  <2>4. \A k : \A name \in Idents \cup {""} :
           Runs(<<Call("array", 0), Call("new_identifier", <<k, name>>)>>, m + 1, m + 1, n)
    BY <2>3, DeclarationLists, Zenon
  <2> QED BY <1>1, <2>1, <2>2, <2>4, Zenon
<1>5. CASE new_identifier
  <2>1. Calling("new_identifier") /\ Running /\ Current.do = "new_identifier"
    BY <1>5, Zenon DEF new_identifier, Calling
  <2>2. /\ \E x : Go(<<>>, token, Replaced(1, x))
        /\ \/ identifiers' = identifiers
           \/ /\ Current.arg[2] # ""
              /\ \E k, x : identifiers' = Append(identifiers, Identifier(k, Current.arg[2], x))
    BY <1>5, Zenon DEF new_identifier
  <2>3. Current.arg[2] \in Idents \cup {""}
    BY <2>1, Foremost, Zenon DEF Made
  <2>4. Known(identifiers)
    BY DEF PInv, State
  <2>5. Known(identifiers')
    BY <2>2, <2>3, <2>4, KnownAppend, Zenon
  <2> QED BY <1>1, <2>1, <2>2, <2>5, Zenon
<1>6. CASE Declaration
  <2>1. Calling("declaration") /\ "declaration" \in Steady
    BY <1>6, Zenon DEF Declaration, Steady
  <2>2. \/ \E x : Go(<<>>, token, Replaced(1, x)) /\ UNCHANGED identifiers
        \/ \E k : Do(declarator(k) \o <<Call("end of declaration", k)>>)
    BY <1>6, Zenon DEF Declaration, Return
  <2>3. m \in Nat
    BY <1>1, <2>1, Zenon
  <2>4. \A k : Runs(declarator(k) \o <<Call("end of declaration", k)>>, m + 1, m + 1, n)
    BY <2>3, DeclarationLists, Zenon
  <2> QED BY <1>1, <2>1, <2>2, <2>4, Zenon
<1>7. CASE DeclarationEnd
  <2>1. Calling("end of declaration") /\ "end of declaration" \in Steady
        /\ "end of declaration" \notin Builders
    BY <1>7, Zenon DEF DeclarationEnd, Steady, Builders
  <2>2. \/ \E set : Accept(<<Call("initializer", 0), consume(set)>>)
        \/ \E k : Accept(<<node(k, 1)>>)
        \/ \E set : Do(<<consume(set)>>)
    BY <1>7, Zenon DEF DeclarationEnd
  <2>3. m \in Nat
    BY <1>1, <2>1, Zenon
  <2>4. /\ \A set : Runs(<<Call("initializer", 0), consume(set)>>, m + 1, m + 1, n)
        /\ \A k : Runs(<<node(k, 1)>>, m + 1, m + 1, n)
        /\ \A set : Runs(<<consume(set)>>, m + 1, m + 1, n)
    BY <2>3, DeclarationLists, RunAt, Zenon DEF Silent, consume
  <2> QED BY <1>1, <2>1, <2>2, <2>4, Zenon
<1>8. CASE initializer
  <2>1. Calling("initializer") /\ "initializer" \in Steady /\ "initializer" \notin Builders
    BY <1>8, Zenon DEF initializer, Steady, Builders
  <2>2. /\ UNCHANGED identifiers
        /\ \E x : \/ Go(<<list(0)>>, token + 1, Replaced(1, x))
                  \/ Go(<<Const("c"), Call("element", "0"), Const("0"), Call("element", "1")>>,
                        token + 1, Replaced(1, x))
                  \/ Go(assign_expr \o <<Call("element", "")>>, token, Replaced(1, x))
    BY <1>8, Zenon DEF initializer
  <2>3. m \in Nat
    BY <1>1, <2>1, Zenon
  <2>4. /\ Runs(<<list(0)>>, m + 1, m + 1, n)
        /\ Runs(<<Const("c"), Call("element", "0"), Const("0"), Call("element", "1")>>,
                m + 1, m + 1, n)
        /\ Runs(assign_expr \o <<Call("element", "")>>, m + 1, m + 1, n)
    BY <2>3, DeclarationLists, Zenon
  <2> QED BY <1>1, <2>1, <2>2, <2>4, Zenon
<1>9. CASE initializer_list
  <2>1. Calling("list") /\ "list" \in Steady /\ "list" \notin Builders
    BY <1>9, Zenon DEF initializer_list, Steady, Builders
  <2>2. \/ Accept(<<>>)
        \/ \E a, b : Do(assign_expr \o <<Call("element", a), Call("next of list", b)>>)
    BY <1>9, Zenon DEF initializer_list
  <2>3. m \in Nat
    BY <1>1, <2>1, Zenon
  <2>4. \A a, b : Runs(assign_expr \o <<Call("element", a), Call("next of list", b)>>,
                       m + 1, m + 1, n)
    BY <2>3, DeclarationLists, Zenon
  <2> QED BY <1>1, <2>1, <2>2, <2>4, Zenon
<1>10. CASE initializer_next
  <2>1. Calling("next of list") /\ "next of list" \in Steady /\ "next of list" \notin Builders
    BY <1>10, Zenon DEF initializer_next, Steady, Builders
  <2>2. (\E a : Accept(<<list(a)>>)) \/ \E t : Do(<<expect(t)>>)
    BY <1>10, Zenon DEF initializer_next
  <2>3. m \in Nat
    BY <1>1, <2>1, Zenon
  <2>4. /\ \A a : Runs(<<list(a)>>, m + 1, m + 1, n)
        /\ \A t : Runs(<<expect(t)>>, m + 1, m + 1, n)
    BY <2>3, DeclarationLists, RunAt, Zenon DEF Silent, expect
  <2> QED BY <1>1, <2>1, <2>2, <2>4, Zenon
<1>11. CASE paramList
  <2>1. Calling("list of") /\ "list of" \in Steady /\ "list of" \notin Builders
    BY <1>11, Zenon DEF paramList, Steady, Builders
  <2>2. Accept(<<>>) \/ \E a : Do(Items(a) \o <<append, Call("more of", a)>>)
    BY <1>11, Zenon DEF paramList
  <2>3. m \in Nat
    BY <1>1, <2>1, Zenon
  <2>4. \A a : Runs(Items(a) \o <<append, Call("more of", a)>>, m + 1, m + 1, n)
    BY <2>3, DeclarationLists, Zenon
  <2> QED BY <1>1, <2>1, <2>2, <2>4, Zenon
<1>12. CASE paramList_next
  <2>1. Calling("more of") /\ "more of" \in Steady /\ "more of" \notin Builders
        /\ Current.do = "more of"
    BY <1>12, Zenon DEF paramList_next, Steady, Builders, Calling
  <2>2. (\E a : Accept(Items(a) \o <<append, Current>>)) \/ \E t : Do(<<expect(t)>>)
    BY <1>12, Zenon DEF paramList_next
  <2>3. m \in Nat
    BY <1>1, <2>1, Zenon
  <2>4. \A t : Runs(<<expect(t)>>, m + 1, m + 1, n)
    BY <2>3, RunAt, Zenon DEF Silent, expect
  <2>5. \A a : Runs(Items(a) \o <<append, Current>>, m + 1, m + 1, n)
    <3>1. Is(Current, 1, 1, n)
      BY <2>1, Zenon DEF Is, Made, Takes, Gives, Bottoms, Fresh, Silent
    <3>2. m + 1 \in Nat /\ 1 <= m + 1 /\ 1 \in Nat /\ (m + 1) + 1 = m + 2
      BY <2>3
    <3>3. Runs(<<Current>>, m + 1, m + 1, n)
      BY <3>1, <3>2, Keeps
    <3>4. Runs(<<append>>, m + 2, m + 1, n)
      BY <2>3, RunCalls, Zenon
    <3>5. Runs(<<append, Current>>, m + 2, m + 1, n)
      BY <3>3, <3>4, Run2, Zenon
    <3>6. Runs(expr, m + 1, m + 2, n)
      BY <2>3, RunAt
    <3>7. Runs(declaration("ND_LVAR"), m + 1, (m + 1) + 1, n)
      BY <3>2, DeclarationLists, Zenon
    <3>8. \A a : Runs(Items(a), m + 1, m + 2, n)
      BY <3>2, <3>6, <3>7, Zenon DEF Items
    <3> QED BY <3>5, <3>8, RunCat, Zenon
  <2> QED BY <1>1, <2>1, <2>2, <2>4, <2>5, Zenon
<1> QED BY <1>2, <1>3, <1>4, <1>5, <1>6, <1>7, <1>8, <1>9, <1>10, <1>11, <1>12

LEMMA StatementSteps ==
    ASSUME PInv,
           \/ Stmt \/ return \/ else \/ for_first \/ for_second \/ Block \/ Parameters \/ LastReturn
    PROVE  PInv'
<1> DEFINE d == Len(values)
<1> DEFINE m == Len(values) - 1
<1> DEFINE n == Len(tokens) + 1
<1>1. ASSUME NEW do \in Steady \cup {"typeName", "new_identifier"}, Calling(do)
      PROVE  /\ m \in Nat /\ Runs(<<>>, m + 1, m + 1, n)
             /\ \A new : Runs(new, m + 1, m + 1, n) => (Do(new) => PInv')
             /\ \A new : Runs(new, m + 1, m + 1, n) => (do \notin Builders /\ Accept(new) => PInv')
             /\ \A new, x : Runs(new, m + 2, m + 1, n) =>
                               (do \notin Builders /\ Push(new, x) => PInv')
  BY <1>1, SteadyAt
<1>2. ASSUME NEW do \in Making \cup {"unknown"}, Calling(do)
      PROVE  /\ d \in Nat
             /\ \A new : Runs(new, d, d + 1, n) => (Do(new) => PInv')
             /\ \A new : Runs(new, d, d + 1, n) => (do \notin Builders /\ Accept(new) => PInv')
             /\ \A new, x : Runs(new, d + 1, d + 1, n) =>
                               (do \notin Builders /\ Push(new, x) => PInv')
  BY <1>2, MakingDoes
<1> HIDE DEF d, m, n
<1>3. CASE Stmt
  <2> DEFINE condition == <<expect("(")>> \o expr \o <<expect(")")>>
  <2>1. Calling("stmt") /\ "stmt" \in Making /\ "stmt" \notin Builders
    BY <1>3, Zenon DEF Stmt, Making, Builders
  <2>2. \/ \E k : Do(declaration(k))
        \/ Accept(<<Call("value of return", 0)>>)
        \/ \E k : Accept(condition \o <<stmt, node(k, 2), Call("else", 0)>>)
        \/ \E k : Accept(condition \o <<stmt, node(k, 2)>>)
        \/ \E t, k : Accept(conditional_expr \o <<expect(t), stmt, node(k, 2)>>)
        \/ \E t, k : Accept(<<expect(t), stmt, node(k, 1)>>)
        \/ \E t : Accept(<<expect(t), Call("first of for", 0)>>)
        \/ \E k : Accept(<<node(k, 0), block>>)
        \/ \E k, x : Push(<<node(k, 1)>>, x)
        \/ \E t, k : Do(expr \o <<expect(t), node(k, 1)>>)
    BY <1>3, Zenon DEF Stmt
  <2>3. d \in Nat
    BY <1>2, <2>1, Zenon
  <2>4. /\ \A k : Runs(declaration(k), d, d + 1, n)
        /\ Runs(<<Call("value of return", 0)>>, d, d + 1, n)
        /\ \A k : Runs(<<node(k, 1)>>, d + 1, d + 1, n)
    BY <2>3, DeclarationLists, RunAt, Zenon DEF Making
  <2>5. /\ \A k : Runs(condition \o <<stmt, node(k, 2), Call("else", 0)>>, d, d + 1, n)
        /\ \A k : Runs(condition \o <<stmt, node(k, 2)>>, d, d + 1, n)
        /\ \A t, k : Runs(conditional_expr \o <<expect(t), stmt, node(k, 2)>>, d, d + 1, n)
        /\ \A t, k : Runs(<<expect(t), stmt, node(k, 1)>>, d, d + 1, n)
        /\ \A t : Runs(<<expect(t), Call("first of for", 0)>>, d, d + 1, n)
        /\ \A k : Runs(<<node(k, 0), block>>, d, d + 1, n)
        /\ \A t, k : Runs(expr \o <<expect(t), node(k, 1)>>, d, d + 1, n)
    BY <2>3, StatementLists, Zenon
  <2> HIDE DEF condition
  <2>6. ASSUME NEW new, Runs(new, d, d + 1, n), Do(new) \/ Accept(new)
        PROVE  PInv'
    BY <1>2, <2>1, <2>6, Zenon
  <2>7. \A k, x : Push(<<node(k, 1)>>, x) => PInv'
    BY <1>2, <2>1, <2>4, Zenon
  <2> QED BY <2>2, <2>4, <2>5, <2>6, <2>7, Zenon
<1>4. CASE return
  <2>1. Calling("value of return") /\ "value of return" \in Making /\ "value of return" \notin Builders
    BY <1>4, Zenon DEF return, Making, Builders
  <2>2. \/ \E k : Accept(<<node(k, 0)>>)
        \/ \E k, t : Do(expr \o <<node(k, 1), expect(t)>>)
    BY <1>4, Zenon DEF return
  <2>3. d \in Nat
    BY <1>2, <2>1, Zenon
  <2>4. /\ \A k : Runs(<<node(k, 0)>>, d, d + 1, n)
        /\ \A k, t : Runs(expr \o <<node(k, 1), expect(t)>>, d, d + 1, n)
    BY <2>3, StatementLists, RunAt, Zenon
  <2> QED BY <1>2, <2>1, <2>2, <2>4, Zenon
<1>5. CASE else
  <2>1. Calling("else") /\ "else" \in Steady /\ "else" \notin Builders
    BY <1>5, Zenon DEF else, Steady, Builders
  <2>2. (\E k : Accept(<<stmt, node(k, 2)>>)) \/ Do(<<>>)
    BY <1>5, Zenon DEF else
  <2>3. m \in Nat
    BY <1>1, <2>1, Zenon
  <2>4. \A k : Runs(<<stmt, node(k, 2)>>, m + 1, m + 1, n)
    BY <2>3, StatementLists, Zenon
  <2> QED BY <1>1, <2>1, <2>2, <2>4, Zenon
<1>6. CASE for_first
  <2>1. Calling("first of for") /\ "first of for" \in Making /\ "first of for" \notin Builders
    BY <1>6, Zenon DEF for_first, Making, Builders
  <2>2. \/ \E a, x : Push(<<Call("second of for", a)>>, x)
        \/ \E a, k : Do(declaration(k) \o <<Call("second of for", a)>>)
        \/ \E a : Do(expr \o <<expect(";"), Call("second of for", a)>>)
    BY <1>6, Zenon DEF for_first
  <2>3. d \in Nat
    BY <1>2, <2>1, Zenon
  <2>4. /\ \A a : Runs(<<Call("second of for", a)>>, d + 1, d + 1, n)
        /\ \A a, k : Runs(declaration(k) \o <<Call("second of for", a)>>, d, d + 1, n)
        /\ \A a : Runs(expr \o <<expect(";"), Call("second of for", a)>>, d, d + 1, n)
    BY <2>3, ForLists, Zenon
  <2> QED BY <1>2, <2>1, <2>2, <2>4, Zenon
<1>7. CASE for_second
  <2>1. Calling("second of for") /\ "second of for" \in Steady /\ "second of for" \notin Builders
    BY <1>7, Zenon DEF for_second, Steady, Builders
  <2>2. \/ \E a, x : Push(<<Call("third of for", a)>>, x)
        \/ \E a : Do(expr \o <<expect(";"), Call("third of for", a)>>)
    BY <1>7, Zenon DEF for_second
  <2>3. m \in Nat
    BY <1>1, <2>1, Zenon
  <2>4. /\ \A a : Runs(<<Call("third of for", a)>>, m + 2, m + 1, n)
        /\ \A a : Runs(expr \o <<expect(";"), Call("third of for", a)>>, m + 1, m + 1, n)
    BY <2>3, ForLists, Zenon
  <2> QED BY <1>1, <2>1, <2>2, <2>4, Zenon
<1>8. CASE Block
  <2>1. Calling("block") /\ "block" \in Steady /\ "block" \notin Builders
    BY <1>8, Zenon DEF Block, Steady, Builders
  <2>2. Accept(<<>>) \/ Do(<<stmt, append, block>>)
    BY <1>8, Zenon DEF Block
  <2>3. m \in Nat
    BY <1>1, <2>1, Zenon
  <2>4. Runs(<<stmt, append, block>>, m + 1, m + 1, n)
    BY <2>3, StatementLists, Zenon
  <2> QED BY <1>1, <2>1, <2>2, <2>4, Zenon
<1>9. CASE Parameters
  <2> DEFINE rest == <<Call("list of", "declaration"), expect("{"), node("ND_BLOCK", 0), stmt,
                       append, block, Call("return", 0), append>>
  <2>1. Calling("parameters") /\ "parameters" \in Steady /\ "parameters" \notin Builders
    BY <1>9, Zenon DEF Parameters, Steady, Builders
  <2>2. Accept(rest) \/ Fail("parseError")
    BY <1>9, Zenon DEF Parameters
  <2>3. m \in Nat
    BY <1>1, <2>1, Zenon
  <2>4. Runs(rest, m + 1, m + 1, n)
    BY <2>3, FileLists, Zenon
  <2> HIDE DEF rest
  <2>5. "parseError" \in Statuses \ {"parsing"}
    BY Zenon DEF Statuses
  <2> QED BY <1>1, <2>1, <2>2, <2>4, <2>5, FailsWell, Zenon
<1>10. CASE LastReturn
  <2>1. Calling("return") /\ "return" \in Steady
    BY <1>10, Zenon DEF LastReturn, Steady
  <2>2. Do(<<>>) \/ \E k : Do(<<node(k, 0), append>>)
    BY <1>10, Zenon DEF LastReturn
  <2>3. m \in Nat
    BY <1>1, <2>1, Zenon
  <2>4. \A k : Runs(<<node(k, 0), append>>, m + 1, m + 1, n)
    BY <2>3, StatementLists, Zenon
  <2> QED BY <1>1, <2>1, <2>2, <2>4, Zenon
<1> QED BY <1>3, <1>4, <1>5, <1>6, <1>7, <1>8, <1>9, <1>10

\* A call that only makes a result of those that it takes.
LEMMA Returns ==
    ASSUME PInv, Running, Current.do \notin Bottoms, NEW v, IsSeq(v),
           Len(v) = Len(values) - Takes(Current) + Gives(Current), Return(v)
    PROVE  PInv'
<1>1. IsSeq(values) /\ token \in 1..(Len(tokens) + 1) /\ Known(identifiers')
  BY Places DEF Return
<1>2. Len(v) \in Nat
  BY SeqFacts
<1>3. Runs(<<>>, Len(v), Len(values) - Takes(Current) + Gives(Current), Len(tokens) + 1)
  BY <1>2, RunNone
<1> QED BY <1>1, <1>3, GoOn DEF Return

LEMMA NodeSteps ==
    ASSUME PInv, new_node \/ new_vector \/ Swap \/ Drop \/ element \/ for
    PROVE  PInv'
<1>1. ASSUME NEW v, IsSeq(v), Running, Current.do \notin Bottoms,
             Len(v) = Len(values) - Takes(Current) + Gives(Current), Return(v)
      PROVE  PInv'
  BY <1>1, Returns
<1>2. ASSUME NEW do, Calling(do)
      PROVE  /\ Running /\ Current.do = do /\ Takes(Current) <= Len(values)
             /\ Len(values) \in Nat /\ IsSeq(values) /\ Made(Current, Len(tokens) + 1)
  BY <1>2, Foremost, Places DEF Calling
<1>3. \A k \in Nat : \A x : k <= Len(values) /\ IsSeq(values) =>
        /\ IsSeq(Below(k)) /\ Len(Below(k)) = Len(values) - k
        /\ IsSeq(Replaced(k, x)) /\ Len(Replaced(k, x)) = Len(values) - k + 1
        /\ IsSeq(Args(k)) /\ Len(Args(k)) = k
  BY Results
<1>4. 0 \in Nat /\ 1 \in Nat /\ 2 \in Nat /\ 4 \in Nat
  OBVIOUS
<1>5. CASE new_node
  <2>1. Calling("node")
    BY <1>5, Zenon DEF new_node
  <2>2. Fail("crash") \/ \E x : Return(Replaced(Current.arg[2], x))
    BY <1>5, Zenon DEF new_node
  <2>3. /\ Current.arg[2] \in Nat /\ Takes(Current) = Current.arg[2] /\ Gives(Current) = 1
        /\ Current.do \notin Bottoms
    BY <1>2, <2>1, Zenon DEF Made, Takes, Gives, Bottoms, Silent
  <2>4. "crash" \in Statuses \ {"parsing"}
    BY Zenon DEF Statuses
  <2> QED BY <1>1, <1>2, <1>3, <2>1, <2>2, <2>3, <2>4, FailsWell, Zenon
<1>6. CASE new_vector \/ element
  <2>1. Calling("append") \/ Calling("element")
    BY <1>6, Zenon DEF new_vector, element
  <2>2. \E x : Return(Replaced(2, x))
    BY <1>6, Zenon DEF new_vector, element
  <2>3. Takes(Current) = 2 /\ Gives(Current) = 1 /\ Current.do \notin Bottoms
    <3>1. Current.do \in {"append", "element"}
      BY <1>2, <2>1, Zenon
    <3> QED BY <3>1, Zenon DEF Takes, Gives, Bottoms, Fresh, Silent
  <2> QED BY <1>1, <1>2, <1>3, <1>4, <2>1, <2>2, <2>3, Zenon
<1>7. CASE for
  <2>1. Calling("for")
    BY <1>7, Zenon DEF for
  <2>2. \E x : Return(Replaced(4, x))
    BY <1>7, Zenon DEF for
  <2>3. Takes(Current) = 4 /\ Gives(Current) = 1 /\ Current.do \notin Bottoms
    <3>1. Current.do = "for"
      BY <1>2, <2>1, Zenon
    <3> QED BY <3>1, Zenon DEF Takes, Gives, Bottoms, Fresh, Silent
  <2> QED BY <1>1, <1>2, <1>3, <1>4, <2>1, <2>2, <2>3, Zenon
<1>8. CASE Drop
  <2>1. Calling("drop") /\ Return(Below(1))
    BY <1>8, Zenon DEF Drop
  <2>2. Takes(Current) = 1 /\ Gives(Current) = 0 /\ Current.do \notin Bottoms
    <3>1. Current.do = "drop"
      BY <1>2, <2>1, Zenon
    <3> QED BY <3>1, Zenon DEF Takes, Gives, Bottoms, Fresh, Silent
  <2>3. Len(values) - 1 + 0 = Len(values) - 1
    BY <1>2, <2>1
  <2> QED BY <1>1, <1>2, <1>3, <1>4, <2>1, <2>2, <2>3, Zenon
<1>9. CASE Swap
  <2> DEFINE v == Below(2) \o Reverse(Args(2))
  <2>1. Calling("swap") /\ Return(v)
    BY <1>9, Zenon DEF Swap
  <2>2. Takes(Current) = 2 /\ Gives(Current) = 2 /\ Current.do \notin Bottoms
    <3>1. Current.do = "swap"
      BY <1>2, <2>1, Zenon
    <3> QED BY <3>1, Zenon DEF Takes, Gives, Bottoms, Fresh, Silent
  <2>3. /\ IsSeq(Below(2)) /\ Len(Below(2)) = Len(values) - 2
        /\ IsSeq(Args(2)) /\ Len(Args(2)) = 2
    BY <1>2, <1>3, <1>4, <2>1, <2>2, Zenon
  <2>4. IsSeq(Reverse(Args(2))) /\ Len(Reverse(Args(2))) = 2
    BY <2>3, Turned, Zenon
  <2>5. IsSeq(v) /\ Len(v) = Len(Below(2)) + Len(Reverse(Args(2)))
    BY <2>3, <2>4, SeqCat, Zenon
  <2>6. IsSeq(v) /\ Len(v) = Len(values) - 2 + 2
    BY <2>3, <2>4, <2>5
  <2> HIDE DEF v
  <2> QED BY <1>1, <1>2, <2>1, <2>2, <2>6, Zenon
<1> QED BY <1>5, <1>6, <1>7, <1>8, <1>9

LEMMA ForThird ==
    ASSUME PInv, for_third
    PROVE  PInv'
<1> DEFINE n == Len(tokens) + 1
<1>1. Calling("third of for") /\ Running /\ Current.do = "third of for"
      /\ "third of for" \notin Builders
  BY Zenon DEF for_third, Calling, Builders
<1>2. Takes(Current) = 2 /\ Gives(Current) = 1 /\ Current.do \notin Bottoms
  BY <1>1, Zenon DEF Takes, Gives, Bottoms, Fresh, Silent
<1>3. /\ Len(values) \in Nat /\ 2 <= Len(values) /\ IsSeq(values)
      /\ token \in 1..n /\ token <= Len(tokens) /\ token + 1 \in 1..n
      /\ UNCHANGED identifiers => Known(identifiers')
  BY <1>1, <1>2, Foremost, Places
<1> DEFINE m == Len(values) - 2
<1>4. m \in Nat /\ Len(values) = m + 2 /\ m + 1 = Len(values) - 2 + 1 /\ (m + 2) + 1 = m + 3
  BY <1>3
<1>5. \/ \E x : Push(<<stmt, Call("for", Current.arg)>>, x)
      \/ Do((expr \o <<expect(")")>>) \o <<stmt, Call("for", Current.arg)>>)
  BY Zenon DEF for_third
<1>6. /\ Runs(<<stmt, Call("for", Current.arg)>>, m + 3, m + 1, n)
      /\ Runs((expr \o <<expect(")")>>) \o <<stmt, Call("for", Current.arg)>>, m + 2, m + 1, n)
  BY <1>4, ForLists, Zenon
<1>7. \A x : IsSeq(Append(values, x)) /\ Len(Append(values, x)) = m + 3
  BY <1>3, <1>4, SeqAppend
<1> HIDE DEF m, n
<1>8. \A new, v, k : /\ IsSeq(v) /\ Runs(new, Len(v), m + 1, n) /\ Known(identifiers')
                     /\ k \in 1..n /\ Go(new, k, v)
                     => PInv'
  BY <1>1, <1>2, <1>4, GoOn DEF n
<1>9. ASSUME NEW x, Push(<<stmt, Call("for", Current.arg)>>, x)
      PROVE  PInv'
  BY <1>3, <1>6, <1>7, <1>8, <1>9, Zenon DEF Push
<1>10. ASSUME Do((expr \o <<expect(")")>>) \o <<stmt, Call("for", Current.arg)>>)
       PROVE  PInv'
  BY <1>3, <1>4, <1>6, <1>8, <1>10, Zenon DEF Do
<1> QED BY <1>5, <1>9, <1>10, Zenon

LEMMA SilentSteps ==
    ASSUME PInv, Expect \/ Consume \/ ConsumeAll
    PROVE  PInv'
<1> DEFINE n == Len(tokens) + 1
<1>1. \E do \in Silent : Calling(do) /\ do \notin Builders
  BY Zenon DEF Expect, Consume, ConsumeAll, Silent, Builders
<1>2. /\ Running /\ Current.do \in Silent /\ token <= Len(tokens)
      /\ token \in 1..n /\ token + 1 \in 1..n /\ Len(values) \in Nat
  <2>1. Running /\ Current.do \in Silent
    BY <1>1 DEF Calling
  <2> QED BY <1>1, <2>1, Places
<1>3. \A new, k : /\ Runs(new, Len(values), Len(values), n) /\ UNCHANGED identifiers
                  /\ k \in 1..n /\ Go(new, k, values)
                  => PInv'
  BY <1>2, SilentGo
<1>4. Runs(<<>>, Len(values), Len(values), n)
  BY <1>2, RunNone
<1>5. Runs(<<Current>>, Len(values), Len(values), n)
  <2>1. Is(Current, 0, 0, n)
    BY <1>2, Zenon DEF Is, Made, Takes, Gives, Bottoms, Fresh, Silent
  <2>2. 0 \in Nat /\ 0 <= Len(values)
    BY <1>2
  <2> QED BY <1>2, <2>1, <2>2, Keeps
<1>6. Accept(<<>>) \/ Do(<<>>) \/ Accept(<<Current>>) \/ Fail("error_at")
  BY Zenon DEF Expect, Consume, ConsumeAll
<1>7. "error_at" \in Statuses \ {"parsing"}
  BY Zenon DEF Statuses
<1> HIDE DEF n
<1> QED BY <1>2, <1>3, <1>4, <1>5, <1>6, <1>7, FailsWell, Zenon DEF Accept, Do

-----------------------------------------------------------------------------
(* program() and the end of its round. *)

LEMMA AgendaProgram ==
    ASSUME NEW n, NEW room
    PROVE  Agenda(<<program>>, 0, n, room)
<1> DEFINE z == <<program>>
<1>1. IsSeq(z)
  BY SeqOne
<1> HIDE DEF z
<1>2. z = <<>> \o z
  BY <1>1, EmptyCat
<1>3. 0 \in Nat /\ 0 <= 0
  OBVIOUS
<1>4. Runs(<<>>, 0, 0, n)
  BY <1>3, RunNone
<1>5. program.do \in Bottoms /\ Made(program, n) /\ Takes(program) = 0 /\ program.do = "program"
  BY Zenon DEF Call, program, Made, Takes, Bottoms, Fresh, Silent
<1>6. Takes(program) <= 0
  BY <1>3, <1>5
<1>7. Agenda(z, 0, n, room)
  BY <1>2, <1>4, <1>5, <1>6, Zenon DEF Agenda, z
<1> QED BY <1>7 DEF z

LEMMA LexStep ==
    ASSUME PInv, Lex
    PROVE  PInv'
<1> DEFINE n == Len(tokens) + 1
<1>1. PICK t : tokens' = Append(tokens, t)
  BY DEF Lex
<1>2. /\ Running /\ text' = text /\ token' = token /\ agenda' = agenda /\ values' = values
      /\ identifiers' = identifiers /\ code' = code /\ status' = status
  BY DEF Lex
<1>3. IsSeq(tokens) /\ Len(tokens) \in Nat /\ token \in 1..n
  BY StateFacts DEF PInv
<1>4. IsSeq(tokens') /\ Len(tokens') = Len(tokens) + 1
  BY <1>1, <1>3, SeqAppend
<1>5. token \in 1..(Len(tokens') + 1) /\ \A k \in 1..n : k \in 1..(Len(tokens') + 1)
  BY <1>3, <1>4
<1>6. State'
  BY <1>2, <1>4, <1>5 DEF PInv, State
<1>7. PICK calls, last, e :
        /\ agenda = calls \o <<last>>
        /\ Runs(calls, Len(values), e, n)
        /\ last.do \in Bottoms /\ Made(last, n) /\ Takes(last) <= e
        /\ last.do # "program" => Len(code) < CodeSize
  BY <1>2 DEF PInv, Agenda
<1> DEFINE l == Len(tokens') + 1
<1>8. \A k \in 1..n : k \in 1..l
  BY <1>5
<1> HIDE DEF l, n
<1>9. \A c : Made(c, n) => Made(c, l)
  BY <1>8, Zenon DEF Made
<1>10. Runs(calls, Len(values), e, l)
  BY <1>7, <1>9, Zenon DEF Runs
<1>11. Agenda(agenda, Len(values), l, Len(code) < CodeSize)
  BY <1>7, <1>9, <1>10, Zenon DEF Agenda
<1>12. Agenda(agenda', Len(values'), Len(tokens') + 1, Len(code') < CodeSize)
  BY <1>2, <1>11 DEF l
<1> QED BY <1>6, <1>12 DEF PInv

LEMMA CodeStep ==
    ASSUME PInv, Code
    PROVE  PInv'
<1>1. /\ Running /\ Current.do = "code" /\ agenda' = <<program>> /\ values' = <<>>
      /\ text' = text /\ tokens' = tokens /\ token' = token /\ identifiers' = identifiers
      /\ status' = status
  BY Zenon DEF Code, Calling
<1>2. PICK x : code' = Append(code, x)
  BY Zenon DEF Code
<1>3. Current.do \in Bottoms /\ Current.do # "program"
  BY <1>1, Zenon DEF Bottoms
<1>4. Len(code) < CodeSize
  BY <1>1, <1>3, Foremost
<1>5. IsSeq(code') /\ Len(code') = Len(code) + 1
  BY <1>2, SeqAppend DEF PInv, State
<1>6. CodeSize \in Nat
  BY ParserAssumption
<1>7. Len(code) \in Nat
  BY StateFacts DEF PInv
<1>8. Len(code') <= CodeSize
  BY <1>4, <1>5, <1>6, <1>7
<1>9. IsSeq(values')
  BY <1>1, SeqEmpty
<1>10. State'
  BY <1>1, <1>5, <1>8, <1>9 DEF PInv, State
<1>11. Agenda(agenda', Len(values'), Len(tokens') + 1, Len(code') < CodeSize)
  BY <1>1, SeqEmpty, AgendaProgram
<1> QED BY <1>10, <1>11 DEF PInv

LEMMA FileSteps ==
    ASSUME PInv, Program \/ Function \/ Prototype
    PROVE  PInv'
<1> DEFINE n == Len(tokens) + 1
<1> DEFINE d == Len(values)
<1>1. \E do \in Bottoms : Calling(do) /\ do \notin Builders
  BY Zenon DEF Program, Function, Prototype, Bottoms, Builders
<1>2. Running /\ Current.do \in Bottoms
  BY <1>1 DEF Calling
<1>3. /\ token \in 1..n /\ token + 1 \in 1..n /\ d \in Nat
      /\ Made(Current, n) /\ (Current.do # "program" => Len(code) < CodeSize)
  BY <1>1, <1>2, Places, Foremost
<1>4. /\ d + 1 \in Nat /\ 0 <= d /\ 0 <= d + 1 /\ 1 <= d + 1
  BY <1>3
<1>5. ASSUME NEW new, NEW last, NEW k \in 1..n, NEW e, Len(code) < CodeSize,
             Go(new \o <<last>>, k, values), UNCHANGED identifiers, Runs(new, d, e, n),
             last.do \in Bottoms, Made(last, n), Takes(last) <= e
      PROVE  PInv'
  BY <1>2, <1>5, GoRound
<1>6. \A k \in 1..n :
           /\ Call("function", k).do \in Bottoms /\ Made(Call("function", k), n)
           /\ Takes(Call("function", k)) = 0
           /\ Call("prototype", k).do \in Bottoms /\ Made(Call("prototype", k), n)
           /\ Takes(Call("prototype", k)) = 0
           /\ Call("code", 0).do \in Bottoms /\ Made(Call("code", 0), n)
           /\ Takes(Call("code", 0)) = 1
  BY BottomCalls, Zenon
<1> HIDE DEF n, d
<1>7. ASSUME NEW new, NEW k \in 1..n, Back(new, k), Runs(new, d, d + 1, n), Len(code) < CodeSize
      PROVE  PInv'
  <2>1. Go(new \o <<Call("code", 0)>>, k, values) /\ UNCHANGED identifiers
    BY <1>7, Zenon DEF Back
  <2> QED BY <1>4, <1>5, <1>6, <1>7, <2>1, Zenon
<1>8. Len(code) # CodeSize => Len(code) < CodeSize
  <2>1. CodeSize \in Nat
    BY ParserAssumption
  <2>2. Len(code) \in Nat /\ Len(code) <= CodeSize
    BY StateFacts DEF PInv, State
  <2> QED BY <2>1, <2>2
<1>9. CASE Program
  <2>1. "done" \in Statuses \ {"parsing"} /\ "undefined" \in Statuses \ {"parsing"}
        /\ "assert" \in Statuses \ {"parsing"}
    BY Zenon DEF Statuses
  <2>2. \/ Fail("done") \/ Fail("undefined") \/ Fail("assert")
        \/ /\ Len(code) # CodeSize
           /\ Do(<<typeSpec(""), drop, Call("consume all", "*"), consume(Idents),
                   Call("function", token)>>)
    BY <1>9, Zenon DEF Program
  <2>3. ASSUME Len(code) # CodeSize,
               Do(<<typeSpec(""), drop, Call("consume all", "*"), consume(Idents),
                    Call("function", token)>>)
        PROVE  PInv'
    <3> DEFINE new == <<typeSpec(""), drop, Call("consume all", "*"), consume(Idents)>>
    <3>1. Len(code) < CodeSize
      BY <1>8, <2>3, Zenon
    <3>2. Runs(new, d, d, n)
      BY <1>3, FileLists, Zenon
    <3>3. <<typeSpec(""), drop, Call("consume all", "*"), consume(Idents), Call("function", token)>>
            = new \o <<Call("function", token)>>
      BY Five, ZenonT(30)
    <3> HIDE DEF new
    <3>4. Go(new \o <<Call("function", token)>>, token, values) /\ UNCHANGED identifiers
      BY <2>3, <3>3, Zenon DEF Do
    <3> QED BY <1>3, <1>4, <1>5, <1>6, <3>1, <3>2, <3>4, Zenon
  <2> QED BY <2>1, <2>2, <2>3, FailsWell, Zenon
<1>10. CASE Function
  <2>1. Current.do = "function"
    BY <1>10, Zenon DEF Function, Calling
  <2>2. Current.arg \in 1..n /\ Len(code) < CodeSize
    <3>1. Current.do # "program"
      BY <2>1, Zenon
    <3> QED BY <1>3, <2>1, <3>1, Zenon DEF Made
  <2>3. Accept(<<consume({")"}), Call("prototype", Current.arg)>>)
        \/ Back(declaration("ND_GVARDEFINE"), Current.arg)
    BY <1>10, Zenon DEF Function
  <2>4. Runs(declaration("ND_GVARDEFINE"), d, d + 1, n) /\ Runs(<<consume({")"})>>, d, d, n)
    BY <1>3, DeclarationLists, FileLists, Zenon
  <2>5. ASSUME Accept(<<consume({")"}), Call("prototype", Current.arg)>>)
        PROVE  PInv'
    <3>1. <<consume({")"}), Call("prototype", Current.arg)>>
            = <<consume({")"})>> \o <<Call("prototype", Current.arg)>>
      BY Two
    <3>2. /\ Go(<<consume({")"})>> \o <<Call("prototype", Current.arg)>>, token + 1, values)
          /\ UNCHANGED identifiers
      BY <2>5, <3>1, Zenon DEF Accept
    <3> QED BY <1>3, <1>4, <1>5, <1>6, <2>2, <2>4, <3>2, Zenon
  <2> QED BY <1>7, <2>2, <2>3, <2>4, <2>5, Zenon
<1>11. CASE Prototype
  <2>1. Current.do = "prototype"
    BY <1>11, Zenon DEF Prototype, Calling
  <2>2. Current.arg \in 1..n /\ Len(code) < CodeSize
    <3>1. Current.do # "program"
      BY <2>1, Zenon
    <3> QED BY <1>3, <2>1, <3>1, Zenon DEF Made
  <2>3. Back(funcPrototype, Current.arg) \/ Back(funcDefine, Current.arg)
    BY <1>11, Zenon DEF Prototype
  <2>4. Runs(funcPrototype, d, d + 1, n) /\ Runs(funcDefine, d, d + 1, n)
    BY <1>3, FileLists, Zenon
  <2> QED BY <1>7, <2>2, <2>3, <2>4, Zenon
<1> QED BY <1>9, <1>10, <1>11

-----------------------------------------------------------------------------
LEMMA ParserInit ==
    ASSUME Init
    PROVE  PInv
<1>1. /\ text \in Texts /\ tokens = <<>> /\ token = 1 /\ agenda = <<program>> /\ values = <<>>
      /\ identifiers = <<>> /\ code = <<>> /\ status = "parsing"
  BY DEF Init
<1>2. IsSeq(<<>>) /\ Len(<<>>) = 0 /\ 1 \in 1..(0 + 1)
  BY SeqEmpty
<1>3. Known(<<>>)
  <2>1. DOMAIN <<>> = 1..0
    BY <1>2, SeqFacts
  <2>2. \A i \in DOMAIN <<>> : FALSE
    BY <2>1
  <2> QED BY <1>2, <2>2, Zenon DEF Known
<1>4. Len(code) <= CodeSize
  <2>1. CodeSize \in Nat
    BY ParserAssumption
  <2> QED BY <1>1, <1>2, <2>1
<1>5. "parsing" \in Statuses
  BY Zenon DEF Statuses
<1>6. State
  BY <1>1, <1>2, <1>3, <1>4, <1>5 DEF State
<1>7. Agenda(agenda, Len(values), Len(tokens) + 1, Len(code) < CodeSize)
  BY <1>1, <1>2, AgendaProgram
<1> QED BY <1>6, <1>7 DEF PInv

LEMMA ParserNext ==
    ASSUME PInv, [Next]_vars
    PROVE  PInv'
<1>1. CASE UNCHANGED vars
  BY <1>1 DEF vars, PInv, State, Running, Current
<1>2. CASE Parse
  BY <1>2, LexStep, SilentSteps, NodeSteps, OperatorSteps, OperandSteps, DeclarationSteps,
     StatementSteps, ForThird, FileSteps, CodeStep, Zenon DEF Parse
<1> QED BY <1>1, <1>2, Zenon DEF Next, Ended

LEMMA OperandsTaken ==
    ASSUME NEW c, c.do \in DOMAIN Operands
    PROVE  Operands[c.do] = Takes(c) /\ Takes(c) \in {1, 2, 4}
<1>1. c.do \in Pairs \cup {"for", "drop", "sizeof", "new_identifier", "declaration", "typeName",
                         "return", "code"}
  BY Zenon DEF Operands
<1>2. Operands[c.do] = IF c.do = "for" THEN 4 ELSE IF c.do \in Pairs THEN 2 ELSE 1
  BY <1>1, Zenon DEF Operands
<1>3. CASE c.do = "for"
  BY <1>2, <1>3, Zenon DEF Takes, Fresh, Silent
<1>4. CASE c.do \in Pairs
  BY <1>2, <1>4, Zenon DEF Takes, Fresh, Silent, Pairs
<1>5. CASE c.do # "for" /\ c.do \notin Pairs
  <2>1. Operands[c.do] = 1
    BY <1>2, <1>5, Zenon
  <2>2. Takes(c) = 1
    BY <1>1, <1>5, Zenon DEF Takes, Fresh, Silent, Pairs
  <2> QED BY <2>1, <2>2, Zenon
<1> QED BY <1>3, <1>4, <1>5, Zenon

LEMMA ParserType ==
    ASSUME PInv
    PROVE  TypeOK
<1>1. State
  BY DEF PInv
<1>2. /\ text \in Texts /\ status \in Statuses /\ Len(code) <= CodeSize
      /\ \A i \in DOMAIN identifiers :
            /\ identifiers[i].name \in Idents
            /\ identifiers[i].kind \in {"LVAR", "GVAR", "FUNC"}
  BY <1>1 DEF State, Known
<1>3. token \in 1..Len(tokens) + 1
  BY <1>1 DEF State
<1>4. ASSUME Running
      PROVE  /\ agenda # <<>>
             /\ Current.do = "node" => Len(values) >= Current.arg[2]
             /\ Current.do \in DOMAIN Operands => Len(values) >= Operands[Current.do]
  <2>1. agenda # <<>> /\ Takes(Current) <= Len(values) /\ Made(Current, Len(tokens) + 1)
        /\ Len(values) \in Nat
    BY <1>1, <1>4, Foremost, StateFacts
  <2>2. ASSUME Current.do = "node"
        PROVE  Len(values) >= Current.arg[2]
    <3>1. Takes(Current) = Current.arg[2] /\ Current.arg[2] \in Nat
      BY <2>1, <2>2, Zenon DEF Takes, Made
    <3> QED BY <2>1, <3>1
  <2>3. ASSUME Current.do \in DOMAIN Operands
        PROVE  Len(values) >= Operands[Current.do]
    <3>1. Operands[Current.do] = Takes(Current) /\ Takes(Current) \in {1, 2, 4}
      BY <2>3, OperandsTaken
    <3> QED BY <2>1, <3>1
  <2> QED BY <2>1, <2>2, <2>3
<1> QED BY <1>2, <1>3, <1>4 DEF TypeOK

\* TypeOK: the cursor of the parser stays within the tokens (tokenize.c:49), code[] is
\* not written beyond its end but for the NULL of program() (parse.c:411), and a function
\* of the grammar finds the nodes that the functions called before it have returned.
THEOREM ParserTypeCorrect == Spec => []TypeOK
<1>1. Init => PInv
  BY ParserInit
<1>2. PInv /\ [Next]_vars => PInv'
  BY ParserNext
<1>3. PInv => TypeOK
  BY ParserType
<1> QED BY <1>1, <1>2, <1>3, PTL DEF Spec
================================================================================
