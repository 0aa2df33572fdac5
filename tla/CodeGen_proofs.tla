----------------------------- MODULE CodeGen_proofs -----------------------------
(***************************************************************************)
(* For every set of languages and any bound on the nodes: the code         *)
(* generator's state is well-formed, alignmentCount agrees modulo 16 with  *)
(* the height of the stack wherever an instruction is printed, and every   *)
(* jump has a target; and where no switch ends in a case, no label is      *)
(* printed twice.                                                          *)
(*                                                                         *)
(* Each step of gen() puts a block of tasks at the head of the agenda.     *)
(* What the invariant needs of a block is one predicate (Block), and each  *)
(* kind of node has a lemma that its block is one.                         *)
(***************************************************************************)
EXTENDS CodeGen, RecursionLemmas, FiniteSetTheorems

\* Printing the instruction moves the count and the stack alike, modulo 16.
Even(t) == (Counted(t) - Moved(t)) % 16 = 0 /\ Counted(t) % 8 = 0

LabelsBelow(b) == [name : LabelNames, index : 0..(b - 1), item : Nat]

\* The tasks of a function with numbers below b; a call has no label but that of a case.
Work(b) ==
    {t \in Tasks : /\ Even(t) /\ t.do # "entry" /\ t.label.index < b
                   /\ t.do \in GenCalls \ {"case"} => t.label = NoLabel}

\* The tasks that print a label, ...
Definer(t) == t.do = "label" \/ (t.do = "case" /\ t.label # NoLabel)

\* ... those that go to one, ...
Branch(t) == t.do \in {"jmp", "jcc"}

\* ... and the others.
Silent(b) == {t \in Work(b) : ~Definer(t) /\ ~Branch(t)}

Printed(b) == [instr : {t \in Tasks : t.do \in Instructions /\ t.label.index < b}, at : Int]

\* The labels that the tasks of a sequence print, and those they go to.
Targets(s) == {t.label : t \in {u \in Range(s) : Definer(u)}}
Jumps(s) == {t.label : t \in {u \in Range(s) : Branch(u)}}

\* No label is printed twice.
Distinct(s) ==
    \A i, j \in DOMAIN s :
        Definer(s[i]) /\ Definer(s[j]) /\ s[i].label = s[j].label => i = j

\* What has been printed, and what is still to be.
Program == [i \in DOMAIN out |-> out[i].instr] \o agenda

\* A switch whose comparisons end in an appended default does not end in a case:
\* the two would have one label.
SwitchesEndWell ==
    \A l \in Languages : \A body \in l.bodies :
        body # <<>> /\ DefaultOf(body) = 0 => body[Len(body)] # "case"

\* Where the code generator is: between two functions, about to print the head of
\* one, or in it.
Entering(b) ==
    /\ agenda # <<>> /\ Head(agenda) = entry /\ Tail(agenda) \in Seq(Work(b))
    /\ alignmentCount = local_variable_stack + 8

Inside(b) ==
    /\ agenda \in Seq(Work(b))
    /\ agenda # <<>> =>
          /\ out # <<>>
          /\ (alignmentCount - (Last(out).at + Moved(Last(out).instr))) % 16 = 0

Situation ==
    /\ language \in Languages
    /\ alignmentCount \in Int /\ alignmentCount % 8 = 0
    /\ labelIndex \in Nat
    /\ agenda \in Seq(Tasks)
    /\ agenda # <<>> => labelIndex > 0
    /\ out \in Seq(Printed(labelIndex))
    /\ status \in {"generating", "printed", "error", "abort", "crash"}
    /\ status = "printed" => agenda = <<>>
    /\ nodes \in 0..MaxNodes
    /\ functions \in 0..language.maxFunctions
    /\ Entering(labelIndex) \/ Inside(labelIndex)

\* No other function has been begun behind p.
InFunction(p) == \A k \in DOMAIN out : p < k => out[k].instr.do # "entry"

\* A jump that is printed has its label, or it is in the function that is being
\* generated and its label is still to be printed; one that is not has it on the
\* agenda, or in that function; and the head of a function has neither.
Landing ==
    /\ \A i \in DOMAIN out :
          Branch(out[i].instr) =>
              Lands(i) \/ (out[i].instr.label \in Targets(agenda) /\ InFunction(i))
    /\ \A l \in Jumps(agenda) \ Targets(agenda) :
          \E j \in DOMAIN out :
              out[j].instr.do = "label" /\ out[j].instr.label = l /\ InFunction(j)
    /\ agenda # <<>> /\ Head(agenda) = entry => Targets(agenda) = {} /\ Jumps(agenda) = {}

Linkage == Landing /\ (SwitchesEndWell => Distinct(Program))

GenInv == Situation /\ Linkage

-----------------------------------------------------------------------------
(* Sequences of tasks. *)

LEMMA RangeConcat ==
    ASSUME NEW S, NEW s \in Seq(S), NEW t \in Seq(S)
    PROVE  Range(s \o t) = Range(s) \cup Range(t)
<1> DEFINE u == s \o t
<1>1. /\ DOMAIN u = 1..(Len(s) + Len(t)) /\ Len(s) \in Nat /\ Len(t) \in Nat
      /\ \A i \in 1..Len(s) : u[i] = s[i]
      /\ \A i \in 1..Len(t) : u[Len(s) + i] = t[i]
  OBVIOUS
<1> HIDE DEF u
<1>2. ASSUME NEW x \in Range(u)
      PROVE  x \in Range(s) \cup Range(t)
  <2>1. PICK i \in 1..(Len(s) + Len(t)) : x = u[i]
    BY <1>1 DEF Range
  <2>2. CASE i \in 1..Len(s)
    BY <1>1, <2>1, <2>2 DEF Range
  <2>3. CASE i \notin 1..Len(s)
    <3>1. i - Len(s) \in 1..Len(t) /\ Len(s) + (i - Len(s)) = i
      BY <1>1, <2>3
    <3>2. x = t[i - Len(s)]
      BY <1>1, <2>1, <3>1
    <3> QED BY <3>1, <3>2 DEF Range
  <2> QED BY <2>2, <2>3
<1>3. Range(s) \subseteq Range(u)
  <2> SUFFICES ASSUME NEW i \in DOMAIN s PROVE s[i] \in Range(u)
    BY DEF Range
  <2>1. i \in 1..Len(s) /\ i \in DOMAIN u
    BY <1>1
  <2> QED BY <1>1, <2>1 DEF Range
<1>4. Range(t) \subseteq Range(u)
  <2> SUFFICES ASSUME NEW i \in DOMAIN t PROVE t[i] \in Range(u)
    BY DEF Range
  <2>1. i \in 1..Len(t) /\ Len(s) + i \in DOMAIN u
    BY <1>1
  <2> QED BY <1>1, <2>1 DEF Range
<1> QED BY <1>2, <1>3, <1>4 DEF u

LEMMA LinksConcat ==
    ASSUME NEW S
    PROVE  \A s, t \in Seq(S) : /\ Targets(s \o t) = Targets(s) \cup Targets(t)
                                /\ Jumps(s \o t) = Jumps(s) \cup Jumps(t)
<1> SUFFICES ASSUME NEW s \in Seq(S), NEW t \in Seq(S)
             PROVE  /\ Targets(s \o t) = Targets(s) \cup Targets(t)
                    /\ Jumps(s \o t) = Jumps(s) \cup Jumps(t)
  OBVIOUS
<1>1. Range(s \o t) = Range(s) \cup Range(t)
  BY RangeConcat
<1> QED BY <1>1 DEF Targets, Jumps

LEMMA DistinctConcat ==
    ASSUME NEW S, NEW s \in Seq(S), NEW t \in Seq(S)
    PROVE  Distinct(s \o t) <=>
               Distinct(s) /\ Distinct(t) /\ Targets(s) \cap Targets(t) = {}
<1> DEFINE u == s \o t
<1>1. /\ DOMAIN u = 1..(Len(s) + Len(t)) /\ Len(s) \in Nat /\ Len(t) \in Nat
      /\ DOMAIN s = 1..Len(s) /\ DOMAIN t = 1..Len(t)
      /\ \A i \in 1..Len(s) : u[i] = s[i]
      /\ \A i \in 1..Len(t) : u[Len(s) + i] = t[i]
  OBVIOUS
<1> HIDE DEF u
<1>2. ASSUME Distinct(u)
      PROVE  Distinct(s) /\ Distinct(t) /\ Targets(s) \cap Targets(t) = {}
  <2>1. Distinct(s)
    BY <1>1, <1>2 DEF Distinct
  <2>2. Distinct(t)
    <3> SUFFICES ASSUME NEW i \in DOMAIN t, NEW j \in DOMAIN t,
                        Definer(t[i]), Definer(t[j]), t[i].label = t[j].label
                 PROVE  i = j
      BY DEF Distinct
    <3>1. /\ Len(s) + i \in DOMAIN u /\ Len(s) + j \in DOMAIN u
          /\ u[Len(s) + i] = t[i] /\ u[Len(s) + j] = t[j]
      BY <1>1
    <3>2. Len(s) + i = Len(s) + j
      BY <1>2, <3>1 DEF Distinct
    <3> QED BY <1>1, <3>2
  <2>3. ASSUME NEW l \in Targets(s), l \in Targets(t)
        PROVE  FALSE
    <3>1. PICK i \in DOMAIN s : Definer(s[i]) /\ s[i].label = l
      BY DEF Targets, Range
    <3>2. PICK j \in DOMAIN t : Definer(t[j]) /\ t[j].label = l
      BY <2>3 DEF Targets, Range
    <3>3. /\ i \in DOMAIN u /\ Len(s) + j \in DOMAIN u
          /\ u[i] = s[i] /\ u[Len(s) + j] = t[j]
      BY <1>1
    <3>4. i = Len(s) + j
      BY <1>2, <3>1, <3>2, <3>3 DEF Distinct
    <3> QED BY <1>1, <3>4
  <2> QED BY <2>1, <2>2, <2>3
<1>3. ASSUME Distinct(s), Distinct(t), Targets(s) \cap Targets(t) = {}
      PROVE  Distinct(u)
  <2> SUFFICES ASSUME NEW i \in DOMAIN u, NEW j \in DOMAIN u, i < j,
                      Definer(u[i]), Definer(u[j]), u[i].label = u[j].label
               PROVE  FALSE
    BY <1>1 DEF Distinct
  <2>1. CASE j <= Len(s)
    BY <1>1, <1>3, <2>1 DEF Distinct
  <2>2. CASE i > Len(s)
    <3>1. /\ i - Len(s) \in DOMAIN t /\ j - Len(s) \in DOMAIN t
          /\ Len(s) + (i - Len(s)) = i /\ Len(s) + (j - Len(s)) = j
      BY <1>1, <2>2
    <3>2. u[i] = t[i - Len(s)] /\ u[j] = t[j - Len(s)]
      BY <1>1, <3>1
    <3>3. i - Len(s) = j - Len(s)
      BY <1>3, <3>1, <3>2 DEF Distinct
    <3> QED BY <1>1, <3>3
  <2>3. CASE i <= Len(s) /\ j > Len(s)
    <3>1. i \in DOMAIN s /\ j - Len(s) \in DOMAIN t /\ Len(s) + (j - Len(s)) = j
      BY <1>1, <2>3
    <3>2. u[i] = s[i] /\ u[j] = t[j - Len(s)]
      BY <1>1, <3>1
    <3>3. u[i].label \in Targets(s) /\ u[j].label \in Targets(t)
      BY <3>1, <3>2 DEF Targets, Range
    <3> QED BY <1>3, <3>3
  <2> QED BY <1>1, <2>1, <2>2, <2>3
<1> QED BY <1>2, <1>3 DEF u

LEMMA SilentLinks ==
    ASSUME NEW b \in Nat, NEW s \in Seq(Silent(b))
    PROVE  Targets(s) = {} /\ Jumps(s) = {} /\ Distinct(s) /\ s \in Seq(Work(b))
<1>1. \A i \in DOMAIN s : s[i] \in Work(b) /\ ~Definer(s[i]) /\ ~Branch(s[i])
  BY DEF Silent
<1>2. Silent(b) \subseteq Work(b)
  BY DEF Silent
<1>3. s \in Seq(Work(b))
  BY <1>2
<1> QED BY <1>1, <1>3 DEF Targets, Jumps, Distinct, Range

LEMMA HeadTail ==
    ASSUME NEW S, NEW s \in Seq(S), s # <<>>
    PROVE  /\ Head(s) \in S /\ Tail(s) \in Seq(S) /\ <<Head(s)>> \in Seq(S)
           /\ s = <<Head(s)>> \o Tail(s)
           /\ Head(s) = s[1] /\ 1 \in DOMAIN s
OBVIOUS

LEMMA ConcatHeadTail ==
    ASSUME NEW S, NEW s \in Seq(S), NEW t \in Seq(S), s # <<>>
    PROVE  /\ s \o t \in Seq(S) /\ s \o t # <<>>
           /\ Head(s \o t) = Head(s) /\ Tail(s \o t) = Tail(s) \o t
<1>1. s \o t \in Seq(S) /\ s \o t # <<>> /\ Head(s \o t) = Head(s)
  OBVIOUS
<1>2. Tail(s \o t) = Tail(s) \o t
  OBVIOUS
<1> QED BY <1>1, <1>2

-----------------------------------------------------------------------------
(* Tasks. *)

LEMMA TypesOfLanguage ==
    ASSUME language \in Languages
    PROVE  /\ ScalarSize \in {1, 4, 8}
           /\ \A t \in Types : t.size \in Nat
           /\ \A t \in StructTypes : t.size % 8 = 0 /\ t.size > 0
           /\ StructTypes \subseteq Types /\ ArrayTypes \subseteq Types
           /\ Scalar \in Types /\ Void \in Types
           /\ Scalar.size = ScalarSize /\ Void.size = 0
<1>1. /\ ScalarSize \in {1, 4, 8}
      /\ \A size \in language.structs : size \in Nat \ {0} /\ size % 8 = 0
      /\ language.arrays \subseteq Nat \ {0}
  BY CodeGenAssumption
<1>2. \A t \in StructTypes : t.size \in Nat \ {0} /\ t.size % 8 = 0
  BY <1>1 DEF StructTypes, Struct
<1>3. \A t \in ArrayTypes : t.size \in Nat
  BY <1>1 DEF ArrayTypes, Array
<1>4. Scalar.size = ScalarSize /\ Void.size = 0
  BY DEF Scalar, Void
<1>5. Types = {Scalar, Void} \cup StructTypes \cup ArrayTypes
  BY DEF Types
<1>6. \A t \in Types : t.size \in Nat
  BY <1>1, <1>2, <1>3, <1>4, <1>5
<1> QED BY <1>1, <1>2, <1>4, <1>5, <1>6

LEMMA TaskIsWork ==
    ASSUME NEW do \in (Instructions \cup GenCalls) \ {"entry"},
           NEW t \in Types \cup {NoType}, NEW n \in Int,
           NEW b \in Nat, NEW label \in LabelsBelow(b),
           do \in GenCalls \ {"case"} => label = NoLabel,
           do = "frame" => n = 33808,
           do \in {"push", "pop", "pop_register", "sub", "align", "unalign"} => n % 8 = 0
    PROVE  LET task == Task(do, t, n, label)
           IN  /\ task \in Work(b)
               /\ task.do = do /\ task.label = label
               /\ do \notin {"label", "jmp", "jcc", "case"} => task \in Silent(b)
<1> DEFINE task == Task(do, t, n, label)
<1>1. /\ task \in Tasks
      /\ task.do = do /\ task.type = t /\ task.n = n /\ task.label = label
      /\ task.label.index < b
  BY DEF Task, Tasks, LabelsBelow
<1> HIDE DEF task
<1>2. Even(task)
  <2>1. CASE do \in {"pop", "pop_register"}
    <3>1. Counted(task) = n /\ Moved(task) = n
      BY <1>1, <2>1 DEF Counted, Moved
    <3> QED BY <2>1, <3>1 DEF Even
  <2>2. CASE do \in {"push", "sub"}
    <3>1. Counted(task) = -n /\ Moved(task) = -n
      BY <1>1, <2>2 DEF Counted, Moved
    <3> QED BY <2>2, <3>1 DEF Even
  <2>3. CASE do = "align"
    <3>1. Counted(task) = n /\ Moved(task) = -n
      BY <1>1, <2>3 DEF Counted, Moved
    <3> QED BY <2>3, <3>1 DEF Even
  <2>4. CASE do = "unalign"
    <3>1. Counted(task) = -n /\ Moved(task) = n
      BY <1>1, <2>4 DEF Counted, Moved
    <3> QED BY <2>4, <3>1 DEF Even
  <2>5. CASE do = "frame"
    <3>1. Counted(task) = 0 /\ Moved(task) = -33808
      BY <1>1, <2>5 DEF Counted, Moved
    <3> QED BY <3>1 DEF Even
  <2>6. CASE do \notin {"push", "pop", "pop_register", "sub", "align", "unalign", "frame"}
    <3>1. Counted(task) = 0 /\ Moved(task) = 0
      BY <1>1, <2>6 DEF Counted, Moved
    <3> QED BY <3>1 DEF Even
  <2> QED BY <2>1, <2>2, <2>3, <2>4, <2>5, <2>6
<1>3. task \in Work(b)
  BY <1>1, <1>2 DEF Work
<1>4. do \notin {"label", "jmp", "jcc", "case"} => task \in Silent(b)
  BY <1>1, <1>3 DEF Silent, Definer, Branch
<1> QED BY <1>1, <1>3, <1>4 DEF task

LEMMA NoLabelBelow ==
    ASSUME NEW b \in Nat, b > 0
    PROVE  NoLabel \in LabelsBelow(b)
BY DEF NoLabel, LabelsBelow, LabelNames

LEMMA LabelBelow ==
    ASSUME NEW b \in Nat, NEW name \in LabelNames, NEW index \in 0..(b - 1), NEW item \in Nat
    PROVE  /\ Label(name, index, item) \in LabelsBelow(b)
           /\ Label(name, index, item).name = name
           /\ Label(name, index, item).index = index
           /\ Label(name, index, item).item = item
BY DEF Label, LabelsBelow

LEMMA CallsAreWork ==
    ASSUME NEW b \in Nat, b > 0
    PROVE  /\ \A t \in Types : /\ Expr(t) \in Silent(b)
                               /\ Address(t) \in Silent(b)
                               /\ Lvalue(t) \in Silent(b)
           /\ {Stmt, OtherStmt, Return, ReturnNothing} \subseteq Silent(b)
           /\ \A label \in LabelsBelow(b) :
                 /\ Case(label) \in Work(b)
                 /\ Case(label).do = "case" /\ Case(label).label = label
<1>1. ASSUME NEW do \in GenCalls, NEW t \in Types \cup {NoType}, NEW label \in LabelsBelow(b),
             do # "case" => label = NoLabel
      PROVE  /\ Task(do, t, 0, label) \in Work(b)
             /\ do # "case" => Task(do, t, 0, label) \in Silent(b)
             /\ Task(do, t, 0, label).do = do /\ Task(do, t, 0, label).label = label
  <2>1. /\ do \in (Instructions \cup GenCalls) \ {"entry"} /\ 0 \in Int
        /\ do \notin {"label", "jmp", "jcc"} /\ do # "frame"
        /\ do \notin {"push", "pop", "pop_register", "sub", "align", "unalign"}
    BY DEF GenCalls
  <2> QED BY <1>1, <2>1, TaskIsWork
<1>2. NoLabel \in LabelsBelow(b)
  BY NoLabelBelow
<1>3. /\ NoType \in Types \cup {NoType}
      /\ {"expr", "address", "lvalue", "stmt", "other", "return", "return_nothing", "case"}
            \subseteq GenCalls
  BY DEF GenCalls
<1>4. \A t \in Types : /\ Expr(t) \in Silent(b)
                       /\ Address(t) \in Silent(b)
                       /\ Lvalue(t) \in Silent(b)
  BY <1>1, <1>2, <1>3 DEF Expr, Address, Lvalue
<1>5. {Stmt, OtherStmt, Return, ReturnNothing} \subseteq Silent(b)
  BY <1>1, <1>2, <1>3 DEF Stmt, OtherStmt, Return, ReturnNothing
<1>6. ASSUME NEW label \in LabelsBelow(b)
      PROVE  /\ Case(label) \in Work(b)
             /\ Case(label).do = "case" /\ Case(label).label = label
  BY <1>1, <1>3 DEF Case
<1> QED BY <1>4, <1>5, <1>6

LEMMA InstructionsAreWork ==
    ASSUME NEW b \in Nat, b > 0
    PROVE  /\ {push, pop, frame} \subseteq Silent(b)
           /\ \A n \in Int : n % 8 = 0 => {sub(n), align(n), unalign(n)} \subseteq Silent(b)
           /\ \A n \in Int : {mov_r12_rsp(n), mov_r12_saved(n), mov_to_r12(n), epilogue(n)}
                                \subseteq Silent(b)
           /\ \A t \in Types, n \in Int, id \in 0..(b - 1) : call(t, n, id) \in Silent(b)
           /\ \A t \in Types, p \in Nat, id \in 0..(b - 1) : argument(t, id, p) \in Silent(b)
           /\ \A k \in Nat : pop_register(k) \in Silent(b)
<1>1. ASSUME NEW do \in Instructions \ {"entry", "label", "jmp", "jcc"},
             NEW t \in Types \cup {NoType}, NEW n \in Int, NEW label \in LabelsBelow(b),
             do = "frame" => n = 33808,
             do \in {"push", "pop", "pop_register", "sub", "align", "unalign"} => n % 8 = 0
      PROVE  Task(do, t, n, label) \in Silent(b)
  <2>1. do \in (Instructions \cup GenCalls) \ {"entry"} /\ do \notin GenCalls
    BY DEF Instructions, GenCalls
  <2>2. do # "case"
    BY <2>1 DEF GenCalls
  <2> QED BY <1>1, <2>1, <2>2, TaskIsWork
<1>2. NoLabel \in LabelsBelow(b) /\ NoType \in Types \cup {NoType}
  BY NoLabelBelow
<1>3. ASSUME NEW do \in Instructions \ {"entry", "label", "jmp", "jcc"}, NEW n \in Int,
             do = "frame" => n = 33808,
             do \in {"push", "pop", "pop_register", "sub", "align", "unalign"} => n % 8 = 0
      PROVE  Instr(do, n) \in Silent(b)
  BY <1>1, <1>2, <1>3 DEF Instr
<1>4. {push, pop, frame} \subseteq Silent(b)
  <2>1. /\ {"push", "pop", "frame"} \subseteq Instructions \ {"entry", "label", "jmp", "jcc"}
        /\ local_variable_stack = 33808 /\ 33808 \in Int /\ 8 \in Int /\ 8 % 8 = 0
    BY DEF Instructions, local_variable_stack
  <2>2. Instr("push", 8) \in Silent(b)
    BY <1>3, <2>1
  <2>3. Instr("pop", 8) \in Silent(b)
    BY <1>3, <2>1
  <2>4. Instr("frame", local_variable_stack) \in Silent(b)
    BY <1>3, <2>1
  <2> QED BY <2>2, <2>3, <2>4 DEF push, pop, frame
<1>5. ASSUME NEW n \in Int, n % 8 = 0
      PROVE  {sub(n), align(n), unalign(n)} \subseteq Silent(b)
  <2>1. {"sub", "align", "unalign"} \subseteq Instructions \ {"entry", "label", "jmp", "jcc"}
    BY DEF Instructions
  <2> QED BY <1>3, <1>5, <2>1 DEF sub, align, unalign
<1>6. ASSUME NEW n \in Int
      PROVE  {mov_r12_rsp(n), mov_r12_saved(n), mov_to_r12(n), epilogue(n)} \subseteq Silent(b)
  <2>1. {"mov_r12_rsp", "mov_r12_saved", "mov_to_r12", "epilogue"}
            \subseteq Instructions \ {"entry", "label", "jmp", "jcc"}
    BY DEF Instructions
  <2> QED BY <1>3, <2>1 DEF mov_r12_rsp, mov_r12_saved, mov_to_r12, epilogue
<1>7. \A id \in 0..(b - 1), i \in Nat : /\ Label("call", id, i) \in LabelsBelow(b)
                                        /\ Label("argument", id, i) \in LabelsBelow(b)
                                        /\ Label("register", 0, i) \in LabelsBelow(b)
  BY DEF Label, LabelsBelow, LabelNames
<1>8. ASSUME NEW t \in Types, NEW n \in Int, NEW id \in 0..(b - 1)
      PROVE  call(t, n, id) \in Silent(b)
  <2>1. /\ "call" \in Instructions \ {"entry", "label", "jmp", "jcc"}
        /\ Label("call", id, 0) \in LabelsBelow(b)
    BY <1>7 DEF Instructions
  <2> QED BY <1>1, <2>1 DEF call
<1>9. ASSUME NEW t \in Types, NEW p \in Nat, NEW id \in 0..(b - 1)
      PROVE  argument(t, id, p) \in Silent(b)
  <2>1. /\ "argument" \in Instructions \ {"entry", "label", "jmp", "jcc"}
        /\ Label("argument", id, p) \in LabelsBelow(b)
    BY <1>7 DEF Instructions
  <2> QED BY <1>1, <2>1 DEF argument
<1>10. ASSUME NEW k \in Nat
       PROVE  pop_register(k) \in Silent(b)
  <2>1. /\ "pop_register" \in Instructions \ {"entry", "label", "jmp", "jcc"}
        /\ Label("register", 0, k) \in LabelsBelow(b)
    <3>1. 0 \in 0..(b - 1)
      OBVIOUS
    <3> QED BY <1>7, <3>1 DEF Instructions
  <2>2. 8 \in Int /\ 8 % 8 = 0
    OBVIOUS
  <2> QED BY <1>1, <1>2, <2>1, <2>2 DEF pop_register
<1> QED BY <1>4, <1>5, <1>6, <1>8, <1>9, <1>10

LEMMA BranchesAreWork ==
    ASSUME NEW b \in Nat, NEW label \in LabelsBelow(b)
    PROVE  /\ {define(label), jmp(label), jcc(label)} \subseteq Work(b)
           /\ define(label).do = "label" /\ define(label).label = label
           /\ jmp(label).do = "jmp" /\ jmp(label).label = label
           /\ jcc(label).do = "jcc" /\ jcc(label).label = label
<1>1. ASSUME NEW do \in {"label", "jmp", "jcc"}, NEW t \in Types \cup {NoType}
      PROVE  /\ Task(do, t, 0, label) \in Work(b)
             /\ Task(do, t, 0, label).do = do /\ Task(do, t, 0, label).label = label
  <2>1. /\ do \in (Instructions \cup GenCalls) \ {"entry"} /\ 0 \in Int
        /\ do # "frame" /\ do \notin {"push", "pop", "pop_register", "sub", "align", "unalign"}
        /\ do \notin GenCalls
    BY DEF Instructions, GenCalls
  <2> QED BY <2>1, TaskIsWork
<1>2. NoType \in Types \cup {NoType}
  OBVIOUS
<1> QED BY <1>1, <1>2 DEF define, jmp, jcc

LEMMA WorkGrows ==
    ASSUME NEW a \in Nat, NEW b \in Nat, a <= b
    PROVE  /\ Work(a) \subseteq Work(b)
           /\ Seq(Work(a)) \subseteq Seq(Work(b))
           /\ Seq(Printed(a)) \subseteq Seq(Printed(b))
<1>1. Work(a) \subseteq Work(b)
  BY DEF Work, Tasks, LabelNames
<1>2. Printed(a) \subseteq Printed(b)
  BY DEF Printed, Tasks
<1> QED BY <1>1, <1>2

LEMMA SameTasks ==
    ASSUME language' = language
    PROVE  /\ Tasks' = Tasks
           /\ \A b : Work(b)' = Work(b) /\ Printed(b)' = Printed(b)
<1>1. Types' = Types
  BY DEF Types, StructTypes, ArrayTypes
<1>2. Tasks' = Tasks
  BY <1>1 DEF Tasks
<1> QED BY <1>2 DEF Work, Printed

-----------------------------------------------------------------------------
(* The steps on the agenda. *)

LEMMA SituationFacts ==
    ASSUME Situation
    PROVE  /\ agenda \in Seq(Tasks) /\ out \in Seq(Printed(labelIndex)) /\ labelIndex \in Nat
           /\ [i \in DOMAIN out |-> out[i].instr] \in Seq(Tasks)
           /\ \A i \in DOMAIN out : out[i].instr.label.index < labelIndex
           /\ agenda # <<>> => Tail(agenda) \in Seq(Work(labelIndex))
           /\ agenda # <<>> /\ Head(agenda).do # "entry" =>
                 Inside(labelIndex) /\ Height \in Int
<1>1. agenda \in Seq(Tasks) /\ out \in Seq(Printed(labelIndex)) /\ labelIndex \in Nat
  BY DEF Situation
<1>2. \A i \in DOMAIN out : /\ out[i].instr \in Tasks /\ out[i].instr.label.index < labelIndex
                            /\ out[i].at \in Int
  <2>1. \A i \in DOMAIN out : out[i] \in Printed(labelIndex)
    BY <1>1
  <2> QED BY <2>1 DEF Printed
<1>3. [i \in DOMAIN out |-> out[i].instr] \in Seq(Tasks)
  BY <1>1, <1>2
<1>4. agenda # <<>> => Tail(agenda) \in Seq(Work(labelIndex))
  BY <1>1 DEF Situation, Entering, Inside
<1>5. ASSUME agenda # <<>>, Head(agenda).do # "entry"
      PROVE  Inside(labelIndex) /\ Height \in Int
  <2>1. entry.do = "entry"
    BY DEF entry, Instr, Task
  <2>2. Inside(labelIndex)
    BY <1>5, <2>1 DEF Situation, Entering
  <2>3. out # <<>>
    BY <1>5, <2>2 DEF Inside
  <2>4. Len(out) \in DOMAIN out /\ Last(out) = out[Len(out)]
    BY <1>1, <2>3 DEF Last
  <2>5. Last(out).at \in Int /\ Last(out).instr \in Tasks
    BY <1>2, <2>4
  <2>6. Moved(Last(out).instr) \in Int
    <3>1. Last(out).instr.n \in Int
      BY <2>5 DEF Tasks
    <3> QED BY <3>1 DEF Moved, local_variable_stack
  <2>7. Height = Last(out).at + Moved(Last(out).instr)
    BY <1>5 DEF Height
  <2> QED BY <2>2, <2>5, <2>6, <2>7
<1> QED BY <1>1, <1>2, <1>3, <1>4, <1>5

\* What the numbers of the labels say of those of a sequence.
LEMMA OldTargets ==
    ASSUME NEW b \in Nat, NEW s \in Seq(Tasks), \A i \in DOMAIN s : s[i].label.index < b
    PROVE  \A l \in Targets(s) : l.index < b /\ l.index \in Nat
<1> SUFFICES ASSUME NEW i \in DOMAIN s PROVE s[i].label.index < b /\ s[i].label.index \in Nat
  BY DEF Targets, Range
<1>1. s[i] \in Tasks
  OBVIOUS
<1> QED BY <1>1 DEF Tasks

\* A step that puts tasks in the place of the head of the agenda.
LEMMA ReplaceHead ==
    ASSUME GenInv, agenda # <<>>, Head(agenda).do # "entry",
           labelIndex' \in {labelIndex, labelIndex + 1},
           NEW tasks \in Seq(Work(labelIndex')),
           agenda' = tasks \o Tail(agenda),
           status = "generating", status' = status,
           language' = language, alignmentCount' = alignmentCount, out' = out,
           functions' = functions, nodes' \in 0..MaxNodes,
           Targets(<<Head(agenda)>>) \subseteq Targets(tasks),
           \A l \in Targets(tasks) : l \in Targets(<<Head(agenda)>>) \/ l.index >= labelIndex,
           Jumps(tasks) \subseteq Targets(tasks),
           SwitchesEndWell => Distinct(tasks)
    PROVE  GenInv'
<1> DEFINE h == Head(agenda)
           rest == Tail(agenda)
           one == <<h>>
           printed == [i \in DOMAIN out |-> out[i].instr]
<1>1. /\ Situation /\ Linkage
      /\ agenda \in Seq(Tasks) /\ labelIndex \in Nat /\ labelIndex' \in Nat
      /\ out \in Seq(Printed(labelIndex)) /\ printed \in Seq(Tasks)
      /\ rest \in Seq(Work(labelIndex))
      /\ Inside(labelIndex)
  BY SituationFacts DEF GenInv
<1>2. labelIndex > 0 /\ labelIndex <= labelIndex' /\ labelIndex' > 0
  BY <1>1 DEF Situation
<1>3. rest \in Seq(Work(labelIndex')) /\ out \in Seq(Printed(labelIndex'))
  BY <1>1, <1>2, WorkGrows
<1>4. agenda' \in Seq(Work(labelIndex'))
  BY <1>3
<1>5. Work(labelIndex') \subseteq Tasks
  BY DEF Work
<1>6. Situation'
  <2>1. agenda' \in Seq(Tasks')
    BY <1>4, <1>5, SameTasks
  <2>2. Inside(labelIndex)'
    <3>1. /\ out # <<>>
          /\ (alignmentCount - (Last(out).at + Moved(Last(out).instr))) % 16 = 0
      BY <1>1 DEF Inside
    <3>2. Last(out)' = Last(out)
      BY DEF Last
    <3>3. Moved(Last(out).instr)' = Moved(Last(out).instr)
      BY <3>2 DEF Moved
    <3>4. agenda' \in Seq(Work(labelIndex)')
      BY <1>4, SameTasks
    <3> QED BY <3>1, <3>2, <3>3, <3>4 DEF Inside
  <2>3. out' \in Seq(Printed(labelIndex)')
    BY <1>3, SameTasks
  <2>4. /\ language \in Languages /\ alignmentCount \in Int /\ alignmentCount % 8 = 0
        /\ functions \in 0..language.maxFunctions
    BY <1>1 DEF Situation
  <2> QED BY <1>1, <1>2, <2>1, <2>2, <2>3, <2>4 DEF Situation
<1>7. /\ h \in Tasks /\ one \in Seq(Tasks) /\ rest \in Seq(Tasks) /\ tasks \in Seq(Tasks)
      /\ agenda = one \o rest /\ one \o rest \in Seq(Tasks) /\ tasks \o rest \in Seq(Tasks)
      /\ h = agenda[1] /\ 1 \in DOMAIN agenda
  <2>1. tasks \in Seq(Tasks)
    BY <1>5
  <2> QED BY <1>1, <2>1, HeadTail
<1>8. Program = printed \o (one \o rest) /\ Program' = printed \o (tasks \o rest)
  BY <1>7 DEF Program
<1>9. /\ \A l \in Targets(printed) : l.index < labelIndex /\ l.index \in Nat
      /\ \A l \in Targets(rest) : l.index < labelIndex /\ l.index \in Nat
  <2>1. \A i \in DOMAIN printed : printed[i].label.index < labelIndex
    BY <1>1, SituationFacts
  <2>2. \A i \in DOMAIN rest : rest[i].label.index < labelIndex
    BY <1>1 DEF Work
  <2> QED BY <1>1, <1>7, <2>1, <2>2, OldTargets
<1> HIDE DEF h, one, rest, printed
<1>10. /\ Targets(Program) = Targets(printed) \cup (Targets(one) \cup Targets(rest))
       /\ Jumps(Program) = Jumps(printed) \cup (Jumps(one) \cup Jumps(rest))
       /\ Targets(printed \o (tasks \o rest)) =
             Targets(printed) \cup (Targets(tasks) \cup Targets(rest))
       /\ Jumps(printed \o (tasks \o rest)) =
             Jumps(printed) \cup (Jumps(tasks) \cup Jumps(rest))
  <2>1. /\ Targets(one \o rest) = Targets(one) \cup Targets(rest)
        /\ Jumps(one \o rest) = Jumps(one) \cup Jumps(rest)
    BY <1>7, LinksConcat
  <2>2. /\ Targets(tasks \o rest) = Targets(tasks) \cup Targets(rest)
        /\ Jumps(tasks \o rest) = Jumps(tasks) \cup Jumps(rest)
    BY <1>7, LinksConcat
  <2> DEFINE old == one \o rest
             new == tasks \o rest
  <2>3. old \in Seq(Tasks) /\ new \in Seq(Tasks)
    BY <1>7
  <2> HIDE DEF old, new
  <2>4. \A s \in {old, new} : /\ Targets(printed \o s) = Targets(printed) \cup Targets(s)
                              /\ Jumps(printed \o s) = Jumps(printed) \cup Jumps(s)
    BY <1>1, <2>3, LinksConcat
  <2>5. Program = printed \o old
    BY <1>8 DEF old
  <2> QED BY <2>1, <2>2, <2>4, <2>5 DEF old, new
<1>11. Landing'
  <2>1. Landing
    BY <1>1 DEF Linkage
  <2>2. /\ Targets(agenda) = Targets(one) \cup Targets(rest)
        /\ Jumps(agenda) = Jumps(one) \cup Jumps(rest)
    BY <1>7, LinksConcat
  <2>3. /\ Targets(tasks \o rest) = Targets(tasks) \cup Targets(rest)
        /\ Jumps(tasks \o rest) = Jumps(tasks) \cup Jumps(rest)
    BY <1>7, LinksConcat
  <2>4. agenda' = tasks \o rest /\ out' = out
    BY DEF rest
  <2>5. Targets(one) \subseteq Targets(tasks)
    BY DEF one, h
  <2>6. /\ Targets(agenda)' = Targets(tasks) \cup Targets(rest)
        /\ Jumps(agenda)' = Jumps(tasks) \cup Jumps(rest)
    <3>1. Targets(agenda)' = Targets(agenda') /\ Jumps(agenda)' = Jumps(agenda')
      BY DEF Targets, Jumps, Range, Definer, Branch
    <3> QED BY <2>3, <2>4, <3>1
  <2>7. agenda' # <<>> => Head(agenda') # entry
    <3> SUFFICES ASSUME agenda' # <<>>, Head(agenda') = entry PROVE FALSE
      OBVIOUS
    <3>1. Head(agenda') \in Work(labelIndex')
      BY <1>4, HeadTail
    <3> QED BY <3>1 DEF Work, entry, Instr, Task
  <2>8. entry' = entry
    BY DEF entry, Instr, Task, NoType, NoLabel
  <2>9. \A i : Lands(i)' <=> Lands(i)
    BY <2>4 DEF Lands
  <2>10. \A i : InFunction(i)' <=> InFunction(i)
    BY <2>4 DEF InFunction
  <2>11. ASSUME NEW i \in DOMAIN out, Branch(out[i].instr)
         PROVE  Lands(i)' \/ (out[i].instr.label \in Targets(agenda)' /\ InFunction(i)')
    <3>1. Lands(i) \/ (out[i].instr.label \in Targets(agenda) /\ InFunction(i))
      BY <2>1, <2>11 DEF Landing
    <3> QED BY <2>2, <2>5, <2>6, <2>9, <2>10, <3>1
  <2>12. ASSUME NEW l \in Jumps(agenda)', l \notin Targets(agenda)'
         PROVE  \E j \in DOMAIN out :
                   out[j].instr.do = "label" /\ out[j].instr.label = l /\ InFunction(j)'
    <3>1. l \in Jumps(agenda) /\ l \notin Targets(agenda)
      BY <2>2, <2>5, <2>6, <2>12
    <3>2. PICK j \in DOMAIN out : out[j].instr.do = "label" /\ out[j].instr.label = l /\ InFunction(j)
      BY <2>1, <3>1 DEF Landing
    <3> QED BY <2>10, <3>2
  <2> QED BY <2>4, <2>7, <2>8, <2>11, <2>12 DEF Landing, Branch
<1>12. ASSUME SwitchesEndWell
       PROVE  Distinct(printed \o (tasks \o rest))
  <2>1. Distinct(printed \o (one \o rest))
    BY <1>1, <1>8, <1>12 DEF Linkage
  <2>2. Targets(one \o rest) = Targets(one) \cup Targets(rest)
    BY <1>7, LinksConcat
  <2>3. /\ Distinct(printed) /\ Distinct(one \o rest)
        /\ Targets(printed) \cap (Targets(one) \cup Targets(rest)) = {}
    BY <1>1, <1>7, <2>1, <2>2, DistinctConcat
  <2>4. Distinct(rest) /\ Targets(one) \cap Targets(rest) = {}
    BY <1>7, <2>3, DistinctConcat
  <2>5. Targets(tasks) \cap Targets(rest) = {} /\ Targets(tasks) \cap Targets(printed) = {}
    <3> SUFFICES ASSUME NEW l \in Targets(tasks)
                 PROVE  l \notin Targets(rest) /\ l \notin Targets(printed)
      OBVIOUS
    <3>1. l \in Targets(one) \/ l.index >= labelIndex
      BY DEF one, h
    <3>2. CASE l \in Targets(one)
      BY <2>3, <2>4, <3>2
    <3>3. CASE l.index >= labelIndex
      <4>1. ~(l.index < labelIndex /\ l.index \in Nat)
        BY <1>1, <3>3
      <4> QED BY <1>9, <4>1
    <3> QED BY <3>1, <3>2, <3>3
  <2>6. Distinct(tasks \o rest)
    BY <1>7, <1>12, <2>4, <2>5, DistinctConcat
  <2>7. Targets(tasks \o rest) = Targets(tasks) \cup Targets(rest)
    BY <1>7, LinksConcat
  <2>8. Targets(printed) \cap Targets(tasks \o rest) = {}
    BY <2>3, <2>5, <2>7
  <2> QED BY <1>1, <1>7, <2>3, <2>6, <2>8, DistinctConcat
<1>13. Linkage'
  BY <1>8, <1>11, <1>12 DEF Linkage, Distinct, Definer
<1> QED BY <1>6, <1>13 DEF GenInv

\* What a call of gen() puts on the agenda.
Block(tasks) ==
    /\ tasks \in Seq(Work(labelIndex + 1))
    /\ \A l \in Targets(tasks) : l.index = labelIndex
    /\ Jumps(tasks) \subseteq Targets(tasks)
    /\ SwitchesEndWell => Distinct(tasks)

\* The head of the agenda is a call that has no label.
AtCall == status = "generating" /\ agenda # <<>> /\ Head(agenda).do \in GenCalls \ {"case"}

LEMMA NoTargets ==
    ASSUME NEW t, ~Definer(t)
    PROVE  Targets(<<t>>) = {}
BY DEF Targets, Range

LEMMA BlockStep ==
    ASSUME GenInv, AtCall, NEW tasks, Block(tasks), Leaf(tasks) \/ Node(tasks)
    PROVE  GenInv'
<1>1. Head(agenda).do # "entry" /\ ~Definer(Head(agenda))
  BY DEF AtCall, GenCalls, Definer
<1>2. Targets(<<Head(agenda)>>) = {}
  BY <1>1, NoTargets
<1>3. labelIndex \in Nat /\ nodes \in 0..MaxNodes /\ MaxNodes \in Nat
  BY CodeGenAssumption DEF GenInv, Situation
<1>4. /\ agenda' = tasks \o Tail(agenda) /\ labelIndex' = labelIndex + 1
      /\ language' = language /\ alignmentCount' = alignmentCount /\ out' = out
      /\ status' = status /\ functions' = functions /\ nodes' \in 0..MaxNodes
  BY <1>3 DEF Leaf, Node
<1>5. tasks \in Seq(Work(labelIndex'))
  BY <1>4 DEF Block
<1>6. \A l \in Targets(tasks) : l.index >= labelIndex
  BY <1>3 DEF Block
<1>7. Targets(<<Head(agenda)>>) \subseteq Targets(tasks)
  BY <1>2
<1>8. Jumps(tasks) \subseteq Targets(tasks) /\ (SwitchesEndWell => Distinct(tasks))
  BY DEF Block
<1>9. status = "generating" /\ agenda # <<>>
  BY DEF AtCall
<1> QED BY <1>1, <1>4, <1>5, <1>6, <1>7, <1>8, <1>9, ReplaceHead

LEMMA SilentBlock ==
    ASSUME labelIndex \in Nat, NEW tasks \in Seq(Silent(labelIndex + 1))
    PROVE  Block(tasks)
<1>1. labelIndex + 1 \in Nat
  OBVIOUS
<1> QED BY <1>1, SilentLinks DEF Block

LEMMA SilentStep ==
    ASSUME GenInv, AtCall, NEW tasks \in Seq(Silent(labelIndex + 1)), Leaf(tasks) \/ Node(tasks)
    PROVE  GenInv'
<1>1. labelIndex \in Nat
  BY DEF GenInv, Situation
<1>2. Block(tasks)
  BY <1>1, SilentBlock
<1> QED BY <1>2, BlockStep

\* The calls of gen_address() take no number.
LEMMA AddressStep ==
    ASSUME GenInv, AtCall, NEW tasks \in Seq(Silent(labelIndex)),
           agenda' = tasks \o Tail(agenda), nodes' \in 0..MaxNodes,
           UNCHANGED <<language, alignmentCount, labelIndex, out, status, functions>>
    PROVE  GenInv'
<1>1. Head(agenda).do # "entry" /\ ~Definer(Head(agenda))
  BY DEF AtCall, GenCalls, Definer
<1>2. Targets(<<Head(agenda)>>) = {}
  BY <1>1, NoTargets
<1>3. labelIndex \in Nat
  BY DEF GenInv, Situation
<1>4. /\ tasks \in Seq(Work(labelIndex)) /\ Targets(tasks) = {} /\ Jumps(tasks) = {}
      /\ Distinct(tasks)
  BY <1>3, SilentLinks
<1>5. /\ agenda' = tasks \o Tail(agenda) /\ labelIndex' = labelIndex
      /\ language' = language /\ alignmentCount' = alignmentCount /\ out' = out
      /\ status' = status /\ functions' = functions
  OBVIOUS
<1>6. labelIndex' \in {labelIndex, labelIndex + 1} /\ tasks \in Seq(Work(labelIndex'))
  BY <1>4, <1>5
<1>7. status = "generating" /\ agenda # <<>>
  BY DEF AtCall
<1> QED BY <1>1, <1>2, <1>4, <1>5, <1>6, <1>7, ReplaceHead

-----------------------------------------------------------------------------
(* What the blocks are made of. *)

\* Where gen() stands: numbers below b are in use once the call has taken its own.
LEMMA Numbers ==
    ASSUME GenInv
    PROVE  /\ labelIndex \in Nat /\ labelIndex + 1 \in Nat /\ labelIndex + 1 > 0
           /\ labelIndex \in 0..(labelIndex + 1 - 1)
           /\ agenda # <<>> => labelIndex > 0
           /\ language \in Languages
BY DEF GenInv, Situation

LEMMA MovesAreSilent ==
    ASSUME NEW b \in Nat, b > 0, NEW size \in Nat
    PROVE  /\ stack_pop(size) \in Seq(Silent(b))
           /\ popVarFromStack(size) \in Seq(Silent(b))
           /\ size <= 8 \/ size % 8 = 0 => pushVarToStack(size) \in Seq(Silent(b))
<1>1. /\ {push, pop} \subseteq Silent(b)
      /\ size % 8 = 0 => sub(size) \in Silent(b)
  BY InstructionsAreWork
<1>2. (size + 7) \div 8 \in Nat
  OBVIOUS
<1>3. stack_pop(size) \in Seq(Silent(b))
  BY <1>1, <1>2 DEF stack_pop
<1>4. popVarFromStack(size) \in Seq(Silent(b))
  BY <1>1 DEF popVarFromStack
<1>5. ASSUME size <= 8 \/ size % 8 = 0
      PROVE  pushVarToStack(size) \in Seq(Silent(b))
  BY <1>1, <1>5 DEF pushVarToStack
<1> QED BY <1>3, <1>4, <1>5

\* The tasks with a label, as the links between them see them.
LabelTasks(b, l) ==
    /\ {define(l), jmp(l), jcc(l)} \subseteq Work(b)
    /\ Definer(define(l)) /\ ~Branch(define(l)) /\ define(l).label = l
    /\ ~Definer(jmp(l)) /\ Branch(jmp(l)) /\ jmp(l).label = l
    /\ ~Definer(jcc(l)) /\ Branch(jcc(l)) /\ jcc(l).label = l

LEMMA LabelTasksAre ==
    ASSUME NEW b \in Nat, NEW l \in LabelsBelow(b)
    PROVE  LabelTasks(b, l)
BY BranchesAreWork DEF LabelTasks, Definer, Branch

-----------------------------------------------------------------------------
(* Expressions. *)

LEMMA ArrayStep ==
    ASSUME GenInv, gen_array
    PROVE  GenInv'
<1>1. AtCall /\ type \in ArrayTypes /\ Leaf(<<Address(type)>>)
  BY DEF gen_array, Calling, AtCall, GenCalls
<1>2. type \in Types
  BY <1>1 DEF Types
<1>3. Address(type) \in Silent(labelIndex + 1)
  BY <1>2, Numbers, CallsAreWork
<1>4. <<Address(type)>> \in Seq(Silent(labelIndex + 1))
  BY <1>3
<1> QED BY <1>1, <1>4, SilentStep

LEMMA NumStep ==
    ASSUME GenInv, gen_NUM
    PROVE  GenInv'
<1>1. AtCall /\ Leaf(<<push>>)
  BY DEF gen_NUM, Calling, AtCall, GenCalls
<1>2. push \in Silent(labelIndex + 1)
  BY Numbers, InstructionsAreWork
<1>3. <<push>> \in Seq(Silent(labelIndex + 1))
  BY <1>2
<1> QED BY <1>1, <1>3, SilentStep

LEMMA LvarStep ==
    ASSUME GenInv, gen_LVAR
    PROVE  GenInv'
<1>1. /\ AtCall /\ type \in {Scalar} \cup StructTypes
      /\ Leaf(<<Lvalue(type), pop>> \o pushVarToStack(type.size))
  BY DEF gen_LVAR, Calling, AtCall, GenCalls
<1>2. type \in Types /\ type.size \in Nat /\ (type.size <= 8 \/ type.size % 8 = 0)
  BY <1>1, Numbers, TypesOfLanguage
<1>3. /\ Lvalue(type) \in Silent(labelIndex + 1) /\ pop \in Silent(labelIndex + 1)
      /\ pushVarToStack(type.size) \in Seq(Silent(labelIndex + 1))
  BY <1>2, Numbers, CallsAreWork, InstructionsAreWork, MovesAreSilent
<1>4. <<Lvalue(type), pop>> \o pushVarToStack(type.size) \in Seq(Silent(labelIndex + 1))
  <2>1. <<Lvalue(type), pop>> \in Seq(Silent(labelIndex + 1))
    BY <1>3
  <2> QED BY <1>3, <2>1
<1> QED BY <1>1, <1>4, SilentStep

LEMMA AddrStep ==
    ASSUME GenInv, gen_ADDR
    PROVE  GenInv'
<1>1. PICK t \in Types : AtCall /\ Node(<<Address(t)>>)
  BY DEF gen_ADDR, Calling, AtCall, GenCalls
<1>2. Address(t) \in Silent(labelIndex + 1)
  BY Numbers, CallsAreWork
<1>3. <<Address(t)>> \in Seq(Silent(labelIndex + 1))
  BY <1>2
<1> QED BY <1>1, <1>3, SilentStep

LEMMA AssignStep ==
    ASSUME GenInv, gen_ASSIGN_EQ
    PROVE  GenInv'
<1>1. PICK right \in Types :
          /\ AtCall /\ type \in {Scalar} \cup StructTypes
          /\ Node(<<Expr(right), Address(type), pop>> \o popVarFromStack(type.size))
  BY Numbers, TypesOfLanguage DEF gen_ASSIGN_EQ, Calling, AtCall, GenCalls, Operands
<1>2. type \in Types /\ type.size \in Nat
  BY <1>1, Numbers, TypesOfLanguage
<1>3. /\ {Expr(right), Address(type), pop} \subseteq Silent(labelIndex + 1)
      /\ popVarFromStack(type.size) \in Seq(Silent(labelIndex + 1))
  BY <1>2, Numbers, CallsAreWork, InstructionsAreWork, MovesAreSilent, ZenonT(30)
<1>4. <<Expr(right), Address(type), pop>> \o popVarFromStack(type.size)
          \in Seq(Silent(labelIndex + 1))
  <2>1. <<Expr(right), Address(type), pop>> \in Seq(Silent(labelIndex + 1))
    BY <1>3
  <2> QED BY <1>3, <2>1
<1> QED BY <1>1, <1>4, SilentStep

LEMMA AssignOpStep ==
    ASSUME GenInv, gen_ASSIGN_op
    PROVE  GenInv'
<1> DEFINE tasks == <<Address(Scalar), push, Expr(Scalar), pop, pop, push, pop, pop, push>>
<1>1. AtCall /\ Node(tasks)
  BY DEF gen_ASSIGN_op, Calling, AtCall, GenCalls
<1>2. {Address(Scalar), push, Expr(Scalar), pop} \subseteq Silent(labelIndex + 1)
  BY Numbers, TypesOfLanguage, CallsAreWork, InstructionsAreWork
<1>3. tasks \in Seq(Silent(labelIndex + 1))
  BY <1>2
<1> HIDE DEF tasks
<1> QED BY <1>1, <1>3, SilentStep

LEMMA BinaryStep ==
    ASSUME GenInv, gen_binary
    PROVE  GenInv'
<1>1. PICK left \in Types, right \in Types :
          AtCall /\ Node(<<Expr(left), Expr(right), pop, pop, push>>)
  BY Numbers, TypesOfLanguage DEF gen_binary, Calling, AtCall, GenCalls, Operands
<1>2. {Expr(left), Expr(right), pop, push} \subseteq Silent(labelIndex + 1)
  BY Numbers, CallsAreWork, InstructionsAreWork
<1>3. <<Expr(left), Expr(right), pop, pop, push>> \in Seq(Silent(labelIndex + 1))
  BY <1>2
<1> QED BY <1>1, <1>3, SilentStep

LEMMA LogicalStep ==
    ASSUME GenInv, NEW name \in {"ND_LOGICAL_AND", "ND_LOGICAL_OR"}, gen_LOGICAL(name)
    PROVE  GenInv'
<1> DEFINE b     == labelIndex + 1
           short == Label(name, labelIndex, 0)
           end   == Label("end", labelIndex, 0)
           Tasks10(left, right) == <<Expr(left), pop, jcc(short), Expr(right), pop, jcc(short),
                                     jmp(end), define(short), define(end), push>>
<1>1. PICK left \in Types, right \in Types : AtCall /\ Node(Tasks10(left, right))
  BY Numbers, TypesOfLanguage DEF gen_LOGICAL, Calling, AtCall, GenCalls, Operands
<1> DEFINE tasks == Tasks10(left, right)
<1>2. /\ short \in LabelsBelow(b) /\ end \in LabelsBelow(b) /\ short # end
      /\ short.index = labelIndex /\ end.index = labelIndex
  <2>1. {name, "end"} \subseteq LabelNames /\ name # "end" /\ 0 \in Nat
    BY DEF LabelNames
  <2> QED BY <2>1, Numbers, LabelBelow
<1>3. {Expr(left), Expr(right), pop, push} \subseteq Silent(b)
  BY Numbers, CallsAreWork, InstructionsAreWork
<1>4. LabelTasks(b, short) /\ LabelTasks(b, end)
  BY <1>2, Numbers, LabelTasksAre
<1> HIDE DEF short, end
<1>5. tasks \in Seq(Work(b))
  BY <1>3, <1>4 DEF Silent, LabelTasks
<1>6. \A i \in DOMAIN tasks : /\ Definer(tasks[i]) => i \in {8, 9}
                              /\ Branch(tasks[i]) => tasks[i].label \in {short, end}
  BY <1>3, <1>4 DEF Silent, LabelTasks
<1>7. DOMAIN tasks = 1..10 /\ tasks[8] = define(short) /\ tasks[9] = define(end)
  OBVIOUS
<1> HIDE DEF tasks
<1>8. Targets(tasks) = {short, end}
  BY <1>4, <1>6, <1>7 DEF Targets, Range, LabelTasks
<1>9. Jumps(tasks) \subseteq {short, end}
  BY <1>6 DEF Jumps, Range
<1>10. Distinct(tasks)
  BY <1>2, <1>4, <1>6, <1>7 DEF Distinct, LabelTasks
<1>11. Block(tasks)
  BY <1>2, <1>5, <1>8, <1>9, <1>10 DEF Block
<1> QED BY <1>1, <1>11, BlockStep DEF tasks

-----------------------------------------------------------------------------
(* gen_address *)

LEMMA AddressSteps ==
    ASSUME GenInv, gen_address_LVAR \/ gen_address_STRUCT \/ gen_address_DEREF
    PROVE  GenInv'
<1>1. /\ AtCall /\ labelIndex \in Nat /\ labelIndex > 0
      /\ nodes \in 0..MaxNodes /\ MaxNodes \in Nat
  BY Numbers, CodeGenAssumption
     DEF gen_address_LVAR, gen_address_STRUCT, gen_address_DEREF, Calling, AtCall, GenCalls,
         GenInv, Situation
<1>2. \E tasks \in Seq(Silent(labelIndex)) :
          agenda' = tasks \o Tail(agenda) /\ nodes' \in 0..MaxNodes
  <2>1. {push, pop} \subseteq Silent(labelIndex)
    BY <1>1, InstructionsAreWork
  <2>2. \A t \in Types : {Expr(t), Address(t)} \subseteq Silent(labelIndex)
    BY <1>1, CallsAreWork
  <2>3. CASE gen_address_LVAR
    <3>1. <<push>> \in Seq(Silent(labelIndex))
      BY <2>1
    <3> QED BY <1>1, <2>3, <3>1 DEF gen_address_LVAR
  <2>4. CASE gen_address_STRUCT
    <3>1. PICK t \in StructTypes : agenda' = <<Address(t), pop, push>> \o Tail(agenda)
      BY <2>4 DEF gen_address_STRUCT
    <3>2. <<Address(t), pop, push>> \in Seq(Silent(labelIndex))
      BY <2>1, <2>2 DEF Types
    <3>3. nodes' \in 0..MaxNodes
      BY <1>1, <2>4 DEF gen_address_STRUCT
    <3> QED BY <3>1, <3>2, <3>3
  <2>5. CASE gen_address_DEREF
    <3>1. PICK t \in Types : agenda' = <<Expr(t)>> \o Tail(agenda)
      BY <2>5, Numbers, TypesOfLanguage DEF gen_address_DEREF, Operands
    <3>2. <<Expr(t)>> \in Seq(Silent(labelIndex))
      BY <2>2
    <3>3. nodes' \in 0..MaxNodes
      BY <1>1, <2>5 DEF gen_address_DEREF
    <3> QED BY <3>1, <3>2, <3>3
  <2> QED BY <2>3, <2>4, <2>5
<1>3. UNCHANGED <<language, alignmentCount, labelIndex, out, status, functions>>
  BY DEF gen_address_LVAR, gen_address_STRUCT, gen_address_DEREF
<1> QED BY <1>1, <1>2, <1>3, AddressStep

LEMMA StopStep ==
    ASSUME GenInv, NEW how \in {"generating", "printed", "error", "abort", "crash"},
           how = "printed" => agenda = <<>>, Stop(how)
    PROVE  GenInv'
<1>1. /\ status' = how
      /\ UNCHANGED <<language, agenda, alignmentCount, labelIndex, out, nodes, functions>>
  BY DEF Stop
<1>2. \A b : Work(b)' = Work(b) /\ Printed(b)' = Printed(b)
  BY <1>1, SameTasks
<1>3. Situation'
  <2>1. Entering(labelIndex)' <=> Entering(labelIndex)
    BY <1>1, <1>2 DEF Entering
  <2>2. Inside(labelIndex)' <=> Inside(labelIndex)
    <3>1. Last(out)' = Last(out)
      BY <1>1 DEF Last
    <3>2. Moved(Last(out).instr)' = Moved(Last(out).instr)
      BY <3>1 DEF Moved
    <3> QED BY <1>1, <1>2, <3>1, <3>2 DEF Inside
  <2>3. Tasks' = Tasks /\ Printed(labelIndex)' = Printed(labelIndex)
    BY <1>1, <1>2, SameTasks
  <2> QED BY <1>1, <2>1, <2>2, <2>3 DEF Situation, GenInv
<1>4. Linkage'
  <2>1. Program' = Program
    BY <1>1 DEF Program
  <2>2. Landing
    BY DEF GenInv, Linkage
  <2>3. Landing'
    <3>1. \A i : (Lands(i)' <=> Lands(i)) /\ (InFunction(i)' <=> InFunction(i))
      BY <1>1 DEF Lands, InFunction
    <3>2. Targets(agenda)' = Targets(agenda) /\ Jumps(agenda)' = Jumps(agenda)
      BY <1>1 DEF Targets, Jumps, Range, Definer, Branch
    <3>3. entry' = entry
      BY DEF entry, Instr, Task, NoType, NoLabel
    <3> QED BY <1>1, <2>2, <3>1, <3>2, <3>3 DEF Landing, Branch
  <2> QED BY <2>1, <2>3 DEF Linkage, GenInv, Distinct, Definer
<1> QED BY <1>3, <1>4 DEF GenInv

-----------------------------------------------------------------------------
(* ND_FUNCCALL *)

LEMMA ListsOfLanguage ==
    ASSUME language \in Languages
    PROVE  /\ language.argLists \subseteq Seq(Types)
           /\ language.paramLists \subseteq Seq(Types)
           /\ language.clauses \subseteq Types
           /\ language.bodies \subseteq Seq(Items)
           /\ language.maxStmts \in Nat /\ language.maxFunctions \in Nat
<1>1. Types = {Scalar, Void} \cup {Struct(size) : size \in language.structs}
              \cup {Array(size) : size \in language.arrays}
  BY DEF Types, StructTypes, ArrayTypes
<1> QED BY <1>1, CodeGenAssumption

\* The recursion of Descending: each position is put in front of those below it.
Descends(from, S, n) ==
    /\ from[0] = <<>> /\ Descending(S, n) = from[n]
    /\ \A p \in 1..n : from[p] = (IF p \in S THEN <<p>> ELSE <<>>) \o from[p - 1]

LEMMA DescendingSteps ==
    ASSUME NEW n \in Nat, NEW S, S \subseteq 1..n
    PROVE  \E from : Descends(from, S, n)
<1> DEFINE one(p) == IF p \in S THEN <<p>> ELSE <<>>
           Lists == Seq(S)
           step == [p \in 1..n |-> [s \in Lists |-> one(p) \o s]]
           Body(f) == [p \in 0..n |-> IF p = 0 THEN <<>> ELSE one(p) \o f[p - 1]]
<1>1. \A p \in 1..n : one(p) \in Seq(S)
  OBVIOUS
<1>2. <<>> \in Lists /\ \A p \in 1..n, s \in Lists : one(p) \o s \in Lists
  <2> HIDE DEF one
  <2> QED BY <1>1
<1> HIDE DEF one, Lists
<1>3. step \in [1..n -> [Lists -> Lists]] /\ \A p \in 1..n, s \in Lists : step[p][s] = one(p) \o s
  BY <1>2
<1> HIDE DEF step
<1>4. Defines(n, Lists, <<>>, step)
  BY <1>2, <1>3, RecursionExists
<1>5. PICK f \in [0..n -> Lists] : f[0] = <<>> /\ \A p \in 1..n : f[p] = step[p][f[p - 1]]
  BY <1>4 DEF Defines
<1>6. f = Body(f)
  <2>1. ASSUME NEW p \in 0..n
        PROVE  f[p] = Body(f)[p]
    <3>1. CASE p = 0
      BY <1>5, <3>1
    <3>2. CASE p # 0
      <4>1. p \in 1..n /\ p - 1 \in 0..n
        BY <3>2
      <4>2. f[p - 1] \in Lists
        BY <4>1
      <4> QED BY <1>3, <1>5, <4>1, <4>2
    <3> QED BY <3>1, <3>2
  <2> QED BY <2>1
<1> DEFINE from == CHOOSE g : g = Body(g)
<1>7. from = Body(from)
  <2> HIDE DEF Body
  <2> QED BY <1>6
<1>8. Descending(S, n) = from[n]
  BY DEF Descending, one
<1> HIDE DEF from
<1>9. \A p \in 0..n : from[p] = IF p = 0 THEN <<>> ELSE one(p) \o from[p - 1]
  BY <1>7
<1>10. from[0] = <<>>
  BY <1>9
<1>11. ASSUME NEW p \in 1..n
       PROVE  from[p] = one(p) \o from[p - 1]
  <2>1. p \in 0..n /\ p # 0
    OBVIOUS
  <2> QED BY <1>9, <2>1, Zenon
<1> QED BY <1>8, <1>10, <1>11, Zenon DEF one, Descends

LEMMA DescendingInSeq ==
    ASSUME NEW n \in Nat, NEW S, S \subseteq 1..n
    PROVE  Descending(S, n) \in Seq(S)
<1>0. PICK from : Descends(from, S, n)
  BY DescendingSteps
<1> DEFINE one(p) == IF p \in S THEN <<p>> ELSE <<>>
           Lists == Seq(S)
<1>1. /\ from[0] = <<>> /\ Descending(S, n) = from[n]
      /\ \A p \in 1..n : from[p] = one(p) \o from[p - 1]
  BY <1>0, Zenon DEF Descends
<1>2. <<>> \in Lists /\ \A p \in 1..n, s \in Lists : one(p) \o s \in Lists
  <2>1. \A p \in 1..n : one(p) \in Seq(S)
    OBVIOUS
  <2> HIDE DEF one
  <2> QED BY <2>1
<1> HIDE DEF one, Lists
<1> DEFINE G == {p \in Nat : from[p] \in Lists}
<1>3. 0 \in G
  BY <1>1, <1>2
<1>4. ASSUME NEW p \in 1..n, p - 1 \in G
      PROVE  p \in G
  <2>1. from[p] = one(p) \o from[p - 1] /\ p \in Nat
    BY <1>1
  <2>2. from[p - 1] \in Lists
    BY <1>4
  <2> QED BY <1>2, <2>1, <2>2
<1>5. n \in G
  <2> HIDE DEF G
  <2>1. 0..n \subseteq G
    BY <1>3, <1>4, UpTo
  <2> QED BY <2>1
<1> QED BY <1>1, <1>5 DEF Lists

LEMMA LinkedInSeq ==
    ASSUME NEW T, NEW args \in Seq(T), NEW S, S \subseteq DOMAIN args
    PROVE  Linked(S, args) \in Seq(DOMAIN args)
<1> DEFINE n == Len(args)
           D == DOMAIN args
           own == Descending(S, n)
           others == {p \in D \ S : own[1] < n /\ p <= own[1] + 1}
           more == Descending(others, n)
<1>1. n \in Nat /\ D = 1..n /\ S \subseteq D
  OBVIOUS
<1>2. own \in Seq(S)
  <2> HIDE DEF n, D
  <2> QED BY <1>1, DescendingInSeq
<1>3. others \subseteq D
  OBVIOUS
<1>4. more \in Seq(others)
  <2> HIDE DEF others, n, D
  <2> QED BY <1>1, <1>3, DescendingInSeq
<1>5. Linked(S, args) = IF Len(own) = 1 THEN own \o more ELSE own
  BY DEF Linked
<1> HIDE DEF own, others, more, n, D
<1>6. own \in Seq(D) /\ more \in Seq(D)
  <2>1. own \in Seq(D)
    BY <1>1, <1>2
  <2>2. more \in Seq(D)
    BY <1>3, <1>4
  <2> QED BY <2>1, <2>2
<1>7. own \o more \in Seq(D)
  BY <1>6
<1> QED BY <1>5, <1>6, <1>7 DEF D

\* The recursion of SumSizes.
AddsUp(sum, S, args) ==
    /\ sum[0] = 0 /\ SumSizes(S, args) = sum[Len(args)]
    /\ \A p \in 1..Len(args) : sum[p] = sum[p - 1] + (IF p \in S THEN args[p].size ELSE 0)

LEMMA SumSizesSteps ==
    ASSUME NEW T, \A t \in T : t.size \in Nat, NEW args \in Seq(T), NEW S
    PROVE  \E sum : AddsUp(sum, S, args)
<1> DEFINE n == Len(args)
           one(p) == IF p \in S THEN args[p].size ELSE 0
           step == [p \in 1..n |-> [m \in Nat |-> m + one(p)]]
           Body(f) == [p \in 0..n |-> IF p = 0 THEN 0 ELSE f[p - 1] + one(p)]
<1>0. n \in Nat
  OBVIOUS
<1>1. \A p \in 1..n : one(p) \in Nat
  OBVIOUS
<1>2. step \in [1..n -> [Nat -> Nat]] /\ \A p \in 1..n, m \in Nat : step[p][m] = m + one(p)
  <2> HIDE DEF one, n
  <2> QED BY <1>1
<1> HIDE DEF step, one
<1>3. PICK f \in [0..n -> Nat] : f[0] = 0 /\ \A p \in 1..n : f[p] = step[p][f[p - 1]]
  <2> HIDE DEF n
  <2>1. Defines(n, Nat, 0, step)
    BY <1>0, <1>2, RecursionExists
  <2> QED BY <2>1 DEF Defines
<1>4. f = Body(f)
  <2>1. ASSUME NEW p \in 0..n
        PROVE  f[p] = Body(f)[p]
    <3>1. CASE p = 0
      BY <1>3, <3>1
    <3>2. CASE p # 0
      <4>1. p \in 1..n /\ p - 1 \in 0..n
        BY <3>2
      <4>2. f[p - 1] \in Nat
        BY <4>1
      <4> QED BY <1>2, <1>3, <4>1, <4>2
    <3> QED BY <3>1, <3>2
  <2> QED BY <2>1
<1> DEFINE sum == CHOOSE g : g = Body(g)
<1>5. sum = Body(sum)
  <2> HIDE DEF Body
  <2> QED BY <1>4
<1>6. SumSizes(S, args) = sum[n]
  BY DEF SumSizes, one
<1> HIDE DEF sum
<1>7. /\ sum[0] = 0
      /\ \A p \in 1..n : sum[p] = sum[p - 1] + one(p)
  BY <1>0, <1>5
<1>8. AddsUp(sum, S, args)
  BY <1>6, <1>7 DEF AddsUp, one
<1> QED BY <1>8

LEMMA SumSizesInNat ==
    ASSUME NEW T, \A t \in T : t.size \in Nat, NEW args \in Seq(T), NEW S
    PROVE  SumSizes(S, args) \in Nat
<1>0. PICK sum : AddsUp(sum, S, args)
  BY SumSizesSteps
<1> DEFINE n == Len(args)
           one(p) == IF p \in S THEN args[p].size ELSE 0
<1>1. /\ sum[0] = 0 /\ SumSizes(S, args) = sum[n]
      /\ \A p \in 1..n : sum[p] = sum[p - 1] + one(p)
  BY <1>0, Zenon DEF AddsUp
<1>2. n \in Nat /\ \A p \in 1..n : one(p) \in Nat
  OBVIOUS
<1> DEFINE G == {p \in Nat : sum[p] \in Nat}
<1> HIDE DEF one
<1>3. 0 \in G /\ \A p \in 1..n : p - 1 \in G => p \in G
  BY <1>1, <1>2
<1>4. n \in G
  <2> HIDE DEF G, n
  <2>1. 0..n \subseteq G
    BY <1>2, <1>3, UpTo
  <2> QED BY <1>2, <2>1
<1> QED BY <1>1, <1>4

LEMMA RegistersCounted ==
    ASSUME NEW T, NEW args \in Seq(T)
    PROVE  Cardinality(InRegisters(args)) \in Nat
<1>1. DOMAIN args = 1..Len(args) /\ Len(args) \in Nat /\ 1 \in Int /\ Len(args) \in Int
  OBVIOUS
<1>2. IsFiniteSet(1..Len(args))
  BY <1>1, FS_Interval
<1>3. InRegisters(args) \subseteq 1..Len(args)
  BY <1>1 DEF InRegisters
<1>4. IsFiniteSet(InRegisters(args))
  BY <1>2, <1>3, FS_Subset
<1> QED BY <1>4, FS_CardinalityType

LEMMA RemainderEven ==
    ASSUME NEW a \in Int, a % 8 = 0
    PROVE  Rem16(a) \in Int /\ Rem16(a) % 8 = 0
<1>1. CASE a >= 0
  <2>1. (a % 16) % 8 = 0
    BY <1>1
  <2> QED BY <1>1, <2>1 DEF Rem16
<1>2. CASE a < 0
  <2>1. -a \in Nat /\ (-a) % 8 = 0
    BY <1>2
  <2>2. (-a) % 16 \in Nat /\ ((-a) % 16) % 8 = 0
    BY <2>1
  <2>3. (-((-a) % 16)) % 8 = 0
    BY <2>2
  <2> QED BY <1>2, <2>2, <2>3 DEF Rem16
<1> QED BY <1>1, <1>2

LEMMA CallStep ==
    ASSUME GenInv, NEW args \in language.argLists, gen_FUNCCALL(args)
    PROVE  GenInv'
<1> DEFINE b      == labelIndex + 1
           size   == IF type.size < 8 THEN 8 ELSE type.size
           inRegs == Cardinality(InRegisters(args))
           offset == SumSizes(InMemory(args), args) + (IF inRegs <= 6 THEN 0 ELSE inRegs - 6)
           adjust == adjustAligment(size)
           place  == Height - size
           order  == Linked(InMemory(args), args) \o Linked(InRegisters(args), args)
           arguments == [i \in DOMAIN order |->
                            LET p == order[i]
                            IN  <<Expr(args[p]), argument(args[p], labelIndex, p)>>]
           registers == [k \in 1..(IF inRegs <= 6 THEN inRegs ELSE 6) |-> pop_register(k)]
           result == IF type.size = 0 THEN <<pop>>
                     ELSE IF size <= 8 THEN <<mov_to_r12(place)>> ELSE <<>>
           tasks  == <<sub(size), align(adjust)>>
                     \o FlattenSeq(arguments)
                     \o registers
                     \o <<mov_r12_rsp(offset + adjust), call(type, place, labelIndex)>>
                     \o stack_pop(offset)
                     \o <<unalign(adjust)>>
                     \o result
<1>1. /\ AtCall /\ type \in {Scalar, Void} \cup StructTypes /\ Head(agenda).do = "expr"
      /\ Stop("abort") \/ Leaf(tasks) \/ Node(tasks)
  BY DEF gen_FUNCCALL, Calling, AtCall, GenCalls
<1>2. b \in Nat /\ b > 0 /\ labelIndex \in 0..(b - 1) /\ language \in Languages
  BY Numbers
<1> HIDE DEF b
<1>3. /\ type \in Types /\ type.size \in Nat
      /\ size \in Nat /\ size % 8 = 0
  <2>1. type.size \in Nat /\ type \in Types
    BY <1>1, <1>2, TypesOfLanguage
  <2>2. type.size >= 8 => type.size % 8 = 0
    BY <1>1, <1>2, TypesOfLanguage
  <2> QED BY <2>1, <2>2
<1>4. adjust \in Int /\ adjust % 8 = 0
  <2>1. alignmentCount \in Int /\ alignmentCount % 8 = 0
    BY DEF GenInv, Situation
  <2>2. alignmentCount - size \in Int /\ (alignmentCount - size) % 8 = 0
    BY <1>3, <2>1
  <2> QED BY <2>2, RemainderEven DEF adjustAligment
<1>5. place \in Int
  <2>1. Head(agenda).do # "entry" /\ agenda # <<>>
    BY <1>1 DEF AtCall
  <2>2. Height \in Int
    BY <2>1, SituationFacts DEF GenInv
  <2> QED BY <1>3, <2>2
<1>6. args \in Seq(Types) /\ \A t \in Types : t.size \in Nat
  BY <1>2, ListsOfLanguage, TypesOfLanguage
<1>7. inRegs \in Nat /\ offset \in Nat
  <2>1. inRegs \in Nat
    BY <1>6, RegistersCounted
  <2>2. SumSizes(InMemory(args), args) \in Nat
    BY <1>6, SumSizesInNat
  <2> HIDE DEF inRegs
  <2> QED BY <2>1, <2>2
<1>8. order \in Seq(DOMAIN args)
  <2>1. InMemory(args) \subseteq DOMAIN args /\ InRegisters(args) \subseteq DOMAIN args
    BY DEF InMemory, InRegisters
  <2>2. /\ Linked(InMemory(args), args) \in Seq(DOMAIN args)
        /\ Linked(InRegisters(args), args) \in Seq(DOMAIN args)
    BY <1>6, <2>1, LinkedInSeq
  <2> QED BY <2>2
<1> HIDE DEF size, inRegs, offset, adjust, place, order
<1>9. arguments \in Seq(Seq(Silent(b)))
  <2> DEFINE pair(i) == <<Expr(args[order[i]]), argument(args[order[i]], labelIndex, order[i])>>
  <2>1. ASSUME NEW i \in DOMAIN order
        PROVE  pair(i) \in Seq(Silent(b))
    <3>1. order[i] \in DOMAIN args /\ args[order[i]] \in Types /\ order[i] \in Nat
      BY <1>6, <1>8
    <3>2. /\ Expr(args[order[i]]) \in Silent(b)
          /\ argument(args[order[i]], labelIndex, order[i]) \in Silent(b)
      BY <1>2, <3>1, CallsAreWork, InstructionsAreWork
    <3> QED BY <3>2
  <2>2. arguments = [i \in DOMAIN order |-> pair(i)]
    OBVIOUS
  <2>3. DOMAIN order = 1..Len(order) /\ Len(order) \in Nat
    BY <1>8
  <2> HIDE DEF pair, arguments
  <2> QED BY <2>1, <2>2, <2>3
<1>10. FlattenSeq(arguments) \in Seq(Silent(b))
  <2> HIDE DEF arguments
  <2> QED BY <1>9, FlattenInSeq
<1>11. registers \in Seq(Silent(b))
  <2>1. \A k \in Nat : pop_register(k) \in Silent(b)
    BY <1>2, InstructionsAreWork
  <2> QED BY <1>7, <2>1
<1>12. stack_pop(offset) \in Seq(Silent(b))
  BY <1>2, <1>7, MovesAreSilent
<1>13. <<sub(size), align(adjust)>> \in Seq(Silent(b)) /\ <<unalign(adjust)>> \in Seq(Silent(b))
  <2>1. {sub(size), align(adjust), unalign(adjust)} \subseteq Silent(b)
    BY <1>2, <1>3, <1>4, InstructionsAreWork
  <2> QED BY <2>1
<1>14. <<mov_r12_rsp(offset + adjust), call(type, place, labelIndex)>> \in Seq(Silent(b))
  <2>1. offset + adjust \in Int
    BY <1>4, <1>7
  <2>2. {mov_r12_rsp(offset + adjust), call(type, place, labelIndex)} \subseteq Silent(b)
    BY <1>2, <1>3, <1>5, <2>1, InstructionsAreWork
  <2> QED BY <2>2
<1>15. result \in Seq(Silent(b))
  <2>1. {pop, mov_to_r12(place)} \subseteq Silent(b)
    BY <1>2, <1>5, InstructionsAreWork
  <2> QED BY <2>1
<1> HIDE DEF arguments, registers, result
<1>16. tasks \in Seq(Silent(b))
  BY <1>10, <1>11, <1>12, <1>13, <1>14, <1>15
<1> HIDE DEF tasks
<1>17. CASE Stop("abort")
  BY <1>17, StopStep
<1>18. CASE Leaf(tasks) \/ Node(tasks)
  BY <1>1, <1>16, <1>18, SilentStep DEF b
<1> QED BY <1>1, <1>17, <1>18

-----------------------------------------------------------------------------
(* Statements. *)

LEMMA DeclarationStep ==
    ASSUME GenInv, gen_DECLARATION
    PROVE  GenInv'
<1>1. AtCall /\ Leaf(<<>>)
  BY DEF gen_DECLARATION, Calling, AtCall, GenCalls
<1>2. <<>> \in Seq(Silent(labelIndex + 1))
  OBVIOUS
<1> QED BY <1>1, <1>2, SilentStep

LEMMA SinglestmtStep ==
    ASSUME GenInv, gen_SINGLESTMT
    PROVE  GenInv'
<1>1. PICK t \in Types : AtCall /\ Leaf(<<Expr(t)>> \o stack_pop(t.size))
  BY DEF gen_SINGLESTMT, Calling, AtCall, GenCalls
<1>2. t.size \in Nat
  BY Numbers, TypesOfLanguage
<1>3. Expr(t) \in Silent(labelIndex + 1) /\ stack_pop(t.size) \in Seq(Silent(labelIndex + 1))
  BY <1>2, Numbers, CallsAreWork, MovesAreSilent
<1>4. <<Expr(t)>> \o stack_pop(t.size) \in Seq(Silent(labelIndex + 1))
  BY <1>3
<1> QED BY <1>1, <1>4, SilentStep

LEMMA BlockOfStmtsStep ==
    ASSUME GenInv, gen_BLOCK
    PROVE  GenInv'
<1>1. PICK k \in 0..language.maxStmts : AtCall /\ Node([i \in 1..k |-> Stmt])
  BY DEF gen_BLOCK, Calling, AtCall, GenCalls
<1>2. Stmt \in Silent(labelIndex + 1) /\ k \in Nat
  BY Numbers, CallsAreWork, ListsOfLanguage
<1>3. [i \in 1..k |-> Stmt] \in Seq(Silent(labelIndex + 1))
  BY <1>2
<1> QED BY <1>1, <1>3, SilentStep

LEMMA SwitchSimpleStep ==
    ASSUME GenInv, gen_SWITCH_simple
    PROVE  GenInv'
<1>1. AtCall /\ Node(<<Expr(Scalar)>>)
  BY DEF gen_SWITCH_simple, Calling, AtCall, GenCalls
<1>2. Expr(Scalar) \in Silent(labelIndex + 1)
  BY Numbers, CallsAreWork, TypesOfLanguage
<1>3. <<Expr(Scalar)>> \in Seq(Silent(labelIndex + 1))
  BY <1>2
<1> QED BY <1>1, <1>3, SilentStep

LEMMA ReturnStep ==
    ASSUME GenInv, gen_RETURN
    PROVE  GenInv'
<1> DEFINE load(t) == IF t.size > 8 THEN <<mov_r12_saved(t.size)>> ELSE <<pop>>
<1>1. PICK t \in Types : AtCall /\ Leaf(<<Expr(t)>> \o load(t) \o <<epilogue(t.size)>>)
  BY DEF gen_RETURN, Calling, AtCall, GenCalls
<1>2. t.size \in Int
  BY Numbers, TypesOfLanguage
<1>3. {Expr(t), mov_r12_saved(t.size), pop, epilogue(t.size)} \subseteq Silent(labelIndex + 1)
  BY <1>2, Numbers, CallsAreWork, InstructionsAreWork
<1>4. <<Expr(t)>> \o load(t) \o <<epilogue(t.size)>> \in Seq(Silent(labelIndex + 1))
  <2>1. load(t) \in Seq(Silent(labelIndex + 1))
    <3>1. <<pop>> \in Seq(Silent(labelIndex + 1))
      BY <1>3
    <3>2. <<mov_r12_saved(t.size)>> \in Seq(Silent(labelIndex + 1))
      BY <1>3
    <3> QED BY <3>1, <3>2
  <2>2. <<Expr(t)>> \in Seq(Silent(labelIndex + 1))
    BY <1>3
  <2>3. <<epilogue(t.size)>> \in Seq(Silent(labelIndex + 1))
    BY <1>3
  <2> HIDE DEF load
  <2> QED BY <2>1, <2>2, <2>3
<1> QED BY <1>1, <1>4, SilentStep

LEMMA ReturnNothingStep ==
    ASSUME GenInv, gen_RETURN_nothing
    PROVE  GenInv'
<1>1. AtCall /\ Leaf(<<epilogue(0)>>)
  BY DEF gen_RETURN_nothing, Calling, AtCall, GenCalls
<1>2. epilogue(0) \in Silent(labelIndex + 1)
  BY Numbers, InstructionsAreWork
<1>3. <<epilogue(0)>> \in Seq(Silent(labelIndex + 1))
  BY <1>2
<1> QED BY <1>1, <1>3, SilentStep

LEMMA IfStep ==
    ASSUME GenInv, gen_IF
    PROVE  GenInv'
<1> DEFINE b     == labelIndex + 1
           ifend == Label("ifend", labelIndex, 0)
           tasks == <<Expr(Scalar), pop, jcc(ifend), Stmt, define(ifend)>>
<1>1. AtCall /\ Node(tasks)
  BY DEF gen_IF, Calling, AtCall, GenCalls
<1>2. ifend \in LabelsBelow(b) /\ ifend.index = labelIndex
  BY Numbers, LabelBelow DEF LabelNames
<1>3. {Expr(Scalar), pop, Stmt} \subseteq Silent(b)
  BY Numbers, TypesOfLanguage, CallsAreWork, InstructionsAreWork
<1>4. LabelTasks(b, ifend)
  BY <1>2, Numbers, LabelTasksAre
<1> HIDE DEF ifend
<1>5. tasks \in Seq(Work(b))
  BY <1>3, <1>4 DEF Silent, LabelTasks
<1>6. \A i \in DOMAIN tasks : /\ Definer(tasks[i]) => i = 5
                              /\ Branch(tasks[i]) => tasks[i].label = ifend
  BY <1>3, <1>4 DEF Silent, LabelTasks
<1>7. DOMAIN tasks = 1..5 /\ tasks[5] = define(ifend)
  OBVIOUS
<1> HIDE DEF tasks
<1>8. Targets(tasks) = {ifend} /\ Jumps(tasks) \subseteq {ifend} /\ Distinct(tasks)
  BY <1>4, <1>6, <1>7 DEF Targets, Jumps, Distinct, Range, LabelTasks
<1>9. Block(tasks)
  BY <1>2, <1>5, <1>8 DEF Block
<1> QED BY <1>1, <1>9, BlockStep

LEMMA ElseStep ==
    ASSUME GenInv, gen_ELSE
    PROVE  GenInv'
<1> DEFINE b     == labelIndex + 1
           else  == Label("else", labelIndex, 0)
           end   == Label("ifelseend", labelIndex, 0)
           tasks == <<Expr(Scalar), pop, jcc(else), Stmt, jmp(end),
                      define(else), Stmt, define(end)>>
<1>1. AtCall /\ Node(tasks)
  BY DEF gen_ELSE, Calling, AtCall, GenCalls
<1>2. /\ else \in LabelsBelow(b) /\ else.index = labelIndex
      /\ end \in LabelsBelow(b) /\ end.index = labelIndex
      /\ else # end
  BY Numbers, LabelBelow DEF LabelNames
<1>3. {Expr(Scalar), pop, Stmt} \subseteq Silent(b)
  BY Numbers, TypesOfLanguage, CallsAreWork, InstructionsAreWork
<1>4. LabelTasks(b, else) /\ LabelTasks(b, end)
  BY <1>2, Numbers, LabelTasksAre
<1> HIDE DEF else, end
<1>5. tasks \in Seq(Work(b))
  BY <1>3, <1>4 DEF Silent, LabelTasks
<1>6. \A i \in DOMAIN tasks : /\ Definer(tasks[i]) => i \in {6, 8}
                              /\ Branch(tasks[i]) => tasks[i].label \in {else, end}
  BY <1>3, <1>4 DEF Silent, LabelTasks
<1>7. DOMAIN tasks = 1..8 /\ tasks[6] = define(else) /\ tasks[8] = define(end)
  OBVIOUS
<1> HIDE DEF tasks
<1>8. Targets(tasks) = {else, end}
  BY <1>4, <1>6, <1>7 DEF Targets, Range, LabelTasks
<1>9. Jumps(tasks) \subseteq {else, end}
  BY <1>6 DEF Jumps, Range
<1>10. Distinct(tasks)
  BY <1>2, <1>4, <1>6, <1>7 DEF Distinct, LabelTasks
<1>11. Block(tasks)
  BY <1>2, <1>5, <1>8, <1>9, <1>10 DEF Block
<1> QED BY <1>1, <1>11, BlockStep

LEMMA WhileStep ==
    ASSUME GenInv, gen_WHILE
    PROVE  GenInv'
<1> DEFINE b     == labelIndex + 1
           while == Label("while", labelIndex, 0)
           end   == Label("whileend", labelIndex, 0)
           tasks == <<define(while), Expr(Scalar), pop, jcc(end), Stmt, jmp(while),
                      define(end)>>
<1>1. AtCall /\ Node(tasks)
  BY DEF gen_WHILE, Calling, AtCall, GenCalls
<1>2. /\ while \in LabelsBelow(b) /\ while.index = labelIndex
      /\ end \in LabelsBelow(b) /\ end.index = labelIndex
      /\ while # end
  BY Numbers, LabelBelow DEF LabelNames
<1>3. {Expr(Scalar), pop, Stmt} \subseteq Silent(b)
  BY Numbers, TypesOfLanguage, CallsAreWork, InstructionsAreWork
<1>4. LabelTasks(b, while) /\ LabelTasks(b, end)
  BY <1>2, Numbers, LabelTasksAre
<1> HIDE DEF while, end
<1>5. tasks \in Seq(Work(b))
  BY <1>3, <1>4 DEF Silent, LabelTasks
<1>6. \A i \in DOMAIN tasks : /\ Definer(tasks[i]) => i \in {1, 7}
                              /\ Branch(tasks[i]) => tasks[i].label \in {while, end}
  BY <1>3, <1>4 DEF Silent, LabelTasks
<1>7. DOMAIN tasks = 1..7 /\ tasks[1] = define(while) /\ tasks[7] = define(end)
  OBVIOUS
<1> HIDE DEF tasks
<1>8. Targets(tasks) = {while, end}
  BY <1>4, <1>6, <1>7 DEF Targets, Range, LabelTasks
<1>9. Jumps(tasks) \subseteq {while, end}
  BY <1>6 DEF Jumps, Range
<1>10. Distinct(tasks)
  BY <1>2, <1>4, <1>6, <1>7 DEF Distinct, LabelTasks
<1>11. Block(tasks)
  BY <1>2, <1>5, <1>8, <1>9, <1>10 DEF Block
<1> QED BY <1>1, <1>11, BlockStep

LEMMA ForStep ==
    ASSUME GenInv, gen_FOR
    PROVE  GenInv'
<1> DEFINE b   == labelIndex + 1
           for == Label("for", labelIndex, 0)
           end == Label("forend", labelIndex, 0)
           Clause == {<<>>} \cup {<<Expr(t), pop>> : t \in language.clauses}
           test == <<define(for), Expr(Scalar), pop, jcc(end), Stmt>>
           back == <<jmp(for), define(end)>>
<1>1. PICK first \in Clause, third \in Clause :
          AtCall /\ Node(first \o test \o third \o back)
  BY DEF gen_FOR, Calling, AtCall, GenCalls
<1>2. /\ for \in LabelsBelow(b) /\ for.index = labelIndex
      /\ end \in LabelsBelow(b) /\ end.index = labelIndex
      /\ for # end
  BY Numbers, LabelBelow DEF LabelNames
<1>3. {Expr(Scalar), pop, Stmt} \subseteq Silent(b)
  BY Numbers, TypesOfLanguage, CallsAreWork, InstructionsAreWork
<1>4. LabelTasks(b, for) /\ LabelTasks(b, end)
  BY <1>2, Numbers, LabelTasksAre
<1>5. Clause \subseteq Seq(Silent(b))
  <2>1. \A t \in language.clauses : Expr(t) \in Silent(b)
    BY Numbers, ListsOfLanguage, CallsAreWork
  <2>2. \A t \in language.clauses : <<Expr(t), pop>> \in Seq(Silent(b))
    BY <1>3, <2>1
  <2>3. <<>> \in Seq(Silent(b))
    OBVIOUS
  <2> HIDE DEF b
  <2> QED BY <2>2, <2>3
<1> HIDE DEF for, end, Clause
<1>6. /\ test \in Seq(Work(b)) /\ back \in Seq(Work(b))
      /\ first \in Seq(Work(b)) /\ third \in Seq(Work(b))
      /\ Targets(first) = {} /\ Jumps(first) = {} /\ Distinct(first)
      /\ Targets(third) = {} /\ Jumps(third) = {} /\ Distinct(third)
  <2>1. test \in Seq(Work(b)) /\ back \in Seq(Work(b))
    BY <1>3, <1>4 DEF Silent, LabelTasks
  <2>2. first \in Seq(Silent(b)) /\ third \in Seq(Silent(b))
    BY <1>5
  <2> QED BY <2>1, <2>2, Numbers, SilentLinks
<1>7. Targets(test) = {for} /\ Jumps(test) = {end} /\ Distinct(test)
  <2>1. \A i \in DOMAIN test : (Definer(test[i]) => i = 1) /\ (Branch(test[i]) => i = 4)
    BY <1>3, <1>4 DEF Silent, LabelTasks
  <2>2. DOMAIN test = 1..5 /\ test[1] = define(for) /\ test[4] = jcc(end)
    OBVIOUS
  <2> HIDE DEF test
  <2> QED BY <1>4, <2>1, <2>2 DEF Targets, Jumps, Distinct, Range, LabelTasks
<1>8. Targets(back) = {end} /\ Jumps(back) = {for} /\ Distinct(back)
  <2>1. \A i \in DOMAIN back : (Definer(back[i]) => i = 2) /\ (Branch(back[i]) => i = 1)
    BY <1>4 DEF LabelTasks
  <2>2. DOMAIN back = 1..2 /\ back[1] = jmp(for) /\ back[2] = define(end)
    OBVIOUS
  <2> HIDE DEF back
  <2> QED BY <1>4, <2>1, <2>2 DEF Targets, Jumps, Distinct, Range, LabelTasks
<1> HIDE DEF test, back
<1> DEFINE s1 == first \o test
           s2 == s1 \o third
           s3 == s2 \o back
<1>9. s1 \in Seq(Work(b)) /\ Targets(s1) = {for} /\ Jumps(s1) = {end} /\ Distinct(s1)
  <2>1. s1 \in Seq(Work(b))
    BY <1>6
  <2>2. Targets(s1) = {for} /\ Jumps(s1) = {end}
    BY <1>6, <1>7, LinksConcat
  <2>3. Distinct(s1)
    BY <1>6, <1>7, DistinctConcat
  <2> QED BY <2>1, <2>2, <2>3
<1> HIDE DEF s1
<1>10. s2 \in Seq(Work(b)) /\ Targets(s2) = {for} /\ Jumps(s2) = {end} /\ Distinct(s2)
  <2>1. s2 \in Seq(Work(b))
    BY <1>6, <1>9
  <2>2. Targets(s2) = {for} /\ Jumps(s2) = {end}
    <3>1. s1 \in Seq(Work(b)) /\ third \in Seq(Work(b))
      BY <1>6, <1>9
    <3>2. /\ Targets(s2) = Targets(s1) \cup Targets(third)
          /\ Jumps(s2) = Jumps(s1) \cup Jumps(third)
      BY <3>1, LinksConcat
    <3> QED BY <1>6, <1>9, <3>2
  <2>3. Distinct(s2)
    BY <1>6, <1>9, DistinctConcat
  <2> QED BY <2>1, <2>2, <2>3
<1> HIDE DEF s2
<1>11. s3 \in Seq(Work(b)) /\ Targets(s3) = {for, end} /\ Jumps(s3) = {for, end} /\ Distinct(s3)
  <2>1. s3 \in Seq(Work(b))
    BY <1>6, <1>10
  <2>2. Targets(s3) = {for, end} /\ Jumps(s3) = {for, end}
    <3>1. s2 \in Seq(Work(b)) /\ back \in Seq(Work(b))
      BY <1>6, <1>10
    <3>2. /\ Targets(s3) = Targets(s2) \cup Targets(back)
          /\ Jumps(s3) = Jumps(s2) \cup Jumps(back)
      BY <3>1, LinksConcat
    <3> QED BY <1>8, <1>10, <3>2
  <2>3. Distinct(s3)
    BY <1>2, <1>6, <1>8, <1>10, DistinctConcat
  <2> QED BY <2>1, <2>2, <2>3
<1>12. Node(s3)
  BY <1>1 DEF s1, s2
<1> HIDE DEF s3
<1>13. Block(s3)
  BY <1>2, <1>11 DEF Block
<1> QED BY <1>1, <1>12, <1>13, BlockStep

LEMMA CaseStep ==
    ASSUME GenInv, gen_CASE
    PROVE  GenInv'
<1> DEFINE label == Head(agenda).label
           tasks == <<define(label), Stmt>>
<1>1. /\ status = "generating" /\ agenda # <<>>
      /\ Head(agenda).do \in {"case", "stmt", "other"}
      /\ (label = NoLabel /\ Stop("crash")) \/ (label # NoLabel /\ Leaf(tasks))
  BY DEF gen_CASE, Calling
<1>2. CASE Stop("crash")
  BY <1>2, StopStep
<1>3. CASE label # NoLabel /\ Leaf(tasks)
  <2> DEFINE b == labelIndex + 1
  <2>1. agenda \in Seq(Work(labelIndex))
    BY <1>1, SituationFacts DEF GenInv, Inside
  <2>2. Head(agenda) \in Work(labelIndex)
    BY <1>1, <2>1, HeadTail
  <2>3. label \in LabelsBelow(b)
    BY <2>2, Numbers DEF Work, Tasks, LabelsBelow
  <2>4. LabelTasks(b, label) /\ Stmt \in Silent(b)
    BY <2>3, Numbers, LabelTasksAre, CallsAreWork
  <2> HIDE DEF label
  <2>5. tasks \in Seq(Work(b))
    BY <2>4 DEF Silent, LabelTasks
  <2>6. \A i \in DOMAIN tasks : ~Branch(tasks[i]) /\ (Definer(tasks[i]) => i = 1)
    BY <2>4 DEF Silent, LabelTasks
  <2>7. DOMAIN tasks = 1..2 /\ tasks[1] = define(label)
    OBVIOUS
  <2> HIDE DEF tasks
  <2>8. Targets(tasks) = {label} /\ Jumps(tasks) = {} /\ Distinct(tasks)
    BY <2>4, <2>6, <2>7 DEF Targets, Jumps, Distinct, Range, LabelTasks
  <2>9. Head(agenda).do = "case" /\ Head(agenda).do # "entry" /\ Definer(Head(agenda))
    BY <1>1, <1>3, <2>2 DEF Work, GenCalls, Definer, label
  <2>10. Targets(<<Head(agenda)>>) = {label}
    BY <2>9 DEF Targets, Range, label
  <2>11. labelIndex \in Nat /\ nodes \in 0..MaxNodes
    BY DEF GenInv, Situation
  <2>12. /\ agenda' = tasks \o Tail(agenda) /\ labelIndex' = b
         /\ language' = language /\ alignmentCount' = alignmentCount /\ out' = out
         /\ status' = status /\ functions' = functions /\ nodes' \in 0..MaxNodes
    BY <1>3, <2>11 DEF Leaf
  <2>13. tasks \in Seq(Work(labelIndex'))
    BY <2>5, <2>12
  <2>14. /\ Targets(<<Head(agenda)>>) \subseteq Targets(tasks)
         /\ \A l \in Targets(tasks) : l \in Targets(<<Head(agenda)>>) \/ l.index >= labelIndex
         /\ Jumps(tasks) \subseteq Targets(tasks) /\ Distinct(tasks)
    BY <2>8, <2>10
  <2> HIDE DEF b
  <2> QED BY <1>1, <2>9, <2>11, <2>12, <2>13, <2>14, ReplaceHead DEF b
<1> QED BY <1>1, <1>2, <1>3

-----------------------------------------------------------------------------
(* ND_SWITCH *)

LEMMA DefaultOfBody ==
    ASSUME NEW body \in Seq(Items)
    PROVE  LET d == DefaultOf(body)
           IN  d \in Nat /\ (d # 0 => d \in DOMAIN body /\ body[d] = "default")
<1> DEFINE before == {j \in 1..(Len(body) - 1) : body[j] = "default"}
<1>1. Len(body) \in Nat /\ DOMAIN body = 1..Len(body)
  OBVIOUS
<1>2. CASE before = {}
  <2>1. DefaultOf(body) = 0
    BY <1>2 DEF DefaultOf
  <2> QED BY <2>1
<1>3. CASE before # {}
  <2>1. before \subseteq Nat
    OBVIOUS
  <2>2. \E j \in before : \A k \in before : j <= k
    <3> HIDE DEF before
    <3> QED BY <1>3, <2>1, Least
  <2>3. DefaultOf(body) = CHOOSE j \in before : \A k \in before : j <= k
    BY <1>3 DEF DefaultOf
  <2>4. DefaultOf(body) \in before
    <3> HIDE DEF before
    <3> QED BY <2>2, <2>3
  <2> QED BY <1>1, <2>4
<1> QED BY <1>2, <1>3

LEMMA ItemLabels ==
    ASSUME GenInv, NEW body \in Seq(Items)
    PROVE  /\ \A j \in DOMAIN body :
                 /\ ItemLabel(body, j) \in LabelsBelow(labelIndex + 1)
                 /\ ItemLabel(body, j) # NoLabel =>
                       /\ ItemLabel(body, j).index = labelIndex
                       /\ ItemLabel(body, j).item = j - 1
           /\ body # <<>> =>
                 /\ DefaultLabel(body) \in LabelsBelow(labelIndex + 1)
                 /\ DefaultLabel(body).index = labelIndex
           /\ DefaultOf(body) # 0 =>
                 /\ ItemLabel(body, DefaultOf(body)) = DefaultLabel(body)
                 /\ ItemLabel(body, DefaultOf(body)) # NoLabel
           /\ body # <<>> /\ DefaultOf(body) = 0 /\ body[Len(body)] # "case" =>
                 \A j \in DOMAIN body :
                     ItemLabel(body, j) # NoLabel => ItemLabel(body, j) # DefaultLabel(body)
<1> DEFINE b == labelIndex + 1
           d == DefaultOf(body)
           n == Len(body)
<1>1. /\ n \in Nat /\ DOMAIN body = 1..n /\ (body # <<>> => n > 0)
      /\ d \in Nat /\ (d # 0 => d \in DOMAIN body /\ body[d] = "default")
  BY DefaultOfBody
<1>2. /\ b \in Nat /\ labelIndex \in 0..(b - 1) /\ NoLabel \in LabelsBelow(b)
      /\ "case" \in LabelNames /\ NoLabel.name = "none"
  BY Numbers, NoLabelBelow DEF LabelNames, NoLabel
<1> HIDE DEF b, d, n
<1>3. \A item \in Nat : /\ Label("case", labelIndex, item) \in LabelsBelow(b)
                        /\ Label("case", labelIndex, item).index = labelIndex
                        /\ Label("case", labelIndex, item).item = item
                        /\ Label("case", labelIndex, item) # NoLabel
  <2> TAKE item \in Nat
  <2>1. Label("case", labelIndex, item).name = "case"
    BY <1>2, LabelBelow
  <2> QED BY <1>2, <2>1, LabelBelow
<1>4. \A j \in DOMAIN body : j - 1 \in Nat
  BY <1>1
<1>5. \A j \in DOMAIN body :
          \/ ItemLabel(body, j) = Label("case", labelIndex, j - 1)
          \/ ItemLabel(body, j) = NoLabel
  BY DEF ItemLabel
<1>6. \A j \in DOMAIN body :
          /\ ItemLabel(body, j) \in LabelsBelow(b)
          /\ ItemLabel(body, j) # NoLabel =>
                ItemLabel(body, j).index = labelIndex /\ ItemLabel(body, j).item = j - 1
  BY <1>2, <1>3, <1>4, <1>5
<1>7. DefaultLabel(body) = Label("case", labelIndex, (IF d = 0 THEN n ELSE d) - 1)
  BY DEF DefaultLabel, d, n
<1>8. ASSUME body # <<>>
      PROVE  /\ DefaultLabel(body) \in LabelsBelow(b)
             /\ DefaultLabel(body).index = labelIndex
  <2>1. (IF d = 0 THEN n ELSE d) - 1 \in Nat
    BY <1>1, <1>8
  <2> QED BY <1>3, <1>7, <2>1
<1>9. ASSUME d # 0
      PROVE  ItemLabel(body, d) = DefaultLabel(body) /\ ItemLabel(body, d) # NoLabel
  <2>1. ItemLabel(body, d) = Label("case", labelIndex, d - 1)
    BY DEF ItemLabel, d
  <2>2. d - 1 \in Nat
    BY <1>1, <1>9
  <2> QED BY <1>3, <1>7, <1>9, <2>1, <2>2
<1>10. ASSUME body # <<>>, d = 0, body[n] # "case",
              NEW j \in DOMAIN body, ItemLabel(body, j) # NoLabel
       PROVE  ItemLabel(body, j) # DefaultLabel(body)
  <2>1. body[j] = "case"
    <3>1. j # d
      BY <1>1, <1>10
    <3> QED BY <1>10, <3>1 DEF ItemLabel, d
  <2>2. j # n /\ j \in Nat /\ n - 1 \in Nat
    BY <1>1, <1>10, <2>1
  <2>3. DefaultLabel(body).item = n - 1
    BY <1>3, <1>7, <1>10, <2>2
  <2>4. ItemLabel(body, j).item = j - 1
    BY <1>6, <1>10
  <2> QED BY <1>1, <2>2, <2>3, <2>4
<1> QED BY <1>6, <1>8, <1>9, <1>10 DEF b, d, n

LEMMA SwitchStep ==
    ASSUME GenInv, NEW body \in language.bodies, gen_SWITCH(body)
    PROVE  GenInv'
<1> DEFINE b == labelIndex + 1
           d == DefaultOf(body)
           L(j) == ItemLabel(body, j)
           default == DefaultLabel(body)
           compare(j) ==
               IF body[j] = "case" /\ L(j) # NoLabel
               THEN <<Expr(Scalar), pop, pop, jcc(L(j)), push>>
               ELSE <<>>
           item(j) == IF body[j] = "stmt" THEN Stmt ELSE Case(L(j))
           value == <<Expr(Scalar)>>
           compares == [j \in DOMAIN body |-> compare(j)]
           choose == IF body = <<>> THEN <<>> ELSE <<pop, jmp(default)>>
           items == [j \in DOMAIN body |-> item(j)]
           append == IF body = <<>> \/ d # 0 THEN <<>> ELSE <<define(default), push, pop>>
           CaseLabels == {L(j) : j \in {i \in DOMAIN body : body[i] # "stmt" /\ L(i) # NoLabel}}
           Appended == IF body = <<>> \/ d # 0 THEN {} ELSE {default}
<1>1. AtCall /\ Node(value \o FlattenSeq(compares) \o choose \o items \o append)
  BY DEF gen_SWITCH, Calling, AtCall, GenCalls
<1>2. /\ b \in Nat /\ b > 0 /\ language \in Languages
      /\ body \in Seq(Items) /\ DOMAIN body = 1..Len(body) /\ Len(body) \in Nat
      /\ d \in Nat /\ (d # 0 => d \in DOMAIN body /\ body[d] = "default")
  <2>1. language.bodies \subseteq Seq(Items)
    BY Numbers, ListsOfLanguage
  <2>2. body \in Seq(Items)
    BY <2>1
  <2> QED BY <2>2, Numbers, DefaultOfBody
<1> HIDE DEF b
<1>3. {Expr(Scalar), pop, push, Stmt} \subseteq Silent(b)
  BY <1>2, TypesOfLanguage, CallsAreWork, InstructionsAreWork
<1>4. /\ \A j \in DOMAIN body :
            L(j) \in LabelsBelow(b) /\ (L(j) # NoLabel => L(j).index = labelIndex /\ L(j).item = j - 1)
      /\ body # <<>> => default \in LabelsBelow(b) /\ default.index = labelIndex
      /\ d # 0 => L(d) = default /\ L(d) # NoLabel
      /\ body # <<>> /\ d = 0 /\ body[Len(body)] # "case" =>
            \A j \in DOMAIN body : L(j) # NoLabel => L(j) # default
  BY <1>2, ItemLabels DEF b
<1> HIDE DEF L, default, d
<1>5. /\ \A j \in DOMAIN body : LabelTasks(b, L(j))
      /\ body # <<>> => LabelTasks(b, default)
  BY <1>2, <1>4, LabelTasksAre
<1>6. \A j \in DOMAIN body : Case(L(j)) \in Work(b) /\ Case(L(j)).do = "case" /\ Case(L(j)).label = L(j)
  BY <1>2, <1>4, CallsAreWork
<1>7. /\ value \in Seq(Work(b)) /\ Targets(value) = {} /\ Jumps(value) = {} /\ Distinct(value)
  <2>1. value \in Seq(Silent(b))
    BY <1>3
  <2> HIDE DEF value
  <2> QED BY <1>2, <2>1, SilentLinks
<1>8. /\ FlattenSeq(compares) \in Seq(Work(b)) /\ Targets(FlattenSeq(compares)) = {}
      /\ Jumps(FlattenSeq(compares)) \subseteq CaseLabels /\ Distinct(FlattenSeq(compares))
  <2> DEFINE T == {t \in Work(b) : ~Definer(t) /\ (Branch(t) => t.label \in CaseLabels)}
             flat == FlattenSeq(compares)
  <2>1. ASSUME NEW j \in DOMAIN body
        PROVE  compare(j) \in Seq(T)
    <3>1. CASE body[j] = "case" /\ L(j) # NoLabel
      <4>1. L(j) \in CaseLabels
        BY <3>1
      <4>2. {Expr(Scalar), pop, push} \subseteq T
        BY <1>3 DEF Silent
      <4>3. jcc(L(j)) \in T
        BY <1>5, <4>1 DEF LabelTasks
      <4> HIDE DEF T
      <4>4. <<Expr(Scalar), pop, pop, jcc(L(j)), push>> \in Seq(T)
        BY <4>2, <4>3
      <4> QED BY <3>1, <4>4
    <3>2. CASE ~(body[j] = "case" /\ L(j) # NoLabel)
      <4>1. compare(j) = <<>>
        BY <3>2
      <4>2. <<>> \in Seq(T)
        OBVIOUS
      <4> QED BY <4>1, <4>2
    <3> QED BY <3>1, <3>2
  <2>2. compares \in Seq(Seq(T))
    <3> HIDE DEF T, compare
    <3> QED BY <1>2, <2>1
  <2>3. flat \in Seq(T)
    <3> HIDE DEF T, compares
    <3> QED BY <2>2, FlattenInSeq
  <2> HIDE DEF flat, CaseLabels
  <2>4. \A i \in DOMAIN flat : /\ flat[i] \in Work(b) /\ ~Definer(flat[i])
                               /\ Branch(flat[i]) => flat[i].label \in CaseLabels
    BY <2>3
  <2>5. flat \in Seq(Work(b))
    BY <2>3
  <2>6. Targets(flat) = {} /\ Distinct(flat)
    BY <2>4 DEF Targets, Distinct, Range
  <2>7. Jumps(flat) \subseteq CaseLabels
    BY <2>4 DEF Jumps, Range
  <2> QED BY <2>5, <2>6, <2>7 DEF flat
<1>9. /\ choose \in Seq(Work(b)) /\ Targets(choose) = {} /\ Distinct(choose)
      /\ Jumps(choose) \subseteq CaseLabels \cup Appended
  <2>1. CASE body = <<>>
    <3>1. choose = <<>> /\ <<>> \in Seq(Silent(b))
      BY <2>1
    <3> HIDE DEF choose
    <3> QED BY <1>2, <3>1, SilentLinks
  <2>2. CASE body # <<>>
    <3> DEFINE pair == <<pop, jmp(default)>>
    <3>1. choose = pair
      BY <2>2
    <3>2. LabelTasks(b, default) /\ pop \in Work(b) /\ ~Definer(pop) /\ ~Branch(pop)
      BY <1>3, <1>5, <2>2 DEF Silent
    <3>3. pair \in Seq(Work(b))
      BY <3>2 DEF LabelTasks
    <3>4. \A i \in DOMAIN pair : ~Definer(pair[i]) /\ (Branch(pair[i]) => pair[i].label = default)
      BY <3>2 DEF LabelTasks
    <3>5. default \in CaseLabels \cup Appended
      BY <1>2, <1>4, <2>2
    <3> HIDE DEF pair, CaseLabels, Appended, choose
    <3>6. Targets(pair) = {} /\ Distinct(pair)
      BY <3>4 DEF Targets, Distinct, Range
    <3>7. Jumps(pair) \subseteq {default}
      BY <3>4 DEF Jumps, Range
    <3> QED BY <3>1, <3>3, <3>5, <3>6, <3>7
  <2> QED BY <2>1, <2>2
<1>10. /\ items \in Seq(Work(b)) /\ Targets(items) = CaseLabels /\ Jumps(items) = {}
       /\ Distinct(items)
  <2>1. \A j \in DOMAIN body :
            /\ item(j) \in Work(b) /\ ~Branch(item(j))
            /\ Definer(item(j)) => body[j] # "stmt" /\ L(j) # NoLabel
            /\ body[j] # "stmt" => item(j).label = L(j)
            /\ body[j] # "stmt" /\ L(j) # NoLabel => Definer(item(j))
    BY <1>3, <1>6 DEF Silent, Definer, Branch
  <2> HIDE DEF item
  <2>2. DOMAIN items = DOMAIN body /\ \A j \in DOMAIN body : items[j] = item(j)
    OBVIOUS
  <2>3. items \in Seq(Work(b))
    BY <1>2, <2>1
  <2> HIDE DEF items
  <2>4. Jumps(items) = {}
    BY <2>1, <2>2 DEF Jumps, Range
  <2>5. Targets(items) = CaseLabels
    <3>1. ASSUME NEW l \in Targets(items)
          PROVE  l \in CaseLabels
      <4>1. PICK j \in DOMAIN body : Definer(item(j)) /\ item(j).label = l
        BY <2>2 DEF Targets, Range
      <4> QED BY <2>1, <4>1
    <3>2. ASSUME NEW l \in CaseLabels
          PROVE  l \in Targets(items)
      <4>1. PICK j \in DOMAIN body : body[j] # "stmt" /\ L(j) # NoLabel /\ l = L(j)
        OBVIOUS
      <4>2. Definer(items[j]) /\ items[j].label = l /\ j \in DOMAIN items
        BY <2>1, <2>2, <4>1
      <4> QED BY <4>2 DEF Targets, Range
    <3> QED BY <3>1, <3>2
  <2>6. Distinct(items)
    <3> SUFFICES ASSUME NEW i \in DOMAIN body, NEW j \in DOMAIN body,
                        Definer(item(i)), Definer(item(j)), item(i).label = item(j).label
                 PROVE  i = j
      BY <2>2 DEF Distinct
    <3>1. L(i) = L(j) /\ L(i) # NoLabel /\ L(j) # NoLabel
      BY <2>1
    <3>2. L(i).item = i - 1 /\ L(j).item = j - 1
      BY <1>4, <3>1
    <3> QED BY <1>2, <3>1, <3>2
  <2> QED BY <2>3, <2>4, <2>5, <2>6
<1>11. /\ append \in Seq(Work(b)) /\ Targets(append) = Appended /\ Jumps(append) = {}
       /\ Distinct(append)
  <2>1. CASE body = <<>> \/ d # 0
    <3>1. append = <<>> /\ <<>> \in Seq(Silent(b)) /\ Appended = {}
      BY <2>1
    <3> HIDE DEF append, Appended
    <3> QED BY <1>2, <3>1, SilentLinks
  <2>2. CASE ~(body = <<>> \/ d # 0)
    <3> DEFINE last == <<define(default), push, pop>>
    <3>1. append = last /\ Appended = {default}
      BY <2>2
    <3>2. LabelTasks(b, default) /\ {push, pop} \subseteq Silent(b)
      BY <1>3, <1>5, <2>2
    <3>3. last \in Seq(Work(b))
      BY <3>2 DEF LabelTasks, Silent
    <3>4. \A i \in DOMAIN last : ~Branch(last[i]) /\ (Definer(last[i]) => i = 1)
      BY <3>2 DEF LabelTasks, Silent
    <3>5. DOMAIN last = 1..3 /\ last[1] = define(default)
      OBVIOUS
    <3> HIDE DEF last, append, Appended
    <3>6. Targets(last) = {default} /\ Jumps(last) = {} /\ Distinct(last)
      BY <3>2, <3>4, <3>5 DEF Targets, Jumps, Distinct, Range, LabelTasks
    <3> QED BY <3>1, <3>3, <3>6
  <2> QED BY <2>1, <2>2
<1>12. ASSUME SwitchesEndWell
       PROVE  CaseLabels \cap Appended = {}
  <2> SUFFICES ASSUME body # <<>>, d = 0, default \in CaseLabels
               PROVE  FALSE
    OBVIOUS
  <2>1. body[Len(body)] # "case"
    BY <1>2, <1>12 DEF SwitchesEndWell, d
  <2> QED BY <1>4, <2>1
<1>13. (\A l \in CaseLabels : l.index = labelIndex) /\ (\A l \in Appended : l.index = labelIndex)
  BY <1>4
<1> DEFINE flat == FlattenSeq(compares)
           s1 == value \o flat
           s2 == s1 \o choose
           s3 == s2 \o items
           s4 == s3 \o append
<1>14. Node(s4)
  BY <1>1
<1> HIDE DEF value, flat, choose, items, append, CaseLabels, Appended
<1>15. /\ s1 \in Seq(Work(b)) /\ Targets(s1) = {} /\ Jumps(s1) \subseteq CaseLabels /\ Distinct(s1)
  <2>1. /\ flat \in Seq(Work(b)) /\ Targets(flat) = {} /\ Jumps(flat) \subseteq CaseLabels
        /\ Distinct(flat)
    BY <1>8 DEF flat
  <2>2. value \in Seq(Work(b))
    BY <1>7
  <2>3. Targets(s1) = Targets(value) \cup Targets(flat) /\ Jumps(s1) = Jumps(value) \cup Jumps(flat)
    <3>1. value \in Seq(Work(b)) /\ flat \in Seq(Work(b))
      BY <2>1, <2>2
    <3> QED BY <3>1, LinksConcat
  <2>4. Distinct(s1)
    BY <1>7, <2>1, DistinctConcat
  <2>5. s1 \in Seq(Work(b))
    BY <2>1, <2>2
  <2> QED BY <1>7, <2>1, <2>3, <2>4, <2>5
<1> HIDE DEF s1
<1>16. /\ s2 \in Seq(Work(b)) /\ Targets(s2) = {} /\ Distinct(s2)
       /\ Jumps(s2) \subseteq CaseLabels \cup Appended
  <2>1. s1 \in Seq(Work(b)) /\ choose \in Seq(Work(b))
    BY <1>9, <1>15
  <2>2. Targets(s2) = Targets(s1) \cup Targets(choose) /\ Jumps(s2) = Jumps(s1) \cup Jumps(choose)
    BY <2>1, LinksConcat
  <2>3. Distinct(s2)
    BY <1>9, <1>15, <2>1, DistinctConcat
  <2> QED BY <1>9, <1>15, <2>1, <2>2, <2>3
<1> HIDE DEF s2
<1>17. /\ s3 \in Seq(Work(b)) /\ Targets(s3) = CaseLabels /\ Distinct(s3)
       /\ Jumps(s3) \subseteq CaseLabels \cup Appended
  <2>1. s2 \in Seq(Work(b)) /\ items \in Seq(Work(b))
    BY <1>10, <1>16
  <2>2. Targets(s3) = Targets(s2) \cup Targets(items) /\ Jumps(s3) = Jumps(s2) \cup Jumps(items)
    BY <2>1, LinksConcat
  <2>3. Distinct(s3)
    BY <1>10, <1>16, <2>1, DistinctConcat
  <2> QED BY <1>10, <1>16, <2>1, <2>2, <2>3
<1> HIDE DEF s3
<1>18. /\ s4 \in Seq(Work(b)) /\ Targets(s4) = CaseLabels \cup Appended
       /\ Jumps(s4) \subseteq CaseLabels \cup Appended
       /\ SwitchesEndWell => Distinct(s4)
  <2>1. s3 \in Seq(Work(b)) /\ append \in Seq(Work(b))
    BY <1>11, <1>17
  <2>2. Targets(s4) = Targets(s3) \cup Targets(append) /\ Jumps(s4) = Jumps(s3) \cup Jumps(append)
    BY <2>1, LinksConcat
  <2>3. SwitchesEndWell => Distinct(s4)
    BY <1>11, <1>12, <1>17, <2>1, DistinctConcat
  <2> QED BY <1>11, <1>17, <2>1, <2>2, <2>3
<1>19. Node(s4)
  BY <1>14 DEF s1, s2, s3
<1> HIDE DEF s4
<1>20. Block(s4)
  BY <1>13, <1>18 DEF Block, b
<1> QED BY <1>1, <1>19, <1>20, BlockStep

-----------------------------------------------------------------------------
(* A function starts, and an instruction is printed. *)

LEMMA ParameterIsSilent ==
    ASSUME NEW b \in Nat, b > 0, language \in Languages, NEW t \in Types
    PROVE  Parameter(t) \in Seq(Silent(b))
<1>1. {push, pop} \subseteq Silent(b)
  BY InstructionsAreWork
<1>2. <<push, pop>> \in Seq(Silent(b))
  BY <1>1
<1>3. CASE t.dataType = "STRUCT"
  <2>1. t.size \in Nat /\ t.size % 8 = 0
    <3>1. t.size \in Nat
      BY TypesOfLanguage
    <3>2. t \in StructTypes
      BY <1>3 DEF Types, Scalar, Void, ArrayTypes, Array
    <3> QED BY <3>1, <3>2, TypesOfLanguage
  <2>2. /\ pushVarToStack(t.size) \in Seq(Silent(b))
        /\ popVarFromStack(t.size) \in Seq(Silent(b))
        /\ stack_pop(t.size) \in Seq(Silent(b))
    BY <2>1, MovesAreSilent
  <2>3. pushVarToStack(t.size) \o <<push, pop>> \o popVarFromStack(t.size) \o stack_pop(t.size)
            \in Seq(Silent(b))
    BY <1>2, <2>2
  <2> QED BY <1>3, <2>3 DEF Parameter
<1>4. CASE t.dataType # "STRUCT"
  BY <1>2, <1>4 DEF Parameter
<1> QED BY <1>3, <1>4

LEMMA FuncdefineStep ==
    ASSUME GenInv, NEW params \in language.paramLists, gen_FUNCDEFINE(params)
    PROVE  GenInv'
<1> DEFINE b == labelIndex + 2
           Body(k) == [i \in 1..k |-> Stmt]
           start == <<entry, push, frame, push>>
           moves == FlattenSeq([p \in DOMAIN params |-> Parameter(params[p])])
<1>1. PICK k \in 0..(language.maxStmts - 1), last \in {<<Return>>, <<OtherStmt, ReturnNothing>>} :
          agenda' = start \o moves \o Body(k) \o last
  BY DEF gen_FUNCDEFINE
<1>2. /\ status = "generating" /\ agenda = <<>>
      /\ functions < language.maxFunctions /\ functions' = functions + 1
      /\ alignmentCount' = 33816
      /\ labelIndex' = b
      /\ language' = language /\ out' = out /\ status' = status /\ nodes' = nodes
  BY DEF gen_FUNCDEFINE, local_variable_stack
<1>3. /\ b \in Nat /\ b > 0 /\ labelIndex \in Nat /\ labelIndex <= b
      /\ language \in Languages
      /\ params \in Seq(Types) /\ k \in Nat
  <2>1. language.paramLists \subseteq Seq(Types) /\ language.maxStmts \in Nat
    BY Numbers, ListsOfLanguage
  <2>2. params \in Seq(Types)
    BY <2>1
  <2> QED BY <2>1, <2>2, Numbers
<1> HIDE DEF b
<1>4. moves \in Seq(Silent(b))
  <2>1. \A p \in DOMAIN params : Parameter(params[p]) \in Seq(Silent(b))
    BY <1>3, ParameterIsSilent
  <2>2. DOMAIN params = 1..Len(params) /\ Len(params) \in Nat
    BY <1>3
  <2>3. [p \in DOMAIN params |-> Parameter(params[p])] \in Seq(Seq(Silent(b)))
    BY <2>1, <2>2
  <2> QED BY <2>3, FlattenInSeq
<1>5. Body(k) \in Seq(Silent(b)) /\ last \in Seq(Silent(b))
  <2>1. {Stmt, Return, OtherStmt, ReturnNothing} \subseteq Silent(b)
    BY <1>3, CallsAreWork
  <2>2. <<Return>> \in Seq(Silent(b)) /\ <<OtherStmt, ReturnNothing>> \in Seq(Silent(b))
    BY <2>1
  <2>3. Body(k) \in Seq(Silent(b))
    BY <1>3, <2>1
  <2> QED BY <2>2, <2>3
<1> HIDE DEF moves, Body
<1> DEFINE rest == <<push, frame, push>> \o moves \o Body(k) \o last
<1>6. rest \in Seq(Silent(b))
  <2>1. {push, frame} \subseteq Silent(b)
    BY <1>3, InstructionsAreWork
  <2>2. <<push, frame, push>> \in Seq(Silent(b))
    BY <2>1
  <2> QED BY <1>4, <1>5, <2>2
<1>7. rest \in Seq(Work(b)) /\ Targets(rest) = {} /\ Jumps(rest) = {} /\ Distinct(rest)
  <2> HIDE DEF rest
  <2> QED BY <1>3, <1>6, SilentLinks
<1>8. entry \in Tasks /\ entry.do = "entry"
  BY DEF entry, Instr, Task, Tasks, Instructions, NoLabel, LabelNames
<1>9. /\ agenda' \in Seq(Tasks) /\ agenda' # <<>> /\ Head(agenda') = entry /\ Tail(agenda') = rest
      /\ agenda' = <<entry>> \o rest /\ rest \in Seq(Tasks) /\ <<entry>> \in Seq(Tasks)
  <2> DEFINE U == Silent(b) \cup {entry}
             s1 == start \o moves
             s2 == s1 \o Body(k)
  <2>1. /\ start \in Seq(U) /\ start # <<>> /\ Head(start) = entry
        /\ Tail(start) = <<push, frame, push>>
    <3>1. {push, frame, entry} \subseteq U
      BY <1>3, InstructionsAreWork
    <3> HIDE DEF U
    <3> QED BY <3>1
  <2>2. moves \in Seq(U) /\ Body(k) \in Seq(U) /\ last \in Seq(U) /\ rest \in Seq(U)
    <3>1. Silent(b) \subseteq U
      OBVIOUS
    <3> HIDE DEF U, rest
    <3> QED BY <1>4, <1>5, <1>6, <3>1
  <2>3. U \subseteq Tasks /\ entry \in U
    BY <1>8 DEF Silent, Work
  <2> HIDE DEF U, start
  <2>4. s1 \in Seq(U) /\ s1 # <<>> /\ Head(s1) = entry /\ Tail(s1) = <<push, frame, push>> \o moves
    <3>1. /\ start \in Seq(U) /\ moves \in Seq(U) /\ start # <<>>
      BY <2>1, <2>2
    <3>2. s1 \in Seq(U) /\ s1 # <<>> /\ Head(s1) = Head(start) /\ Tail(s1) = Tail(start) \o moves
      BY <3>1, ConcatHeadTail
    <3> QED BY <2>1, <3>2
  <2> HIDE DEF s1
  <2>5. s2 \in Seq(U) /\ s2 # <<>> /\ Head(s2) = entry /\ Tail(s2) = Tail(s1) \o Body(k)
    <3>1. s1 \in Seq(U) /\ Body(k) \in Seq(U) /\ s1 # <<>>
      BY <2>2, <2>4
    <3>2. s2 \in Seq(U) /\ s2 # <<>> /\ Head(s2) = Head(s1) /\ Tail(s2) = Tail(s1) \o Body(k)
      BY <3>1, ConcatHeadTail
    <3> QED BY <2>4, <3>2
  <2>6. agenda' = s2 \o last
    BY <1>1 DEF s2, s1
  <2> HIDE DEF s2
  <2>7. /\ agenda' \in Seq(U) /\ agenda' # <<>> /\ Head(agenda') = entry
        /\ Tail(agenda') = Tail(s2) \o last
    BY <2>2, <2>5, <2>6, ConcatHeadTail
  <2>8. Tail(agenda') = rest
    BY <2>4, <2>5, <2>7
  <2>9. agenda' = <<entry>> \o rest
    BY <2>7, <2>8, HeadTail
  <2> HIDE DEF rest
  <2>10. agenda' \in Seq(Tasks) /\ rest \in Seq(Tasks) /\ <<entry>> \in Seq(Tasks)
    BY <2>2, <2>3, <2>7
  <2> QED BY <2>7, <2>8, <2>9, <2>10
<1> HIDE DEF rest
<1>10. Situation'
  <2>1. Entering(labelIndex)'
    <3>1. rest \in Seq(Work(labelIndex)')
      BY <1>2, <1>7, SameTasks
    <3>2. agenda' # <<>> /\ Head(agenda') = entry /\ Tail(agenda') \in Seq(Work(labelIndex)')
      BY <1>9, <3>1
    <3>3. alignmentCount' = local_variable_stack + 8
      BY <1>2 DEF local_variable_stack
    <3> QED BY <3>2, <3>3 DEF Entering
  <2>2. out' \in Seq(Printed(labelIndex)')
    <3>1. out \in Seq(Printed(labelIndex))
      BY SituationFacts DEF GenInv
    <3>2. out \in Seq(Printed(b))
      BY <1>3, <3>1, WorkGrows
    <3> QED BY <1>2, <3>2, SameTasks
  <2>3. agenda' \in Seq(Tasks')
    BY <1>2, <1>9, SameTasks
  <2>4. nodes \in 0..MaxNodes /\ functions + 1 \in 0..language.maxFunctions
    <3>1. functions \in 0..language.maxFunctions /\ nodes \in 0..MaxNodes
      BY DEF GenInv, Situation
    <3>2. language.maxFunctions \in Nat
      BY <1>3, ListsOfLanguage
    <3> QED BY <1>2, <3>1, <3>2
  <2>5. 33816 % 8 = 0
    OBVIOUS
  <2> QED BY <1>2, <1>3, <2>1, <2>2, <2>3, <2>4, <2>5 DEF Situation
<1>11. Linkage'
  <2> DEFINE printed == [i \in DOMAIN out |-> out[i].instr]
             one == <<entry>>
  <2>1. printed \in Seq(Tasks) /\ one \in Seq(Tasks) /\ rest \in Seq(Tasks) /\ agenda' \in Seq(Tasks)
    BY <1>9, SituationFacts DEF GenInv
  <2>2. Program = printed /\ Program' = printed \o agenda'
    <3>1. Program = printed \o <<>>
      BY <1>2 DEF Program
    <3>2. Program' = printed \o agenda'
      BY <1>2 DEF Program
    <3> HIDE DEF printed
    <3> QED BY <2>1, <3>1, <3>2
  <2>3. Targets(one) = {} /\ Jumps(one) = {} /\ Distinct(one)
    BY <1>8 DEF Targets, Jumps, Distinct, Range, Definer, Branch
  <2>4. Landing /\ (SwitchesEndWell => Distinct(printed))
    BY <2>2 DEF GenInv, Linkage
  <2> HIDE DEF printed, one
  <2>5. Targets(agenda') = {} /\ Jumps(agenda') = {} /\ Distinct(agenda')
    <3>1. agenda' = one \o rest
      BY <1>9 DEF one
    <3>2. Targets(one \o rest) = Targets(one) \cup Targets(rest)
      BY <2>1, LinksConcat
    <3>3. Jumps(one \o rest) = Jumps(one) \cup Jumps(rest)
      BY <2>1, LinksConcat
    <3>4. Distinct(one \o rest)
      BY <1>7, <2>1, <2>3, DistinctConcat
    <3> QED BY <1>7, <2>3, <3>1, <3>2, <3>3, <3>4
  <2> DEFINE rest2 == agenda'
  <2>6. rest2 \in Seq(Tasks) /\ Targets(rest2) = {} /\ Jumps(rest2) = {} /\ Distinct(rest2)
    BY <2>1, <2>5
  <2>7. Program' = printed \o rest2
    BY <2>2
  <2> HIDE DEF rest2
  <2>8. /\ out' = out /\ agenda = <<>>
        /\ Targets(agenda)' = {} /\ Jumps(agenda)' = {}
    <3>1. Targets(agenda)' = Targets(agenda') /\ Jumps(agenda)' = Jumps(agenda')
      BY DEF Targets, Jumps, Range, Definer, Branch
    <3> QED BY <1>2, <2>5, <3>1
  <2>9. Landing'
    <3>1. \A i : Lands(i)' <=> Lands(i)
      BY <2>8 DEF Lands
    <3>2. Targets(agenda) = {}
      BY <2>8 DEF Targets, Range
    <3>3. ASSUME NEW i \in DOMAIN out, Branch(out[i].instr)
          PROVE  Lands(i)'
      BY <2>4, <3>1, <3>2, <3>3 DEF Landing
    <3> QED BY <2>8, <3>3 DEF Landing, Branch
  <2>10. SwitchesEndWell => Distinct(printed \o rest2)
    BY <2>1, <2>4, <2>6, DistinctConcat
  <2> QED BY <2>7, <2>9, <2>10 DEF Linkage
<1> QED BY <1>10, <1>11 DEF GenInv

LEMMA SumMultiple ==
    ASSUME NEW x \in Int, NEW y \in Int
    PROVE  /\ x % 16 = 0 /\ y % 16 = 0 => (x + y) % 16 = 0
           /\ x % 8 = 0 /\ y % 8 = 0 => (x + y) % 8 = 0
OBVIOUS

LEMMA CountAndHeight ==
    ASSUME NEW a \in Int, NEW height \in Int, NEW counted \in Int, NEW moved \in Int,
           a % 8 = 0, counted % 8 = 0,
           (a - height) % 16 = 0, (counted - moved) % 16 = 0
    PROVE  /\ a + counted \in Int /\ (a + counted) % 8 = 0
           /\ ((a + counted) - (height + moved)) % 16 = 0
<1> DEFINE x == a - height
           y == counted - moved
<1>1. x \in Int /\ y \in Int /\ x + y = (a + counted) - (height + moved)
  OBVIOUS
<1>2. x % 16 = 0 /\ y % 16 = 0
  OBVIOUS
<1> HIDE DEF x, y
<1>3. (x + y) % 16 = 0
  BY <1>1, <1>2, SumMultiple
<1>4. (a + counted) % 8 = 0
  BY SumMultiple
<1> QED BY <1>1, <1>3, <1>4

\* What is printed moves its jump or its label from the agenda to the function.
LEMMA PrintLands ==
    ASSUME GenInv, agenda # <<>>, Head(agenda).do \in Instructions,
           Tail(agenda) \in Seq(Work(labelIndex)),
           out' = Append(out, [instr |-> Head(agenda), at |-> Height]),
           agenda' = Tail(agenda)
    PROVE  Landing'
<1> DEFINE h == Head(agenda)
           rest == Tail(agenda)
           one == <<h>>
           new == Len(out) + 1
<1>1. /\ Landing /\ out \in Seq(Printed(labelIndex)) /\ agenda \in Seq(Tasks)
      /\ h \in Tasks /\ rest \in Seq(Tasks) /\ one \in Seq(Tasks) /\ agenda = one \o rest
  BY SituationFacts, HeadTail DEF GenInv, Linkage
<1>2. /\ DOMAIN out = 1..Len(out) /\ Len(out) \in Nat /\ DOMAIN out' = 1..new
      /\ out'[new].instr = h /\ \A i \in DOMAIN out : i # new /\ out'[i] = out[i]
  BY <1>1
<1>3. Targets(agenda)' = Targets(rest) /\ Jumps(agenda)' = Jumps(rest)
  BY DEF Targets, Jumps, Range, Definer, Branch
<1>4. /\ Targets(one) = IF h.do = "label" THEN {h.label} ELSE {}
      /\ Jumps(one) = IF Branch(h) THEN {h.label} ELSE {}
  <2>1. Range(one) = {h}
    BY DEF Range
  <2>2. h.do # "case"
    BY DEF Instructions
  <2> QED BY <2>1, <2>2 DEF Targets, Jumps, Definer
<1>5. agenda' # <<>> => Head(agenda') # entry'
  <2> SUFFICES ASSUME agenda' # <<>>, Head(agenda') = entry' PROVE FALSE
    OBVIOUS
  <2>1. Head(agenda') \in Work(labelIndex)
    BY HeadTail
  <2> QED BY <2>1 DEF Work, entry, Instr, Task
<1> HIDE DEF h, rest, one
<1>6. /\ Targets(agenda) = Targets(one) \cup Targets(rest)
      /\ Jumps(agenda) = Jumps(one) \cup Jumps(rest)
  BY <1>1, LinksConcat
<1>7. ASSUME NEW i \in DOMAIN out, Lands(i)
      PROVE  Lands(i)'
  <2>1. PICK j \in DOMAIN out :
            /\ out[j].instr.do = "label" /\ out[j].instr.label = out[i].instr.label
            /\ \A k \in DOMAIN out :
                  (i < k /\ k < j) \/ (j < k /\ k < i) => out[k].instr.do # "entry"
    BY <1>7 DEF Lands
  <2>2. j \in DOMAIN out' /\ out'[j] = out[j] /\ out'[i] = out[i]
    BY <1>2
  <2>3. ASSUME NEW k \in DOMAIN out', (i < k /\ k < j) \/ (j < k /\ k < i)
        PROVE  out'[k].instr.do # "entry"
    <3>1. k \in DOMAIN out
      BY <1>2, <2>3
    <3> QED BY <1>2, <2>1, <2>3, <3>1
  <2> QED BY <2>1, <2>2, <2>3 DEF Lands
<1>8. CASE h = entry
  <2>1. Targets(agenda) = {} /\ Jumps(agenda) = {}
    BY <1>1, <1>8 DEF Landing, h
  <2>2. ~Branch(h)
    BY <1>8 DEF Branch, entry, Instr, Task
  <2>3. ASSUME NEW i \in DOMAIN out', Branch(out'[i].instr)
        PROVE  Lands(i)'
    <3>1. i \in DOMAIN out /\ Branch(out[i].instr)
      BY <1>2, <2>2, <2>3
    <3>2. Lands(i)
      BY <1>1, <2>1, <3>1 DEF Landing
    <3> QED BY <1>7, <3>1, <3>2
  <2> QED BY <1>6, <1>3, <1>5, <2>1, <2>3 DEF Landing, Branch
<1>9. CASE h # entry
  <2>1. h.do # "entry"
    <3>1. CASE Entering(labelIndex)
      BY <1>9, <3>1 DEF Entering, h
    <3>2. CASE Inside(labelIndex)
      <4>1. h \in Work(labelIndex)
        BY <3>2, HeadTail DEF Inside, h
      <4> QED BY <4>1 DEF Work
    <3> QED BY <3>1, <3>2 DEF GenInv, Situation
  <2>2. ASSUME NEW p \in DOMAIN out, InFunction(p)
        PROVE  InFunction(p)'
    <3> SUFFICES ASSUME NEW k \in DOMAIN out', p < k PROVE out'[k].instr.do # "entry"
      BY DEF InFunction
    <3>1. k = new \/ k \in DOMAIN out
      BY <1>2, SMTT(30)
    <3> QED BY <1>2, <2>1, <2>2, <3>1 DEF InFunction
  <2>3. ASSUME NEW p \in DOMAIN out', p = new
        PROVE  InFunction(p)'
    BY <1>2, <2>3 DEF InFunction
  <2>4. ASSUME NEW i \in DOMAIN out, InFunction(i), NEW j \in DOMAIN out', InFunction(j)',
               out'[j].instr.do = "label", out'[j].instr.label = out[i].instr.label
        PROVE  Lands(i)'
    <3>1. InFunction(i)' /\ i \in DOMAIN out' /\ out'[i] = out[i]
      BY <1>2, <2>2, <2>4
    <3> QED BY <2>4, <3>1 DEF InFunction, Lands
  <2>5. ASSUME NEW i \in DOMAIN out', Branch(out'[i].instr)
        PROVE  Lands(i)' \/ (out'[i].instr.label \in Targets(agenda)' /\ InFunction(i)')
    <3>1. CASE i \in DOMAIN out
      <4>1. Branch(out[i].instr) /\ out'[i] = out[i]
        BY <1>2, <2>5, <3>1
      <4>2. Lands(i) \/ (out[i].instr.label \in Targets(agenda) /\ InFunction(i))
        BY <1>1, <3>1, <4>1 DEF Landing
      <4>3. CASE Lands(i)
        BY <1>7, <3>1, <4>3
      <4>4. CASE out[i].instr.label \in Targets(rest) /\ InFunction(i)
        BY <1>3, <2>2, <3>1, <4>1, <4>4
      <4>5. CASE out[i].instr.label \in Targets(one) /\ InFunction(i)
        <5>1. h.do = "label" /\ h.label = out[i].instr.label
          BY <1>4, <4>5
        <5>2. new \in DOMAIN out' /\ out'[new].instr = h
          BY <1>2
        <5> QED BY <2>3, <2>4, <3>1, <4>5, <5>1, <5>2
      <4> QED BY <1>6, <4>2, <4>3, <4>4, <4>5
    <3>2. CASE i = new
      <4>1. out'[i].instr = h /\ Branch(h) /\ h.do # "label"
        BY <1>2, <2>5, <3>2 DEF Branch
      <4>2. h.label \in Jumps(agenda) /\ Targets(one) = {}
        BY <1>6, <1>4, <4>1
      <4>3. CASE h.label \in Targets(rest)
        BY <1>3, <2>3, <3>2, <4>1, <4>3
      <4>4. CASE h.label \notin Targets(rest)
        <5>1. PICK j \in DOMAIN out :
                 out[j].instr.do = "label" /\ out[j].instr.label = h.label /\ InFunction(j)
          BY <1>1, <1>6, <4>2, <4>4 DEF Landing
        <5>2. j \in DOMAIN out' /\ out'[j] = out[j] /\ InFunction(j)'
          BY <1>2, <2>2, <5>1
        <5>3. InFunction(i)'
          BY <2>3, <3>2
        <5> QED BY <4>1, <5>1, <5>2, <5>3 DEF Lands, InFunction
      <4> QED BY <4>3, <4>4
    <3> QED BY <1>2, <3>1, <3>2
  <2>6. ASSUME NEW l \in Jumps(agenda)', l \notin Targets(agenda)'
        PROVE  \E j \in DOMAIN out' :
                   out'[j].instr.do = "label" /\ out'[j].instr.label = l /\ InFunction(j)'
    <3>1. l \in Jumps(agenda) /\ l \notin Targets(rest)
      BY <1>6, <1>3, <2>6
    <3>2. CASE l \in Targets(one)
      <4>1. h.do = "label" /\ h.label = l
        BY <1>4, <3>2
      <4>2. new \in DOMAIN out' /\ out'[new].instr = h
        BY <1>2
      <4> QED BY <2>3, <4>1, <4>2
    <3>3. CASE l \notin Targets(one)
      <4>1. PICK j \in DOMAIN out :
               out[j].instr.do = "label" /\ out[j].instr.label = l /\ InFunction(j)
        BY <1>1, <1>6, <3>1, <3>3 DEF Landing
      <4>2. j \in DOMAIN out' /\ out'[j] = out[j] /\ InFunction(j)'
        BY <1>2, <2>2, <4>1
      <4> QED BY <4>1, <4>2
    <3> QED BY <3>2, <3>3
  <2> QED BY <1>5, <2>5, <2>6 DEF Landing, Branch
<1> QED BY <1>8, <1>9

LEMMA PrintStep ==
    ASSUME GenInv, asmPrint
    PROVE  GenInv'
<1> DEFINE h == Head(agenda)
           rest == Tail(agenda)
           new == [instr |-> h, at |-> Height]
<1>1. /\ status = "generating" /\ agenda # <<>> /\ h.do \in Instructions
      /\ out' = Append(out, new) /\ agenda' = rest
      /\ alignmentCount' = alignmentCount + Counted(h)
      /\ UNCHANGED <<language, labelIndex, status, nodes, functions>>
  BY DEF asmPrint
<1>2. /\ agenda \in Seq(Tasks) /\ out \in Seq(Printed(labelIndex)) /\ labelIndex \in Nat
      /\ labelIndex > 0 /\ rest \in Seq(Work(labelIndex))
      /\ h \in Tasks /\ rest \in Seq(Tasks) /\ agenda = <<h>> \o rest
      /\ alignmentCount \in Int /\ alignmentCount % 8 = 0
  BY <1>1, SituationFacts, HeadTail DEF GenInv, Situation
<1>3. /\ h.label.index < labelIndex /\ Height \in Int
      /\ (alignmentCount - Height) % 16 = 0
      /\ Counted(h) \in Int /\ Moved(h) \in Int
      /\ (Counted(h) - Moved(h)) % 16 = 0 /\ Counted(h) % 8 = 0
  <2>1. CASE Entering(labelIndex)
    <3>1. h = entry /\ h.do = "entry" /\ h.label.index = 0
      BY <2>1 DEF Entering, entry, Instr, Task, NoLabel
    <3>2. Height = 33816 /\ alignmentCount = 33816
      BY <2>1, <3>1 DEF Entering, Height, local_variable_stack
    <3>3. Counted(h) = 0 /\ Moved(h) = 0
      BY <3>1 DEF Counted, Moved
    <3> QED BY <1>2, <3>1, <3>2, <3>3
  <2>2. CASE Inside(labelIndex)
    <3>1. h \in Work(labelIndex)
      BY <1>1, <2>2, HeadTail DEF Inside
    <3>2. h.do # "entry" /\ h.label.index < labelIndex /\ Even(h)
      BY <3>1 DEF Work
    <3>3. Height \in Int /\ Height = Last(out).at + Moved(Last(out).instr)
      BY <1>1, <3>2, SituationFacts DEF GenInv, Height
    <3>4. (alignmentCount - Height) % 16 = 0
      BY <1>1, <2>2, <3>3 DEF Inside
    <3>5. Counted(h) \in Int /\ Moved(h) \in Int
      BY <1>2 DEF Tasks, Counted, Moved, local_variable_stack
    <3> QED BY <3>2, <3>3, <3>4, <3>5 DEF Even
  <2> QED BY <2>1, <2>2 DEF GenInv, Situation
<1>4. new \in Printed(labelIndex)
  BY <1>1, <1>2, <1>3 DEF Printed
<1> HIDE DEF h, rest, new
<1>5. /\ (alignmentCount + Counted(h)) \in Int /\ (alignmentCount + Counted(h)) % 8 = 0
      /\ ((alignmentCount + Counted(h)) - (Height + Moved(h))) % 16 = 0
  <2>1. /\ alignmentCount \in Int /\ Height \in Int /\ Counted(h) \in Int /\ Moved(h) \in Int
        /\ alignmentCount % 8 = 0 /\ Counted(h) % 8 = 0
        /\ (alignmentCount - Height) % 16 = 0 /\ (Counted(h) - Moved(h)) % 16 = 0
    BY <1>2, <1>3
  <2> QED BY <2>1, CountAndHeight
<1>6. Situation'
  <2>1. Inside(labelIndex)'
    <3>1. Last(out)' = new /\ out' # <<>>
      <4>1. out' = Append(out, new) /\ out \in Seq(Printed(labelIndex))
        BY <1>1, <1>2
      <4>2. Len(out') = Len(out) + 1 /\ out'[Len(out) + 1] = new /\ out' # <<>>
        BY <4>1
      <4> QED BY <4>2 DEF Last
    <3>2. /\ Last(out').at = Height /\ Moved(Last(out').instr) = Moved(h)
      BY <3>1 DEF new
    <3>3. rest \in Seq(Work(labelIndex)')
      BY <1>1, <1>2, SameTasks
    <3>4. (Moved(Last(out).instr))' = Moved(h)
      BY <3>1 DEF Moved, local_variable_stack, new
    <3> QED BY <1>1, <1>5, <3>1, <3>2, <3>3, <3>4 DEF Inside
  <2>2. out' \in Seq(Printed(labelIndex)')
    <3>1. out' \in Seq(Printed(labelIndex))
      BY <1>1, <1>2, <1>4
    <3> QED BY <1>1, <3>1, SameTasks
  <2>3. agenda' \in Seq(Tasks')
    BY <1>1, <1>2, SameTasks
  <2>4. alignmentCount' \in Int /\ alignmentCount' % 8 = 0
    BY <1>1, <1>5
  <2> QED BY <1>1, <1>2, <2>1, <2>2, <2>3, <2>4 DEF Situation, GenInv
<1>7. Program' = Program
  <2> DEFINE printed == [i \in DOMAIN out |-> out[i].instr]
  <2>1. printed \in Seq(Tasks)
    BY SituationFacts DEF GenInv
  <2>2. [i \in DOMAIN out |-> out[i].instr]' = Append(printed, h)
    <3>1. DOMAIN out = 1..Len(out) /\ Len(out) \in Nat
      BY <1>2
    <3> QED BY <1>1, <3>1 DEF new
  <2>3. Program' = Append(printed, h) \o rest
    BY <1>1, <2>2 DEF Program
  <2>4. Program = printed \o (<<h>> \o rest)
    BY <1>2 DEF Program
  <2> HIDE DEF printed
  <2>5. Append(printed, h) \o rest = printed \o (<<h>> \o rest)
    BY <1>2, <2>1
  <2> QED BY <2>3, <2>4, <2>5
<1>8. Landing'
  BY <1>1, <1>2, PrintLands DEF h, rest, new
<1>9. Linkage'
  BY <1>7, <1>8 DEF Linkage, GenInv, Distinct, Definer
<1> QED BY <1>6, <1>9 DEF GenInv

-----------------------------------------------------------------------------
(* The invariant, and what follows from it. *)

LEMMA GenInitInv ==
    ASSUME GenInit
    PROVE  GenInv
<1>1. /\ language \in Languages /\ agenda = <<>> /\ alignmentCount = 0 /\ labelIndex = 0
      /\ out = <<>> /\ status = "generating" /\ nodes = 0 /\ functions = 0
  BY DEF GenInit
<1>2. MaxNodes \in Nat /\ language.maxFunctions \in Nat
  BY <1>1, ListsOfLanguage, CodeGenAssumption
<1>3. Situation
  BY <1>1, <1>2 DEF Situation, Inside
<1>4. Program = <<>>
  BY <1>1 DEF Program
<1>5. Linkage
  BY <1>1, <1>4 DEF Linkage, Landing, Targets, Jumps, Distinct, Range
<1> QED BY <1>3, <1>5 DEF GenInv

LEMMA GenStepInv ==
    ASSUME GenInv, [GenNext]_genvars
    PROVE  GenInv'
<1>1. CASE GenExpr
  BY <1>1, ArrayStep, NumStep, LvarStep, AddrStep, AssignStep, AssignOpStep, LogicalStep,
     BinaryStep, CallStep
     DEF GenExpr
<1>2. CASE GenAddress
  <2>1. CASE gen_address_error
    BY <2>1, StopStep DEF gen_address_error
  <2> QED BY <1>2, <2>1, AddressSteps DEF GenAddress
<1>3. CASE GenStmt
  BY <1>3, DeclarationStep, SinglestmtStep, BlockOfStmtsStep, IfStep, ElseStep, WhileStep,
     ForStep, SwitchStep, SwitchSimpleStep, CaseStep, ReturnStep, ReturnNothingStep
     DEF GenStmt
<1>4. CASE asmPrint
  BY <1>4, PrintStep
<1>5. CASE \E params \in language.paramLists : gen_FUNCDEFINE(params)
  BY <1>5, FuncdefineStep
<1>6. CASE gens_end
  BY <1>6, StopStep DEF gens_end
<1>7. CASE UNCHANGED genvars
  <2>1. UNCHANGED <<language, agenda, alignmentCount, labelIndex, out, status, nodes, functions>>
    BY <1>7 DEF genvars
  <2>2. Stop(status)
    BY <2>1 DEF Stop
  <2>3. /\ status \in {"generating", "printed", "error", "abort", "crash"}
        /\ status = "printed" => agenda = <<>>
    BY DEF GenInv, Situation
  <2> QED BY <2>2, <2>3, StopStep
<1> QED BY <1>1, <1>2, <1>3, <1>4, <1>5, <1>6, <1>7 DEF GenNext, GenStep, GenStopped

\* The invariant from which the theorems below follow holds of every program that
\* gen() is given, at each of its calls and prints.
THEOREM GenInvariant == GenSpec => []GenInv
<1>1. GenInit => GenInv
  BY GenInitInv
<1>2. GenInv /\ [GenNext]_genvars => GenInv'
  BY GenStepInv
<1> QED BY <1>1, <1>2, PTL DEF GenSpec

LEMMA PrintedFirst ==
    ASSUME GenInv
    PROVE  /\ \A j \in DOMAIN out : j \in DOMAIN Program /\ Program[j] = out[j].instr
           /\ agenda = <<>> => DOMAIN Program = DOMAIN out
<1> DEFINE printed == [i \in DOMAIN out |-> out[i].instr]
<1>1. printed \in Seq(Tasks) /\ agenda \in Seq(Tasks) /\ DOMAIN printed = DOMAIN out
  BY SituationFacts DEF GenInv
<1>2. \A j \in DOMAIN out : printed[j] = out[j].instr
  OBVIOUS
<1>3. Program = printed \o agenda
  BY DEF Program
<1> HIDE DEF printed
<1>4. \A j \in DOMAIN printed : j \in DOMAIN Program /\ Program[j] = printed[j]
  BY <1>1, <1>3
<1>5. agenda = <<>> => DOMAIN Program = DOMAIN printed
  BY <1>1, <1>3
<1> QED BY <1>1, <1>2, <1>4, <1>5

\* The state of the code generator is well-formed, whatever the languages and
\* however many nodes: every task is one that gen() or asmPrint can carry out, and
\* every label, printed or still to be, has been numbered by a call of gen() that
\* was made, so that the next number is fresh (codegen.c:243).
THEOREM GenTypeCorrect == GenSpec => []GenTypeOK
<1>1. ASSUME GenInv
      PROVE  GenTypeOK
  <2>1. Situation
    BY <1>1 DEF GenInv
  <2>2. ASSUME NEW i \in DOMAIN agenda
        PROVE  agenda[i].label.index < labelIndex
    <3>1. CASE Entering(labelIndex)
      <4>1. i = 1 \/ i - 1 \in DOMAIN Tail(agenda)
        BY <2>1 DEF Situation
      <4>2. CASE i = 1
        BY <2>1, <3>1, <4>2 DEF Situation, Entering, entry, Instr, Task, NoLabel
      <4>3. CASE i - 1 \in DOMAIN Tail(agenda)
        <5>1. Tail(agenda)[i - 1] \in Work(labelIndex)
          BY <3>1, <4>3 DEF Entering
        <5>2. agenda[i] = Tail(agenda)[i - 1]
          BY <2>1, <4>3 DEF Situation
        <5> QED BY <5>1, <5>2 DEF Work
      <4> QED BY <4>1, <4>2, <4>3
    <3>2. CASE Inside(labelIndex)
      <4>1. agenda[i] \in Work(labelIndex)
        BY <3>2 DEF Inside
      <4> QED BY <4>1 DEF Work
    <3> QED BY <2>1, <3>1, <3>2 DEF Situation
  <2>3. out \in Seq([instr : Tasks, at : Int])
    <3> DEFINE Out == [instr : Tasks, at : Int]
    <3>1. Printed(labelIndex) \subseteq Out
      BY DEF Printed
    <3>2. out \in Seq(Printed(labelIndex))
      BY <2>1 DEF Situation
    <3> HIDE DEF Out
    <3>3. out \in Seq(Out)
      BY <3>1, <3>2
    <3> QED BY <3>3 DEF Out
  <2>4. \A i \in DOMAIN out : out[i].instr.label.index < labelIndex
    BY <2>1, SituationFacts
  <2> QED BY <2>1, <2>2, <2>3, <2>4 DEF Situation, GenTypeOK
<1> QED BY <1>1, GenInvariant, PTL

\* alignmentCount and the height of the stack agree modulo 16 wherever an
\* instruction is printed, whatever the calls are nested in: the padding of a
\* call, which the count enters with the wrong sign, is a multiple of 8
\* (codegen.c:316-318, 362-363).
THEOREM CountAgrees == GenSpec => []CountAgreesModulo16
<1>1. ASSUME GenInv
      PROVE  CountAgreesModulo16
  <2> SUFFICES ASSUME agenda # <<>>
               PROVE  (alignmentCount - Height) % 16 = 0
    BY DEF CountAgreesModulo16
  <2>1. CASE Head(agenda).do = "entry"
    <3>1. Entering(labelIndex)
      <4>1. ~Inside(labelIndex)
        <5> SUFFICES ASSUME Inside(labelIndex) PROVE FALSE
          OBVIOUS
        <5>1. Head(agenda) \in Work(labelIndex)
          BY HeadTail DEF Inside
        <5> QED BY <2>1, <5>1 DEF Work
      <4> QED BY <1>1, <4>1 DEF GenInv, Situation
    <3> QED BY <2>1, <3>1 DEF Entering, Height, local_variable_stack
  <2>2. CASE Head(agenda).do # "entry"
    BY <1>1, <2>2, SituationFacts DEF GenInv, Inside, Height
  <2> QED BY <2>1, <2>2
<1> QED BY <1>1, GenInvariant, PTL

\* Once a function has been generated, every jump in it has its label in it, whatever
\* the statements, their nesting and the items of the switches (codegen.c:469-571).
THEOREM JumpsFound == GenSpec => []JumpsHaveTargets
<1>1. ASSUME GenInv
      PROVE  JumpsHaveTargets
  <2> SUFFICES ASSUME agenda = <<>>,
                      NEW i \in DOMAIN out, out[i].instr.do \in {"jmp", "jcc"}
               PROVE  Lands(i)
    BY DEF JumpsHaveTargets
  <2>1. Targets(agenda) = {}
    BY DEF Targets, Range
  <2>2. Landing
    BY <1>1 DEF GenInv, Linkage
  <2> QED BY <2>1, <2>2 DEF Landing, Branch
<1> QED BY <1>1, GenInvariant, PTL

\* No label is printed twice, by nested switches, in another function or within one
\* statement (codegen.c:10), if no switch whose comparisons end in the appended
\* default ends in a case: the code gives the two one label.
THEOREM LabelsAreUnique == SwitchesEndWell => (GenSpec => []LabelsUnique)
<1> SUFFICES ASSUME SwitchesEndWell
             PROVE  GenSpec => []LabelsUnique
  OBVIOUS
<1>1. ASSUME GenInv
      PROVE  LabelsUnique
  <2>1. Distinct(Program)
    BY <1>1 DEF GenInv, Linkage
  <2>2. \A j \in DOMAIN out : j \in DOMAIN Program /\ Program[j] = out[j].instr
    BY <1>1, PrintedFirst
  <2> QED BY <2>1, <2>2 DEF Distinct, Definer, LabelsUnique
<1> QED BY <1>1, GenInvariant, PTL
=============================================================================
