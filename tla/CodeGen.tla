-------------------------------- MODULE CodeGen --------------------------------
(***************************************************************************)
(* The code generator (codegen.c): gen(), gen_address() and gens().        *)
(*                                                                         *)
(* The recursion of gen() is the variable agenda: what the calls on the C  *)
(* stack still have to do, innermost first.  A task is a call still to be  *)
(* made (of gen on an expression or a statement, of gen_address) or an     *)
(* instruction still to be printed.  A call of gen is a step that replaces *)
(* its task by what it does; the kind of the node, the types below it and  *)
(* the length of its vectors are chosen by that step, so that the program  *)
(* being compiled is any program of its language.                          *)
(*                                                                         *)
(* Of the instructions only those that move rsp, use r12 or transfer       *)
(* control are kept.  rsp and alignmentCount are in bytes, as in the code. *)
(*                                                                         *)
(* An operator whose name ends in _Bug is the operator after it with a     *)
(* plausible slip; nothing uses it but the runs that show that a property  *)
(* would notice.                                                           *)
(***************************************************************************)
EXTENDS Integers, FiniteSets, SequencesExt

CONSTANTS
    Languages,    \* subsets of C, each of which a program is made of
    ScalarSize,   \* sizeofType of an int, a char or a pointer
    MaxNodes      \* bound on the nodes that are not leaves of expressions

\* A language is a record:
\*   kinds         the node kinds
\*   structs       sizes of the struct types
\*   arrays        sizes of the array types; 8 is a string literal
\*   clauses       types of the first and third expression of a for
\*   argLists      the types of the arguments of a call
\*   paramLists    the types of the parameters of a function
\*   bodies        the bodies of switch statements, as sequences of Items
\*   maxStmts      bound on the statements of a block
\*   maxFunctions  bound on the functions of the program

VARIABLES
    language,       \* of the program
    agenda,         \* what is left to do, first task first
    alignmentCount,
    labelIndex,
    out,            \* the instructions printed
    status,         \* "generating", "printed", "error", "abort" or "crash"
    nodes,          \* counts what MaxNodes bounds
    functions       \* counts what maxFunctions bounds

genvars == <<language, agenda, alignmentCount, labelIndex, out, status, nodes, functions>>

local_variable_stack == 33808

-----------------------------------------------------------------------------
(* Types, as sizeofType and the tests on dataType see them. *)

Scalar == [dataType |-> "SCALAR", size |-> ScalarSize]
Void == [dataType |-> "VOID", size |-> 0]
Struct(size) == [dataType |-> "STRUCT", size |-> size]
Array(size) == [dataType |-> "ARRAY", size |-> size]
StructTypes == {Struct(size) : size \in language.structs}
ArrayTypes == {Array(size) : size \in language.arrays}
Types == {Scalar, Void} \cup StructTypes \cup ArrayTypes

\* What can be read as a pointer or a number: an array decays.
Operands == {Scalar} \cup ArrayTypes

Items == {"case", "default", "stmt"}

\* That sizes above 8 are multiples of 8 is the assumption of codegen.c:130.
ASSUME CodeGenAssumption ==
    /\ ScalarSize \in {1, 4, 8}
    /\ MaxNodes \in Nat
    /\ \A l \in Languages :
          LET types == {Scalar, Void} \cup {Struct(size) : size \in l.structs}
                       \cup {Array(size) : size \in l.arrays}
          IN  /\ \A size \in l.structs : size \in Nat \ {0} /\ size % 8 = 0
              /\ l.arrays \subseteq Nat \ {0}
              /\ l.clauses \subseteq types
              /\ l.argLists \subseteq Seq(types)
              /\ l.paramLists \subseteq Seq(types)
              /\ l.bodies \subseteq Seq(Items)
              /\ l.maxStmts \in Nat
              /\ l.maxFunctions \in Nat

-----------------------------------------------------------------------------
(* Tasks. *)

NoType == [dataType |-> "NONE", size |-> 0]
NoLabel == [name |-> "none", index |-> 0, item |-> 0]
Label(name, index, item) == [name |-> name, index |-> index, item |-> item]

Task(do, type, n, label) == [do |-> do, type |-> type, n |-> n, label |-> label]

\* Calls of gen and gen_address.  The node of an Lvalue is known to be one;
\* "other" is a statement that is not a return.
Expr(type) == Task("expr", type, 0, NoLabel)
Address(type) == Task("address", type, 0, NoLabel)
Lvalue(type) == Task("lvalue", type, 0, NoLabel)
Stmt == Task("stmt", NoType, 0, NoLabel)
OtherStmt == Task("other", NoType, 0, NoLabel)
Return == Task("return", NoType, 0, NoLabel)
ReturnNothing == Task("return_nothing", NoType, 0, NoLabel)
Case(label) == Task("case", NoType, 0, label)

\* Instructions.  align and unalign are the sub and add of adjustAligment.
Instr(do, n) == Task(do, NoType, n, NoLabel)
push == Instr("push", 8)
pop == Instr("pop", 8)
sub(n) == Instr("sub", n)
align(n) == Instr("align", n)
unalign_Bug(n) == Instr("align", n)
unalign(n) == Instr("unalign", n)
frame == Instr("frame", local_variable_stack)
mov_r12_rsp(n) == Instr("mov_r12_rsp", n)
mov_r12_saved(n) == Instr("mov_r12_saved", n)
\* n is not in the code: where the call has reserved the place for its result.
mov_to_r12(n) == Instr("mov_to_r12", n)
call(t, n, id) == Task("call", t, n, Label("call", id, 0))
\* This is not in the code at all: the value on top of the stack is the p-th argument
\* of the call.
argument(t, id, p) == Task("argument", t, 0, Label("argument", id, p))
\* The k-th register for arguments.
pop_register(k) == Task("pop_register", NoType, 8, Label("register", 0, k))
epilogue(n) == Instr("epilogue", n)
entry == Instr("entry", 0)
define(label) == Task("label", NoType, 0, label)
jmp(label) == Task("jmp", NoType, 0, label)
jcc(label) == Task("jcc", NoType, 0, label)

Instructions ==
    {"push", "pop", "pop_register", "sub", "align", "unalign", "frame",
     "mov_r12_rsp", "mov_r12_saved", "mov_to_r12", "argument", "call",
     "epilogue", "entry", "label", "jmp", "jcc"}

Counted_Bug(task) ==
    IF task.do \in {"pop", "pop_register"} THEN task.n
    ELSE IF task.do \in {"push", "sub", "unalign"} THEN -task.n ELSE 0

\* By how much alignmentCount grows when an instruction is printed ...
Counted(task) ==
    IF task.do \in {"pop", "pop_register", "align"} THEN task.n
    ELSE IF task.do \in {"push", "sub", "unalign"} THEN -task.n ELSE 0

\* ... and rsp when it is executed.
Moved(task) ==
    IF task.do \in {"pop", "pop_register", "unalign"} THEN task.n
    ELSE IF task.do \in {"push", "sub", "align", "frame"} THEN -task.n ELSE 0

stack_pop_Bug(size) == [i \in 1..(size \div 8) |-> pop]
stack_pop(size) == [i \in 1..((size + 7) \div 8) |-> pop]

pushVarToStack(size) == IF size <= 8 THEN <<push>> ELSE <<sub(size)>>

\* The height, below the locals, that the instruction printed next has when the
\* ones before it are executed in the order in which they are printed.
Height ==
    IF Head(agenda).do = "entry" THEN local_variable_stack + 8
    ELSE Last(out).at + Moved(Last(out).instr)

popVarFromStack_Bug(size) == IF size <= 8 THEN <<pop>> ELSE <<>>

\* The value stays on the stack: it is the value of the assignment.
popVarFromStack(size) == IF size <= 8 THEN <<pop, push>> ELSE <<>>

-----------------------------------------------------------------------------
(* The steps of gen(): one for each kind of node. *)

\* The next thing to do is a call of gen or gen_address, on a node of the kind.
Calling(calls, kind) ==
    /\ status = "generating"
    /\ agenda # <<>>
    /\ Head(agenda).do \in calls
    /\ kind \in language.kinds

type == Head(agenda).type

\* The call does tasks; a leaf is not counted against MaxNodes.
Leaf(tasks) ==
    /\ agenda' = tasks \o Tail(agenda)
    /\ labelIndex' = labelIndex + 1
    /\ UNCHANGED <<language, alignmentCount, out, status, nodes, functions>>

Node_Bug(tasks) ==
    /\ nodes < MaxNodes
    /\ agenda' = tasks \o Tail(agenda)
    /\ nodes' = nodes + 1
    /\ UNCHANGED <<language, alignmentCount, labelIndex, out, status, functions>>

Node(tasks) ==
    /\ nodes < MaxNodes
    /\ agenda' = tasks \o Tail(agenda)
    /\ labelIndex' = labelIndex + 1
    /\ nodes' = nodes + 1
    /\ UNCHANGED <<language, alignmentCount, out, status, functions>>

\* The compiler ends before it has printed the program.
Stop(how) ==
    /\ status' = how
    /\ UNCHANGED <<language, agenda, alignmentCount, labelIndex, out, nodes, functions>>

\* An expression of array type is its address, whatever the node.
gen_array ==
    /\ Calling({"expr"}, "ND_LVAR")
    /\ type \in ArrayTypes
    /\ Leaf(<<Address(type)>>)

gen_NUM ==
    /\ Calling({"expr"}, "ND_NUM")
    /\ type = Scalar
    /\ Leaf(<<push>>)

\* ND_STRUCT, ND_GVAR, ND_LVAR and ND_DEREF: load from an address.
gen_LVAR ==
    /\ Calling({"expr"}, "ND_LVAR")
    /\ type \in {Scalar} \cup StructTypes
    /\ Leaf(<<Lvalue(type), pop>> \o pushVarToStack(type.size))

gen_ADDR ==
    /\ Calling({"expr"}, "ND_ADDR")
    /\ type = Scalar
    /\ \E t \in Types \ {Void} : Node(<<Address(t)>>)

gen_ASSIGN_EQ ==
    /\ Calling({"expr"}, "ND_ASSIGN_EQ")
    /\ type \in {Scalar} \cup StructTypes
    /\ \E right \in (IF type = Scalar THEN Operands ELSE {type}) :
          Node(<<Expr(right), Address(type), pop>> \o popVarFromStack(type.size))

\* ND_ASSIGN_ADD and its like.
gen_ASSIGN_op ==
    /\ Calling({"expr"}, "ND_ASSIGN_ADD")
    /\ type = Scalar
    /\ Node(<<Address(Scalar), push, Expr(Scalar), pop, pop, push, pop, pop, push>>)

gen_LOGICAL_Bug(name) ==
    LET short == Label(name, labelIndex, 0)
        end   == Label("end", labelIndex, 0)
    IN  /\ Calling({"expr"}, name)
        /\ type = Scalar
        /\ \E left, right \in Operands :
              Node(<<Expr(left), jcc(short), pop, Expr(right), pop, jcc(short),
                     jmp(end), define(short), define(end), push>>)

\* ND_LOGICAL_AND and ND_LOGICAL_OR.
gen_LOGICAL(name) ==
    LET short == Label(name, labelIndex, 0)
        end   == Label("end", labelIndex, 0)
    IN  /\ Calling({"expr"}, name)
        /\ type = Scalar
        /\ \E left, right \in Operands :
              Node(<<Expr(left), pop, jcc(short), Expr(right), pop, jcc(short),
                     jmp(end), define(short), define(end), push>>)

\* ND_ADD to ND_LESS_THAN_OR_EQUALT_TO: the end of gen().
gen_binary ==
    /\ Calling({"expr"}, "ND_ADD")
    /\ type = Scalar
    /\ \E left, right \in Operands :
          Node(<<Expr(left), Expr(right), pop, pop, push>>)

-----------------------------------------------------------------------------
(* gen_address *)

gen_address_LVAR ==
    /\ Calling({"address", "lvalue"}, "ND_LVAR")
    /\ agenda' = <<push>> \o Tail(agenda)
    /\ UNCHANGED <<language, alignmentCount, labelIndex, out, status, nodes, functions>>

\* A member of a struct: the address of the struct, plus the offset.
gen_address_STRUCT ==
    /\ Calling({"address", "lvalue"}, "ND_STRUCT")
    /\ nodes < MaxNodes
    /\ nodes' = nodes + 1
    /\ \E t \in StructTypes : agenda' = <<Address(t), pop, push>> \o Tail(agenda)
    /\ UNCHANGED <<language, alignmentCount, labelIndex, out, status, functions>>

gen_address_DEREF ==
    /\ Calling({"address", "lvalue"}, "ND_DEREF")
    /\ nodes < MaxNodes
    /\ nodes' = nodes + 1
    /\ \E t \in Operands : agenda' = <<Expr(t)>> \o Tail(agenda)
    /\ UNCHANGED <<language, alignmentCount, labelIndex, out, status, functions>>

\* codegenError: the node is not an lvalue.
gen_address_error == Calling({"address"}, "ND_NUM") /\ Stop("error")

-----------------------------------------------------------------------------
(* ND_FUNCCALL.  The vectors of the arguments are walked from the last to  *)
(* the first, and linked into one list for those passed in memory and one  *)
(* for those passed in registers.                                          *)

\* The remainder of C, which has the sign of a.
Rem16(a) == IF a >= 0 THEN a % 16 ELSE -((-a) % 16)

InMemory(args) ==
    {p \in DOMAIN args : args[p].dataType # "ARRAY" /\ args[p].size > 8}

InRegisters(args) == DOMAIN args \ InMemory(args)

Descending_Bug(S, n) ==
    LET from[p \in 0..n] ==
            IF p = 0 THEN <<>> ELSE from[p - 1] \o (IF p \in S THEN <<p>> ELSE <<>>)
    IN  from[n]

\* The positions of S up to n, walked along prev.
Descending(S, n) ==
    LET from[p \in 0..n] ==
            IF p = 0 THEN <<>> ELSE (IF p \in S THEN <<p>> ELSE <<>>) \o from[p - 1]
    IN  from[n]

\* The list that starts at the last position of S.  Linking a vector sets the
\* next of the vector linked before it, and its own to NULL; the first one
\* keeps the next it had among the arguments, and goes on along the other list.
Linked(S, args) ==
    LET n   == Len(args)
        own == Descending(S, n)
    IN  IF Len(own) = 1
        THEN own \o Descending({p \in DOMAIN args \ S : own[1] < n /\ p <= own[1] + 1}, n)
        ELSE own

SumSizes(S, args) ==
    LET sum[p \in 0..Len(args)] ==
            IF p = 0 THEN 0 ELSE sum[p - 1] + (IF p \in S THEN args[p].size ELSE 0)
    IN  sum[Len(args)]

\* The assertion fails at an argument that follows, from the right, seven that
\* are passed in registers.
TooMany(args) ==
    \E p \in DOMAIN args : Cardinality({q \in InRegisters(args) : q > p}) > 6

\* What makes rsp a multiple of 16 at the call, with size bytes for the result.
adjustAligment_Bug(size) == Rem16(alignmentCount)
adjustAligment(size) == Rem16(alignmentCount - size)

gen_FUNCCALL(args) ==
    LET size   == IF type.size < 8 THEN 8 ELSE type.size
        inRegs == Cardinality(InRegisters(args))
        offset == SumSizes(InMemory(args), args) + (IF inRegs <= 6 THEN 0 ELSE inRegs - 6)
        adjust == adjustAligment(size)
        place  == Height - size
        order  == Linked(InMemory(args), args) \o Linked(InRegisters(args), args)
        tasks  == <<sub(size), align(adjust)>>
                  \o FlattenSeq([i \in DOMAIN order |->
                         LET p == order[i] IN <<Expr(args[p]), argument(args[p], labelIndex, p)>>])
                  \o [k \in 1..(IF inRegs <= 6 THEN inRegs ELSE 6) |-> pop_register(k)]
                  \o <<mov_r12_rsp(offset + adjust), call(type, place, labelIndex)>>
                  \o stack_pop(offset)
                  \o <<unalign(adjust)>>
                  \o (IF type.size = 0 THEN <<pop>>
                      ELSE IF size <= 8 THEN <<mov_to_r12(place)>> ELSE <<>>)
    IN  /\ Calling({"expr"}, "ND_FUNCCALL")
        /\ type \in {Scalar, Void} \cup StructTypes
        /\ IF TooMany(args) THEN Stop("abort")
           ELSE IF args = <<>> THEN Leaf(tasks) ELSE Node(tasks)

-----------------------------------------------------------------------------
(* Statements. *)

\* ND_DECLARATION and ND_GVARDEFINE print a comment.
gen_DECLARATION ==
    /\ Calling({"stmt", "other"}, "ND_DECLARATION")
    /\ Leaf(<<>>)

gen_SINGLESTMT ==
    /\ Calling({"stmt", "other"}, "ND_SINGLESTMT")
    /\ \E t \in (IF "ND_FUNCCALL" \in language.kinds THEN Types ELSE Types \ {Void}) :
          Leaf(<<Expr(t)>> \o stack_pop(t.size))

\* ND_BLOCK, and ND_DOUBLESTMT, a declaration with its initialisation.
gen_BLOCK ==
    /\ Calling({"stmt", "other"}, "ND_BLOCK")
    /\ \E k \in 0..language.maxStmts : Node([i \in 1..k |-> Stmt])

gen_IF ==
    LET ifend == Label("ifend", labelIndex, 0)
    IN  /\ Calling({"stmt", "other"}, "ND_IF")
        /\ Node(<<Expr(Scalar), pop, jcc(ifend), Stmt, define(ifend)>>)

\* The ND_IF below an ND_ELSE is not passed to gen().
gen_ELSE ==
    LET else == Label("else", labelIndex, 0)
        end  == Label("ifelseend", labelIndex, 0)
    IN  /\ Calling({"stmt", "other"}, "ND_ELSE")
        /\ Node(<<Expr(Scalar), pop, jcc(else), Stmt, jmp(end),
                 define(else), Stmt, define(end)>>)

gen_WHILE ==
    LET while == Label("while", labelIndex, 0)
        end   == Label("whileend", labelIndex, 0)
    IN  /\ Calling({"stmt", "other"}, "ND_WHILE")
        /\ Node(<<define(while), Expr(Scalar), pop, jcc(end), Stmt, jmp(while),
                 define(end)>>)

\* The value of the third expression is not popped.
gen_FOR_Bug ==
    LET for    == Label("for", labelIndex, 0)
        end    == Label("forend", labelIndex, 0)
        Clause == {<<>>} \cup {<<Expr(t)>> : t \in language.clauses}
    IN  /\ Calling({"stmt", "other"}, "ND_FOR")
        /\ \E third \in Clause :
              Node(<<define(for), Expr(Scalar), pop, jcc(end), Stmt>>
                   \o third \o <<jmp(for), define(end)>>)

\* The parser gives every for a condition; the other two may be missing.
gen_FOR ==
    LET for    == Label("for", labelIndex, 0)
        end    == Label("forend", labelIndex, 0)
        Clause == {<<>>} \cup {<<Expr(t), pop>> : t \in language.clauses}
    IN  /\ Calling({"stmt", "other"}, "ND_FOR")
        /\ \E first, third \in Clause :
              Node(first \o <<define(for), Expr(Scalar), pop, jcc(end), Stmt>>
                   \o third \o <<jmp(for), define(end)>>)

\* The default that ends the comparisons: one that is not the last item, else
\* the one that is appended, 0.
DefaultOf(body) ==
    LET before == {j \in 1..(Len(body) - 1) : body[j] = "default"}
    IN  IF before = {} THEN 0 ELSE CHOOSE j \in before : \A k \in before : j <= k

\* The labels that the comparisons give to the items: the number of the switch
\* and of the item.
ItemLabel_Bug(body, j) ==
    IF body[j] = "case" \/ j = DefaultOf(body) THEN Label("case", labelIndex, 0)
    ELSE NoLabel

ItemLabel(body, j) ==
    IF \/ j = DefaultOf(body)
       \/ body[j] = "case" /\ (DefaultOf(body) = 0 \/ j < DefaultOf(body))
    THEN Label("case", labelIndex, j - 1)
    ELSE NoLabel

DefaultLabel_Bug(body) ==
    LET d == DefaultOf(body)
    IN  Label("case", labelIndex, IF d = 0 THEN Len(body) ELSE d)

\* An appended default takes the number of the last item.
DefaultLabel(body) ==
    LET d == DefaultOf(body)
    IN  Label("case", labelIndex, (IF d = 0 THEN Len(body) ELSE d) - 1)

\* The value of the switch stays on the stack until an item, or the default,
\* is chosen: an empty body chooses none.
gen_SWITCH(body) ==
    LET d == DefaultOf(body)
        compare(j) ==
            IF body[j] = "case" /\ ItemLabel(body, j) # NoLabel
            THEN <<Expr(Scalar), pop, pop, jcc(ItemLabel(body, j)), push>>
            ELSE <<>>
        item(j) == IF body[j] = "stmt" THEN Stmt ELSE Case(ItemLabel(body, j))
        default == DefaultLabel(body)
    IN  /\ Calling({"stmt", "other"}, "ND_SWITCH")
        /\ Node(<<Expr(Scalar)>>
                \o FlattenSeq([j \in DOMAIN body |-> compare(j)])
                \o (IF body = <<>> THEN <<>> ELSE <<pop, jmp(default)>>)
                \o [j \in DOMAIN body |-> item(j)]
                \o (IF body = <<>> \/ d # 0 THEN <<>> ELSE <<define(default), push, pop>>))

\* The body of the switch is not a block: only the value is generated.
gen_SWITCH_simple ==
    /\ Calling({"stmt", "other"}, "ND_SWITCH_simple")
    /\ Node(<<Expr(Scalar)>>)

\* ND_CASE and ND_DEFAULT: the label has been set by the switch, or is NULL.
gen_CASE ==
    /\ \/ Calling({"case"}, "ND_SWITCH")
       \/ Calling({"stmt", "other"}, "ND_CASE")
    /\ LET label == Head(agenda).label
       IN  IF label = NoLabel THEN Stop("crash")
           ELSE Leaf(<<define(label), Stmt>>)

gen_RETURN ==
    /\ Calling({"stmt", "return"}, "ND_RETURN")
    /\ \E t \in Types \ {Void} :
          Leaf(<<Expr(t)>>
               \o (IF t.size > 8 THEN <<mov_r12_saved(t.size)>> ELSE <<pop>>)
               \o <<epilogue(t.size)>>)

gen_RETURN_nothing ==
    /\ Calling({"stmt", "return", "return_nothing"}, "ND_RETURN")
    /\ Leaf(<<epilogue(0)>>)

\* A parameter: a struct is copied from the caller's frame, by way of the stack.
Parameter(t) ==
    IF t.dataType = "STRUCT"
    THEN pushVarToStack(t.size) \o <<push, pop>> \o popVarFromStack(t.size)
         \o stack_pop(t.size)
    ELSE <<push, pop>>

\* gens() and ND_FUNCDEFINE: the next function.  funcDefine() appends a return
\* to a body whose last statement is not one.
gen_FUNCDEFINE(params) ==
    LET Body(k) == [i \in 1..k |-> Stmt]
    IN  /\ status = "generating"
        /\ agenda = <<>>
        /\ functions < language.maxFunctions
        /\ functions' = functions + 1
        /\ alignmentCount' = local_variable_stack + 8
        /\ labelIndex' = labelIndex + 2
        /\ \E k \in 0..(language.maxStmts - 1), last \in {<<Return>>, <<OtherStmt, ReturnNothing>>} :
              agenda' = <<entry, push, frame, push>>
                        \o FlattenSeq([p \in DOMAIN params |-> Parameter(params[p])])
                        \o Body(k) \o last
        /\ UNCHANGED <<language, out, status, nodes>>

\* The end of gens().
gens_end ==
    /\ status = "generating"
    /\ agenda = <<>>
    /\ functions > 0
    /\ Stop("printed")

\* popPrint, pushPrint and asmPrint.
asmPrint ==
    /\ status = "generating"
    /\ agenda # <<>>
    /\ Head(agenda).do \in Instructions
    /\ out' = Append(out, [instr |-> Head(agenda), at |-> Height])
    /\ alignmentCount' = alignmentCount + Counted(Head(agenda))
    /\ agenda' = Tail(agenda)
    /\ UNCHANGED <<language, labelIndex, status, nodes, functions>>

GenInit ==
    /\ language \in Languages
    /\ agenda = <<>>
    /\ alignmentCount = 0
    /\ labelIndex = 0
    /\ out = <<>>
    /\ status = "generating"
    /\ nodes = 0
    /\ functions = 0

GenExpr ==
    \/ gen_array
    \/ gen_NUM
    \/ gen_LVAR
    \/ gen_ADDR
    \/ gen_ASSIGN_EQ
    \/ gen_ASSIGN_op
    \/ \E name \in {"ND_LOGICAL_AND", "ND_LOGICAL_OR"} : gen_LOGICAL(name)
    \/ gen_binary
    \/ \E args \in language.argLists : gen_FUNCCALL(args)

GenAddress ==
    \/ gen_address_LVAR
    \/ gen_address_STRUCT
    \/ gen_address_DEREF
    \/ gen_address_error

GenStmt ==
    \/ gen_DECLARATION
    \/ gen_SINGLESTMT
    \/ gen_BLOCK
    \/ gen_IF
    \/ gen_ELSE
    \/ gen_WHILE
    \/ gen_FOR
    \/ \E body \in language.bodies : gen_SWITCH(body)
    \/ gen_SWITCH_simple
    \/ gen_CASE
    \/ gen_RETURN
    \/ gen_RETURN_nothing

GenStep ==
    \/ GenExpr
    \/ GenAddress
    \/ GenStmt
    \/ asmPrint
    \/ \E params \in language.paramLists : gen_FUNCDEFINE(params)
    \/ gens_end

\* The compiler has exited.
GenStopped == status # "generating" /\ UNCHANGED genvars

GenNext == GenStep \/ GenStopped

GenSpec == GenInit /\ [][GenNext]_genvars

-----------------------------------------------------------------------------
(* Properties. *)

LabelNames ==
    {"none", "ND_LOGICAL_AND", "ND_LOGICAL_OR", "end", "ifend", "else", "ifelseend",
     "while", "whileend", "for", "forend", "case", "call", "argument", "register"}

GenCalls ==
    {"expr", "address", "lvalue", "stmt", "other", "return", "return_nothing", "case"}

Tasks ==
    [do : Instructions \cup GenCalls,
     type : Types \cup {NoType},
     n : Int,
     label : [name : LabelNames, index : Nat, item : Nat]]

\* Every label in the code or still to be printed has been numbered by a gen()
\* call that was made, so that the next call's number is fresh (codegen.c:243),
\* and every task is one gen() or asmPrint can carry out.
GenTypeOK ==
    /\ agenda \in Seq(Tasks)
    /\ \A i \in DOMAIN agenda : agenda[i].label.index < labelIndex
    /\ alignmentCount \in Int
    /\ labelIndex \in Nat
    /\ out \in Seq([instr : Tasks, at : Int])
    /\ \A i \in DOMAIN out : out[i].instr.label.index < labelIndex
    /\ status \in {"generating", "printed", "error", "abort", "crash"}
    /\ nodes \in 0..MaxNodes
    /\ functions \in 0..language.maxFunctions

\* The labels are unique, as the comment on labelIndex has it (codegen.c:10),
\* and those printed later will not repeat one: neither a switch nested in
\* another, nor a second function, reuses the number of a gen() call.
LabelsUnique ==
    LET labels == {i \in DOMAIN out : out[i].instr.do = "label"}
    IN  \A i, j \in labels : out[i].instr.label = out[j].instr.label => i = j

\* A jump has a label to go to, and no head of a function is between the two.
Lands(i) ==
    \E j \in DOMAIN out :
        /\ out[j].instr.do = "label"
        /\ out[j].instr.label = out[i].instr.label
        /\ \A k \in DOMAIN out :
              (i < k /\ k < j) \/ (j < k /\ k < i) => out[k].instr.do # "entry"

\* Whenever gen() has come to the end of a function, every jump printed so far has
\* its label in the function it is in: whatever the items of a switch, the label
\* that a comparison jumps to is one that the body prints.
JumpsHaveTargets ==
    agenda = <<>> =>
        \A i \in DOMAIN out : out[i].instr.do \in {"jmp", "jcc"} => Lands(i)

\* alignmentCount, which goes up with the padding when rsp goes down, still agrees
\* with rsp modulo 16 wherever the next instruction is printed: the padding of a
\* call nested in the arguments of another is computed from a count that the
\* padding of the outer call is part of (codegen.c:316-318, 362-363).
CountAgreesModulo16 == agenda # <<>> => (alignmentCount - Height) % 16 = 0

\* A statement starts with the temporaries of all expressions before it popped,
\* by the count that gen() keeps: only the saved r12 is on the stack.
StatementsStartBalanced ==
    (agenda # <<>> /\ Head(agenda).do \in {"stmt", "other", "return", "return_nothing", "case"})
        => alignmentCount = local_variable_stack - 8
=============================================================================
