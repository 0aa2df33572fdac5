-------------------------------- MODULE Machine --------------------------------
(***************************************************************************)
(* The code that gen() prints, executed: what the processor does to rsp    *)
(* and r12 in one activation of one of the printed functions.  Conditional *)
(* jumps go both ways.  The functions it calls are other activations: they *)
(* return with rsp as they found it, and with r12 too if their result has  *)
(* up to 8 bytes, which is what ReturnFindsSavedR12 says of this one; the  *)
(* epilogue behind a larger one pops its first word into r12.              *)
(*                                                                         *)
(* rsp is the distance in bytes from the bottom of the locals, rbp -       *)
(* local_variable_stack, to rsp: what the comments that pushPrint and      *)
(* popPrint print count.  rbp is a multiple of 16.                         *)
(*                                                                         *)
(* Of the memory only the words are kept that hold an argument of a call   *)
(* that is being prepared, and of the other registers the six in which     *)
(* arguments are passed.                                                   *)
(***************************************************************************)
EXTENDS CodeGen

VARIABLES
    pc,   \* the next instruction, 0 before the call
    rsp,
    r12,  \* an address, or what the caller left in it
    held, \* which word of which argument there is at an address
    registers

vars == <<genvars, pc, rsp, r12, held, registers>>

Callers == 1  \* not a multiple of 8: no address that the code computes
Unknown == 2

\* The w-th word of the p-th argument of the call; NoWord is anything else.
ArgumentWord(id, p, w) == <<id, p, w>>
NoWord == <<0, 0, 0>>
Words(t) == IF t.dataType = "STRUCT" THEN t.size \div 8 ELSE 1

HeldAt(a) == IF a \in DOMAIN held THEN held[a] ELSE NoWord

\* Where the prologue puts the caller's r12.
SavedR12 == -8

MachineInit ==
    /\ GenInit
    /\ pc = 0
    /\ rsp = local_variable_stack + 8
    /\ r12 = Callers
    /\ held = <<>>
    /\ registers = [k \in 1..6 |-> NoWord]

Generate == GenStep /\ UNCHANGED <<pc, rsp, r12, held, registers>>

\* The caller jumps to one of the functions, if the code can be assembled.
Start ==
    /\ status = "printed"
    /\ LabelsUnique
    /\ JumpsHaveTargets
    /\ pc = 0
    /\ pc' \in {i \in DOMAIN out : out[i].instr.do = "entry"}
    /\ UNCHANGED <<genvars, rsp, r12, held, registers>>

Running == pc \in DOMAIN out
instr == out[pc].instr

\* What the instruction writes on the stack.  A function that is called writes below
\* rsp what it likes, and its result where r12 points.
Overwrites(a) ==
    CASE instr.do = "push" -> a = rsp - 8
      [] instr.do = "sub" -> a \in (rsp - instr.n)..(rsp - 1)
      [] instr.do = "mov_to_r12" -> a = r12
      [] instr.do = "call" -> a < rsp \/ a \in r12..(r12 + instr.type.size - 1)
      [] OTHER -> FALSE

\* push, pop, add and sub on rsp; labels; call, which returns and leaves nothing in
\* the registers for arguments, and in r12 the first word of a large result.
Straight ==
    /\ Running
    /\ instr.do \in {"push", "pop", "sub", "align", "unalign", "frame", "entry",
                     "label", "call", "mov_to_r12"}
    /\ pc' = pc + 1
    /\ rsp' = rsp + Moved(instr)
    /\ held' = Restrict(held, {a \in DOMAIN held : ~Overwrites(a)})
    /\ registers' = IF instr.do = "call" THEN [k \in 1..6 |-> NoWord] ELSE registers
    /\ r12' = IF instr.do = "call" /\ instr.type.size > 8 THEN Unknown ELSE r12
    /\ UNCHANGED genvars

\* The value of the argument is on top of the stack.
Evaluated ==
    /\ Running
    /\ instr.do = "argument"
    /\ pc' = pc + 1
    /\ held' = [a \in {rsp + 8 * (w - 1) : w \in 1..Words(instr.type)} |->
                  ArgumentWord(instr.label.index, instr.label.item, (a - rsp) \div 8 + 1)] @@ held
    /\ UNCHANGED <<genvars, rsp, r12, registers>>

PopRegister ==
    /\ Running
    /\ instr.do = "pop_register"
    /\ pc' = pc + 1
    /\ rsp' = rsp + Moved(instr)
    /\ registers' = [registers EXCEPT ![instr.label.item] = HeldAt(rsp)]
    /\ UNCHANGED <<genvars, r12, held>>

Jump ==
    /\ Running
    /\ instr.do \in {"jmp", "jcc"}
    /\ \/ pc' \in {i \in DOMAIN out : out[i].instr = define(instr.label)}
       \/ instr.do = "jcc" /\ pc' = pc + 1
    /\ UNCHANGED <<genvars, rsp, r12, held, registers>>

\* The address for the result of the call, and that of the own caller's.
SetR12 ==
    /\ Running
    /\ instr.do \in {"mov_r12_rsp", "mov_r12_saved"}
    /\ r12' = IF instr.do = "mov_r12_rsp" THEN rsp + instr.n
              ELSE IF rsp + instr.n = SavedR12 THEN Callers ELSE Unknown
    /\ pc' = pc + 1
    /\ UNCHANGED <<genvars, rsp, held, registers>>

\* pop r12; mov rsp, rbp; pop rbp; ret
Epilogue ==
    /\ Running
    /\ instr.do = "epilogue"
    /\ r12' = IF rsp = SavedR12 THEN Callers ELSE Unknown
    /\ rsp' = local_variable_stack + 8
    /\ pc' = Len(out) + 1
    /\ UNCHANGED <<genvars, held, registers>>

\* The function has returned, or nothing could be run.
Stopped ==
    /\ \/ pc > Len(out)
       \/ status \in {"error", "abort", "crash"}
       \/ pc = 0 /\ status = "printed" /\ ~(LabelsUnique /\ JumpsHaveTargets)
    /\ UNCHANGED vars

Next ==
    \/ Generate
    \/ Start
    \/ Straight
    \/ Evaluated
    \/ PopRegister
    \/ Jump
    \/ SetR12
    \/ Epilogue
    \/ Stopped

Spec == MachineInit /\ [][Next]_vars

-----------------------------------------------------------------------------
(* What the code asks of a program without saying so: where one of these  *)
(* does not hold, the properties below can fail.                          *)

\* What an expression of the type leaves on the stack.
Pushed(t) ==
    IF t.dataType = "ARRAY" THEN 8
    ELSE IF t.size = 0 THEN 0
    ELSE IF t.size <= 8 THEN 8 ELSE t.size

\* The arguments that are left on the stack for want of a register.
Spilled(args) ==
    LET inRegs == Cardinality(InRegisters(args)) IN IF inRegs <= 6 THEN 0 ELSE inRegs - 6

\* The arguments of a call that stay on the stack have a multiple of 16 bytes.
ArgumentsPadded ==
    \A l \in Languages : \A args \in l.argLists :
        TooMany(args) \/ (SumSizes(InMemory(args), args) + 8 * Spilled(args)) % 16 = 0

\* No call needs a seventh register.
SixRegistersSuffice ==
    \A l \in Languages : \A args \in l.argLists : TooMany(args) \/ Spilled(args) = 0

\* No array of more than a word is the value of a statement or returned (codegen.c:264,
\* 597), the clauses of a for have one word (544, 560), no argument is void, those in
\* memory and those in registers, which share their links, come apart all the same
\* (288-311), and a switch has a body that is a block, with an item (484).
Orderly ==
    \A l \in Languages :
        /\ \A size \in l.arrays : size <= 8
        /\ \A t \in l.clauses : Pushed(t) = 8
        /\ \A args \in l.argLists :
              \/ TooMany(args)
              \/ /\ \A p \in DOMAIN args : args[p].dataType # "VOID"
                 /\ \A S \in {InMemory(args), InRegisters(args)} :
                       Linked(S, args) = Descending(S, Len(args))
        /\ <<>> \notin l.bodies
        /\ "ND_SWITCH_simple" \notin l.kinds

\* The epilogue of a function that returns its result in its caller's frame.
Large(task) == task.do = "epilogue" /\ task.n > 8

\* No return of more than 8 bytes has code of its function behind it, neither what the
\* program says nor the return that funcDefine() appends (parse.c:466): the copy is left
\* in the count (codegen.c:600).
LargeReturnsLast ==
    \A i \in DOMAIN out :
        Large(out[i].instr) =>
            IF i < Len(out) THEN out[i + 1].instr.do = "entry"
            ELSE agenda # <<>> => Head(agenda).do = "entry"

-----------------------------------------------------------------------------
(* Properties. *)

\* Behind the four instructions of the prologue.
InBody == Running /\ pc > 4 /\ \A k \in (pc - 3)..pc : out[k].instr.do # "entry"

\* At a call, rsp is a multiple of 16, as the ABI and common.h:11 ask
\* (adjustAligment): through nested calls, results and arguments of any size.
CallAligned == Running /\ instr.do = "call" => rsp % 16 = 0

\* The function called finds in r12 the place that was reserved for its result
\* before the arguments, and when a small result is written through r12, r12 is
\* still that place and it is on top of the stack: the arguments, the padding and
\* the calls among the arguments have been taken off exactly (codegen.c:354-371).
ResultSlotOnTop ==
    Running =>
        /\ instr.do = "call" => r12 = instr.n
        /\ instr.do = "mov_to_r12" => r12 = instr.n /\ rsp = instr.n

\* The arguments of the call that instr is.
Arguments == {out[i].instr : i \in {j \in DOMAIN out :
                 /\ out[j].instr.do = "argument"
                 /\ out[j].instr.label.index = instr.label.index}}

\* Where the function called takes its parameter p from: it counts the parameters that
\* are structs, behind its saved rbp and the return address, and the others, in the
\* registers and behind the sixth in memory again.  A struct is copied by way of rdi,
\* the first of the registers (codegen.c:134, 158).
IsStruct(t) == t.dataType = "STRUCT"
Before(p) == {b \in Arguments : b.label.item < p}
SumWords(S) == FoldSet(LAMBDA b, sum : Words(b.type) + sum, 0, S)

ParameterWord(p, t, w) ==
    LET structs == SumWords({b \in Before(p) : IsStruct(b.type)})
        plains  == Cardinality({b \in Before(p) : ~IsStruct(b.type)})
        spilled == IF plains <= 6 THEN 0 ELSE plains - 6
    IN  IF ~IsStruct(t) /\ plains < 6
        THEN IF plains = 0 /\ structs # 0 THEN NoWord ELSE registers[plains + 1]
        ELSE HeldAt(rsp + 8 * (structs + spilled + w - 1))

\* The function called finds in each of its parameters the argument that was
\* evaluated for it, every word of it: the caller takes the arguments from the last
\* to the first, through two lists, pushes and registers, the callee from the first
\* on by two counters, and calls among the arguments use the same registers and the
\* stack in between (codegen.c:285-352, 388-433).
ArgumentsArrive ==
    Running /\ instr.do = "call" =>
        \A b \in Arguments : \A w \in 1..Words(b.type) :
            ParameterWord(b.label.item, b.type, w)
              = ArgumentWord(instr.label.index, b.label.item, w)

\* In the body of a function the temporaries stay below the saved r12: no path
\* pops it, or the locals (codegen.c:382).
TemporariesBelowFrame == InBody => rsp <= SavedR12

\* A function returns a result of up to 8 bytes with its caller's r12 restored, and
\* finds the caller's place for a larger one, whose caller must not expect its own
\* r12 back: the diagram of ND_RETURN (codegen.c:568-591) has the saved r12 right
\* below the value.
ReturnFindsSavedR12 ==
    Running /\ instr.do = "epilogue" =>
        IF instr.n > 8 THEN r12 = Callers ELSE rsp = SavedR12

\* Whatever path leads to an instruction, rsp is there what it is when the code
\* is executed in the order in which it was printed, so that counting pushes
\* and pops in that order (alignmentCount, codegen.c:12) is sound, and a loop
\* that is executed any number of times does not use up the stack.
HeightIsStatic == Running => rsp = out[pc].at
=============================================================================
