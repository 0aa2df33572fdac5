------------------------------- MODULE MCCodeGen -------------------------------
(* Instances of CodeGen for TLC. *)
EXTENDS CodeGen

Text == Array(8)

\* Numbers only, and one function.
Plain(kinds) ==
    [kinds |-> kinds \cup {"ND_NUM", "ND_SINGLESTMT", "ND_RETURN"},
     structs |-> {}, arrays |-> {}, clauses |-> {Scalar}, argLists |-> {<<>>},
     paramLists |-> {<<>>}, bodies |-> {}, maxStmts |-> 1, maxFunctions |-> 1]

\* The kinds that print labels, and those that take a number all the same.
Labels ==
    [Plain({"ND_LOGICAL_AND", "ND_LOGICAL_OR", "ND_IF", "ND_ELSE", "ND_WHILE", "ND_FOR",
            "ND_SWITCH", "ND_SWITCH_simple", "ND_CASE", "ND_DECLARATION",
            "ND_BLOCK"})
     EXCEPT !.bodies = {<<>>, <<"case", "stmt">>, <<"case", "default", "stmt">>,
                        <<"default", "case">>},
            !.maxFunctions = 2]

\* Kinds of node with jumps.
Control ==
    [Plain({"ND_LOGICAL_AND", "ND_IF", "ND_ELSE", "ND_WHILE", "ND_FOR", "ND_SWITCH", "ND_BLOCK"})
     EXCEPT !.bodies = {<<"case", "default", "stmt">>, <<"case", "stmt">>},
            !.maxStmts = 2]

\* Those with calls, and everything that moves structs on the stack.  Arguments are
\* passed in registers, in memory, or two and more of each; and there are too many.
\* Those in memory have a multiple of 16 bytes together, and no struct is before the
\* first in a register.
Calls ==
    [Plain({"ND_LVAR", "ND_ADD", "ND_ASSIGN_EQ", "ND_ASSIGN_ADD", "ND_ADDR", "ND_DEREF",
            "ND_STRUCT", "ND_FUNCCALL"})
     EXCEPT !.structs = {16, 24},
            !.arrays = {8},
            !.argLists = {<<>>, <<Scalar>>, <<Scalar, Text>>, <<Struct(16)>>,
                          <<Struct(16), Struct(16)>>,
                          <<Text, Struct(24), Scalar, Struct(24)>>, [i \in 1..8 |-> Scalar]},
            !.paramLists = {<<>>, <<Scalar, Struct(16)>>}]

\* Calls that are reached by several paths, or by some only.
Branches ==
    [Plain({"ND_LOGICAL_AND", "ND_IF", "ND_FOR", "ND_FUNCCALL"})
     EXCEPT !.argLists = {<<>>, <<Scalar, Scalar>>}]

\* All the registers for arguments, also by a call among them.
Registers ==
    [Plain({"ND_FUNCCALL"}) EXCEPT !.argLists = {[i \in 1..6 |-> Scalar]}]

CodeGenLanguages == {Labels, Calls}
MachineLanguages == {Control, Calls, Branches, Registers}

\* What the code gets wrong: calls after the return of a struct of 24 bytes, ...
EarlyReturns ==
    {[Plain({"ND_LVAR", "ND_IF", "ND_FUNCCALL"}) EXCEPT !.structs = {24}, !.maxStmts = 2]}

\* ... arguments of both classes ...
MixedCalls ==
    {[Plain({"ND_LVAR", "ND_FUNCCALL"})
      EXCEPT !.structs = {16}, !.argLists = {<<Struct(16), Scalar>>}]}

\* ... and a struct before the first argument in a register.
StructsFirst ==
    {[Plain({"ND_LVAR", "ND_FUNCCALL"})
      EXCEPT !.structs = {24},
             !.argLists = {<<Struct(24), Scalar, Struct(24), Scalar>>}]}
=============================================================================
