-------------------------------- MODULE Parsing --------------------------------
(***************************************************************************)
(* What the parser does, against the grammar it says it reads.             *)
(***************************************************************************)
EXTENDS Parser

CONSTANT Endings   \* what is tried as the rest of a program that was refused

Grammar == INSTANCE CGrammar

\* A tree without what its names are bound to: SymbolTable says that.
RECURSIVE Unbound(_)
Unbound(t) ==
    IF t.kind \in {"ND_LVAR", "ND_GVAR", "ND_GVARDEFINE", "ND_FUNCCALL"} /\ t.kids = <<>>
    THEN Grammar!Named(t.name)
    ELSE [t EXCEPT !.kids = [i \in DOMAIN t.kids |-> Unbound(t.kids[i])]]

Unbounds(trees) == [i \in DOMAIN trees |-> Unbound(trees[i])]

Complete == status = "done"

\* A program of the language has one derivation, and the trees that program()
\* leaves in code[] are that derivation: operators bind and associate as the
\* levels of the grammar say, each else is at the nearest if, a clause that is
\* missing stays missing, and what program() and sizeof have read ahead changes
\* nothing (parse.c:376-1187).
TreesAreDerivations ==
    Complete => Grammar!Program(Front(tokens)) \subseteq {Unbounds(code)}

\* The tokens up to the one that the compiler has reported are no program of the
\* language with any of the Endings behind them, and a text that is reported at
\* its end is none.
Hopeless ==
    IF Now = EOF THEN Grammar!Program(Front(tokens)) = {}
    ELSE \A e \in Endings : Grammar!Program(tokens \o e) = {}

\* The reported token closes the body of a function that has just been opened: the
\* brace stands behind the parenthesis of a head, and no other brace is open.
AtEmptyBody ==
    LET before(brace) == Cardinality({k \in 1..token - 2 : tokens[k] = brace})
    IN  /\ token > 2 /\ Now = "}" /\ tokens[token - 1] = "{" /\ tokens[token - 2] = ")"
        /\ before("{") = before("}")

\* expect(), expect_number() and primary_expr() refuse only what none of the
\* Endings can mend (tokenize.c:270, 306) - but for the body of a function without
\* a statement, which the grammar has ("{" stmt* "}", parse.c:20) and funcDefine()
\* always refuses, since it reads a statement before it looks for the brace
\* (parse.c:460).
RefusedRightly == status = "error_at" /\ ~AtEmptyBody => Hopeless

\* The positions of the names that the program declares.
IsDeclarator(k) ==
    /\ tokens[k] \in Idents
    /\ \E j \in 1..k - 1 : tokens[j] = "int" /\ \A i \in j + 1..k - 1 : tokens[i] = "*"

\* In a program of the language every declarator has made one identifier, in the
\* order of the text, and a name that is not declared one where it is first
\* called: what program() has read twice (parse.c:384-406) is declared once.
DeclaredOnce ==
    LET declared(k) == IsDeclarator(k)
        called(k) == /\ tokens[k] \in Idents /\ ~IsDeclarator(k)
                     /\ \A j \in 1..k - 1 : tokens[j] # tokens[k]
        places == SelectSeq([k \in DOMAIN tokens |-> k], LAMBDA k : declared(k) \/ called(k))
    IN  Complete /\ Grammar!Program(Front(tokens)) # {} =>
            [i \in DOMAIN identifiers |-> identifiers[i].name] =
            [i \in DOMAIN places |-> tokens[places[i]]]
=============================================================================
