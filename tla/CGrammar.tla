------------------------------- MODULE CGrammar -------------------------------
(***************************************************************************)
(* The language that parse.c says it reads: the grammar in the comment at  *)
(* parse.c:17, as the sets of trees that derive a sequence of tokens.      *)
(* Nothing here has a cursor: a rule holds of a sequence if the sequence   *)
(* can be cut so that the parts derive from the parts of the rule.         *)
(*                                                                         *)
(* Where the comment leaves a choice, this module takes what C requires,   *)
(* as bnf.txt has it: binary operators associate to the left, a            *)
(* declaration ends with a semicolon, and an else belongs to the nearest   *)
(* if.  A called expression is a name, and a global variable has no        *)
(* initializer; the comment would allow one.                               *)
(***************************************************************************)
EXTENDS Integers, SequencesExt

CONSTANT Idents

Tree(kind, name, kids) == [kind |-> kind, name |-> name, kids |-> kids]
Num(n) == Tree("ND_NUM", n, <<>>)
Named(name) == Tree("name", name, <<>>)
Nothing == Tree("NULL", "", <<>>)
Single(t) == Tree("ND_SINGLESTMT", "", <<t>>)

Upto(s, k) == SubSeq(s, 1, k)
From(s, k) == SubSeq(s, k, Len(s))
Within(s, i, j) == SubSeq(s, i, j)
At(s, set) == {k \in DOMAIN s : s[k] \in set}
Starts(s, w) == Len(s) >= Len(w) /\ Upto(s, Len(w)) = w
Ends(s, t) == s # <<>> /\ Last(s) = t

Operators ==
    <<{"=", "*=", "/=", "%=", "+=", "-="}, {"||"}, {"&&"}, {"==", "!="},
      {"<", "<=", ">", ">="}, {"+", "-"}, {"*", "/", "%"}>>

KindOf ==
    "=" :> "ND_ASSIGN_EQ" @@ "*=" :> "ND_ASSIGN_MUL" @@ "/=" :> "ND_ASSIGN_DIV" @@
    "%=" :> "ND_ASSIGN_MOD" @@ "+=" :> "ND_ASSIGN_ADD" @@ "-=" :> "ND_ASSIGN_SUB" @@
    "||" :> "ND_LOGICAL_OR" @@ "&&" :> "ND_LOGICAL_AND" @@ "==" :> "ND_EQUALTO" @@
    "!=" :> "ND_NOT_EQUAL_TO" @@ "<" :> "ND_LESS_THAN" @@ "<=" :> "ND_LESS_THAN_OR_EQUALT_TO" @@
    "+" :> "ND_ADD" @@ "-" :> "ND_SUB" @@ "*" :> "ND_MUL" @@ "/" :> "ND_DIV" @@ "%" :> "ND_MOD"

\* a > b is b < a.
Binary(op, l, r) ==
    CASE op = ">" -> Tree("ND_LESS_THAN", "", <<r, l>>)
      [] op = ">=" -> Tree("ND_LESS_THAN_OR_EQUALT_TO", "", <<r, l>>)
      [] OTHER -> Tree(KindOf[op], "", <<l, r>>)

\* -a is 0 - a, ++a is a += 1, and sizeof a is a number.
Prefixed(op, e) ==
    CASE op \in {"+", "-"} -> Binary(op, Num("0"), e)
      [] op = "!" -> Binary("==", Num("0"), e)
      [] op = "&" -> Tree("ND_ADDR", "", <<e>>)
      [] op = "*" -> Tree("ND_DEREF", "", <<e>>)
      [] op = "++" -> Binary("+=", e, Num("1"))
      [] op = "--" -> Binary("-=", e, Num("1"))
      [] op = "sizeof" -> Num("sizeof")

PrefixOps == {"+", "-", "!", "&", "*", "++", "--", "sizeof"}

Stars(s) == \A k \in DOMAIN s : s[k] = "*"
Bounds(s) ==
    /\ Len(s) % 3 = 0
    /\ \A k \in DOMAIN s : s[k] = (CASE k % 3 = 1 -> "[" [] k % 3 = 2 -> "1" [] OTHER -> "]")
TypeName(s) ==
    Starts(s, <<"int">>) /\ \E k \in 1..Len(s) : Stars(Within(s, 2, k)) /\ Bounds(From(s, k + 1))

RECURSIVE Expr(_, _), Unary(_), Postfix(_), Exprs(_)

\* Level 1 is an assignment, level 8 a unary expression.
Expr(level, s) ==
    IF s = <<>> THEN {}
    ELSE IF level = 8 THEN Unary(s)
    ELSE Expr(level + 1, s) \cup
         UNION {{Binary(s[k], l, r) :
                   l \in Expr(IF level = 1 THEN 2 ELSE level, Upto(s, k - 1)),
                   r \in Expr(IF level = 1 THEN 1 ELSE level + 1, From(s, k + 1))} :
                k \in At(s, Operators[level])}

Unary(s) ==
    IF s = <<>> THEN {}
    ELSE Postfix(s) \cup
         (IF Head(s) \in PrefixOps THEN {Prefixed(Head(s), e) : e \in Unary(Tail(s))} ELSE {}) \cup
         (IF Starts(s, <<"sizeof", "(">>) /\ Ends(s, ")") /\ TypeName(Within(s, 3, Len(s) - 1))
          THEN {Num("sizeof")} ELSE {})

Postfix(s) ==
    IF s = <<>> THEN {}
    ELSE CASE Ends(s, "++") -> {Binary("-", Binary("+=", e, Num("1")), Num("1")) :
                                  e \in Postfix(Front(s))}
           [] Ends(s, "--") -> {Binary("+", Binary("-=", e, Num("1")), Num("1")) :
                                  e \in Postfix(Front(s))}
           [] Ends(s, "]") ->
                UNION {{Tree("ND_DEREF", "", <<Binary("+", a, i)>>) :
                          a \in Postfix(Upto(s, k - 1)),
                          i \in Expr(1, Within(s, k + 1, Len(s) - 1))} : k \in At(s, {"["})}
           [] Ends(s, ")") /\ Head(s) = "(" -> Expr(1, Within(s, 2, Len(s) - 1))
           [] Ends(s, ")") /\ Head(s) \in Idents /\ s[2] = "(" ->
                {IF args = <<>> THEN Named(Head(s)) ELSE Tree("ND_FUNCCALL", Head(s), args) :
                   args \in IF Len(s) = 3 THEN {<<>>} ELSE Exprs(Within(s, 3, Len(s) - 1))}
           [] Len(s) = 1 /\ Head(s) \in Idents -> {Named(Head(s))}
           [] Len(s) = 1 /\ Head(s) \in {"1", "'c'"} -> {Num(Head(s))}
           [] s = <<"\"s\"">> -> {Tree("ND_STRING", "", <<>>)}
           [] OTHER -> {}

\* One expression or more, with commas between them.
Exprs(s) ==
    {<<e>> : e \in Expr(1, s)} \cup
    UNION {{Append(l, e) : l \in Exprs(Upto(s, k - 1)), e \in Expr(1, From(s, k + 1))} :
           k \in At(s, {","})}

-----------------------------------------------------------------------------
(* Declarations.  The declared variable is the node Named(name). *)

\* The positions of the name in "int" "*"* name ("[" 1 "]")*.
NameIn(s) ==
    {k \in At(s, Idents) : Starts(s, <<"int">>) /\ Stars(Within(s, 2, k - 1))
                           /\ Bounds(From(s, k + 1))}

Assign(place, e) == Single(Tree("ND_ASSIGN_EQ", "", <<place, e>>))
Nth(name, i, e) == Assign(Tree("ND_DEREF", "", <<Binary("+", Named(name), Num(ToString(i)))>>), e)

ListOf(s) == Exprs(s) \cup (IF Ends(s, ",") THEN Exprs(Front(s)) ELSE {})

\* The statements that give the name its value.
Initializer(name, isArray, s) ==
    IF s = <<"\"s\"">> /\ isArray THEN {<<Nth(name, 0, Num("c")), Nth(name, 1, Num("0"))>>}
    ELSE {<<Assign(Named(name), e)>> : e \in Expr(1, s)} \cup
         (IF s = <<"{", "}">> THEN {<<>>}
          ELSE IF Starts(s, <<"{">>) /\ Ends(s, "}")
          THEN {[i \in DOMAIN l |-> Nth(name, i - 1, l[i])] :
                  l \in ListOf(Within(s, 2, Len(s) - 1))}
          ELSE {})

Declaration(s) ==
    IF ~Ends(s, ";") \/ ~Starts(s, <<"int">>) THEN {}
    ELSE {Single(Named(s[k])) : k \in NameIn(Front(s))} \cup
         UNION {UNION {{Tree("ND_DOUBLESTMT", "", <<Single(Named(s[k]))>> \o list) :
                          list \in Initializer(s[k], s[k + 1] = "[",
                                               Within(s, eq + 1, Len(s) - 1))} :
                       k \in NameIn(Upto(s, eq - 1))} : eq \in At(s, {"="})}

-----------------------------------------------------------------------------
(* Statements.  open says that the statement ends in an if without else. *)

Closed(trees) == {[tree |-> t, open |-> FALSE] : t \in trees}

OptionalExpr(s, default) == IF s = <<>> THEN {default} ELSE Expr(1, s)

ReturnNode == Tree("ND_RETURN", "", <<>>)

RECURSIVE Stmt(_), Stmts(_)

\* A statement of two parts: the condition and what it governs, from k on.
Governs(kind, conditions, s, k) ==
    {[tree |-> Tree(kind, "", c \o <<b.tree>>), open |-> b.open] :
       c \in conditions, b \in Stmt(From(s, k))}

Conditioned(kind, s) ==
    UNION {Governs(kind, {<<e>> : e \in Expr(1, Within(s, 3, k - 1))}, s, k + 1) :
           k \in {j \in At(s, {")"}) : j > 3}}

IfThen(s) == {[tree |-> i.tree, open |-> TRUE] : i \in Conditioned("ND_IF", s)}

IfElse(s) ==
    UNION {{[tree |-> Tree("ND_ELSE", "", <<i.tree, e.tree>>), open |-> e.open] :
              i \in {c \in Conditioned("ND_IF", Upto(s, k - 1)) : ~c.open},
              e \in Stmt(From(s, k + 1))} : k \in At(s, {"else"})}

\* for (first; second; third) body
Loop(first, second, third, s) ==
    {[tree |-> Tree("ND_FOR", "", <<f, c, t, b.tree>>), open |-> b.open] :
       f \in first, c \in second, t \in third, b \in Stmt(s)}

For(s) ==
    UNION {UNION {UNION {
        LET second == OptionalExpr(Within(s, i + 1, j - 1), Num("1"))
            third  == OptionalExpr(Within(s, j + 1, k - 1), Nothing)
            body   == From(s, k + 1)
        IN  Loop(OptionalExpr(Within(s, 3, i - 1), Nothing), second, third, body) \cup
            {[tree |-> Tree("ND_BLOCK", "", <<d, l.tree>>), open |-> l.open] :
               d \in Declaration(Within(s, 3, i)),
               l \in Loop({Nothing}, second, third, body)} :
          k \in {x \in At(s, {")"}) : x > j}} :
          j \in {x \in At(s, {";"}) : x > i}} :
          i \in At(s, {";"})}

Stmt(s) ==
    IF s = <<>> \/ Last(s) \notin {";", "}"} THEN {}
    ELSE CASE Head(s) = "int" -> Closed(Declaration(s))
           [] s = <<";">> -> Closed({Single(Num("1"))})
           [] s = <<"return", ";">> -> Closed({ReturnNode})
           [] Head(s) = "return" /\ Ends(s, ";") ->
                Closed({Tree("ND_RETURN", "", <<e>>) : e \in Expr(1, Within(s, 2, Len(s) - 1))})
           [] Starts(s, <<"if", "(">>) -> IfThen(s) \cup IfElse(s)
           [] Starts(s, <<"while", "(">>) -> Conditioned("ND_WHILE", s)
           [] Starts(s, <<"switch", "(">>) -> Conditioned("ND_SWITCH", s)
           [] Starts(s, <<"for", "(">>) -> For(s)
           [] Head(s) = "case" ->
                UNION {Governs("ND_CASE", {<<e>> : e \in Expr(2, Within(s, 2, k - 1))}, s, k + 1) :
                       k \in At(s, {":"})}
           [] Starts(s, <<"default", ":">>) -> Governs("ND_DEFAULT", {<<>>}, s, 3)
           [] Head(s) = "{" /\ Ends(s, "}") ->
                Closed({Tree("ND_BLOCK", "", l) : l \in Stmts(Within(s, 2, Len(s) - 1))})
           [] Ends(s, ";") -> Closed({Single(e) : e \in Expr(1, Front(s))})
           [] OTHER -> {}

Stmts(s) ==
    IF s = <<>> THEN {<<>>}
    ELSE UNION {{<<f.tree>> \o l : f \in Stmt(Upto(s, k)), l \in Stmts(From(s, k + 1))} :
                k \in At(s, {";", "}"})}

-----------------------------------------------------------------------------
(* Files. *)

RECURSIVE Parameters(_)
Parameters(s) ==
    {<<Named(s[k])>> : k \in NameIn(s)} \cup
    UNION {{Append(l, Named(s[k])) : l \in Parameters(Upto(s, c - 1)),
                                     k \in {i + c : i \in NameIn(From(s, c + 1))}} :
           c \in At(s, {","})}

\* A function returns at its end, also one without a statement.
Body(stmts) ==
    Tree("ND_BLOCK", "", IF stmts # <<>> /\ Last(stmts).kind = "ND_RETURN" THEN stmts
                         ELSE Append(stmts, ReturnNode))

Function(s) ==
    UNION {UNION {UNION {
        {Tree("ND_FUNCDEFINE", s[n], p \o <<Body(l)>>) :
           p \in IF close = n + 2 THEN {<<>>} ELSE Parameters(Within(s, n + 2, close - 1)),
           l \in Stmts(Within(s, close + 2, Len(s) - 1))} :
        close \in {k \in At(s, {")"}) : k > n + 1 /\ s[k + 1] = "{"}} :
        n \in {k \in NameIn(Upto(s, open - 1)) : k = open - 1}} :
        open \in At(s, {"("})}

Unit(s) ==
    IF Ends(s, "}") THEN Function(s)
    ELSE IF ~Ends(s, ";") THEN {}
    ELSE {Named(s[k]) : k \in NameIn(Front(s))} \cup
         {Tree("ND_DECLARATION", "", <<>>) :
            k \in {j \in NameIn(Upto(s, Len(s) - 3)) : From(s, j + 1) = <<"(", ")", ";">>}}

RECURSIVE Program(_)
Program(s) ==
    IF s = <<>> THEN {<<>>}
    ELSE UNION {{<<u>> \o l : u \in Unit(Upto(s, k)), l \in Program(From(s, k + 1))} :
                k \in At(s, {";", "}"})}
=============================================================================
