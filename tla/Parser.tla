-------------------------------- MODULE Parser --------------------------------
(***************************************************************************)
(* The recursive descent of parse.c: program() and all it calls, over the  *)
(* list of tokens, with the look-ahead of program() and of sizeof.         *)
(*                                                                         *)
(* The recursion is the variable agenda: what the calls on the C stack     *)
(* still have to do, innermost first.  A call looks at the current token   *)
(* and is replaced by what it does.  A function that calls another before  *)
(* it looks at a token is no step of its own.  A token is chosen when the  *)
(* first call looks at it, so that the program is any sequence of tokens.  *)
(*                                                                         *)
(* A tree keeps the kind of a node, its name and its operands: those of    *)
(* expr1 to expr5 that are set, and its vector; the parameters of a        *)
(* function are before its body, and only a for keeps what is missing, as  *)
(* NULL.  The values that the code gives to sizeof and to the characters   *)
(* of a literal, and the lengths of arrays, are left out.  A string        *)
(* literal is one character long.  "int" stands for char and void too;     *)
(* structs and their members are in SymbolTable.  error_at() ends the      *)
(* compiler, also at the last token, where it reads past charPoint.        *)
(***************************************************************************)
EXTENDS Integers, SequencesExt

CONSTANTS
    Texts,      \* [given, then, most]: the tokens that a program starts with, those
                \* that may follow, and how many follow at most
    Idents,     \* TK_IDENT
    CodeSize    \* entries of code[]

Number == "1"
Character == "'c'"
String == "\"s\""
EOF == "EOF"

ASSUME ParserAssumption ==
    /\ CodeSize \in Nat \ {0}
    /\ \A text \in Texts : EOF \notin text.then \cup Range(text.given)

VARIABLES
    text,        \* the program, of Texts
    tokens,      \* those that have been looked at
    token,       \* the current one
    agenda,      \* what is left to do
    values,      \* what calls have returned and their callers still need
    identifiers, \* identHead, oldest first
    code,        \* the trees of the program
    status       \* "parsing", "done", or how the compiler has ended

vars == <<text, tokens, token, agenda, values, identifiers, code, status>>

-----------------------------------------------------------------------------
(* Nodes, types and identifiers. *)

Tree(kind, name, kids) == [kind |-> kind, name |-> name, kids |-> kids]

\* A type is the chain of its constructors.
INT == <<"INT">>
NULL == <<>>
IsPtr(t) == Head(t) = "PTR"
IsArray(t) == Head(t) = "ARRAY"
PtrTo(t) == <<"PTR">> \o t
inner(t) == Tail(t)

Value(tree, type) == [tree |-> tree, type |-> type]
Num(n) == Value(Tree("ND_NUM", n, <<>>), INT)
None == Value(Tree("NULL", "", <<>>), NULL)
Type(t) == Value(None.tree, t)

Arithmetic ==
    {"ND_ADD", "ND_SUB", "ND_MUL", "ND_DIV", "ND_MOD", "ND_ASSIGN_ADD", "ND_ASSIGN_SUB",
     "ND_ASSIGN_MUL", "ND_ASSIGN_DIV", "ND_ASSIGN_MOD"}
Truth ==
    {"ND_EQUALTO", "ND_NOT_EQUAL_TO", "ND_LESS_THAN", "ND_LESS_THAN_OR_EQUALT_TO",
     "ND_LOGICAL_AND", "ND_LOGICAL_OR"}

\* new_node() follows a NULL pointer for the type.
NoType(kind, v) ==
    \/ kind \in Arithmetic \cup {"ND_DEREF"} /\ v[1].type = NULL
    \/ kind \in Arithmetic /\ ~IsPtr(v[1].type) /\ v[2].type = NULL

NodeType(kind, v) ==
    CASE kind \in Arithmetic ->
            IF IsPtr(v[1].type) THEN v[1].type
            ELSE IF IsPtr(v[2].type) THEN v[2].type
            ELSE IF IsArray(v[1].type) THEN PtrTo(inner(v[1].type))
            ELSE IF IsArray(v[2].type) THEN PtrTo(inner(v[2].type))
            ELSE v[1].type
      [] kind = "ND_DEREF" -> inner(v[1].type)
      [] kind = "ND_ADDR" -> PtrTo(v[1].type)
      [] kind = "ND_ASSIGN_EQ" -> v[1].type
      [] kind \in Truth -> INT
      [] OTHER -> NULL

Node(kind, v) == Value(Tree(kind, "", [i \in DOMAIN v |-> v[i].tree]), NodeType(kind, v))

Newest(name, kinds) ==
    SelectLastInSeq(identifiers, LAMBDA i : i.name = name /\ i.kind \in kinds)

\* The index of the identifier, 0 for NULL.
find_identifier(name) ==
    IF Newest(name, {"LVAR"}) # 0 THEN Newest(name, {"LVAR"})
    ELSE IF Newest(name, {"GVAR"}) # 0 THEN Newest(name, {"GVAR"})
    ELSE Newest(name, {"FUNC"})

IdentKind(kind) ==
    CASE kind = "ND_LVAR" -> "LVAR"
      [] kind = "ND_GVARDEFINE" -> "GVAR"
      [] OTHER -> "FUNC"

Identifier(kind, name, type) ==
    [kind |-> IdentKind(kind), name |-> name, type |-> type]

-----------------------------------------------------------------------------
(* Calls. *)

Call(do, arg) == [do |-> do, arg |-> arg]

expect(t) == Call("expect", t)
consume(set) == Call("consume", set)
node(kind, n) == Call("node", <<kind, n>>)
Const(n) == Call("num", n)
append == Call("append", 0)
drop == Call("drop", 0)
unary_expr == Call("unary_expr", 0)
postfix_expr == Call("postfix_expr", 0)
stmt == Call("stmt", 0)
block == Call("block", 0)
list(index) == Call("list", index)
program == Call("program", 0)

\* The binary operators of the levels of the grammar, and their nodes.
Levels ==
    << [t \in {"||"} |-> "ND_LOGICAL_OR"],
       [t \in {"&&"} |-> "ND_LOGICAL_AND"],
       ("==" :> "ND_EQUALTO" @@ "!=" :> "ND_NOT_EQUAL_TO"),
       ("<" :> "ND_LESS_THAN" @@ "<=" :> "ND_LESS_THAN_OR_EQUALT_TO" @@
        ">" :> "ND_LESS_THAN" @@ ">=" :> "ND_LESS_THAN_OR_EQUALT_TO"),
       ("+" :> "ND_ADD" @@ "-" :> "ND_SUB"),
       ("*" :> "ND_MUL" @@ "/" :> "ND_DIV" @@ "%" :> "ND_MOD") >>

\* In the order in which assign_expr() tries them.
AssignOps == <<"=", "*=", "/=", "%=", "+=", "-=">>
AssignKinds ==
    <<"ND_ASSIGN_EQ", "ND_ASSIGN_MUL", "ND_ASSIGN_DIV", "ND_ASSIGN_MOD", "ND_ASSIGN_ADD",
      "ND_ASSIGN_SUB">>

\* The functions of the levels lo to hi, the innermost first, wait for an operator.
Waiting(hi, lo) == IF hi < lo THEN <<>> ELSE <<Call("operators", <<hi, lo>>)>>

conditional_expr == <<unary_expr>> \o Waiting(Len(Levels), 1)
assign_expr == conditional_expr \o <<Call("assign", 1)>>
expr == assign_expr

typeSpec(kind) == Call("typeSpec", kind)
declarator(kind) == <<Call("pointer", 0), Call("name", kind)>>
declaration(kind) == <<typeSpec(kind), Call("declaration", kind)>>

\* Calls that do not look at a token.
Builders ==
    {"node", "num", "append", "drop", "swap", "sizeof", "new_identifier", "declaration",
     "typeName", "element", "for", "return", "code"}

Running == status = "parsing"
Current == Head(agenda)
Now == tokens[token]

Calling(do) == Running /\ Current.do = do /\ (do \in Builders \/ token <= Len(tokens))

\* The n-th token of the text.
MayFollow(n) ==
    LET free == n - Len(text.given)
    IN  IF free <= 0 THEN {text.given[n]}
        ELSE IF free > text.most THEN {EOF}
        ELSE text.then \cup {EOF}

Lex ==
    LET n == Len(tokens) + 1
    IN  /\ Running
        /\ Current.do \notin Builders
        /\ token = n
        /\ \E t \in MayFollow(n) : tokens' = Append(tokens, t)
        /\ UNCHANGED <<text, token, agenda, values, identifiers, code, status>>

\* The call does calls, from the k-th token on, and leaves v to its caller.
Go(calls, k, v) ==
    /\ agenda' = calls \o Tail(agenda)
    /\ token' = k
    /\ values' = v
    /\ UNCHANGED <<text, tokens, code, status>>

Do(calls) == Go(calls, token, values) /\ UNCHANGED identifiers
Accept(calls) == Go(calls, token + 1, values) /\ UNCHANGED identifiers
Return(v) == Go(<<>>, token, v) /\ UNCHANGED identifiers
Push(calls, v) == Go(calls, token + 1, Append(values, v)) /\ UNCHANGED identifiers

Fail(how) ==
    /\ status' = how
    /\ UNCHANGED <<text, tokens, token, agenda, values, identifiers, code>>

Top == Last(values)
Below(n) == SubSeq(values, 1, Len(values) - n)
Args(n) == SubSeq(values, Len(values) - n + 1, Len(values))
Replaced(n, v) == Append(Below(n), v)

-----------------------------------------------------------------------------
(* tokenize.c: expect() and consume(). *)

Expect ==
    /\ Calling("expect")
    /\ IF Now = Current.arg THEN Accept(<<>>) ELSE Fail("error_at")

Consume ==
    /\ Calling("consume")
    /\ IF Now \in Current.arg THEN Accept(<<>>) ELSE Do(<<>>)

ConsumeAll_Bug ==
    /\ Calling("consume all")
    /\ IF Now = Current.arg THEN Do(<<Current>>) ELSE Do(<<>>)

\* while(consume(...));
ConsumeAll ==
    /\ Calling("consume all")
    /\ IF Now = Current.arg THEN Accept(<<Current>>) ELSE Do(<<>>)

\* Nodes.

new_node ==
    LET kind == Current.arg[1]
        n    == Current.arg[2]
    IN  /\ Calling("node")
        /\ IF NoType(kind, Args(n)) THEN Fail("crash")
           ELSE Return(Replaced(n, Node(kind, Args(n))))

new_node_num == Calling("num") /\ Return(Append(values, Num(Current.arg)))

\* The node on top becomes the last of the vector of the node below it.
new_vector ==
    LET v == values[Len(values) - 1]
    IN  /\ Calling("append")
        /\ Return(Replaced(2, [v EXCEPT !.tree.kids = Append(@, Top.tree)]))

Swap == Calling("swap") /\ Return(Below(2) \o Reverse(Args(2)))

Drop == Calling("drop") /\ Return(Below(1))

-----------------------------------------------------------------------------
(* Expressions. *)

OperatorCalls_Bug(l, lo) ==
    <<unary_expr>> \o Waiting(Len(Levels), l)
        \o (IF Now \in {">", ">="} THEN <<Call("swap", 0)>> ELSE <<>>)
        \o <<node(Levels[l][Now], 2)>> \o Waiting(l, lo)

\* The right operand is of the next level, and > and >= are < and <= turned round.
OperatorCalls(l, lo) ==
    <<unary_expr>> \o Waiting(Len(Levels), l + 1)
        \o (IF Now \in {">", ">="} THEN <<Call("swap", 0)>> ELSE <<>>)
        \o <<node(Levels[l][Now], 2)>> \o Waiting(l, lo)

\* logicalOr_expr() to multiplicative_expr(), behind their first operand.
operators ==
    LET hi == Current.arg[1]
        lo == Current.arg[2]
    IN  /\ Calling("operators")
        /\ IF \E l \in lo..hi : Now \in DOMAIN Levels[l]
           THEN \E l \in lo..hi : Now \in DOMAIN Levels[l] /\ Accept(OperatorCalls(l, lo))
           ELSE Do(<<>>)

\* assign_expr() from its k-th test on.
assign ==
    LET found == {k \in Current.arg..Len(AssignOps) : AssignOps[k] = Now}
    IN  /\ Calling("assign")
        /\ IF found = {} THEN Do(<<>>)
           ELSE \E k \in found :
                   Accept(assign_expr \o <<node(AssignKinds[k], 2), Call("assign", k + 1)>>)

\* -x is 0 - x, ++x is x += 1.
ZeroMinus == "+" :> "ND_ADD" @@ "-" :> "ND_SUB" @@ "!" :> "ND_EQUALTO"
OfAddress == "&" :> "ND_ADDR" @@ "*" :> "ND_DEREF"
Step == "++" :> "ND_ASSIGN_ADD" @@ "--" :> "ND_ASSIGN_SUB"

\* unary_expr() and the look-ahead of sizeof.
Unary ==
    /\ Calling("unary_expr")
    /\ CASE Now \in DOMAIN ZeroMinus ->
              Push(<<unary_expr, node(ZeroMinus[Now], 2)>>, Num("0"))
         [] Now \in DOMAIN OfAddress -> Accept(<<unary_expr, node(OfAddress[Now], 1)>>)
         [] Now \in DOMAIN Step -> Accept(<<unary_expr, Const("1"), node(Step[Now], 2)>>)
         [] Now = "sizeof" -> Accept(<<Call("operand of sizeof", 0)>>)
         [] OTHER -> Do(<<Call("primary_expr", 0), postfix_expr>>)

sizeof ==
    /\ Calling("operand of sizeof")
    /\ IF Now = "(" THEN Accept(<<typeSpec(""), Call("typeName", token)>>)
       ELSE Do(<<unary_expr, Call("sizeof", 0)>>)

typeName_Bug ==
    /\ Calling("typeName")
    /\ IF Top.type = NULL
       THEN Go(<<unary_expr, Call("sizeof", 0)>>, token, Below(1))
       ELSE Go(<<Call("pointer", 0), Call("array", 0), expect(")"), Call("sizeof", 0)>>,
               token, values)
    /\ UNCHANGED identifiers

\* Without a type the cursor goes back to the parenthesis.
typeName ==
    /\ Calling("typeName")
    /\ IF Top.type = NULL
       THEN Go(<<unary_expr, Call("sizeof", 0)>>, Current.arg, Below(1))
       ELSE Go(<<Call("pointer", 0), Call("array", 0), expect(")"), Call("sizeof", 0)>>,
               token, values)
    /\ UNCHANGED identifiers

sizeofType ==
    /\ Calling("sizeof")
    /\ IF Top.type = NULL THEN Fail("crash") ELSE Return(Replaced(1, Num("sizeof")))

\* A call overwrites the kind and the vector of the node in front of it; other
\* operands that it had are no longer looked at.
postfix ==
    /\ Calling("postfix_expr")
    /\ CASE Now = "++" ->
              Accept(<<Const("1"), node("ND_ASSIGN_ADD", 2), Const("1"), node("ND_SUB", 2),
                       postfix_expr>>)
         [] Now = "--" ->
              Accept(<<Const("1"), node("ND_ASSIGN_SUB", 2), Const("1"), node("ND_ADD", 2),
                       postfix_expr>>)
         [] Now = "[" ->
              Accept(expr \o <<node("ND_ADD", 2), node("ND_DEREF", 1), expect("]"),
                               postfix_expr>>)
         [] Now = "(" ->
              /\ Go(<<Call("list of", "expr"), postfix_expr>>, token + 1,
                    Replaced(1, Value(Tree("ND_FUNCCALL", Top.tree.name, <<>>), Top.type)))
              /\ UNCHANGED identifiers
         [] OTHER -> Do(<<>>)

IdentNode(i) ==
    Value(Tree(CASE i.kind = "LVAR" -> "ND_LVAR"
                 [] i.kind = "GVAR" -> "ND_GVAR"
                 [] OTHER -> "ND_FUNCCALL", i.name, <<>>), i.type)

\* A name that is not known is a function if a parenthesis follows.
PrimaryName ==
    /\ Calling("primary_expr")
    /\ Now \in Idents
    /\ IF find_identifier(Now) # 0
       THEN Push(<<>>, IdentNode(identifiers[find_identifier(Now)]))
       ELSE Accept(<<Call("unknown", Now)>>)

Unknown ==
    /\ Calling("unknown")
    /\ IF Now = "("
       THEN /\ identifiers' = Append(identifiers, Identifier("ND_FUNCCALL", Current.arg, INT))
            /\ Go(<<>>, token, Append(values, Value(Tree("ND_LVAR", Current.arg, <<>>), INT)))
       ELSE Fail("parseError")

primary_expr ==
    /\ Calling("primary_expr")
    /\ Now \notin Idents
    /\ CASE Now = "(" -> Accept(expr \o <<expect(")")>>)
         [] Now = String -> Push(<<>>, Value(Tree("ND_STRING", "", <<>>), <<"ARRAY", "INT">>))
         [] Now \in {Number, Character} -> Push(<<>>, Num(Now))
         [] OTHER -> Fail("error_at")

-----------------------------------------------------------------------------
(* Declarations. *)

TypeSpec ==
    /\ Calling("typeSpec")
    /\ IF Now = "int" THEN Push(<<>>, Type(INT)) ELSE Return(Append(values, None))

Pointer ==
    /\ Calling("pointer")
    /\ IF Now = "*"
       THEN /\ Go(<<Current>>, token + 1, Replaced(1, Type(PtrTo(Top.type))))
            /\ UNCHANGED identifiers
       ELSE Do(<<>>)

declaration_array ==
    /\ Calling("array")
    /\ IF Now = "["
       THEN /\ Go(<<expect(Number), expect("]"), Current>>, token + 1,
                  Replaced(1, Type(<<"ARRAY">> \o Top.type)))
            /\ UNCHANGED identifiers
       ELSE Do(<<>>)

\* declarator() behind the asterisks: the name may be missing.
Name ==
    /\ Calling("name")
    /\ IF Now \in Idents
       THEN Accept(<<Call("array", 0), Call("new_identifier", <<Current.arg, Now>>)>>)
       ELSE Do(<<Call("array", 0), Call("new_identifier", <<Current.arg, "">>)>>)

\* An identifier without a name is not put into the list.
new_identifier ==
    LET kind == Current.arg[1]
        name == Current.arg[2]
    IN  /\ Calling("new_identifier")
        /\ Go(<<>>, token, Replaced(1, Value(Tree(kind, name, <<>>), Top.type)))
        /\ identifiers' = IF name = "" THEN identifiers
                          ELSE Append(identifiers, Identifier(kind, name, Top.type))

Declaration ==
    /\ Calling("declaration")
    /\ IF Top.type = NULL THEN Return(Replaced(1, Node("ND_DECLARATION", <<>>)))
       ELSE Do(declarator(Current.arg) \o <<Call("end of declaration", Current.arg)>>)

DeclarationEnd ==
    /\ Calling("end of declaration")
    /\ CASE Current.arg # "ND_GVARDEFINE" /\ Now = "=" ->
              Accept(<<Call("initializer", 0), consume({";"})>>)
         [] Current.arg # "ND_GVARDEFINE" /\ Now = ";" -> Accept(<<node("ND_SINGLESTMT", 1)>>)
         [] OTHER -> Do(<<consume({";"})>>)

\* The i-th element of the array on top of the list of values gets a value.
Element(i, v) ==
    LET double   == values[Len(values) - 1].tree
        variable == double.kids[1].kids[1]
        place    == Tree("ND_DEREF", "", <<Tree("ND_ADD", "", <<variable, Num(i).tree>>)>>)
    IN  Tree("ND_SINGLESTMT", "", <<Tree("ND_ASSIGN_EQ", "", <<place, v>>)>>)

\* The declared node on top becomes the first of the list of statements that
\* initialise it.  A string in an array is its character and a 0.
initializer ==
    LET single == Tree("ND_SINGLESTMT", "", <<Top.tree>>)
        double == Value(Tree("ND_DOUBLESTMT", "", <<single>>), NULL)
        chars  == IsArray(Top.type) /\ Now = String
    IN  /\ Calling("initializer")
        /\ CASE Now = "{" -> Go(<<list(0)>>, token + 1, Replaced(1, double))
             [] chars -> Go(<<Const("c"), Call("element", "0"), Const("0"), Call("element", "1")>>,
                            token + 1, Replaced(1, double))
             [] OTHER -> Go(assign_expr \o <<Call("element", "")>>, token, Replaced(1, double))
        /\ UNCHANGED identifiers

\* The value on top is assigned to an element, or to the variable itself.
element ==
    LET double   == values[Len(values) - 1].tree
        assigned == Tree("ND_SINGLESTMT", "",
                         <<Tree("ND_ASSIGN_EQ", "", <<double.kids[1].kids[1], Top.tree>>)>>)
        added    == IF Current.arg = "" THEN assigned ELSE Element(Current.arg, Top.tree)
    IN  /\ Calling("element")
        /\ Return(Replaced(2, Value([double EXCEPT !.kids = Append(@, added)], NULL)))

initializer_list ==
    /\ Calling("list")
    /\ IF Now = "}" THEN Accept(<<>>)
       ELSE Do(assign_expr \o <<Call("element", ToString(Current.arg)),
                                Call("next of list", Current.arg + 1)>>)

initializer_next ==
    /\ Calling("next of list")
    /\ IF Now = "," THEN Accept(<<list(Current.arg)>>) ELSE Do(<<expect("}")>>)

\* paramList() and the parameters of funcDefine(), behind the parenthesis.
Items(kind) == IF kind = "expr" THEN expr ELSE declaration("ND_LVAR")

paramList ==
    /\ Calling("list of")
    /\ IF Now = ")" THEN Accept(<<>>)
       ELSE Do(Items(Current.arg) \o <<append, Call("more of", Current.arg)>>)

paramList_next ==
    /\ Calling("more of")
    /\ IF Now = ","
       THEN Accept(Items(Current.arg) \o <<append, Current>>)
       ELSE Do(<<expect(")")>>)

-----------------------------------------------------------------------------
(* Statements. *)

Stmt ==
    LET condition == <<expect("(")>> \o expr \o <<expect(")")>>
    IN  /\ Calling("stmt")
        /\ CASE Now = "int" -> Do(declaration("ND_LVAR"))
             [] Now = "return" -> Accept(<<Call("value of return", 0)>>)
             [] Now = "if" -> Accept(condition \o <<stmt, node("ND_IF", 2), Call("else", 0)>>)
             [] Now = "switch" -> Accept(condition \o <<stmt, node("ND_SWITCH", 2)>>)
             [] Now = "case" ->
                  Accept(conditional_expr \o <<expect(":"), stmt, node("ND_CASE", 2)>>)
             [] Now = "default" -> Accept(<<expect(":"), stmt, node("ND_DEFAULT", 1)>>)
             [] Now = "while" -> Accept(condition \o <<stmt, node("ND_WHILE", 2)>>)
             [] Now = "for" -> Accept(<<expect("("), Call("first of for", 0)>>)
             [] Now = "{" -> Accept(<<node("ND_BLOCK", 0), block>>)
             [] Now = ";" -> Push(<<node("ND_SINGLESTMT", 1)>>, Num("1"))
             [] OTHER -> Do(expr \o <<expect(";"), node("ND_SINGLESTMT", 1)>>)

return ==
    /\ Calling("value of return")
    /\ IF Now = ";" THEN Accept(<<node("ND_RETURN", 0)>>)
       ELSE Do(expr \o <<node("ND_RETURN", 1), expect(";")>>)

else_Bug ==
    /\ Calling("else")
    /\ IF Now = "else" THEN Accept(<<stmt, Call("swap", 0), node("ND_ELSE", 2)>>) ELSE Do(<<>>)

else ==
    /\ Calling("else")
    /\ IF Now = "else" THEN Accept(<<stmt, node("ND_ELSE", 2)>>) ELSE Do(<<>>)

for_first ==
    /\ Calling("first of for")
    /\ CASE Now = ";" -> Push(<<Call("second of for", FALSE)>>, None)
         [] Now = "int" -> Do(declaration("ND_LVAR") \o <<Call("second of for", TRUE)>>)
         [] OTHER -> Do(expr \o <<expect(";"), Call("second of for", FALSE)>>)

\* Without a condition the loop has the condition 1.
for_second ==
    LET third == Call("third of for", Current.arg)
    IN  /\ Calling("second of for")
        /\ IF Now = ";" THEN Push(<<third>>, Num("1")) ELSE Do(expr \o <<expect(";"), third>>)

for_third ==
    LET rest == <<stmt, Call("for", Current.arg)>>
    IN  /\ Calling("third of for")
        /\ IF Now = ")" THEN Push(rest, None) ELSE Do(expr \o <<expect(")")>> \o rest)

\* A declaration becomes a block with the declaration and the loop.
for ==
    LET parts == [i \in 1..4 |-> Args(4)[i].tree]
        loop(first) == Tree("ND_FOR", "", <<first>> \o Tail(parts))
        tree  == IF Current.arg
                 THEN Tree("ND_BLOCK", "", <<parts[1], loop(None.tree)>>)
                 ELSE loop(parts[1])
    IN  Calling("for") /\ Return(Replaced(4, Value(tree, NULL)))

Block ==
    /\ Calling("block")
    /\ IF Now = "}" THEN Accept(<<>>) ELSE Do(<<stmt, append, block>>)

-----------------------------------------------------------------------------
(* The functions and variables of a file. *)

funcPrototype ==
    <<typeSpec("")>> \o declarator("ND_FUNCDECLARATION")
        \o <<expect("("), expect(")"), expect(";"), drop, node("ND_DECLARATION", 0)>>

funcDefine ==
    <<typeSpec("")>> \o declarator("ND_FUNCDEFINE") \o <<Call("parameters", 0)>>

\* The body has at least one statement, and a return is added at its end.
Parameters ==
    /\ Calling("parameters")
    /\ IF Now = "("
       THEN Accept(<<Call("list of", "declaration"), expect("{"), node("ND_BLOCK", 0), stmt,
                     append, block, Call("return", 0), append>>)
       ELSE Fail("parseError")

LastReturn ==
    LET last == Last(Top.tree.kids)
    IN  /\ Calling("return")
        /\ IF last.kind = "ND_RETURN" THEN Do(<<>>)
           ELSE Do(<<node("ND_RETURN", 0), append>>)

Program_Bug ==
    /\ Calling("program")
    /\ IF Now = EOF THEN Fail(IF Len(code) < CodeSize THEN "done" ELSE "undefined")
       ELSE IF Len(code) > CodeSize THEN Fail("assert")
       ELSE Do(<<typeSpec(""), drop, Call("consume all", "*"), consume(Idents),
                 Call("function", token)>>)

Program_Twice_Bug ==
    /\ Calling("program")
    /\ IF Now = EOF THEN Fail(IF Len(code) < CodeSize THEN "done" ELSE "undefined")
       ELSE IF Len(code) = CodeSize THEN Fail("assert")
       ELSE Do(<<typeSpec("")>> \o declarator("ND_GVARDEFINE")
                 \o <<drop, Call("function", token)>>)

\* program() reads ahead to what stands behind the name.  The NULL behind the
\* last tree has no room in a code[] that is full.
Program ==
    /\ Calling("program")
    /\ IF Now = EOF THEN Fail(IF Len(code) < CodeSize THEN "done" ELSE "undefined")
       ELSE IF Len(code) = CodeSize THEN Fail("assert")
       ELSE Do(<<typeSpec(""), drop, Call("consume all", "*"), consume(Idents),
                 Call("function", token)>>)

\* back_token(), and the function that the declaration is left to.
Back(calls, k) == Go(calls \o <<Call("code", 0)>>, k, values) /\ UNCHANGED identifiers

Function ==
    /\ Calling("function")
    /\ IF Now = "(" THEN Accept(<<consume({")"}), Call("prototype", Current.arg)>>)
       ELSE Back(declaration("ND_GVARDEFINE"), Current.arg)

Prototype ==
    /\ Calling("prototype")
    /\ IF Now = ";" THEN Back(funcPrototype, Current.arg) ELSE Back(funcDefine, Current.arg)

Code ==
    /\ Calling("code")
    /\ code' = Append(code, Top.tree)
    /\ agenda' = <<program>>
    /\ values' = <<>>
    /\ UNCHANGED <<text, tokens, token, identifiers, status>>

-----------------------------------------------------------------------------
Init ==
    /\ text \in Texts
    /\ tokens = <<>>
    /\ token = 1
    /\ agenda = <<program>>
    /\ values = <<>>
    /\ identifiers = <<>>
    /\ code = <<>>
    /\ status = "parsing"

Ended == ~Running /\ UNCHANGED vars

Parse ==
    \/ Lex \/ Expect \/ Consume \/ ConsumeAll
    \/ new_node \/ new_node_num \/ new_vector \/ Swap \/ Drop
    \/ operators \/ assign \/ Unary \/ sizeof \/ typeName \/ sizeofType \/ postfix
    \/ PrimaryName \/ Unknown \/ primary_expr
    \/ TypeSpec \/ Pointer \/ declaration_array \/ Name \/ new_identifier
    \/ Declaration \/ DeclarationEnd
    \/ initializer \/ element \/ initializer_list \/ initializer_next
    \/ paramList \/ paramList_next
    \/ Stmt \/ return \/ else \/ for_first \/ for_second \/ for_third \/ for \/ Block
    \/ Parameters \/ LastReturn \/ Program \/ Function \/ Prototype \/ Code

Next == Parse \/ Ended

\* The parser is a sequential program: nothing keeps it from its next step.
Spec == Init /\ [][Next]_vars /\ WF_vars(Parse)

-----------------------------------------------------------------------------
Statuses == {"parsing", "done", "error_at", "parseError", "assert", "crash", "undefined"}

Pairs == {"append", "swap", "element"}
Operands ==
    [d \in Pairs \cup {"for", "drop", "sizeof", "new_identifier", "declaration", "typeName", "return",
                       "code"} |->
        IF d = "for" THEN 4 ELSE IF d \in Pairs THEN 2 ELSE 1]

\* The cursor stays within the tokens, code[] within its bounds (parse.c:382),
\* and a call finds as many results as it uses (the C calls get them as
\* arguments and locals).
TypeOK ==
    /\ text \in Texts
    /\ token \in 1..Len(tokens) + 1
    /\ Len(code) <= CodeSize
    /\ status \in Statuses
    /\ \A i \in DOMAIN identifiers :
          /\ identifiers[i].name \in Idents
          /\ identifiers[i].kind \in {"LVAR", "GVAR", "FUNC"}
    /\ Running =>
          /\ agenda # <<>>
          /\ Current.do = "node" => Len(values) >= Current.arg[2]
          /\ Current.do \in DOMAIN Operands => Len(values) >= Operands[Current.do]

\* The compiler comes to an end with every program: with the trees, with an
\* error, or at the assertion of program(), which alone ends it where neither
\* program() nor declaration() gets on (parse.c:381).
ParsingEnds == <>~Running
=============================================================================
