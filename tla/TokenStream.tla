------------------------------ MODULE TokenStream ------------------------------
(***************************************************************************)
(* What the tokenizer promises of a text: the tokens are the lexemes of C  *)
(* that the text is made of, read from the left, each as long as the text  *)
(* allows, with white space and comments left out.  A lexeme is described  *)
(* by the segment of the text it covers, without any order in which the    *)
(* kinds of lexeme would be tried.                                         *)
(*                                                                         *)
(* No promise is made of a string, character or comment that is not        *)
(* closed, nor of a comment with a double quote in it: such a text may be  *)
(* Lost.                                                                   *)
(***************************************************************************)
EXTENDS Integers, Sequences, FiniteSets

CONSTANTS
    Characters,
    Letters, Digits, Spaces,   \* classes of characters
    Escapable,                 \* what may follow a backslash in 'c'
    Keywords, NullWord,        \* the reserved words, and the one for 0
    LongOps, ShortOps,         \* operators of two characters, and of one
    PROGRAM_LINE               \* a text has fewer lines

VARIABLES
    text,     \* a sequence of characters that ends with a new line
    pos,      \* where the next lexeme starts
    tokens,   \* what has been read
    verdict

Newline == "\n"
Quote == "\""
Apostrophe == "'"
Backslash == "\\"

Alnum == Letters \cup Digits \cup {"_"}

Positions == 1..Len(text)
Segment(i, j) == SubSeq(text, i, j)
Pair(i, c, d) == i + 1 \in Positions /\ text[i] = c /\ text[i + 1] = d

Token(kind, i, len) == [kind |-> kind, str |-> i, len |-> len]

-----------------------------------------------------------------------------
(* The lexemes, each as the segment from i to j. *)

Word(i, j) ==
    /\ \A k \in i..j : text[k] \in Alnum
    /\ text[i] \notin Digits

Number(i, j) == \A k \in i..j : text[k] \in Digits

Operator(i, j) == Segment(i, j) \in LongOps \cup {<<c>> : c \in ShortOps}

\* The quote or backslash at k is taken literally in the literal that i opens.
Escaped(i, k) ==
    Cardinality({h \in (i + 1)..(k - 1) :
                    \A g \in h..(k - 1) : text[g] = Backslash}) % 2 = 1

String(i, j) ==
    /\ i < j
    /\ text[i] = Quote
    /\ \A k \in (i + 1)..j : (text[k] = Quote /\ ~Escaped(i, k)) <=> k = j

\* 'c' or '\c'; which character closes it is not looked at.
Plain(i, j) == text[i] = Apostrophe /\ j = i + 2 /\ text[i + 1] # Backslash
WithEscape(i, j) ==
    text[i] = Apostrophe /\ j = i + 3 /\ text[i + 1] = Backslash /\ text[i + 2] \in Escapable

Space(i, j) == i = j /\ text[i] \in Spaces

LineComment(i, j) ==
    /\ Pair(i, "/", "/")
    /\ i < j
    /\ \A k \in i..j : text[k] # Newline

Opens(i) == Pair(i, "/", "*")
Closes(i, j) == j \in (i + 3)..Len(text) /\ Pair(j - 1, "*", "/")
QuoteIn(i, j) == \E k \in i..j : text[k] = Quote

\* Up to the first end of comment, unless there is a quote before it.
BlockComment(i, j) ==
    /\ Opens(i)
    /\ Closes(i, j)
    /\ \A k \in Positions : Closes(i, k) /\ k < j => QuoteIn(i, k)

Lexeme(i, j) ==
    \/ Word(i, j)
    \/ Number(i, j)
    \/ Operator(i, j)
    \/ String(i, j)
    \/ Plain(i, j)
    \/ WithEscape(i, j)
    \/ Space(i, j)
    \/ LineComment(i, j)

Longest(i, j) ==
    IF Opens(i) THEN BlockComment(i, j)
    ELSE Lexeme(i, j) /\ \A k \in Positions : k > j => ~Lexeme(i, k)

\* The token for the lexeme, as the parser gets it: a string without its quotes,
\* a number without its length.
TokenFor(i, j) ==
    IF Space(i, j) \/ LineComment(i, j) \/ Opens(i) THEN <<>>
    ELSE IF Word(i, j)
    THEN <<Token(CASE Segment(i, j) = NullWord -> "TK_NUM"
                   [] Segment(i, j) \in Keywords \ {NullWord} -> "TK_KEYWORD"
                   [] OTHER -> "TK_IDENT", i, j - i + 1)>>
    ELSE IF Number(i, j) THEN <<Token("TK_NUM", i, 0)>>
    ELSE IF String(i, j) THEN <<Token("TK_STRING", i + 1, j - i - 1)>>
    ELSE IF text[i] = Apostrophe THEN <<Token("TK_CHARACTER", j - 1, 1)>>
    ELSE <<Token("TK_RESERVED", i, j - i + 1)>>

Lines == Cardinality({k \in Positions : text[k] = Newline})

\* Nothing is promised of the text from i on.
Lost(i) ==
    \/ Lines >= PROGRAM_LINE
    \/ text[i] = Quote /\ \A j \in Positions : ~String(i, j)
    \/ text[i] = Apostrophe /\ \A j \in Positions : ~Plain(i, j) /\ ~WithEscape(i, j)
    \/ /\ Opens(i)
       /\ \A j \in Positions : Closes(i, j) => QuoteIn(i, j)

-----------------------------------------------------------------------------
Init ==
    /\ text \in Seq(Characters)
    /\ pos = 1
    /\ tokens = <<>>
    /\ verdict = "reading"

Reading == verdict = "reading"

Munch ==
    /\ Reading
    /\ pos \in Positions
    /\ \E j \in pos..Len(text) :
          /\ Longest(pos, j)
          /\ pos' = j + 1
          /\ tokens' = tokens \o TokenFor(pos, j)
    /\ UNCHANGED <<text, verdict>>

End ==
    /\ Reading
    /\ pos = Len(text) + 1
    /\ tokens' = Append(tokens, Token("TK_EOF", pos, 0))
    /\ verdict' = "done"
    /\ UNCHANGED <<text, pos>>

\* No lexeme starts here.
Error ==
    /\ Reading
    /\ pos \in Positions
    /\ \A j \in pos..Len(text) : ~Longest(pos, j)
    /\ ~Lost(pos)
    /\ tokens' = Append(tokens, Token("TK_ERROR", pos, 1))
    /\ verdict' = "error"
    /\ UNCHANGED <<text, pos>>

Lose ==
    /\ Reading
    /\ pos \in Positions
    /\ Lost(pos)
    /\ verdict' \in {"lost", "exit"}
    /\ UNCHANGED <<text, pos, tokens>>

Next == Munch \/ End \/ Error \/ Lose

vars == <<text, pos, tokens, verdict>>

Steps == Init /\ [][Next]_vars

\* Reading goes on until there is a verdict.
Spec == Steps /\ WF_vars(Next)
=============================================================================
