------------------------------- MODULE Tokenizer -------------------------------
(***************************************************************************)
(* tokenize.c and read_file() of main.c: the text of the program, the      *)
(* table of its lines, the list of tokens, and the report of an error at a *)
(* token.  One round of the for loop of tokenize() is an action; the loops *)
(* in it that look for the end of a comment or of a string are actions of  *)
(* their own, one per character.                                           *)
(*                                                                         *)
(* A character is a string of length 1 and an address is an index of       *)
(* user_input.  The value of a number or character token is left out.      *)
(***************************************************************************)
EXTENDS Integers, Sequences, FiniteSets

CONSTANTS
    Characters,                \* all but the NUL
    Files,                     \* the contents a source file may have
    Letters, Digits, Spaces,   \* isalpha, isdigit, isspace
    Escapes,                   \* 'c' for '\c': a function on characters
    Keywords, NullWord,        \* words: sequences of characters
    LongOps, ShortOps,         \* operators of two characters, and of one
    PROGRAM_LINE

Newline == "\n"
Quote == "\""
Apostrophe == "'"
Backslash == "\\"
NUL == "NUL"

Alnum == Letters \cup Digits \cup {"_"}

ASSUME CharactersAssumption == Newline \in Characters /\ NUL \notin Characters
ASSUME FilesAssumption == \A f \in Files : f \in Seq(Characters)
ASSUME WordsAssumption ==
    \A w \in Keywords \cup {NullWord} : w \in Seq(Letters) /\ w # <<>>
ASSUME OpsAssumption == \A w \in LongOps : Len(w) = 2 /\ w \in Seq(ShortOps \cup {"|"})
ASSUME ClassesAssumption ==
    /\ Newline \in Spaces
    /\ Alnum \cap Spaces = {}
    /\ Letters \cap (Digits \cup {"_"}) = {}
    /\ ShortOps \cap (Alnum \cup Spaces) = {}
    /\ {Quote, Apostrophe, Backslash, NUL, "|"} \cap (Alnum \cup Spaces \cup ShortOps) = {}
    /\ "_" \notin Digits
    /\ "/" \in ShortOps
ASSUME EscapesAssumption ==
    \A c \in DOMAIN Escapes : c \in Characters \ {Newline} /\ Escapes[c] \in Characters
ASSUME LineAssumption == PROGRAM_LINE \in Nat \ {0, 1}

VARIABLES
    source,      \* what read_file() read
    user_input,  \* the same, with the escapes of character literals replaced
    row,         \* where the line that is measured starts
    charPoint,   \* the lengths of the lines so far, the others are 0
    p,           \* where the round of the loop started
    q,           \* how far the loop inside the round has looked
    mode,        \* which loop is running, or how the reading ended
    tokens,
    report       \* what error_at() has printed

vars == <<source, user_input, row, charPoint, p, q, mode, tokens, report>>

Kinds == {"TK_RESERVED", "TK_IDENT", "TK_KEYWORD", "TK_NUM", "TK_STRING",
          "TK_CHARACTER", "TK_EOF", "TK_ERROR"}
Loops == {"lines", "scan", "line comment", "block comment", "quoted", "string"}
Ends == {"done", "error", "exit", "overrun"}

\* A file without a new line at its end gets one.
read_file(file) ==
    IF file = <<>> \/ file[Len(file)] # Newline THEN Append(file, Newline) ELSE file

End == Len(user_input) + 1   \* where the NUL is

At(i) == IF i < End THEN user_input[i] ELSE NUL

\* strncmp(p, w, len) = 0
StartsWith(i, w) == \A k \in DOMAIN w : At(i + k - 1) = w[k]

Comment == StartsWith(p, <<"/", "/">>) \/ StartsWith(p, <<"/", "*">>)

\* The word is not the beginning of a longer name.
IsWord_Bug(w) == StartsWith(p, w)
IsWord(w) == StartsWith(p, w) /\ At(p + Len(w)) \notin Alnum

Reserved == \E w \in Keywords \cup {NullWord} : IsWord(w)

\* The first position from i on that is not of the class.
RunEnd(i, class) ==
    CHOOSE j \in i..End : At(j) \notin class /\ \A k \in i..(j - 1) : At(k) \in class

Token(kind, i, len) == [kind |-> kind, str |-> i, len |-> len]

\* charPoint is an array of char.
AsChar(n) == ((n + 128) % 256) - 128

NoReport == [loc |-> 0, line |-> 0, row |-> 0]

Init ==
    /\ \E file \in Files : source = read_file(file)
    /\ user_input = source
    /\ row = 1
    /\ charPoint = <<>>
    /\ p = 1
    /\ q = 1
    /\ mode = "lines"
    /\ tokens = <<>>
    /\ report = NoReport

-----------------------------------------------------------------------------
(* The first loop of tokenize(): the lengths of the lines. *)

Length_Bug(n) == n - row
Length(n) == n - row + 1

\* The next line starts one too late.
MeasureLine_Bug ==
    /\ mode = "lines"
    /\ \E n \in row..Len(user_input) :
          /\ user_input[n] = Newline
          /\ \A k \in row..(n - 1) : user_input[k] # Newline
          /\ row' = n + 2
          /\ IF Len(charPoint) + 1 < PROGRAM_LINE
             THEN charPoint' = Append(charPoint, AsChar(Length(n))) /\ UNCHANGED mode
             ELSE mode' = "overrun" /\ UNCHANGED charPoint
    /\ UNCHANGED <<source, user_input, p, q, tokens, report>>

MeasureLine ==
    /\ mode = "lines"
    /\ \E n \in row..Len(user_input) :
          /\ user_input[n] = Newline
          /\ \A k \in row..(n - 1) : user_input[k] # Newline
          /\ row' = n + 1
          /\ IF Len(charPoint) + 1 < PROGRAM_LINE
             THEN /\ charPoint' = Append(charPoint, AsChar(Length(n)))
                  /\ UNCHANGED mode
             ELSE mode' = "overrun" /\ UNCHANGED charPoint
    /\ UNCHANGED <<source, user_input, p, q, tokens, report>>

StartScan ==
    /\ mode = "lines"
    /\ row = End
    /\ mode' = "scan"
    /\ UNCHANGED <<source, user_input, row, charPoint, p, q, tokens, report>>

-----------------------------------------------------------------------------
(* The second loop. *)

Round == mode = "scan" /\ p < End

\* new_token(), and the place where the next round starts.
new_token_Bug(kind, i, len, next) ==
    /\ tokens' = Append(tokens, Token(kind, i, len))
    /\ p' = IF len = 0 THEN next ELSE next - 1
    /\ UNCHANGED <<source, row, charPoint, q, report>>

new_token(kind, i, len, next) ==
    /\ tokens' = Append(tokens, Token(kind, i, len))
    /\ p' = next
    /\ UNCHANGED <<source, row, charPoint, q, report>>

skip_space_Bug ==
    /\ Round
    /\ At(p) \in Spaces
    /\ UNCHANGED vars

skip_space ==
    /\ Round
    /\ At(p) \in Spaces
    /\ p' = p + 1
    /\ UNCHANGED <<source, user_input, row, charPoint, q, mode, tokens, report>>

\* An inner loop starts, or goes on: nothing changes but how far it has looked.
Look(loop, i) ==
    /\ mode' = IF i > End THEN "overrun" ELSE loop
    /\ q' = i
    /\ UNCHANGED <<source, user_input, row, charPoint, p, tokens, report>>

\* The text from p to q - 1 has been skipped.
Resume(next) ==
    /\ mode' = "scan"
    /\ p' = next
    /\ UNCHANGED <<source, user_input, row, charPoint, q, tokens, report>>

open_line_comment == Round /\ StartsWith(p, <<"/", "/">>) /\ Look("line comment", p + 2)

line_comment ==
    /\ mode = "line comment"
    /\ IF At(q) = Newline THEN Resume(q) ELSE Look("line comment", q + 1)

open_block_comment == Round /\ StartsWith(p, <<"/", "*">>) /\ Look("block comment", p + 1)

\* The body of the do loop and the test at its end.
block_comment ==
    /\ mode = "block comment"
    /\ IF At(q + 1) = Quote THEN Look("quoted", q + 1)
       ELSE IF StartsWith(q + 1, <<"*", "/">>) THEN Resume(q + 3)
       ELSE Look("block comment", q + 1)

\* A string in the comment.  Behind its quote the test of the do loop fails.
quoted ==
    /\ mode = "quoted"
    /\ IF At(q + 1) = Quote THEN Look("block comment", q + 1)
       ELSE IF At(q + 1) = Backslash THEN Look("quoted", q + 2)
       ELSE Look("quoted", q + 1)

null_word ==
    /\ Round
    /\ IsWord(NullWord)
    /\ new_token("TK_NUM", p, Len(NullWord), p + Len(NullWord))
    /\ UNCHANGED <<user_input, mode>>

keyword ==
    /\ Round
    /\ ~IsWord(NullWord)
    /\ \E w \in Keywords : IsWord(w) /\ new_token("TK_KEYWORD", p, Len(w), p + Len(w))
    /\ UNCHANGED <<user_input, mode>>

IsLongOp == ~Comment /\ \E w \in LongOps : StartsWith(p, w)

long_operator ==
    /\ Round
    /\ IsLongOp
    /\ new_token("TK_RESERVED", p, 2, p + 2)
    /\ UNCHANGED <<user_input, mode>>

short_operator ==
    /\ Round
    /\ ~Comment /\ ~IsLongOp
    /\ At(p) \in ShortOps
    /\ new_token("TK_RESERVED", p, 1, p + 1)
    /\ UNCHANGED <<user_input, mode>>

open_string == Round /\ At(p) = Quote /\ Look("string", p + 1)

string_Bug ==
    /\ mode = "string"
    /\ IF At(q) = Quote
       THEN /\ new_token("TK_STRING", p + 1, q - p - 1, q + 1)
            /\ mode' = "scan"
            /\ user_input' = [i \in DOMAIN user_input |->
                  IF i \in (p + 2)..(q - 1) /\ At(i - 1) = Backslash /\ At(i) \in DOMAIN Escapes
                  THEN Escapes[At(i)] ELSE At(i)]
       ELSE Look("string", IF At(q) = Backslash THEN q + 2 ELSE q + 1)

\* The escapes of a string are left to the assembler.
string ==
    /\ mode = "string"
    /\ IF At(q) = Quote
       THEN /\ new_token("TK_STRING", p + 1, q - p - 1, q + 1)
            /\ mode' = "scan"
            /\ UNCHANGED user_input
       ELSE Look("string", IF At(q) = Backslash THEN q + 2 ELSE q + 1)

\* 'c' and '\c': the escape is replaced in the text.  The character behind c is
\* skipped whatever it is.
character ==
    LET escape == At(p + 1) = Backslash
        c      == IF escape THEN p + 2 ELSE p + 1
    IN  /\ Round
        /\ At(p) = Apostrophe
        /\ IF escape /\ At(c) \notin DOMAIN Escapes
           THEN /\ mode' = "exit"
                /\ UNCHANGED <<source, user_input, row, charPoint, p, q, tokens, report>>
           ELSE IF c + 2 > End
           THEN Look("overrun", c + 2)
           ELSE /\ new_token("TK_CHARACTER", c, 1, c + 2)
                /\ user_input' = IF escape
                                 THEN [user_input EXCEPT ![c] = Escapes[user_input[c]]]
                                 ELSE user_input
                /\ UNCHANGED mode

identifier ==
    /\ Round
    /\ ~Reserved
    /\ At(p) \in Letters \cup {"_"}
    /\ LET next == RunEnd(p + 1, Alnum) IN new_token("TK_IDENT", p, next - p, next)
    /\ UNCHANGED <<user_input, mode>>

number ==
    /\ Round
    /\ At(p) \in Digits
    /\ new_token("TK_NUM", p, 0, RunEnd(p, Digits))
    /\ UNCHANGED <<user_input, mode>>

end_of_file ==
    /\ mode = "scan"
    /\ p = End
    /\ new_token("TK_EOF", p, 0, p)
    /\ mode' = "done"
    /\ UNCHANGED user_input

-----------------------------------------------------------------------------
(* error_at(): the line is found by adding up the lengths of the lines. *)

charTotal[l \in Nat] ==
    IF l = 0 THEN 0
    ELSE charTotal[l - 1] + (IF l \in DOMAIN charPoint THEN charPoint[l] ELSE 0)

\* If no line reaches the address, what is printed was never set.
error_at(loc) ==
    LET Reached == {l \in 1..(PROGRAM_LINE - 1) : loc <= charTotal[l]}
    IN  IF Reached = {} THEN [loc |-> loc, line |-> PROGRAM_LINE, row |-> 0]
        ELSE LET line == CHOOSE l \in Reached : \A k \in Reached : l <= k
             IN  [loc |-> loc, line |-> line, row |-> loc - charTotal[line - 1]]

\* No rule applies.
bad_character ==
    /\ Round
    /\ ~Comment /\ ~IsLongOp
    /\ At(p) \notin Spaces \cup Alnum \cup ShortOps \cup {Quote, Apostrophe}
    /\ tokens' = Append(tokens, Token("TK_ERROR", p, 1))
    /\ report' = error_at(p)
    /\ mode' = "error"
    /\ UNCHANGED <<source, user_input, row, charPoint, p, q>>

\* The parser meets a token it does not expect.
expect ==
    /\ mode = "done"
    /\ report = NoReport
    /\ \E t \in DOMAIN tokens : report' = error_at(tokens[t].str)
    /\ UNCHANGED <<source, user_input, row, charPoint, p, q, mode, tokens>>

tokenize ==
    \/ MeasureLine \/ StartScan
    \/ skip_space
    \/ open_line_comment \/ line_comment
    \/ open_block_comment \/ block_comment \/ quoted
    \/ null_word \/ keyword
    \/ long_operator \/ short_operator
    \/ open_string \/ string
    \/ character
    \/ identifier \/ number
    \/ end_of_file
    \/ bad_character

Stopped == mode \in Ends /\ UNCHANGED vars

Next == tokenize \/ expect \/ Stopped

\* tokenize() is called once and runs by itself.
Fairness == WF_vars(tokenize)

Spec == Init /\ [][Next]_vars /\ Fairness

-----------------------------------------------------------------------------
(* Properties. *)

TypeOK ==
    /\ source \in Seq(Characters)
    /\ user_input \in Seq(Characters) /\ Len(user_input) = Len(source)
    /\ row \in 1..End
    /\ charPoint \in Seq(-128..127) /\ Len(charPoint) < PROGRAM_LINE
    /\ p \in 1..End
    /\ q \in Nat
    /\ mode \in Loops \cup Ends
    /\ tokens \in Seq([kind : Kinds, str : 1..End, len : Nat])
    /\ report.loc \in 0..End /\ report.line \in 0..PROGRAM_LINE

\* The tokens lie in the text, one behind the other: what one of them points to
\* is no part of another, whatever has been skipped or replaced in between.
TokensInOrder ==
    /\ \A t \in DOMAIN tokens : tokens[t].str + tokens[t].len <= End
    /\ \A t, u \in DOMAIN tokens :
          t < u => tokens[t].str + tokens[t].len <= tokens[u].str

\* A token still has the spelling it has in the file, where the parser will compare
\* it: the escapes that tokenize() replaces in its own input (tokenize.c:201-216)
\* lie in character literals and nowhere else.
SpellingKept ==
    \A t \in DOMAIN tokens :
        tokens[t].kind # "TK_CHARACTER" =>
            \A i \in tokens[t].str..(tokens[t].str + tokens[t].len - 1) :
                user_input[i] = source[i]

\* Every line, its new line included, is shorter than charPoint can count.
LinesFit ==
    \A i \in 1..(Len(source) - 126) : \E k \in i..(i + 126) : source[k] = Newline

Before(i) == {k \in 1..(i - 1) : source[k] = Newline}

\* An error at any character or token before the end of the file, be it found
\* while scanning or by the parser when the text has already been changed, is
\* reported with its line and column in the file.
ReportIsTrue ==
    report # NoReport /\ report.loc < End /\ LinesFit =>
        /\ report.line = Cardinality(Before(report.loc)) + 1
        /\ Before(report.loc) = {} => report.row = report.loc
        /\ Before(report.loc) # {} =>
              report.loc - report.row \in Before(report.loc)
              /\ \A k \in Before(report.loc) : k <= report.loc - report.row

\* tokenize() reads what TokenStream promises: the order of its tests and the
\* look at the character behind a keyword make each token the longest lexeme,
\* and the text that it replaces on the way is not read again.
Promise == INSTANCE TokenStream WITH
    text <- source,
    pos <- p,
    Escapable <- DOMAIN Escapes,
    verdict <- IF mode \in Loops THEN "reading"
               ELSE IF mode = "overrun" THEN "lost" ELSE mode

ReadsAsPromised == Promise!Spec

\* The reading of every file comes to an end: no round stays where it is, and no
\* inner loop goes on behind the end of the text without being noticed.
ReadingEnds == <>(mode \in Ends)
=============================================================================
