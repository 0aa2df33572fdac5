------------------------------ MODULE MCTokenizer ------------------------------
(* An instance of Tokenizer for TLC. *)
EXTENDS Tokenizer, TLC

Texts(chars, n) == UNION {[1..k -> chars] : k \in 0..n}

\* One or two characters of every class.
Mixed == {"i", "f", "n", "1", "=", "/", Quote, Backslash, Apostrophe, " ", "@"}
\* Words and numbers, ...
Wordy == {"i", "f", "N", "1", "+"}
\* ... comments and strings, ...
Nested == {"/", "*", Quote, Backslash, Newline}
\* ... and errors on several lines, also on one of 127 characters and on the line
\* behind it.
Lined == {"'", "n", Backslash, Newline, "@"}
Long == [i \in 1..126 |-> "i"]
Longs == {Long, Long \o <<Newline, "1">>, Long \o <<"i", Newline, "@">>,
          <<"@">> \o Long, <<Newline>> \o Long \o <<Newline, " ", "@">>}

MCCharacters == Mixed \cup Wordy \cup Nested \cup Lined
MCFiles == Texts(Mixed, 4) \cup Texts(Wordy, 4) \cup Texts(Nested, 6)
           \cup Texts(Lined, 5) \cup Longs

MCEscapes == ("n" :> Newline) @@ (Quote :> Quote) @@ (Apostrophe :> Apostrophe)
             @@ (Backslash :> Backslash)
MCSpaces == {" ", Newline}
MCKeywords == {<<"i", "f">>}
MCNullWord == <<"N">>
MCLongOps == {<<"=", "=">>, <<"+", "=">>, <<"+", "+">>, <<"/", "=">>, <<"*", "=">>}
=============================================================================
