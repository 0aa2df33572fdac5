----------------------- MODULE TokenizerRefinement_proofs -----------------------
(***************************************************************************)
(* For every file, every set of words and operators and every classes of   *)
(* characters: each step of tokenize() is a step of TokenStream or none.   *)
(* That the reading comes to an end is left to the run tokenizer.          *)
(***************************************************************************)
EXTENDS Tokenizer_proofs

\* read_file() ends the text with a new line, and the lengths of the lines before row
\* have been entered.
Measured ==
    /\ source[Len(source)] = Newline
    /\ mode = "lines" => p = 1 /\ Cardinality(Newlines(row - 1)) = Len(charPoint)
    /\ mode \in Loops \ {"lines"} => Promise!Lines < PROGRAM_LINE

\* Every end of the comment up to n has a double quote before it.
Skipped(n) ==
    \A k \in 1..Len(source) : Promise!Closes(p, k) /\ k <= n => Promise!QuoteIn(p, k)

\* Escaped of TokenStream, in a text s.
EscapedIn(s, i, k) ==
    Cardinality({h \in (i + 1)..(k - 1) : \A g \in h..(k - 1) : s[g] = Backslash}) % 2 = 1

\* No quote from the opening one up to n closes the string, and n is not escaped.
Quoted(n) ==
    /\ \A k \in (p + 1)..(n - 1) : source[k] = Quote => EscapedIn(source, p, k)
    /\ ~EscapedIn(source, p, n)

\* What has been seen of a line comment, and of a block comment.
InLine(n) ==
    /\ Promise!Pair(p, "/", "/") /\ p + 2 <= n
    /\ \A k \in p..(n - 1) : source[k] # Newline

InBlock(n) == Promise!Opens(p) /\ Skipped(n + 1)

\* What the inner loops have seen from p to q.
Seen ==
    /\ mode = "line comment" => InLine(q)
    /\ mode \in {"block comment", "quoted"} => InBlock(q)
    /\ mode = "quoted" => Promise!QuoteIn(p, q)
    /\ mode = "string" => source[p] = Quote /\ Quoted(q)

RInv == Inv /\ Measured /\ Seen

Pos == 1..Len(source)

\* What a word may start with.
Starts == Letters \cup {"_"}

-----------------------------------------------------------------------------
(* The text. *)

\* What a round and its loops look at is the text of the file.
LEMMA AtIs ==
    ASSUME Inv, mode \in Loops, NEW i \in Nat, p <= i
    PROVE  /\ i \in Pos => At(i) = source[i]
           /\ i \notin Pos => At(i) = NUL
<1>1. TypeOK /\ End = Len(source) + 1 /\ Len(source) \in Nat /\ p \in Nat \ {0}
  BY EndIsNat DEF Inv, TypeOK
<1>2. ASSUME i \in Pos
      PROVE  At(i) = source[i]
  <2>1. i < End /\ i \in p..Len(source)
    BY <1>1, <1>2 DEF Pos
  <2> QED BY <2>1 DEF At, Inv, Ahead
<1>3. ASSUME i \notin Pos
      PROVE  At(i) = NUL
  <2>1. ~(i < End)
    BY <1>1, <1>3 DEF Pos
  <2> QED BY <2>1 DEF At
<1> QED BY <1>2, <1>3

\* What is not NUL is a character of the file.
LEMMA InFile ==
    ASSUME Inv, mode \in Loops, NEW i \in Nat, p <= i, At(i) # NUL
    PROVE  i \in Pos /\ At(i) = source[i]
BY AtIs

LEMMA PosFacts ==
    ASSUME Inv
    PROVE  /\ Len(source) \in Nat /\ End = Len(source) + 1
           /\ p \in Nat \ {0} /\ p <= End /\ q \in Nat
           /\ Pos \subseteq Nat /\ Promise!Positions = Pos
BY EndIsNat DEF Inv, TypeOK, Pos, Promise!Positions

\* The classes of characters.
LEMMA Classes ==
    /\ \A c \in Starts : c \notin Digits
    /\ \A c \in Alnum : /\ c \notin Spaces /\ c \notin ShortOps
                        /\ c \notin {Quote, Apostrophe, Backslash, NUL, "|", "/"}
    /\ \A c \in Spaces : /\ c \notin Alnum /\ c \notin ShortOps
                         /\ c \notin {Quote, Apostrophe, Backslash, NUL, "|", "/"}
    /\ \A c \in ShortOps : /\ c \notin Alnum /\ c \notin Spaces
                           /\ c \notin {Quote, Apostrophe, Backslash, NUL, "|"}
    /\ Newline \in Spaces /\ "/" \in ShortOps
    /\ Letters \subseteq Alnum /\ Digits \subseteq Alnum /\ Letters \subseteq Starts
    /\ Alnum = Starts \cup Digits
BY ClassesAssumption DEF Alnum, Starts

LEMMA Spellings ==
    /\ Quote # Apostrophe /\ Quote # Backslash /\ Quote # NUL /\ Quote # "|" /\ Quote # "/"
    /\ Apostrophe # Backslash /\ Apostrophe # NUL /\ Apostrophe # "|" /\ Apostrophe # "/"
    /\ Backslash # NUL /\ Backslash # Newline /\ Newline # Quote
    /\ Newline # "/" /\ Newline # "*" /\ Newline # NUL /\ Newline # Apostrophe
    /\ "/" # "*" /\ "/" # NUL /\ "/" # "|" /\ "*" # NUL /\ "*" # Quote
BY DEF Quote, Apostrophe, Backslash, NUL, Newline

-----------------------------------------------------------------------------
(* The lexemes. *)

LEMMA SegmentIs ==
    ASSUME Inv, NEW i \in Pos, NEW j \in Pos, i <= j
    PROVE  /\ Promise!Segment(i, j) \in Seq(Characters)
           /\ Len(Promise!Segment(i, j)) = j - i + 1
           /\ \A k \in 1..(j - i + 1) : Promise!Segment(i, j)[k] = source[i + k - 1]
<1>1. source \in Seq(Characters) /\ i \in Nat /\ j \in Nat /\ i \in 1..Len(source)
      /\ j \in 1..Len(source)
  BY PosFacts DEF Inv, TypeOK, Pos
<1>2. /\ SubSeq(source, i, j) \in Seq(Characters)
      /\ Len(SubSeq(source, i, j)) = j - i + 1
  BY <1>1
<1>3. \A k \in 1..(j - i + 1) : SubSeq(source, i, j)[k] = source[i + k - 1]
  BY <1>1
<1> QED BY <1>2, <1>3 DEF Promise!Segment

\* Sequences of the same length with the same elements.
LEMMA SameSeq ==
    ASSUME NEW S, NEW T, NEW a \in Seq(S), NEW b \in Seq(T), Len(a) = Len(b),
           \A k \in 1..Len(a) : a[k] = b[k]
    PROVE  a = b
OBVIOUS

\* A word or operator that the text continues with at i is a segment.
LEMMA SegmentOf ==
    ASSUME Inv, mode \in Loops, NEW i \in Nat, p <= i, NEW S, NUL \notin S, NEW w \in Seq(S),
           w # <<>>, StartsWith(i, w)
    PROVE  /\ Len(w) \in Nat \ {0} /\ i \in Pos /\ i + Len(w) - 1 \in Pos
           /\ Promise!Segment(i, i + Len(w) - 1) = w
<1> DEFINE j == i + Len(w) - 1
<1>1. Len(w) \in Nat \ {0} /\ DOMAIN w = 1..Len(w)
  OBVIOUS
<1>2. p \in Nat \ {0} /\ Len(source) \in Nat /\ End = Len(source) + 1 /\ i \in Nat \ {0}
  BY PosFacts
<1>3. i + Len(w) <= End
  BY <1>2, Fits DEF Inv
<1>4. i \in Pos /\ j \in Pos /\ i <= j /\ j - i + 1 = Len(w)
  BY <1>1, <1>2, <1>3 DEF Pos
<1>5. ASSUME NEW k \in 1..Len(w)
      PROVE  w[k] = source[i + k - 1]
  <2>1. i + k - 1 \in Pos /\ i + k - 1 \in Nat /\ p <= i + k - 1
    BY <1>1, <1>2, <1>3 DEF Pos
  <2>2. At(i + k - 1) = source[i + k - 1]
    BY <2>1, AtIs
  <2> QED BY <1>1, <2>2 DEF StartsWith
<1> DEFINE seg == Promise!Segment(i, j)
<1>6. seg \in Seq(Characters) /\ Len(seg) = Len(w)
      /\ \A k \in 1..Len(w) : seg[k] = source[i + k - 1]
  BY <1>4, SegmentIs
<1> HIDE DEF seg
<1>7. seg = w
  BY <1>5, <1>6, SameSeq
<1> QED BY <1>1, <1>4, <1>7 DEF seg

\* And the other way round.
LEMMA StartsWithSegment ==
    ASSUME Inv, mode \in Loops, NEW i \in Pos, NEW j \in Pos, p <= i, i <= j
    PROVE  StartsWith(i, Promise!Segment(i, j))
<1> DEFINE seg == Promise!Segment(i, j)
<1>1. seg \in Seq(Characters) /\ Len(seg) = j - i + 1
      /\ \A k \in 1..(j - i + 1) : seg[k] = source[i + k - 1]
  BY SegmentIs
<1> HIDE DEF seg
<1>2. DOMAIN seg = 1..(j - i + 1)
  BY <1>1
<1>3. ASSUME NEW k \in 1..(j - i + 1)
      PROVE  At(i + k - 1) = seg[k]
  <2>1. i + k - 1 \in Nat /\ p <= i + k - 1 /\ i + k - 1 \in Pos
    BY PosFacts DEF Pos
  <2> QED BY <1>1, <2>1, AtIs
<1>4. StartsWith(i, seg)
  BY <1>2, <1>3 DEF StartsWith
<1> QED BY <1>4 DEF seg

LEMMA OperatorIs ==
    ASSUME Inv, NEW i \in Pos, NEW j \in Pos, i <= j, Promise!Operator(i, j)
    PROVE  /\ source[i] \in ShortOps \cup {"|"}
           /\ \/ j = i /\ source[i] \in ShortOps
              \/ j = i + 1 /\ Promise!Segment(i, j) \in LongOps
<1> DEFINE seg == Promise!Segment(i, j)
<1>1. i \in Nat /\ j \in Nat /\ seg \in Seq(Characters) /\ Len(seg) = j - i + 1
      /\ \A k \in 1..(j - i + 1) : seg[k] = source[i + k - 1]
  BY SegmentIs, PosFacts
<1>2. seg[1] = source[i]
  <2>1. 1 \in 1..(j - i + 1) /\ i + 1 - 1 = i
    BY <1>1
  <2> HIDE DEF seg
  <2> QED BY <1>1, <2>1
<1>3. seg \in LongOps \/ \E c \in ShortOps : seg = <<c>>
  BY DEF Promise!Operator
<1> HIDE DEF seg
<1>4. CASE seg \in LongOps
  <2>1. Len(seg) = 2 /\ seg \in Seq(ShortOps \cup {"|"})
    BY <1>4, OpsAssumption
  <2>2. seg[1] \in ShortOps \cup {"|"}
    BY <2>1
  <2>3. j = i + 1
    <3>1. j - i + 1 = 2
      BY <1>1, <2>1
    <3>2. i \in Nat /\ j \in Nat
      BY <1>1
    <3> QED BY <3>1, <3>2
  <2> QED BY <1>2, <1>4, <2>2, <2>3 DEF seg
<1>5. CASE \E c \in ShortOps : seg = <<c>>
  <2>1. PICK c \in ShortOps : seg = <<c>>
    BY <1>5
  <2>2. Len(seg) = 1 /\ seg[1] = c
    BY <2>1
  <2>3. j = i
    <3>1. j - i + 1 = 1
      BY <1>1, <2>2
    <3>2. i \in Nat /\ j \in Nat
      BY <1>1
    <3> QED BY <3>1, <3>2
  <2> QED BY <1>2, <2>1, <2>2, <2>3
<1> QED BY <1>3, <1>4, <1>5

\* The first character tells which lexemes there may be.
LEMMA LexemeOf ==
    ASSUME Inv, NEW i \in Pos, NEW j \in Pos, i <= j, Promise!Lexeme(i, j)
    PROVE  \/ source[i] \in Starts /\ Promise!Word(i, j)
           \/ source[i] \in Digits /\ Promise!Number(i, j)
           \/ source[i] \in ShortOps \cup {"|"} /\ Promise!Operator(i, j)
           \/ source[i] = Quote /\ Promise!String(i, j)
           \/ source[i] = Apostrophe /\ (Promise!Plain(i, j) \/ Promise!WithEscape(i, j))
           \/ source[i] \in Spaces /\ Promise!Space(i, j)
           \/ source[i] = "/" /\ Promise!LineComment(i, j)
<1>1. i \in i..j
  BY PosFacts
<1>2. Promise!Word(i, j) => source[i] \in Starts
  <2>1. Promise!Alnum = Starts \cup Digits
    BY DEF Promise!Alnum, Starts
  <2> QED BY <1>1, <2>1 DEF Promise!Word
<1>3. Promise!Number(i, j) => source[i] \in Digits
  BY <1>1 DEF Promise!Number
<1>4. Promise!Operator(i, j) => source[i] \in ShortOps \cup {"|"}
  BY OperatorIs
<1>5. Promise!String(i, j) => source[i] = Quote
  BY DEF Promise!String, Promise!Quote, Quote
<1>6. Promise!Plain(i, j) \/ Promise!WithEscape(i, j) => source[i] = Apostrophe
  BY DEF Promise!Plain, Promise!WithEscape, Promise!Apostrophe, Apostrophe
<1>7. Promise!Space(i, j) => source[i] \in Spaces
  BY DEF Promise!Space
<1>8. Promise!LineComment(i, j) => source[i] = "/"
  BY DEF Promise!LineComment, Promise!Pair
<1> QED BY <1>2, <1>3, <1>4, <1>5, <1>6, <1>7, <1>8 DEF Promise!Lexeme

\* Two characters in the text.
LEMMA PairIs ==
    ASSUME Inv, mode \in Loops, NEW i \in Nat, p <= i, NEW a, NEW b, a # NUL, b # NUL
    PROVE  StartsWith(i, <<a, b>>) <=> i \in Pos /\ Promise!Pair(i, a, b)
<1> DEFINE w == <<a, b>>
<1>1. DOMAIN w = {1, 2} /\ w[1] = a /\ w[2] = b
  OBVIOUS
<1> HIDE DEF w
<1>2. StartsWith(i, w) <=> At(i) = a /\ At(i + 1) = b
  <2>1. i + 1 - 1 = i /\ i + 2 - 1 = i + 1
    OBVIOUS
  <2>2. StartsWith(i, w) <=> At(i + 1 - 1) = w[1] /\ At(i + 2 - 1) = w[2]
    BY <1>1 DEF StartsWith
  <2> QED BY <1>1, <2>1, <2>2
<1>3. i + 1 \in Nat /\ p <= i + 1 /\ p \in Nat /\ Promise!Positions = Pos
  BY PosFacts
<1>4. ASSUME At(i) = a, At(i + 1) = b
      PROVE  i \in Pos /\ Promise!Pair(i, a, b)
  BY <1>3, <1>4, InFile DEF Promise!Pair
<1>5. ASSUME i \in Pos, Promise!Pair(i, a, b)
      PROVE  At(i) = a /\ At(i + 1) = b
  BY <1>3, <1>5, AtIs DEF Promise!Pair
<1> QED BY <1>2, <1>4, <1>5 DEF w

LEMMA CommentIs ==
    ASSUME Inv, mode \in Loops
    PROVE  /\ Comment <=> p \in Pos /\ (Promise!Pair(p, "/", "/") \/ Promise!Opens(p))
           /\ StartsWith(p, <<"/", "/">>) <=> p \in Pos /\ Promise!Pair(p, "/", "/")
           /\ StartsWith(p, <<"/", "*">>) <=> p \in Pos /\ Promise!Opens(p)
<1>1. p \in Nat /\ p <= p
  BY PosFacts
<1>2. StartsWith(p, <<"/", "/">>) <=> p \in Pos /\ Promise!Pair(p, "/", "/")
  BY <1>1, PairIs, Spellings
<1>3. StartsWith(p, <<"/", "*">>) <=> p \in Pos /\ Promise!Pair(p, "/", "*")
  BY <1>1, PairIs, Spellings
<1> QED BY <1>2, <1>3 DEF Comment, Promise!Opens

LEMMA RoundIs ==
    ASSUME Inv, Round
    PROVE  mode \in Loops /\ p \in Pos /\ p \in Nat /\ At(p) = source[p]
<1>1. mode \in Loops /\ p \in Pos /\ p \in Nat /\ p <= p
  BY PosFacts DEF Round, Loops, Pos
<1> QED BY <1>1, AtIs

-----------------------------------------------------------------------------
(* The steps of the abstract tokenizer. *)

LEMMA Munches ==
    ASSUME Inv, mode \in Loops, mode' \in Loops, source' = source,
           NEW j \in Pos, p <= j, Promise!Longest(p, j),
           p' = j + 1, tokens' = tokens \o Promise!TokenFor(p, j)
    PROVE  Promise!Munch
<1>1. p \in Promise!Positions /\ j \in p..Len(source)
  BY PosFacts DEF Pos
<1> QED BY <1>1 DEF Promise!Munch, Promise!Reading

LEMMA Idles ==
    ASSUME mode \in Loops, mode' \in Loops, UNCHANGED <<source, p, tokens>>
    PROVE  UNCHANGED Promise!vars
BY DEF Promise!vars

LEMMA Loses ==
    ASSUME Inv, mode \in Loops, mode' \in {"overrun", "exit"}, UNCHANGED <<source, p, tokens>>,
           p \in Pos, Promise!Lost(p)
    PROVE  Promise!Lose
<1>1. mode' \notin Loops
  BY DEF Loops
<1> QED BY <1>1, PosFacts DEF Promise!Lose, Promise!Reading

\* One token that ends before the next round starts.
LEMMA MunchesToken ==
    ASSUME Inv, mode \in Loops, mode' \in Loops, NEW kind, NEW i, NEW len,
           NEW j \in Pos, p <= j, new_token(kind, i, len, j + 1), Promise!Longest(p, j),
           Promise!TokenFor(p, j) = <<Promise!Token(kind, i, len)>>
    PROVE  Promise!Munch
<1> DEFINE t == Promise!Token(kind, i, len)
<1> DEFINE T == [kind : Kinds, str : 1..End, len : Nat]
<1>1. source' = source /\ p' = j + 1 /\ tokens' = Append(tokens, t)
  BY DEF new_token, Token, Promise!Token
<1>2. tokens \in Seq(T)
  BY DEF Inv, TypeOK
<1> HIDE DEF t, T
<1>3. Append(tokens, t) = tokens \o <<t>>
  BY <1>2
<1> QED BY <1>1, <1>3, Munches DEF t

LEMMA MunchesNothing ==
    ASSUME Inv, mode \in Loops, mode' \in Loops, UNCHANGED <<source, tokens>>,
           NEW j \in Pos, p <= j, p' = j + 1, Promise!Longest(p, j),
           Promise!TokenFor(p, j) = <<>>
    PROVE  Promise!Munch
<1> DEFINE T == [kind : Kinds, str : 1..End, len : Nat]
<1>1. tokens \in Seq(T)
  BY DEF Inv, TypeOK
<1> HIDE DEF T
<1>2. tokens = tokens \o <<>>
  BY <1>1
<1> QED BY <1>2, Munches

-----------------------------------------------------------------------------
(* The steps that make a token of a word, a number or an operator. *)

LEMMA SpaceMunches == RInv /\ skip_space => Promise!Munch
<1> SUFFICES ASSUME RInv, skip_space
             PROVE  Promise!Munch
  OBVIOUS
<1>1. /\ Inv /\ Round /\ mode \in Loops /\ mode' \in Loops /\ UNCHANGED <<source, tokens>>
      /\ p' = p + 1 /\ p \in Pos /\ p \in Nat /\ source[p] \in Spaces
  BY RoundIs DEF RInv, skip_space
<1>2. Promise!Space(p, p) /\ ~Promise!Opens(p)
  BY <1>1, Classes DEF Promise!Space, Promise!Opens, Promise!Pair
<1>3. ASSUME NEW k \in Pos, k > p
      PROVE  ~Promise!Lexeme(p, k)
  <2>1. k \in Nat /\ p <= k /\ p # k
    BY <1>1, <1>3, PosFacts
  <2>2. ~Promise!Space(p, k)
    BY <2>1 DEF Promise!Space
  <2> QED BY <1>1, <2>1, <2>2, LexemeOf, Classes
<1>4. Promise!Longest(p, p) /\ Promise!TokenFor(p, p) = <<>>
  <2>1. Promise!Lexeme(p, p)
    BY <1>2 DEF Promise!Lexeme
  <2>2. Promise!Longest(p, p)
    BY <1>1, <1>2, <1>3, <2>1, PosFacts DEF Promise!Longest
  <2>3. Promise!TokenFor(p, p) = <<>>
    BY <1>2 DEF Promise!TokenFor
  <2> QED BY <2>2, <2>3
<1>5. p <= p
  BY <1>1
<1> QED BY <1>1, <1>4, <1>5, MunchesNothing

\* A run of letters and digits is a word if it starts like one.
LEMMA WordLexeme ==
    ASSUME Inv, Round, source[p] \in Starts,
           NEW j \in Pos, p <= j, \A k \in p..j : source[k] \in Alnum, At(j + 1) \notin Alnum
    PROVE  /\ Promise!Longest(p, j)
           /\ Promise!TokenFor(p, j) =
                <<Promise!Token(CASE Promise!Segment(p, j) = NullWord -> "TK_NUM"
                                  [] Promise!Segment(p, j) \in Keywords \ {NullWord} -> "TK_KEYWORD"
                                  [] OTHER -> "TK_IDENT", p, j - p + 1)>>
<1>1. mode \in Loops /\ p \in Pos /\ p \in Nat /\ j \in Nat /\ Promise!Positions = Pos
  BY RoundIs, PosFacts
<1>2. Promise!Word(p, j)
  BY Classes DEF Promise!Word, Promise!Alnum, Alnum
<1>3. ~Promise!Opens(p) /\ ~Promise!Space(p, j) /\ ~Promise!LineComment(p, j)
  BY Classes DEF Promise!Opens, Promise!Pair, Promise!Space, Promise!LineComment
<1>4. ASSUME NEW k \in Pos, k > j
      PROVE  ~Promise!Lexeme(p, k)
  <2>1. k \in Nat /\ p <= k /\ j + 1 \in p..k /\ j + 1 \in Pos /\ j + 1 \in Nat /\ p <= j + 1
    <3>1. Len(source) \in Nat /\ j \in 1..Len(source) /\ k \in 1..Len(source)
      BY <1>4, PosFacts DEF Pos
    <3>2. k \in Nat /\ k <= Len(source) /\ j \in Nat /\ p \in Nat
      BY <1>1, <3>1
    <3>4. k > j /\ p <= j
      BY <1>4
    <3>3. p <= k /\ j + 1 \in p..k /\ j + 1 \in 1..Len(source) /\ p <= j + 1
      BY <3>1, <3>2, <3>4
    <3> QED BY <1>1, <3>2, <3>3 DEF Pos
  <2>2. source[j + 1] \notin Alnum
    BY <1>1, <2>1, AtIs
  <2>3. ~Promise!Word(p, k)
    BY <2>1, <2>2 DEF Promise!Word, Promise!Alnum, Alnum
  <2> QED BY <1>1, <2>1, <2>3, LexemeOf, Classes
<1>5. Promise!Longest(p, j)
  BY <1>1, <1>2, <1>3, <1>4 DEF Promise!Longest, Promise!Lexeme
<1> QED BY <1>2, <1>3, <1>5 DEF Promise!TokenFor

\* A reserved word is such a run, and no other word is found there.
LEMMA WordIs ==
    ASSUME Inv, Round, NEW w \in Keywords \cup {NullWord}, IsWord(w)
    PROVE  LET j == p + Len(w) - 1
           IN  /\ j \in Pos /\ p <= j /\ Len(w) \in Nat /\ j - p + 1 = Len(w)
               /\ j + 1 = p + Len(w)
               /\ Promise!Segment(p, j) = w
               /\ source[p] \in Starts
               /\ \A k \in p..j : source[k] \in Alnum
               /\ At(j + 1) \notin Alnum
<1> DEFINE j == p + Len(w) - 1
<1>1. mode \in Loops /\ p \in Pos /\ p \in Nat /\ p <= p
  BY RoundIs, PosFacts
<1>2. w \in Seq(Letters) /\ w # <<>> /\ NUL \notin Letters
  BY WordsAssumption, Classes
<1>3. StartsWith(p, w) /\ At(p + Len(w)) \notin Alnum
  BY DEF IsWord
<1>4. Len(w) \in Nat \ {0} /\ j \in Pos /\ Promise!Segment(p, j) = w
  BY <1>1, <1>2, <1>3, SegmentOf
<1>5. p <= j /\ j - p + 1 = Len(w) /\ j + 1 = p + Len(w) /\ j \in Nat
  BY <1>1, <1>4
<1>6. ASSUME NEW k \in p..j
      PROVE  source[k] \in Letters
  <2>1. k - p + 1 \in 1..Len(w) /\ p + (k - p + 1) - 1 = k /\ k \in Nat /\ p <= k /\ k \in Pos
    BY <1>1, <1>4, <1>5 DEF Pos
  <2>2. w[k - p + 1] \in Letters /\ DOMAIN w = 1..Len(w)
    BY <1>2, <2>1, ElementOf
  <2>3. At(p + (k - p + 1) - 1) = w[k - p + 1]
    BY <1>3, <2>1, <2>2 DEF StartsWith
  <2>4. At(k) = source[k]
    BY <1>1, <2>1, AtIs
  <2> QED BY <2>1, <2>2, <2>3, <2>4
<1>7. source[p] \in Letters
  BY <1>1, <1>5, <1>6
<1>8. At(j + 1) \notin Alnum
  BY <1>3, <1>5
<1> QED BY <1>4, <1>5, <1>6, <1>7, <1>8, Classes

LEMMA WordMunches == RInv /\ (null_word \/ keyword) => Promise!Munch
<1> SUFFICES ASSUME RInv, null_word \/ keyword
             PROVE  Promise!Munch
  OBVIOUS
<1>1. Inv /\ Round /\ mode \in Loops /\ mode' \in Loops
  BY RoundIs DEF RInv, null_word, keyword
<1>2. ASSUME NEW w \in Keywords \cup {NullWord}, NEW kind, IsWord(w),
             new_token(kind, p, Len(w), p + Len(w)),
             kind = IF w = NullWord THEN "TK_NUM" ELSE "TK_KEYWORD"
      PROVE  Promise!Munch
  <2> DEFINE j == p + Len(w) - 1
  <2>1. /\ j \in Pos /\ p <= j /\ Len(w) \in Nat /\ j - p + 1 = Len(w) /\ j + 1 = p + Len(w)
        /\ Promise!Segment(p, j) = w
        /\ source[p] \in Starts /\ At(j + 1) \notin Alnum
        /\ \A k \in p..j : source[k] \in Alnum
    BY <1>1, <1>2, WordIs
  <2> HIDE DEF j
  <2>2. /\ Promise!Longest(p, j)
        /\ Promise!TokenFor(p, j) =
                <<Promise!Token(CASE Promise!Segment(p, j) = NullWord -> "TK_NUM"
                                  [] Promise!Segment(p, j) \in Keywords \ {NullWord} -> "TK_KEYWORD"
                                  [] OTHER -> "TK_IDENT", p, j - p + 1)>>
    BY <1>1, <2>1, WordLexeme
  <2>3. Promise!TokenFor(p, j) = <<Promise!Token(kind, p, Len(w))>>
    <3>1. CASE w = NullWord
      <4>1. kind = "TK_NUM" /\ Promise!Segment(p, j) = NullWord
        BY <1>2, <2>1, <3>1
      <4>2. Promise!TokenFor(p, j) = <<Promise!Token("TK_NUM", p, j - p + 1)>>
        BY <2>2, <4>1
      <4> QED BY <2>1, <4>1, <4>2
    <3>2. CASE w # NullWord
      <4>1. w \in Keywords
        BY <3>2
      <4>2. kind = "TK_KEYWORD" /\ Promise!Segment(p, j) \in Keywords
            /\ Promise!Segment(p, j) # NullWord
        BY <1>2, <2>1, <3>2, <4>1
      <4>3. Promise!TokenFor(p, j) = <<Promise!Token("TK_KEYWORD", p, j - p + 1)>>
        BY <2>2, <4>2
      <4> QED BY <2>1, <4>2, <4>3
    <3> QED BY <3>1, <3>2
  <2>4. new_token(kind, p, Len(w), j + 1)
    BY <1>2, <2>1
  <2> QED BY <1>1, <2>1, <2>2, <2>3, <2>4, MunchesToken
<1>3. CASE null_word
  <2>1. IsWord(NullWord) /\ new_token("TK_NUM", p, Len(NullWord), p + Len(NullWord))
    BY <1>3 DEF null_word
  <2> QED BY <1>2, <2>1
<1>4. CASE keyword
  <2>1. PICK w \in Keywords : IsWord(w) /\ new_token("TK_KEYWORD", p, Len(w), p + Len(w))
    BY <1>4 DEF keyword
  <2>2. w # NullWord
    BY <1>4, <2>1 DEF keyword
  <2> QED BY <1>2, <2>1, <2>2
<1> QED BY <1>3, <1>4

\* RunEnd() stops in front of the first character that is not of the class.
LEMMA RunIs ==
    ASSUME Inv, Round, NEW i \in Nat, p <= i, i <= End, NEW class, NUL \notin class
    PROVE  LET next == RunEnd(i, class)
           IN  /\ next \in Nat /\ i <= next /\ next <= End
               /\ At(next) \notin class
               /\ \A k \in i..(next - 1) : k \in Pos /\ source[k] \in class
<1> DEFINE next == RunEnd(i, class)
<1>1. mode \in Loops /\ p \in Nat \ {0} /\ Len(source) \in Nat /\ End = Len(source) + 1 /\ TypeOK
  BY RoundIs, PosFacts DEF Inv
<1>2. i \in 1..End /\ End \in Nat
  BY <1>1
<1>3. next \in i..End
  BY <1>1, <1>2, RunEndExists
<1> DEFINE Q(j) == j \in i..End /\ At(j) \notin class /\ \A k \in i..(j - 1) : At(k) \in class
<1>4. \E j : Q(j)
  <2> DEFINE S == {j \in i..End : At(j) \notin class}
  <2>1. End \in S
    <3>1. End \notin Pos /\ p <= End
      BY <1>1, <1>2 DEF Pos
    <3>2. At(End) = NUL
      BY <1>1, <1>2, <3>1, AtIs
    <3> QED BY <1>2, <3>2
  <2>2. S \subseteq Nat /\ S # {}
    BY <1>2, <2>1
  <2>3. PICK j \in S : \A k \in S : j <= k
    <3> HIDE DEF S
    <3> QED BY <2>2, Least
  <2>4. ASSUME NEW k \in i..(j - 1)
        PROVE  At(k) \in class
    <3>1. k \in i..End /\ ~(j <= k)
      BY <1>2, <2>3
    <3> QED BY <2>3, <3>1
  <2> QED BY <2>3, <2>4
<1>5. next = CHOOSE j \in i..End : At(j) \notin class /\ \A k \in i..(j - 1) : At(k) \in class
  BY DEF RunEnd
<1>6. Q(next)
  <2> HIDE DEF next
  <2> QED BY <1>4, <1>5
<1>7. ASSUME NEW k \in i..(next - 1)
      PROVE  k \in Pos /\ source[k] \in class
  <2> HIDE DEF next
  <2>1. At(k) \in class /\ k \in Nat /\ p <= k
    BY <1>1, <1>2, <1>3, <1>6
  <2> QED BY <1>1, <2>1, InFile
<1>8. At(next) \notin class
  BY <1>6
<1> HIDE DEF next, Q
<1>9. next \in Nat /\ i <= next /\ next <= End
  BY <1>2, <1>3
<1> QED BY <1>7, <1>8, <1>9 DEF next

LEMMA IdentifierMunches == RInv /\ identifier => Promise!Munch
<1> SUFFICES ASSUME RInv, identifier
             PROVE  Promise!Munch
  OBVIOUS
<1> DEFINE next == RunEnd(p + 1, Alnum)
<1>1. Inv /\ Round /\ mode \in Loops /\ mode' \in Loops /\ p \in Pos /\ p \in Nat
      /\ At(p) = source[p]
  BY RoundIs DEF RInv, identifier
<1>2. ~Reserved /\ source[p] \in Starts /\ new_token("TK_IDENT", p, next - p, next)
  BY <1>1 DEF identifier, Starts
<1>3. p + 1 \in Nat /\ p <= p + 1 /\ p + 1 <= End /\ End = Len(source) + 1 /\ Len(source) \in Nat
  BY <1>1, PosFacts DEF Pos
<1>4. /\ next \in Nat /\ p + 1 <= next /\ next <= End /\ At(next) \notin Alnum
      /\ \A k \in (p + 1)..(next - 1) : k \in Pos /\ source[k] \in Alnum
  BY <1>1, <1>3, RunIs, Classes
<1> HIDE DEF next
<1> DEFINE j == next - 1
<1>5. j \in Pos /\ j \in Nat /\ p <= j /\ j + 1 = next /\ j - p + 1 = next - p /\ next - p \in Nat
  BY <1>1, <1>3, <1>4 DEF Pos
<1>6. ASSUME NEW k \in p..j
      PROVE  source[k] \in Alnum
  <2>1. k = p \/ k \in (p + 1)..(next - 1)
    BY <1>1, <1>4
  <2> QED BY <1>2, <1>4, <2>1, Classes
<1>7. At(j + 1) \notin Alnum
  BY <1>4, <1>5
<1> DEFINE seg == Promise!Segment(p, j)
<1> HIDE DEF j
<1>8. seg \notin Keywords \cup {NullWord}
  <2> SUFFICES ASSUME seg \in Keywords \cup {NullWord}
               PROVE  Reserved
    BY <1>2
  <2>1. StartsWith(p, seg)
    BY <1>1, <1>5, StartsWithSegment
  <2>2. Len(seg) = j - p + 1
    BY <1>1, <1>5, SegmentIs
  <2>3. p + Len(seg) = j + 1
    <3>1. p + (j - p + 1) = j + 1
      BY <1>1, <1>5
    <3> QED BY <2>2, <3>1
  <2> HIDE DEF seg
  <2>4. IsWord(seg)
    BY <1>7, <2>1, <2>3 DEF IsWord
  <2> QED BY <2>4 DEF Reserved
<1>9. /\ Promise!Longest(p, j)
      /\ Promise!TokenFor(p, j) =
            <<Promise!Token(CASE seg = NullWord -> "TK_NUM"
                              [] seg \in Keywords \ {NullWord} -> "TK_KEYWORD"
                              [] OTHER -> "TK_IDENT", p, j - p + 1)>>
  BY <1>1, <1>2, <1>5, <1>6, <1>7, WordLexeme
<1> HIDE DEF seg
<1>10. Promise!TokenFor(p, j) = <<Promise!Token("TK_IDENT", p, j - p + 1)>>
  BY <1>8, <1>9
<1>11. new_token("TK_IDENT", p, j - p + 1, j + 1)
  BY <1>2, <1>5
<1> QED BY <1>1, <1>5, <1>9, <1>10, <1>11, MunchesToken

LEMMA NumberMunches == RInv /\ number => Promise!Munch
<1> SUFFICES ASSUME RInv, number
             PROVE  Promise!Munch
  OBVIOUS
<1> DEFINE next == RunEnd(p, Digits)
<1>1. Inv /\ Round /\ mode \in Loops /\ mode' \in Loops /\ p \in Pos /\ p \in Nat
      /\ At(p) = source[p]
  BY RoundIs DEF RInv, number
<1>2. source[p] \in Digits /\ new_token("TK_NUM", p, 0, next)
  BY <1>1 DEF number
<1>3. p <= p /\ p <= End /\ End = Len(source) + 1 /\ Len(source) \in Nat
  BY <1>1, PosFacts
<1>4. /\ next \in Nat /\ p <= next /\ next <= End /\ At(next) \notin Digits
      /\ \A k \in p..(next - 1) : k \in Pos /\ source[k] \in Digits
  BY <1>1, <1>3, RunIs, Classes
<1> HIDE DEF next
<1>5. next # p
  BY <1>1, <1>2, <1>4
<1> DEFINE j == next - 1
<1>6. j \in Pos /\ j \in Nat /\ p <= j /\ j + 1 = next
  BY <1>1, <1>3, <1>4, <1>5 DEF Pos
<1>7. At(j + 1) \notin Digits /\ \A k \in p..j : source[k] \in Digits
  BY <1>4, <1>6
<1> HIDE DEF j
<1>8. Promise!Number(p, j)
  BY <1>7 DEF Promise!Number
<1>9. source[p] \notin Starts /\ source[p] \notin Spaces /\ source[p] # "/"
  BY <1>2, Classes
<1>10. ~Promise!Opens(p) /\ ~Promise!Space(p, j) /\ ~Promise!LineComment(p, j)
       /\ ~Promise!Word(p, j)
  BY <1>2, <1>6, <1>9
  DEF Promise!Opens, Promise!Pair, Promise!Space, Promise!LineComment, Promise!Word
<1>11. ASSUME NEW k \in Pos, k > j
       PROVE  ~Promise!Lexeme(p, k)
  <2>1. Len(source) \in Nat /\ j \in Nat /\ j \in 1..Len(source) /\ k \in 1..Len(source) /\ k > j
        /\ p <= j
    BY <1>3, <1>6, <1>11 DEF Pos
  <2>2. p <= k /\ j + 1 \in p..k /\ j + 1 \in 1..Len(source) /\ j + 1 \in Nat /\ p <= j + 1
    BY <1>1, <2>1
  <2>3. source[j + 1] \notin Digits
    BY <1>1, <1>7, <2>2, AtIs DEF Pos
  <2>4. ~Promise!Number(p, k)
    BY <2>2, <2>3 DEF Promise!Number
  <2> QED BY <1>1, <1>2, <2>2, <2>4, LexemeOf, Classes
<1>12. Promise!Longest(p, j)
  BY <1>1, <1>8, <1>10, <1>11, PosFacts DEF Promise!Longest, Promise!Lexeme
<1>13. Promise!TokenFor(p, j) = <<Promise!Token("TK_NUM", p, 0)>>
  BY <1>8, <1>10 DEF Promise!TokenFor
<1>14. new_token("TK_NUM", p, 0, j + 1)
  BY <1>2, <1>6
<1> QED BY <1>1, <1>6, <1>12, <1>13, <1>14, MunchesToken

LEMMA OperatorLexeme ==
    ASSUME Inv, Round, ~Comment, NEW j \in Pos, p <= j, Promise!Operator(p, j),
           \A k \in Pos : k > j => ~Promise!Operator(p, k)
    PROVE  /\ Promise!Longest(p, j)
           /\ Promise!TokenFor(p, j) = <<Promise!Token("TK_RESERVED", p, j - p + 1)>>
<1>1. mode \in Loops /\ p \in Pos /\ p \in Nat /\ Promise!Positions = Pos
  BY RoundIs, PosFacts
<1>2. source[p] \in ShortOps \cup {"|"}
  BY <1>1, OperatorIs
<1>3. /\ source[p] \notin Starts /\ source[p] \notin Digits /\ source[p] \notin Alnum
      /\ source[p] \notin Spaces /\ source[p] # Quote /\ source[p] # Apostrophe
  <2>1. CASE source[p] \in ShortOps
    BY <2>1, Classes
  <2>2. CASE source[p] = "|"
    BY <2>2, Classes, Spellings
  <2> QED BY <1>2, <2>1, <2>2
<1>4. ~Promise!Opens(p) /\ ~Promise!Pair(p, "/", "/")
  BY <1>1, CommentIs
<1>5. ASSUME NEW k \in Pos
      PROVE  ~Promise!LineComment(p, k)
  BY <1>4 DEF Promise!LineComment
<1>6. ASSUME NEW k \in Pos, k > j
      PROVE  ~Promise!Lexeme(p, k)
  <2>1. j \in Nat /\ k \in Nat /\ p <= k
    BY <1>1, <1>6, PosFacts
  <2> QED BY <1>1, <1>3, <1>5, <1>6, <2>1, LexemeOf
<1>7. Promise!Longest(p, j)
  BY <1>1, <1>4, <1>6 DEF Promise!Longest, Promise!Lexeme
<1>8. /\ ~Promise!Space(p, j) /\ ~Promise!LineComment(p, j) /\ ~Promise!Number(p, j)
      /\ ~Promise!String(p, j) /\ source[p] # Promise!Apostrophe
  <2>1. p \in p..j
    BY <1>1, PosFacts
  <2> QED BY <1>3, <1>5, <2>1
      DEF Promise!Space, Promise!Number, Promise!String, Promise!Quote, Quote,
          Promise!Apostrophe, Apostrophe
<1>9. ~Promise!Word(p, j)
  <2>1. p \in p..j
    BY <1>1, PosFacts
  <2>2. Promise!Alnum = Alnum
    BY DEF Promise!Alnum, Alnum
  <2> QED BY <1>3, <2>1, <2>2 DEF Promise!Word
<1> QED BY <1>4, <1>7, <1>8, <1>9 DEF Promise!TokenFor

LEMMA OperatorMunches == RInv /\ (long_operator \/ short_operator) => Promise!Munch
<1> SUFFICES ASSUME RInv, long_operator \/ short_operator
             PROVE  Promise!Munch
  OBVIOUS
<1>1. Inv /\ Round /\ mode \in Loops /\ mode' \in Loops /\ p \in Pos /\ p \in Nat
      /\ At(p) = source[p] /\ p <= p
  <2>1. Inv /\ Round /\ UNCHANGED mode
    BY DEF RInv, long_operator, short_operator
  <2>2. mode \in Loops /\ p \in Pos /\ p \in Nat /\ At(p) = source[p]
    BY <2>1, RoundIs
  <2> QED BY <2>1, <2>2
<1>2. ~Comment
  BY DEF long_operator, short_operator, IsLongOp
<1>3. CASE long_operator
  <2>1. PICK w \in LongOps : StartsWith(p, w)
    BY <1>3 DEF long_operator, IsLongOp
  <2>2. Len(w) = 2 /\ w \in Seq(ShortOps \cup {"|"}) /\ NUL \notin ShortOps \cup {"|"}
    <3>1. NUL \notin ShortOps \cup {"|"}
      BY ClassesAssumption DEF NUL
    <3> QED BY <3>1, OpsAssumption
  <2>3. w # <<>>
    <3>1. Len(<<>>) = 0
      OBVIOUS
    <3> QED BY <2>2, <3>1
  <2> DEFINE j == p + 1
  <2>4. j \in Pos /\ Promise!Segment(p, j) = w
    <3>1. p + Len(w) - 1 \in Pos /\ Promise!Segment(p, p + Len(w) - 1) = w
      BY <1>1, <2>1, <2>2, <2>3, SegmentOf
    <3>2. p + Len(w) - 1 = p + 1
      BY <1>1, <2>2
    <3> QED BY <3>1, <3>2
  <2>5. Promise!Operator(p, j)
    BY <2>4 DEF Promise!Operator
  <2>6. p <= j /\ j - p + 1 = 2 /\ j + 1 = p + 2 /\ j \in Nat
    BY <1>1
  <2>7. ASSUME NEW k \in Pos, k > j
        PROVE  ~Promise!Operator(p, k)
    <3>1. p <= k /\ k # p /\ k # p + 1
      BY <1>1, <2>7, PosFacts
    <3> QED BY <1>1, <3>1, OperatorIs
  <2>8. new_token("TK_RESERVED", p, j - p + 1, j + 1)
    BY <1>3, <2>6 DEF long_operator
  <2> HIDE DEF j
  <2>9. /\ Promise!Longest(p, j)
        /\ Promise!TokenFor(p, j) = <<Promise!Token("TK_RESERVED", p, j - p + 1)>>
    BY <1>1, <1>2, <2>4, <2>5, <2>6, <2>7, OperatorLexeme
  <2> QED BY <1>1, <2>4, <2>6, <2>8, <2>9, MunchesToken
<1>4. CASE short_operator
  <2>1. source[p] \in ShortOps /\ ~IsLongOp /\ new_token("TK_RESERVED", p, 1, p + 1)
    BY <1>1, <1>4 DEF short_operator
  <2>2. Promise!Operator(p, p)
    <3>1. /\ Promise!Segment(p, p) \in Seq(Characters)
          /\ Len(Promise!Segment(p, p)) = p - p + 1
          /\ \A k \in 1..(p - p + 1) : Promise!Segment(p, p)[k] = source[p + k - 1]
      BY <1>1, SegmentIs
    <3>2. p - p + 1 = 1 /\ p + 1 - 1 = p /\ 1 \in 1..1
      BY <1>1
    <3>3. Len(Promise!Segment(p, p)) = 1 /\ Promise!Segment(p, p)[1] = source[p]
      BY <3>1, <3>2
    <3> DEFINE seg == Promise!Segment(p, p)
    <3> HIDE DEF seg
    <3>4. seg \in Seq(Characters) /\ Len(seg) = 1 /\ seg[1] = source[p]
      BY <3>1, <3>3 DEF seg
    <3>5. seg = <<source[p]>>
      BY <3>4
    <3> QED BY <2>1, <3>5 DEF Promise!Operator, seg
  <2>3. ASSUME NEW k \in Pos, k > p, Promise!Operator(p, k)
        PROVE  FALSE
    <3>1. p <= k /\ k # p
      BY <1>1, <2>3, PosFacts
    <3>2. k = p + 1 /\ Promise!Segment(p, k) \in LongOps
      BY <1>1, <2>3, <3>1, OperatorIs
    <3>3. StartsWith(p, Promise!Segment(p, k))
      BY <1>1, <3>1, StartsWithSegment
    <3> QED BY <1>2, <2>1, <3>2, <3>3 DEF IsLongOp
  <2>4. new_token("TK_RESERVED", p, p - p + 1, p + 1)
    <3>1. p - p + 1 = 1
      BY <1>1
    <3> QED BY <2>1, <3>1
  <2>5. /\ Promise!Longest(p, p)
        /\ Promise!TokenFor(p, p) = <<Promise!Token("TK_RESERVED", p, p - p + 1)>>
    BY <1>1, <1>2, <2>2, <2>3, OperatorLexeme
  <2> QED BY <1>1, <2>4, <2>5, MunchesToken
<1> QED BY <1>3, <1>4

-----------------------------------------------------------------------------
(* Character literals and strings. *)

LEMMA CharacterLexeme ==
    ASSUME Inv, Round, source[p] = Apostrophe, NEW j \in Pos, p <= j,
           Promise!Plain(p, j) \/ Promise!WithEscape(p, j),
           \A k \in Pos : k > j => ~Promise!Plain(p, k) /\ ~Promise!WithEscape(p, k)
    PROVE  /\ Promise!Longest(p, j)
           /\ Promise!TokenFor(p, j) = <<Promise!Token("TK_CHARACTER", j - 1, 1)>>
<1>1. mode \in Loops /\ p \in Pos /\ p \in Nat /\ Promise!Positions = Pos /\ p \in p..j
  BY RoundIs, PosFacts
<1>2. /\ source[p] \notin Starts /\ source[p] \notin Digits /\ source[p] \notin Alnum
      /\ source[p] \notin Spaces /\ source[p] # Quote /\ source[p] # "/"
      /\ source[p] \notin ShortOps \cup {"|"}
  BY Classes, Spellings
<1>3. ~Promise!Opens(p) /\ ~Promise!Pair(p, "/", "/")
  BY <1>2 DEF Promise!Opens, Promise!Pair
<1>4. ASSUME NEW k \in Pos, k > j
      PROVE  ~Promise!Lexeme(p, k)
  <2>1. p <= k
    BY <1>1, <1>4, PosFacts
  <2> QED BY <1>1, <1>2, <1>4, <2>1, LexemeOf
<1>5. Promise!Longest(p, j)
  BY <1>1, <1>3, <1>4 DEF Promise!Longest, Promise!Lexeme
<1>6. /\ ~Promise!Space(p, j) /\ ~Promise!LineComment(p, j) /\ ~Promise!Number(p, j)
      /\ ~Promise!String(p, j) /\ source[p] = Promise!Apostrophe
  BY <1>1, <1>2, <1>3
  DEF Promise!Space, Promise!Number, Promise!String, Promise!Quote, Quote,
      Promise!Apostrophe, Apostrophe, Promise!LineComment
<1>7. ~Promise!Word(p, j)
  <2>1. Promise!Alnum = Alnum
    BY DEF Promise!Alnum, Alnum
  <2> QED BY <1>1, <1>2, <2>1 DEF Promise!Word
<1> QED BY <1>3, <1>5, <1>6, <1>7 DEF Promise!TokenFor

\* The literal of which c is the character, if it is closed in the text.
LEMMA LiteralIs ==
    ASSUME Inv, Round, source[p] = Apostrophe, NEW k \in Nat
    PROVE  /\ Promise!Plain(p, k) <=> k = p + 2 /\ source[p + 1] # Backslash
           /\ Promise!WithEscape(p, k) <=>
                k = p + 3 /\ source[p + 1] = Backslash /\ source[p + 2] \in DOMAIN Escapes
BY DEF Promise!Plain, Promise!WithEscape, Promise!Apostrophe, Apostrophe,
       Promise!Backslash, Backslash

LEMMA CharacterSteps ==
    ASSUME RInv, character
    PROVE  Promise!Munch \/ Promise!Lose
<1> DEFINE escape == At(p + 1) = Backslash
<1> DEFINE c == IF escape THEN p + 2 ELSE p + 1
<1>1. Inv /\ Round /\ mode \in Loops /\ p \in Pos /\ p \in Nat /\ At(p) = source[p]
  BY RoundIs DEF RInv, character
<1>2. source[p] = Apostrophe
  BY <1>1 DEF character
<1>3. /\ Len(source) \in Nat /\ End = Len(source) + 1 /\ p <= p + 1 /\ p + 1 \in Nat
      /\ p <= p + 2 /\ p + 2 \in Nat /\ p <= Len(source) /\ Promise!Positions = Pos
  BY <1>1, PosFacts DEF Pos
<1>4. c \in Nat /\ (c = p + 1 \/ c = p + 2)
  BY <1>1
<1>5. escape <=> p + 1 \in Pos /\ source[p + 1] = Backslash
  BY <1>1, <1>3, AtIs, Spellings
<1>6. CASE escape /\ At(c) \notin DOMAIN Escapes
  <2>1. mode' = "exit" /\ UNCHANGED <<source, p, tokens>>
    BY <1>6 DEF character
  <2>2. c = p + 2
    BY <1>6
  <2>3. ASSUME NEW k \in Pos
        PROVE  ~Promise!Plain(p, k) /\ ~Promise!WithEscape(p, k)
    <3>1. k \in Nat
      BY PosFacts, <1>1
    <3>2. ~Promise!Plain(p, k)
      BY <1>1, <1>2, <1>5, <1>6, <3>1, LiteralIs
    <3>3. CASE k = p + 3
      <4>1. p + 2 \in Pos
        <5>1. k \in 1..Len(source) /\ k = p + 3 /\ p \in Nat
          BY <1>1, <3>3 DEF Pos
        <5> QED BY <1>3, <5>1 DEF Pos
      <4>2. source[p + 2] \notin DOMAIN Escapes
        BY <1>1, <1>3, <1>6, <2>2, <4>1, AtIs
      <4> QED BY <1>1, <1>2, <3>1, <3>2, <4>2, LiteralIs
    <3>4. CASE k # p + 3
      BY <1>1, <1>2, <3>1, <3>2, <3>4, LiteralIs
    <3> QED BY <3>3, <3>4
  <2>4. Promise!Lost(p)
    BY <1>2, <1>3, <2>3 DEF Promise!Lost, Promise!Apostrophe, Apostrophe
  <2> QED BY <1>1, <2>1, <2>4, Loses
<1>7. CASE ~(escape /\ At(c) \notin DOMAIN Escapes) /\ c + 2 > End
  <2>1. Look("overrun", c + 2)
    BY <1>7 DEF character
  <2>2. mode' = "overrun" /\ UNCHANGED <<source, p, tokens>>
    BY <2>1 DEF Look
  <2>3. ASSUME NEW k \in Pos
        PROVE  ~Promise!Plain(p, k) /\ ~Promise!WithEscape(p, k)
    <3>1. k \in Nat /\ k <= Len(source)
      BY PosFacts, <1>1 DEF Pos
    <3>2. CASE escape
      <4>1. p + 4 > End
        BY <1>1, <1>7, <3>2
      <4>2. k # p + 3
        BY <1>1, <1>3, <3>1, <4>1
      <4> QED BY <1>1, <1>2, <1>5, <3>1, <3>2, <4>2, LiteralIs
    <3>3. CASE ~escape
      <4>1. p + 3 > End
        BY <1>1, <1>7, <3>3
      <4>2. k # p + 2 /\ k # p + 3
        BY <1>1, <1>3, <3>1, <4>1
      <4> QED BY <1>1, <1>2, <3>1, <4>2, LiteralIs
    <3> QED BY <3>2, <3>3
  <2>4. Promise!Lost(p)
    BY <1>2, <1>3, <2>3 DEF Promise!Lost, Promise!Apostrophe, Apostrophe
  <2> QED BY <1>1, <2>2, <2>4, Loses
<1>8. CASE ~(escape /\ At(c) \notin DOMAIN Escapes) /\ ~(c + 2 > End)
  <2> DEFINE j == c + 1
  <2>1. new_token("TK_CHARACTER", c, 1, c + 2) /\ UNCHANGED mode
    BY <1>8 DEF character
  <2>2. j \in Nat /\ j <= Len(source) /\ p <= j /\ j + 1 = c + 2 /\ j - 1 = c
    <3>1. ~(c + 2 > End) /\ p \in Nat
      BY <1>1, <1>8
    <3> HIDE DEF c
    <3> QED BY <1>3, <1>4, <3>1
  <2>3. j \in Pos /\ p + 1 \in Pos
    BY <1>1, <1>3, <1>4, <2>2 DEF Pos
  <2>4. /\ Promise!Plain(p, j) \/ Promise!WithEscape(p, j)
        /\ \A k \in Pos : k > j => ~Promise!Plain(p, k) /\ ~Promise!WithEscape(p, k)
    <3>1. CASE escape
      <4>1. c = p + 2 /\ j = p + 3 /\ source[p + 1] = Backslash
        BY <1>1, <1>5, <3>1
      <4>2. p + 2 \in Pos
        <5>1. p + 3 <= Len(source) /\ p \in Nat
          BY <1>1, <2>2, <4>1
        <5> QED BY <1>3, <5>1 DEF Pos
      <4>3. source[p + 2] \in DOMAIN Escapes
        BY <1>1, <1>3, <1>8, <3>1, <4>1, <4>2, AtIs
      <4>4. Promise!WithEscape(p, j)
        BY <1>1, <1>2, <2>2, <4>1, <4>3, LiteralIs
      <4>5. ASSUME NEW k \in Pos, k > j
            PROVE  ~Promise!Plain(p, k) /\ ~Promise!WithEscape(p, k)
        <5>1. k \in Nat /\ k # p + 2 /\ k # p + 3
          BY <1>1, <4>1, <4>5, PosFacts
        <5> QED BY <1>1, <1>2, <5>1, LiteralIs
      <4> QED BY <4>4, <4>5
    <3>2. CASE ~escape
      <4>1. c = p + 1 /\ j = p + 2 /\ source[p + 1] # Backslash
        BY <1>1, <1>5, <2>3, <3>2
      <4>2. Promise!Plain(p, j)
        BY <1>1, <1>2, <2>2, <4>1, LiteralIs
      <4>3. ASSUME NEW k \in Pos, k > j
            PROVE  ~Promise!Plain(p, k) /\ ~Promise!WithEscape(p, k)
        <5>1. k \in Nat /\ k # p + 2
          BY <1>1, <4>1, <4>3, PosFacts
        <5> QED BY <1>1, <1>2, <4>1, <5>1, LiteralIs
      <4> QED BY <4>2, <4>3
    <3> QED BY <3>1, <3>2
  <2>5. new_token("TK_CHARACTER", j - 1, 1, j + 1)
    BY <2>1, <2>2
  <2> HIDE DEF j, c
  <2>6. /\ Promise!Longest(p, j)
        /\ Promise!TokenFor(p, j) = <<Promise!Token("TK_CHARACTER", j - 1, 1)>>
    BY <1>1, <1>2, <2>2, <2>3, <2>4, CharacterLexeme
  <2>7. mode' \in Loops
    BY <1>1, <2>1
  <2> QED BY <1>1, <2>2, <2>3, <2>5, <2>6, <2>7, MunchesToken
<1> QED BY <1>6, <1>7, <1>8

\* The instance has a name of its own for Cardinality.
LEMMA SameCardinality == ASSUME NEW S PROVE Promise!Cardinality(S) = Cardinality(S)
BY DEF Promise!Cardinality, Cardinality

\* A backslash that is not escaped escapes what is behind it.
LEMMA EscapedIs ==
    ASSUME NEW i \in Nat
    PROVE  /\ ~Promise!Escaped(i, i + 1)
           /\ \A k \in Nat : k > i =>
                 Promise!Escaped(i, k + 1) <=> source[k] = Backslash /\ ~Promise!Escaped(i, k)
<1> DEFINE Run(k) == {h \in (i + 1)..(k - 1) : \A g \in h..(k - 1) : source[g] = Backslash}
<1>1. ASSUME NEW k
      PROVE  Promise!Escaped(i, k) <=> Cardinality(Run(k)) % 2 = 1
  <2>1. Promise!Escaped(i, k) <=> Promise!Cardinality(Run(k)) % 2 = 1
    BY DEF Promise!Escaped, Promise!Backslash, Backslash
  <2> HIDE DEF Run
  <2> QED BY <2>1, SameCardinality
<1>2. ~Promise!Escaped(i, i + 1)
  <2>1. Run(i + 1) = {}
    OBVIOUS
  <2>2. Cardinality(Run(i + 1)) = 0
    BY <2>1, FS_EmptySet
  <2> QED BY <1>1, <2>2
<1>3. ASSUME NEW k \in Nat, k > i
      PROVE  Promise!Escaped(i, k + 1) <=> source[k] = Backslash /\ ~Promise!Escaped(i, k)
  <2>1. CASE source[k] # Backslash
    <3>1. Run(k + 1) = {}
      <4> SUFFICES ASSUME NEW h \in Run(k + 1)
                   PROVE  FALSE
        OBVIOUS
      <4>1. k + 1 - 1 = k /\ h \in (i + 1)..k /\ k \in h..k
        OBVIOUS
      <4> QED BY <2>1, <4>1
    <3>2. Cardinality(Run(k + 1)) = 0
      BY <3>1, FS_EmptySet
    <3> QED BY <1>1, <2>1, <3>2
  <2>2. CASE source[k] = Backslash
    <3>1. Run(k + 1) = Run(k) \cup {k}
      <4>1. k + 1 - 1 = k
        BY <1>3
      <4>2. ASSUME NEW h \in Run(k + 1), h # k
            PROVE  h \in Run(k)
        <5>1. h \in (i + 1)..k /\ \A g \in h..k : source[g] = Backslash
          BY <4>1
        <5>2. h \in (i + 1)..(k - 1) /\ \A g \in h..(k - 1) : g \in h..k
          BY <1>3, <4>2, <5>1
        <5> QED BY <5>1, <5>2
      <4>3. ASSUME NEW h \in Run(k)
            PROVE  h \in Run(k + 1)
        <5>1. h \in (i + 1)..(k - 1) /\ \A g \in h..(k - 1) : source[g] = Backslash
          OBVIOUS
        <5>2. h \in (i + 1)..k /\ \A g \in h..k : g = k \/ g \in h..(k - 1)
          BY <1>3, <5>1
        <5> QED BY <2>2, <4>1, <5>1, <5>2
      <4>4. k \in Run(k + 1)
        <5>1. k \in (i + 1)..k /\ \A g \in k..k : g = k
          BY <1>3
        <5> QED BY <2>2, <4>1, <5>1
      <4> HIDE DEF Run
      <4> QED BY <4>2, <4>3, <4>4
    <3>2. k \notin Run(k) /\ IsFiniteSet(Run(k))
      <4>1. k \notin (i + 1)..(k - 1)
        BY <1>3
      <4>2. Run(k) \in SUBSET ((i + 1)..(k - 1)) /\ IsFiniteSet((i + 1)..(k - 1))
        BY <1>3, FS_Interval
      <4>3. IsFiniteSet(Run(k))
        <5> HIDE DEF Run
        <5> QED BY <4>2, FS_Subset
      <4> QED BY <4>1, <4>3
    <3> HIDE DEF Run
    <3>3. Cardinality(Run(k + 1)) = Cardinality(Run(k)) + 1
      BY <3>1, <3>2, FS_AddElement
    <3>4. Cardinality(Run(k)) \in Nat
      BY <3>2, FS_CardinalityType
    <3>5. \A n \in Nat : (n + 1) % 2 = 1 <=> ~(n % 2 = 1)
      OBVIOUS
    <3>6. (Cardinality(Run(k)) + 1) % 2 = 1 <=> ~(Cardinality(Run(k)) % 2 = 1)
      BY <3>4, <3>5
    <3> QED BY <1>1, <2>2, <3>3, <3>6
  <2> QED BY <2>1, <2>2
<1> QED BY <1>2, <1>3

LEMMA QuotedIs ==
    ASSUME NEW n
    PROVE  Quoted(n) <=> /\ \A k \in (p + 1)..(n - 1) : source[k] = Quote => Promise!Escaped(p, k)
                         /\ ~Promise!Escaped(p, n)
<1> DEFINE Run(k) == {h \in (p + 1)..(k - 1) : \A g \in h..(k - 1) : source[g] = Backslash}
<1>1. ASSUME NEW k
      PROVE  Promise!Escaped(p, k) <=> EscapedIn(source, p, k)
  <2>1. Promise!Escaped(p, k) <=> Promise!Cardinality(Run(k)) % 2 = 1
    BY DEF Promise!Escaped, Promise!Backslash, Backslash
  <2>2. EscapedIn(source, p, k) <=> Cardinality(Run(k)) % 2 = 1
    BY DEF EscapedIn
  <2> HIDE DEF Run
  <2> QED BY <2>1, <2>2, SameCardinality
<1> QED BY <1>1 DEF Quoted

\* The step of the loop over a character that is no quote.
LEMMA QuotedNext ==
    ASSUME p \in Nat, NEW i \in Nat, p < i, Quoted(i), source[i] # Quote
    PROVE  Quoted(IF source[i] = Backslash THEN i + 2 ELSE i + 1)
<1>2. i + 1 \in Nat /\ i + 1 > p /\ i + 1 + 1 = i + 2 /\ i + 1 - 1 = i /\ i + 2 - 1 = i + 1
  OBVIOUS
<1>3. /\ Promise!Escaped(p, i + 1) <=> source[i] = Backslash
      /\ Promise!Escaped(p, i + 2) <=> source[i + 1] = Backslash /\ ~Promise!Escaped(p, i + 1)
  BY <1>2, EscapedIs, QuotedIs
<1>4. \A k \in (p + 1)..i : source[k] = Quote => Promise!Escaped(p, k)
  <2> SUFFICES ASSUME NEW k \in (p + 1)..i, source[k] = Quote
               PROVE  Promise!Escaped(p, k)
    OBVIOUS
  <2>1. k \in (p + 1)..(i - 1)
    <3>1. k # i
      OBVIOUS
    <3> QED BY <3>1
  <2> QED BY <2>1, QuotedIs
<1>5. CASE source[i] # Backslash
  BY <1>2, <1>3, <1>4, <1>5, QuotedIs
<1>6. CASE source[i] = Backslash
  <2>1. \A k \in (p + 1)..(i + 1) : k = i + 1 \/ k \in (p + 1)..i
    OBVIOUS
  <2>2. \A k \in (p + 1)..(i + 1) : source[k] = Quote => Promise!Escaped(p, k)
    BY <1>3, <1>4, <1>6, <2>1
  <2> QED BY <1>2, <1>3, <1>6, <2>2, QuotedIs
<1> QED BY <1>5, <1>6

LEMMA InnerIs ==
    ASSUME Inv, mode \in Inner
    PROVE  /\ mode \in Loops /\ p \in Pos /\ p \in Nat /\ q \in Nat /\ p < q /\ q <= End
           /\ Len(source) \in Nat /\ End = Len(source) + 1 /\ Promise!Positions = Pos
<1>1. mode \in Loops /\ p < q /\ q <= End
  BY DEF Inv, Looking, Inner, Loops
<1>2. p \in Nat \ {0} /\ q \in Nat /\ Len(source) \in Nat /\ End = Len(source) + 1
  BY PosFacts
<1>3. p \in Pos
  BY <1>1, <1>2 DEF Pos
<1> QED BY <1>1, <1>2, <1>3, PosFacts

LEMMA NoString ==
    ASSUME Inv, mode \in Loops, p \in Pos, source[p] = Quote,
           NEW n \in Nat, n >= End, Quoted(n)
    PROVE  Promise!Lost(p)
<1>1. p \in Nat /\ Len(source) \in Nat /\ End = Len(source) + 1 /\ Promise!Positions = Pos
  BY PosFacts
<1>2. ASSUME NEW j \in Pos, Promise!String(p, j)
      PROVE  FALSE
  <2>1. p < j /\ j \in 1..Len(source)
    BY <1>2 DEF Promise!String, Pos
  <2>2. j \in (p + 1)..j /\ j \in (p + 1)..(n - 1)
    BY <1>1, <2>1
  <2>3. source[j] = Quote /\ ~Promise!Escaped(p, j)
    BY <1>2, <2>2 DEF Promise!String, Promise!Quote, Quote
  <2> QED BY <2>2, <2>3, QuotedIs
<1> QED BY <1>1, <1>2 DEF Promise!Lost, Promise!Quote, Quote

LEMMA StringLexeme ==
    ASSUME Inv, mode \in Loops, p \in Pos, source[p] = Quote,
           NEW j \in Pos, p < j, source[j] = Quote, Quoted(j)
    PROVE  /\ Promise!Longest(p, j)
           /\ Promise!TokenFor(p, j) = <<Promise!Token("TK_STRING", p + 1, j - p - 1)>>
<1>1. p \in Nat /\ j \in Nat /\ p <= j /\ p # j /\ p \in p..j /\ Promise!Positions = Pos
  BY PosFacts
<1>2. ASSUME NEW k \in (p + 1)..j
      PROVE  (source[k] = Quote /\ ~Promise!Escaped(p, k)) <=> k = j
  <2>1. k = j \/ k \in (p + 1)..(j - 1)
    BY <1>1
  <2>2. \A i \in (p + 1)..(j - 1) : i # j
    BY <1>1
  <2> QED BY <2>1, <2>2, QuotedIs
<1>3. Promise!String(p, j)
  BY <1>2 DEF Promise!String, Promise!Quote, Quote
<1>4. /\ source[p] \notin Starts /\ source[p] \notin Digits /\ source[p] \notin Alnum
      /\ source[p] \notin Spaces /\ source[p] # Apostrophe /\ source[p] # "/"
      /\ source[p] \notin ShortOps \cup {"|"}
  BY Classes, Spellings
<1>5. ~Promise!Opens(p) /\ ~Promise!LineComment(p, j)
  BY <1>4 DEF Promise!Opens, Promise!Pair, Promise!LineComment
<1>6. ASSUME NEW k \in Pos, k > j
      PROVE  ~Promise!Lexeme(p, k)
  <2>1. k \in Nat /\ p <= k /\ j \in (p + 1)..k /\ j # k
    BY <1>1, <1>6, PosFacts
  <2>2. ~Promise!String(p, k)
    BY <2>1, <1>2, <1>3, QuotedIs DEF Promise!String, Promise!Quote, Quote
  <2> QED BY <1>1, <1>4, <2>1, <2>2, LexemeOf
<1>7. Promise!Longest(p, j)
  BY <1>1, <1>3, <1>5, <1>6 DEF Promise!Longest, Promise!Lexeme
<1>8. ~Promise!Space(p, j) /\ ~Promise!Number(p, j)
  BY <1>1, <1>4 DEF Promise!Space, Promise!Number
<1>9. ~Promise!Word(p, j)
  <2>1. Promise!Alnum = Alnum
    BY DEF Promise!Alnum, Alnum
  <2> QED BY <1>1, <1>4, <2>1 DEF Promise!Word
<1> QED BY <1>3, <1>5, <1>7, <1>8, <1>9 DEF Promise!TokenFor

\* The step of the loop over a string, and what it has seen then.
LEMMA StringSteps ==
    ASSUME RInv, string
    PROVE  /\ Promise!Munch \/ Promise!Lose \/ UNCHANGED Promise!vars
           /\ mode' = "string" => source' = source /\ p' = p /\ source[p] = Quote /\ Quoted(q')
<1> DEFINE n == IF At(q) = Backslash THEN q + 2 ELSE q + 1
<1>1. Inv /\ mode \in Inner /\ source[p] = Quote /\ Quoted(q)
  BY DEF RInv, Seen, string, Inner
<1>2. /\ mode \in Loops /\ p \in Pos /\ p \in Nat /\ q \in Nat /\ p < q /\ q <= End
      /\ Len(source) \in Nat /\ End = Len(source) + 1 /\ p <= q
  BY <1>1, InnerIs
<1>3. CASE At(q) = Quote
  <2>1. new_token("TK_STRING", p + 1, q - p - 1, q + 1) /\ mode' = "scan"
    BY <1>3 DEF string
  <2>2. q \in Pos /\ source[q] = Quote
    BY <1>1, <1>2, <1>3, InFile, Spellings
  <2>3. /\ Promise!Longest(p, q)
        /\ Promise!TokenFor(p, q) = <<Promise!Token("TK_STRING", p + 1, q - p - 1)>>
    BY <1>1, <1>2, <2>2, StringLexeme
  <2>4. mode' \in Loops /\ mode' # "string"
    BY <2>1 DEF Loops
  <2>5. Promise!Munch
    BY <1>1, <1>2, <2>1, <2>2, <2>3, <2>4, MunchesToken
  <2> QED BY <2>4, <2>5
<1>4. CASE At(q) # Quote
  <2>1. Look("string", n)
    BY <1>4 DEF string
  <2>2. n \in Nat /\ n > q /\ n >= q
    BY <1>2
  <2>3. q \in Pos => Quoted(n)
    <3> SUFFICES ASSUME q \in Pos
                 PROVE  Quoted(n)
      OBVIOUS
    <3>1. At(q) = source[q]
      BY <1>1, <1>2, AtIs
    <3>2. Quoted(IF source[q] = Backslash THEN q + 2 ELSE q + 1)
      BY <1>1, <1>2, <1>4, <3>1, QuotedNext
    <3> QED BY <3>1, <3>2
  <2>4. q \notin Pos => q = End
    BY <1>2 DEF Pos
  <2> HIDE DEF n
  <2>5. /\ mode' = (IF n > End THEN "overrun" ELSE "string") /\ q' = n
        /\ UNCHANGED <<source, p, tokens>> /\ source' = source /\ p' = p
    BY <2>1 DEF Look
  <2>6. CASE n > End
    <3>1. mode' = "overrun" /\ mode' # "string" /\ mode' \in {"overrun", "exit"}
      BY <2>5, <2>6
    <3>2. \E i \in Nat : i >= End /\ Quoted(i)
      <4>1. n >= End /\ End >= End /\ End \in Nat
        BY <1>2, <2>2, <2>6
      <4> QED BY <1>1, <2>2, <2>3, <2>4, <4>1
    <3>3. Promise!Lost(p)
      BY <1>1, <1>2, <3>2, NoString
    <3> QED BY <1>1, <1>2, <2>5, <3>1, <3>3, Loses
  <2>7. CASE ~(n > End)
    <3>1. mode' = "string" /\ mode' \in Loops
      BY <2>5, <2>7 DEF Loops
    <3>2. q \in Pos
      BY <1>2, <2>2, <2>4, <2>7
    <3> QED BY <1>1, <1>2, <2>3, <2>5, <3>1, <3>2, Idles
  <2> QED BY <2>6, <2>7
<1> QED BY <1>3, <1>4

LEMMA OpenStringSteps ==
    ASSUME RInv, open_string
    PROVE  /\ UNCHANGED Promise!vars
           /\ mode' = "string" /\ source' = source /\ p' = p /\ source[p] = Quote /\ Quoted(q')
<1>1. Inv /\ Round /\ mode \in Loops /\ p \in Pos /\ p \in Nat /\ source[p] = Quote
  BY RoundIs DEF RInv, open_string
<1>2. Look("string", p + 1)
  BY DEF open_string
<1>3. ~(p + 1 > End)
  BY <1>1, PosFacts DEF Pos
<1>4. mode' = "string" /\ q' = p + 1 /\ UNCHANGED <<source, p, tokens>> /\ mode' \in Loops
  BY <1>2, <1>3 DEF Look, Loops
<1>5. Quoted(p + 1)
  <2>1. (p + 1)..(p + 1 - 1) = {}
    BY <1>1
  <2> QED BY <1>1, <2>1, EscapedIs, QuotedIs
<1> QED BY <1>1, <1>4, <1>5, Idles

-----------------------------------------------------------------------------
(* Comments. *)

LEMMA OpenCommentSteps ==
    ASSUME RInv, open_line_comment \/ open_block_comment
    PROVE  /\ UNCHANGED Promise!vars /\ source' = source /\ p' = p
           /\ \/ mode' = "line comment" /\ InLine(q')
              \/ mode' = "block comment" /\ InBlock(q')
<1>1. Inv /\ Round /\ mode \in Loops /\ p \in Pos /\ p \in Nat
  BY RoundIs DEF RInv, open_line_comment, open_block_comment
<1>2. Len(source) \in Nat /\ End = Len(source) + 1 /\ Promise!Positions = Pos /\ p <= Len(source)
  BY <1>1, PosFacts DEF Pos
<1>3. CASE open_line_comment
  <2>1. Look("line comment", p + 2) /\ Promise!Pair(p, "/", "/")
    BY <1>1, <1>3, CommentIs DEF open_line_comment
  <2>2. p + 1 \in Pos /\ source[p] = "/" /\ source[p + 1] = "/"
    BY <1>2, <2>1 DEF Promise!Pair
  <2>3. ~(p + 2 > End)
    BY <1>1, <1>2, <2>2 DEF Pos
  <2>4. mode' = "line comment" /\ q' = p + 2 /\ UNCHANGED <<source, p, tokens>> /\ mode' \in Loops
    BY <2>1, <2>3 DEF Look, Loops
  <2>5. \A k \in p..((p + 2) - 1) : k = p \/ k = p + 1
    BY <1>1
  <2>6. InLine(p + 2)
    <3>1. \A k \in p..((p + 2) - 1) : source[k] # Newline
      BY <2>2, <2>5, Spellings
    <3>2. p + 2 <= p + 2
      BY <1>1
    <3>3. Promise!Pair(p, "/", "/")
      BY <2>1
    <3> QED BY <3>1, <3>2, <3>3 DEF InLine
  <2> QED BY <1>1, <2>4, <2>6, Idles
<1>4. CASE open_block_comment
  <2>1. Look("block comment", p + 1) /\ Promise!Opens(p)
    BY <1>1, <1>4, CommentIs DEF open_block_comment
  <2>2. ~(p + 1 > End)
    BY <1>1, <1>2
  <2>3. mode' = "block comment" /\ q' = p + 1 /\ UNCHANGED <<source, p, tokens>> /\ mode' \in Loops
    BY <2>1, <2>2 DEF Look, Loops
  <2>4. ASSUME NEW k \in 1..Len(source), Promise!Closes(p, k), k <= p + 1 + 1
        PROVE  FALSE
    <3>1. k \in (p + 3)..Len(source)
      BY <2>4 DEF Promise!Closes
    <3> QED BY <1>1, <1>2, <2>4, <3>1
  <2>5. InBlock(p + 1)
    BY <2>1, <2>4 DEF InBlock, Skipped
  <2> QED BY <1>1, <2>3, <2>5, Idles
<1> QED BY <1>3, <1>4

\* The text ends with a new line, where a line comment ends at the latest.
LEMMA LineCommentSteps ==
    ASSUME RInv, line_comment
    PROVE  /\ Promise!Munch \/ UNCHANGED Promise!vars
           /\ mode' = "scan" \/ mode' = "line comment"
           /\ mode' = "line comment" => source' = source /\ p' = p /\ InLine(q')
<1>1. Inv /\ mode \in Inner /\ InLine(q) /\ source[Len(source)] = Newline
  BY DEF RInv, Measured, Seen, line_comment, Inner, InLine
<1>2. /\ mode \in Loops /\ p \in Pos /\ p \in Nat /\ q \in Nat /\ p < q /\ q <= End
      /\ Len(source) \in Nat /\ End = Len(source) + 1 /\ p <= q /\ Promise!Positions = Pos
      /\ p <= Len(source)
  BY <1>1, InnerIs DEF Pos
<1>3. q \in Pos
  <2>1. SUFFICES ASSUME q = End
                 PROVE  FALSE
    BY <1>2 DEF Pos
  <2>2. Len(source) \in p..(q - 1)
    BY <1>2, <2>1
  <2> QED BY <1>1, <2>2 DEF InLine
<1>4. At(q) = source[q] /\ p + 2 <= q
  BY <1>1, <1>2, <1>3, AtIs DEF InLine
<1>5. CASE At(q) = Newline
  <2> DEFINE j == q - 1
  <2>1. mode' = "scan" /\ mode' \in Loops /\ p' = q /\ UNCHANGED <<source, tokens>>
    BY <1>5 DEF line_comment, Resume, Loops
  <2>2. j + 1 = q /\ j \in Nat /\ p < j /\ p <= j /\ j \in Pos /\ p + 1 <= j
    BY <1>2, <1>3, <1>4 DEF Pos
  <2>3. source[p] = "/" /\ source[p + 1] = "/" /\ ~Promise!Opens(p)
    BY <1>1, Spellings DEF InLine, Promise!Opens, Promise!Pair
  <2>4. Promise!LineComment(p, j)
    BY <1>1, <2>2 DEF InLine, Promise!LineComment, Promise!Newline, Newline
  <2>5. ASSUME NEW k \in Pos, k > j
        PROVE  ~Promise!Lexeme(p, k)
    <3>1. k \in Nat /\ p <= k /\ k # p /\ k # p + 1 /\ q \in p..k
      BY <1>2, <2>2, <2>5, PosFacts
    <3>2. ~Promise!LineComment(p, k)
      BY <1>4, <1>5, <3>1 DEF Promise!LineComment, Promise!Newline, Newline
    <3>3. ~Promise!Operator(p, k)
      BY <1>1, <1>2, <3>1, OperatorIs
    <3>4. /\ source[p] \notin Starts /\ source[p] \notin Digits /\ source[p] \notin Spaces
          /\ source[p] # Quote /\ source[p] # Apostrophe
      BY <2>3, Classes, Spellings
    <3> QED BY <1>1, <1>2, <3>1, <3>2, <3>3, <3>4, LexemeOf
  <2> HIDE DEF j
  <2>6. Promise!Longest(p, j) /\ Promise!TokenFor(p, j) = <<>>
    <3>1. Promise!Longest(p, j)
      BY <1>2, <2>3, <2>4, <2>5 DEF Promise!Longest, Promise!Lexeme
    <3> QED BY <2>4, <3>1 DEF Promise!TokenFor
  <2>7. Promise!Munch
    BY <1>1, <1>2, <2>1, <2>2, <2>6, MunchesNothing
  <2> QED BY <2>1, <2>7
<1>6. CASE At(q) # Newline
  <2>1. Look("line comment", q + 1)
    BY <1>6 DEF line_comment
  <2>2. ~(q + 1 > End)
    BY <1>2, <1>3 DEF Pos
  <2>3. mode' = "line comment" /\ q' = q + 1 /\ UNCHANGED <<source, p, tokens>> /\ mode' \in Loops
    BY <2>1, <2>2 DEF Look, Loops
  <2>4. p + 2 <= q + 1 /\ \A k \in p..((q + 1) - 1) : k = q \/ k \in p..(q - 1)
    BY <1>2, <1>4
  <2>5. InLine(q + 1)
    <3>1. Promise!Pair(p, "/", "/") /\ \A k \in p..(q - 1) : source[k] # Newline
      BY <1>1 DEF InLine
    <3>2. \A k \in p..((q + 1) - 1) : source[k] # Newline
      BY <1>4, <1>6, <2>4, <3>1
    <3>3. p + 2 <= q + 1
      BY <2>4
    <3>4. Promise!Pair(p, "/", "/")
      BY <3>1
    <3> QED BY <3>2, <3>3, <3>4 DEF InLine
  <2> QED BY <1>2, <2>3, <2>5, Idles
<1> QED BY <1>5, <1>6

LEMMA NoEnd ==
    ASSUME Inv, mode \in Loops, p \in Pos, Promise!Opens(p), NEW n \in Nat, n >= Len(source),
           Skipped(n)
    PROVE  Promise!Lost(p)
<1>1. Promise!Positions = 1..Len(source) /\ Len(source) \in Nat
  BY PosFacts DEF Pos
<1>2. \A j \in 1..Len(source) : j <= n
  BY <1>1
<1> QED BY <1>1, <1>2 DEF Skipped, Promise!Lost

\* The loop goes on behind an i that ends no comment.
LEMMA SkipsOn ==
    ASSUME Inv, mode \in Loops, NEW i \in Nat, Skipped(i), ~Promise!Pair(i, "*", "/")
    PROVE  Skipped(i + 1)
<1> SUFFICES ASSUME NEW k \in 1..Len(source), Promise!Closes(p, k), k <= i + 1
             PROVE  Promise!QuoteIn(p, k)
  BY DEF Skipped
<1>1. Len(source) \in Nat
  BY PosFacts
<1>2. k # i + 1
  <2> SUFFICES ASSUME k = i + 1
               PROVE  FALSE
    OBVIOUS
  <2>1. Promise!Pair(k - 1, "*", "/") /\ k - 1 = i
    BY DEF Promise!Closes
  <2> QED BY <2>1
<1>3. k <= i
  BY <1>1, <1>2
<1> QED BY <1>3 DEF Skipped

\* Behind a quote nothing is promised.
LEMMA QuoteStays ==
    ASSUME Inv, NEW i \in Nat, NEW n \in Nat, i <= n, Promise!QuoteIn(p, i), Skipped(i)
    PROVE  Promise!QuoteIn(p, n) /\ Skipped(n)
<1>1. p \in Nat /\ Len(source) \in Nat
  BY PosFacts
<1>2. PICK x \in p..i : source[x] = Promise!Quote
  BY DEF Promise!QuoteIn
<1>3. \A k \in Nat : k >= i => Promise!QuoteIn(p, k)
  <2> TAKE k \in Nat
  <2> HAVE k >= i
  <2>1. x \in p..k
    BY <1>1, <1>2
  <2> QED BY <1>2, <2>1 DEF Promise!QuoteIn
<1>4. ASSUME NEW k \in 1..Len(source), Promise!Closes(p, k)
      PROVE  Promise!QuoteIn(p, k)
  <2>1. k \in Nat /\ (k <= i \/ k >= i)
    BY <1>1
  <2> QED BY <1>3, <1>4, <2>1 DEF Skipped
<1> QED BY <1>3, <1>4 DEF Skipped

LEMMA BlockLexeme ==
    ASSUME Inv, mode \in Inner, InBlock(q), Promise!Pair(q + 1, "*", "/")
    PROVE  /\ q + 2 \in Pos
           /\ Promise!Longest(p, q + 2) /\ Promise!TokenFor(p, q + 2) = <<>>
<1>1. /\ mode \in Loops /\ p \in Pos /\ p \in Nat /\ q \in Nat /\ p < q
      /\ Len(source) \in Nat /\ Promise!Positions = Pos
  BY InnerIs
<1>2. q + 2 \in Pos /\ (q + 2) - 1 = q + 1 /\ q + 2 \in (p + 3)..Len(source)
  <2>1. q + 1 + 1 = q + 2
    BY <1>1
  <2>2. q + 2 \in Pos
    BY <1>1, <2>1 DEF Promise!Pair
  <2> QED BY <1>1, <2>2 DEF Pos
<1>3. Promise!Closes(p, q + 2)
  <2>1. (q + 2) - 1 = q + 1
    BY <1>2
  <2>2. Promise!Pair((q + 2) - 1, "*", "/")
    BY <2>1
  <2> QED BY <1>2, <2>2 DEF Promise!Closes
<1>4. ASSUME NEW k \in Pos, Promise!Closes(p, k), k < q + 2
      PROVE  Promise!QuoteIn(p, k)
  <2>1. k \in 1..Len(source) /\ k <= q + 1
    BY <1>1, <1>4 DEF Pos
  <2> QED BY <1>4, <2>1 DEF InBlock, Skipped
<1>5. Promise!Opens(p)
  BY DEF InBlock
<1>6. Promise!BlockComment(p, q + 2)
  BY <1>1, <1>3, <1>4, <1>5 DEF Promise!BlockComment
<1> QED BY <1>2, <1>5, <1>6 DEF Promise!Longest, Promise!TokenFor

LEMMA BlockCommentSteps ==
    ASSUME RInv, block_comment \/ quoted
    PROVE  /\ Promise!Munch \/ Promise!Lose \/ UNCHANGED Promise!vars
           /\ mode' \in {"scan", "block comment", "quoted", "overrun"}
           /\ mode' \in {"block comment", "quoted"} =>
                 source' = source /\ p' = p /\ InBlock(q')
           /\ mode' = "quoted" => Promise!QuoteIn(p, q')
<1>1. Inv /\ mode \in Inner /\ InBlock(q) /\ (quoted => Promise!QuoteIn(p, q))
  BY DEF RInv, Seen, block_comment, quoted, Inner, InBlock
<1>2. /\ mode \in Loops /\ p \in Pos /\ p \in Nat /\ q \in Nat /\ p < q /\ q <= End
      /\ Len(source) \in Nat /\ End = Len(source) + 1 /\ p <= q + 1 /\ q + 1 \in Nat
      /\ q + 2 = q + 1 + 1 /\ p <= q + 2
  BY <1>1, InnerIs
<1>3. Promise!Opens(p) /\ Skipped(q + 1)
  BY <1>1 DEF InBlock
<1>4. \A i \in Nat : i > End => i + 1 \in Nat /\ i + 1 >= Len(source)
  BY <1>2
<1>5. ASSUME NEW loop \in {"block comment", "quoted"}, NEW i \in Nat, Look(loop, i),
             Skipped(i + 1), loop = "quoted" => Promise!QuoteIn(p, i)
      PROVE  /\ Promise!Lose \/ UNCHANGED Promise!vars
             /\ mode' \in {"block comment", "quoted", "overrun"}
             /\ mode' \in {"block comment", "quoted"} =>
                   source' = source /\ p' = p /\ InBlock(q')
             /\ mode' = "quoted" => Promise!QuoteIn(p, q')
  <2>1. /\ mode' = (IF i > End THEN "overrun" ELSE loop) /\ q' = i
        /\ UNCHANGED <<source, p, tokens>> /\ source' = source /\ p' = p
    BY <1>5 DEF Look
  <2>2. InBlock(q')
    BY <1>3, <1>5, <2>1 DEF InBlock, Skipped, Promise!Opens, Promise!Closes, Promise!QuoteIn
  <2>3. CASE i > End
    <3>1. mode' = "overrun" /\ mode' \in {"overrun", "exit"} /\ mode' # "quoted"
          /\ mode' \notin {"block comment", "quoted"}
      BY <2>1, <2>3
    <3>2. i + 1 \in Nat /\ i + 1 >= Len(source)
      BY <1>4, <2>3
    <3>3. Promise!Lost(p)
      BY <1>1, <1>2, <1>3, <1>5, <3>2, NoEnd
    <3> QED BY <1>1, <1>2, <2>1, <3>1, <3>3, Loses
  <2>4. CASE ~(i > End)
    <3>1. mode' = loop /\ mode' \in Loops /\ mode' \in {"block comment", "quoted", "overrun"}
      BY <1>5, <2>1, <2>4 DEF Loops
    <3> QED BY <1>2, <1>5, <2>1, <2>2, <3>1, Idles
  <2> QED BY <2>3, <2>4
<1>6. CASE block_comment
  <2>1. CASE At(q + 1) = Quote
    <3>1. Look("quoted", q + 1)
      BY <1>6, <2>1 DEF block_comment
    <3>2. q + 1 \in Pos /\ source[q + 1] = Quote
      BY <1>1, <1>2, <2>1, InFile, Spellings
    <3>3. ~Promise!Pair(q + 1, "*", "/")
      BY <3>2, Spellings DEF Promise!Pair
    <3>4. Skipped(q + 1 + 1)
      BY <1>1, <1>2, <1>3, <3>3, SkipsOn
    <3>5. Promise!QuoteIn(p, q + 1)
      <4>1. q + 1 \in p..(q + 1)
        BY <1>2
      <4> QED BY <3>2, <4>1 DEF Promise!QuoteIn, Promise!Quote, Quote
    <3> QED BY <1>2, <1>5, <3>1, <3>4, <3>5
  <2>2. CASE At(q + 1) # Quote /\ StartsWith(q + 1, <<"*", "/">>)
    <3>1. Resume(q + 3)
      BY <1>6, <2>2 DEF block_comment
    <3>2. Promise!Pair(q + 1, "*", "/")
      BY <1>1, <1>2, <2>2, PairIs, Spellings
    <3>3. /\ q + 2 \in Pos /\ p <= q + 2 /\ q + 3 = q + 2 + 1
          /\ Promise!Longest(p, q + 2) /\ Promise!TokenFor(p, q + 2) = <<>>
      BY <1>1, <1>2, <3>2, BlockLexeme
    <3>4. mode' = "scan" /\ mode' \in Loops /\ p' = q + 2 + 1 /\ UNCHANGED <<source, tokens>>
      BY <3>1, <3>3 DEF Resume, Loops
    <3>5. Promise!Munch
      BY <1>1, <1>2, <3>3, <3>4, MunchesNothing
    <3> QED BY <3>4, <3>5
  <2>3. CASE At(q + 1) # Quote /\ ~StartsWith(q + 1, <<"*", "/">>)
    <3>1. Look("block comment", q + 1)
      BY <1>6, <2>3 DEF block_comment
    <3>2. ~Promise!Pair(q + 1, "*", "/") \/ q + 1 \notin Pos
      BY <1>1, <1>2, <2>3, PairIs, Spellings
    <3>3. ~Promise!Pair(q + 1, "*", "/")
      <4>1. q + 1 \notin Pos => q + 1 + 1 \notin Pos
        BY <1>2 DEF Pos
      <4> QED BY <1>1, <3>2, <4>1, PosFacts DEF Promise!Pair
    <3>4. Skipped(q + 1 + 1)
      BY <1>1, <1>2, <1>3, <3>3, SkipsOn
    <3> QED BY <1>2, <1>5, <3>1, <3>4
  <2> QED BY <2>1, <2>2, <2>3
<1>7. CASE quoted
  <2>1. Promise!QuoteIn(p, q)
    BY <1>1, <1>7
  <2>2. Promise!QuoteIn(p, q + 1) /\ Skipped(q + 1)
    <3>1. q <= q + 1 /\ q + 1 <= q + 1
      BY <1>2
    <3>2. q + 1 \in p..(q + 1) /\ \A x \in p..q : x \in p..(q + 1)
      BY <1>2
    <3>3. Promise!QuoteIn(p, q + 1)
      BY <2>1, <3>2 DEF Promise!QuoteIn
    <3> QED BY <1>3, <3>3
  <2>3. \A n \in Nat : n >= q + 1 => Promise!QuoteIn(p, n) /\ Skipped(n)
    BY <1>1, <1>2, <2>2, QuoteStays
  <2>4. \/ Look("block comment", q + 1)
        \/ Look("quoted", q + 1)
        \/ Look("quoted", q + 2)
    BY <1>7 DEF quoted
  <2>5. /\ q + 2 \in Nat /\ q + 2 >= q + 1 /\ q + 1 >= q + 1
        /\ q + 1 + 1 \in Nat /\ q + 1 + 1 >= q + 1 /\ q + 2 + 1 \in Nat /\ q + 2 + 1 >= q + 1
    BY <1>2
  <2>6. /\ Skipped(q + 1 + 1) /\ Skipped(q + 2 + 1)
        /\ Promise!QuoteIn(p, q + 1) /\ Promise!QuoteIn(p, q + 2)
    BY <1>2, <2>3, <2>5
  <2> QED BY <1>2, <1>5, <2>4, <2>5, <2>6
<1> QED BY <1>6, <1>7

-----------------------------------------------------------------------------
(* The lines, and the ends of the reading. *)

LEMMA LinesAre == Promise!Lines = Cardinality(Newlines(Len(source)))
<1> DEFINE S == Newlines(Len(source))
<1>1. Promise!Lines = Promise!Cardinality(S)
  BY DEF Promise!Lines, Promise!Positions, Promise!Newline, Newline, Newlines
<1> HIDE DEF S
<1>2. Promise!Lines = Cardinality(S)
  BY <1>1, SameCardinality
<1> QED BY <1>2 DEF S

LEMMA MeasureLineSteps ==
    ASSUME RInv, MeasureLine
    PROVE  /\ Promise!Lose \/ UNCHANGED Promise!vars
           /\ mode' \in {"lines", "overrun"} /\ source' = source
           /\ mode' = "lines" =>
                 p' = 1 /\ Cardinality(Newlines(row' - 1)) = Len(charPoint')
<1>1. /\ Inv /\ mode = "lines" /\ mode \in Loops /\ p = 1
      /\ Cardinality(Newlines(row - 1)) = Len(charPoint)
  BY DEF RInv, Measured, MeasureLine, Loops
<1>2. /\ Len(source) \in Nat /\ Len(user_input) = Len(source) /\ PROGRAM_LINE \in Nat
      /\ row \in Nat \ {0} /\ End = Len(source) + 1 /\ p \in Pos
  <2>1. row \in 1..End
    BY <1>1 DEF Inv, TypeOK
  <2>2. Len(source) \in Nat /\ End = Len(source) + 1 /\ Len(user_input) = Len(source)
    BY <1>1, PosFacts DEF Inv, TypeOK
  <2>3. 1 <= Len(source)
    <3>1. PICK n \in row..Len(user_input) : TRUE
      BY DEF MeasureLine
    <3> QED BY <2>1, <2>2, <3>1
  <2> QED BY <1>1, <2>1, <2>2, <2>3, LineAssumption DEF Pos
<1>3. PICK n \in row..Len(user_input) :
          /\ user_input[n] = Newline
          /\ \A k \in row..(n - 1) : user_input[k] # Newline
          /\ row' = n + 1
          /\ IF Len(charPoint) + 1 < PROGRAM_LINE
             THEN charPoint' = Append(charPoint, AsChar(Length(n))) /\ UNCHANGED mode
             ELSE mode' = "overrun" /\ UNCHANGED charPoint
  BY DEF MeasureLine
<1>4. UNCHANGED <<source, p, tokens>> /\ source' = source
  BY DEF MeasureLine
<1>5. n \in Nat /\ row <= n /\ n \in 1..Len(source) /\ row' - 1 = n
  BY <1>2, <1>3
<1>6. \A k \in 1..Len(source) : user_input[k] = source[k]
  BY <1>1 DEF Inv, Ahead
<1>7. \A k \in row..(n - 1) : source[k] # Newline
  <2>1. \A k \in row..(n - 1) : k \in 1..Len(source)
    BY <1>2, <1>5
  <2> QED BY <1>3, <1>6, <2>1
<1>8. Cardinality(Newlines(n)) = Len(charPoint) + 1
  BY <1>1, <1>2, <1>3, <1>5, <1>6, <1>7, NewlinesNext
<1>9. CASE Len(charPoint) + 1 < PROGRAM_LINE
  <2>1. mode' = "lines" /\ mode' \in Loops
    BY <1>1, <1>3, <1>9
  <2>2. Len(charPoint') = Len(charPoint) + 1
    <3>1. charPoint \in Seq(-128..127)
      BY <1>1 DEF Inv, TypeOK
    <3>2. charPoint' = Append(charPoint, AsChar(Length(n)))
      BY <1>3, <1>9
    <3> QED BY <3>1, <3>2
  <2>3. Cardinality(Newlines(row' - 1)) = Len(charPoint')
    BY <1>5, <1>8, <2>2
  <2> QED BY <1>1, <1>4, <2>1, <2>3, Idles
<1>10. CASE ~(Len(charPoint) + 1 < PROGRAM_LINE)
  <2>1. mode' = "overrun" /\ mode' # "lines" /\ mode' \in {"overrun", "exit"}
    BY <1>3, <1>10
  <2>2. Newlines(n) \in SUBSET Newlines(Len(source))
    BY <1>2, <1>5 DEF Newlines
  <2>3. Cardinality(Newlines(n)) <= Cardinality(Newlines(Len(source)))
        /\ Cardinality(Newlines(Len(source))) \in Nat
    <3>1. IsFiniteSet(Newlines(Len(source))) /\ Cardinality(Newlines(Len(source))) \in Nat
      BY <1>2, NewlinesFinite
    <3> QED BY <2>2, <3>1, FS_Subset
  <2>4. Len(charPoint) \in Nat
    BY <1>1 DEF Inv, TypeOK
  <2>5. Promise!Lines >= PROGRAM_LINE
    <3>1. Cardinality(Newlines(Len(source))) >= PROGRAM_LINE
      BY <1>2, <1>8, <1>10, <2>3, <2>4
    <3> QED BY <3>1, LinesAre
  <2>6. Promise!Lost(p)
    BY <2>5 DEF Promise!Lost
  <2> QED BY <1>1, <1>2, <1>4, <2>1, <2>6, Loses
<1> QED BY <1>9, <1>10

LEMMA StartScanSteps ==
    ASSUME RInv, StartScan
    PROVE  UNCHANGED Promise!vars /\ mode' = "scan" /\ source' = source
           /\ Promise!Lines < PROGRAM_LINE
<1>1. /\ Inv /\ mode = "lines" /\ mode \in Loops /\ row = End
      /\ Cardinality(Newlines(row - 1)) = Len(charPoint)
  BY DEF RInv, Measured, StartScan, Loops
<1>2. mode' = "scan" /\ mode' \in Loops /\ UNCHANGED <<source, p, tokens>> /\ source' = source
  BY DEF StartScan, Loops
<1>3. row - 1 = Len(source)
  BY <1>1, PosFacts
<1>4. Len(charPoint) < PROGRAM_LINE
  BY <1>1 DEF Inv, TypeOK
<1>5. Promise!Lines < PROGRAM_LINE
  BY <1>1, <1>3, <1>4, LinesAre
<1> QED BY <1>1, <1>2, <1>5, Idles

LEMMA EndSteps ==
    ASSUME RInv, end_of_file
    PROVE  Promise!End /\ mode' = "done"
<1>1. Inv /\ mode = "scan" /\ p = End /\ new_token("TK_EOF", p, 0, p) /\ mode' = "done"
  BY DEF RInv, end_of_file
<1>2. mode \in Loops /\ mode' \notin Loops /\ mode' # "overrun"
  BY <1>1 DEF Loops
<1>3. /\ source' = source /\ p' = p
      /\ tokens' = Append(tokens, Promise!Token("TK_EOF", p, 0))
  BY <1>1 DEF new_token, Token, Promise!Token
<1>4. p = Len(source) + 1
  BY <1>1, PosFacts
<1> QED BY <1>1, <1>2, <1>3, <1>4 DEF Promise!End, Promise!Reading

\* Where no rule applies no lexeme starts, and nothing else is wrong with the text.
LEMMA ErrorSteps ==
    ASSUME RInv, bad_character
    PROVE  Promise!Error /\ mode' = "error"
<1>1. Inv /\ Round /\ mode \in Loops /\ p \in Pos /\ p \in Nat /\ At(p) = source[p] /\ mode = "scan"
  BY RoundIs DEF RInv, bad_character, Round
<1>2. /\ source' = source /\ p' = p /\ mode' = "error"
      /\ tokens' = Append(tokens, Promise!Token("TK_ERROR", p, 1))
  BY DEF bad_character, Token, Promise!Token
<1>3. mode' \notin Loops /\ mode' # "overrun"
  BY <1>2 DEF Loops
<1>4. /\ source[p] \notin Spaces /\ source[p] \notin Alnum /\ source[p] \notin ShortOps
      /\ source[p] # Quote /\ source[p] # Apostrophe
      /\ ~Comment /\ ~IsLongOp
  BY <1>1 DEF bad_character
<1>5. source[p] \notin Starts /\ source[p] \notin Digits /\ source[p] # "/"
  BY <1>4, Classes
<1>6. ~Promise!Opens(p)
  BY <1>5 DEF Promise!Opens, Promise!Pair
<1>7. ASSUME NEW j \in Pos, p <= j
      PROVE  ~Promise!Longest(p, j)
  <2>1. ~Promise!Operator(p, j)
    <3> SUFFICES ASSUME Promise!Operator(p, j)
                 PROVE  FALSE
      OBVIOUS
    <3>1. Promise!Segment(p, j) \in LongOps
      BY <1>1, <1>4, <1>7, OperatorIs
    <3>2. StartsWith(p, Promise!Segment(p, j))
      BY <1>1, <1>7, PosFacts, StartsWithSegment
    <3> QED BY <1>4, <3>1, <3>2 DEF IsLongOp
  <2>2. ~Promise!Lexeme(p, j)
    BY <1>1, <1>4, <1>5, <1>7, <2>1, LexemeOf
  <2> QED BY <1>6, <2>2 DEF Promise!Longest
<1>8. ~Promise!Lost(p)
  <2>1. Promise!Lines < PROGRAM_LINE
    <3>1. mode \in Loops \ {"lines"}
      BY <1>1
    <3> QED BY <3>1 DEF RInv, Measured
  <2>2. ~(Promise!Lines >= PROGRAM_LINE)
    <3>1. Promise!Lines \in Nat /\ PROGRAM_LINE \in Nat
      BY <1>1, LinesAre, NewlinesFinite, PosFacts, LineAssumption
    <3> QED BY <2>1, <3>1
  <2> QED BY <1>4, <1>6, <2>2
      DEF Promise!Lost, Promise!Quote, Quote, Promise!Apostrophe, Apostrophe
<1>9. \A j \in p..Len(source) : j \in Pos /\ p <= j
  BY <1>1, PosFacts DEF Pos
<1> QED BY <1>1, <1>2, <1>3, <1>7, <1>8, <1>9, PosFacts DEF Promise!Error, Promise!Reading

-----------------------------------------------------------------------------
(* The invariant. *)

\* Outside of the inner loops nothing has been seen.
LEMMA NothingSeen == mode' \notin Inner => Seen'
BY DEF Seen, Inner

\* What has been seen stays true of the text.
LEMMA SeenOn ==
    ASSUME source' = source, p' = p,
           \/ mode' = "line comment" /\ InLine(q')
           \/ mode' = "block comment" /\ InBlock(q')
           \/ mode' = "quoted" /\ InBlock(q') /\ Promise!QuoteIn(p, q')
           \/ mode' = "string" /\ source[p] = Quote /\ Quoted(q')
    PROVE  Seen'
<1>1. InLine(q') => InLine(q)'
  BY DEF InLine, Promise!Pair, Promise!Positions, Newline
<1>2. InBlock(q') => InBlock(q)'
  <2>1. Promise!Opens(p) => Promise!Opens(p)'
    BY DEF Promise!Opens, Promise!Pair, Promise!Positions
  <2>2. Skipped(q' + 1) => Skipped(q + 1)'
    BY DEF Skipped, Promise!Closes, Promise!Pair, Promise!Positions, Promise!QuoteIn,
           Promise!Quote
  <2> QED BY <2>1, <2>2 DEF InBlock
<1>3. Promise!QuoteIn(p, q') => Promise!QuoteIn(p, q)'
  BY DEF Promise!QuoteIn, Promise!Quote
<1>4. source[p] = Quote /\ Quoted(q') => (source[p] = Quote /\ Quoted(q))'
  BY DEF Quoted, EscapedIn, Quote, Backslash
<1> QED BY <1>1, <1>2, <1>3, <1>4 DEF Seen

LEMMA LinesStay == source' = source => Promise!Lines' = Promise!Lines
<1>1. SUFFICES ASSUME source' = source
               PROVE  Promise!Lines' = Promise!Lines
  OBVIOUS
<1> QED BY <1>1 DEF Promise!Lines, Promise!Positions, Promise!Newline

\* Once the lines are measured there are few enough of them.
LEMMA MeasuredOn ==
    ASSUME RInv, source' = source, mode' # "lines", mode \in Loops \ {"lines"}
    PROVE  Measured'
<1>1. source[Len(source)] = Newline /\ Promise!Lines < PROGRAM_LINE
  BY DEF RInv, Measured
<1>2. Promise!Lines' < PROGRAM_LINE
  BY <1>1, LinesStay
<1> QED BY <1>1, <1>2 DEF Measured, Newline

LEMMA RInit == Init => RInv /\ Promise!Init
<1> SUFFICES ASSUME Init
             PROVE  RInv /\ Promise!Init
  OBVIOUS
<1>1. Inv
  BY InitInv
<1>2. mode = "lines" /\ p = 1 /\ row = 1 /\ charPoint = <<>> /\ tokens = <<>>
  BY DEF Init
<1>3. source[Len(source)] = Newline
  <2>1. PICK file \in Files : source = read_file(file)
    BY DEF Init
  <2>2. file \in Seq(Characters) /\ Newline \in Characters
    BY FilesAssumption, CharactersAssumption
  <2>3. CASE file = <<>> \/ file[Len(file)] # Newline
    BY <2>1, <2>2, <2>3 DEF read_file
  <2>4. CASE ~(file = <<>> \/ file[Len(file)] # Newline)
    BY <2>1, <2>4 DEF read_file
  <2> QED BY <2>3, <2>4
<1>4. Cardinality(Newlines(row - 1)) = Len(charPoint)
  <2>1. Newlines(0) = {}
    BY DEF Newlines
  <2> QED BY <1>2, <2>1, FS_EmptySet
<1>5. mode \notin Loops \ {"lines"} /\ mode \in Loops
  BY <1>2 DEF Loops
<1>6. Measured
  BY <1>2, <1>3, <1>4, <1>5 DEF Measured
<1>7. Seen
  BY <1>2 DEF Seen
<1>8. Promise!Init
  <2>1. source \in Seq(Characters)
    BY <1>1 DEF Inv, TypeOK
  <2> QED BY <1>2, <1>5, <2>1 DEF Promise!Init
<1> QED BY <1>1, <1>6, <1>7, <1>8 DEF RInv

-----------------------------------------------------------------------------
(* Every step. *)

\* What a step of the scan leaves, and that it is a step of the abstract tokenizer.
Fine ==
    /\ Promise!Next \/ UNCHANGED Promise!vars
    /\ Measured' /\ Seen'

LEMMA SourceStays == Next \/ UNCHANGED vars => source' = source
BY DEF Next, tokenize, expect, Stopped, vars, MeasureLine, StartScan, skip_space,
       open_line_comment, line_comment, open_block_comment, block_comment, quoted, null_word,
       keyword, long_operator, short_operator, open_string, string, character, identifier,
       number, end_of_file, bad_character, Look, Resume, new_token

\* Of a round that ends in itself only its step has to be looked at.
LEMMA RoundFine ==
    ASSUME RInv, mode \in Loops \ {"lines"}, source' = source, mode' # "lines", mode' \notin Inner,
           Promise!Munch \/ Promise!Lose \/ Promise!End \/ Promise!Error
               \/ UNCHANGED Promise!vars
    PROVE  Fine
BY MeasuredOn, NothingSeen DEF Fine, Promise!Next

LEMMA LinesFine == RInv /\ (MeasureLine \/ StartScan) => Fine
<1>1. ASSUME RInv, MeasureLine
      PROVE  Fine
  <2>1. /\ Promise!Lose \/ UNCHANGED Promise!vars
        /\ mode' \in {"lines", "overrun"} /\ source' = source
        /\ mode' = "lines" => p' = 1 /\ Cardinality(Newlines(row' - 1)) = Len(charPoint')
    BY <1>1, MeasureLineSteps
  <2>2. mode' \notin Inner /\ mode' \notin Loops \ {"lines"}
    BY <2>1 DEF Inner, Loops
  <2>3. Newlines(row' - 1) = Newlines(row - 1)'
    BY <2>1 DEF Newlines, Newline
  <2>4. source[Len(source)] = Newline
    BY <1>1 DEF RInv, Measured
  <2>5. Measured'
    BY <2>1, <2>2, <2>3, <2>4 DEF Measured, Newline
  <2> QED BY <2>1, <2>2, <2>5, NothingSeen DEF Fine, Promise!Next
<1>2. ASSUME RInv, StartScan
      PROVE  Fine
  <2>1. UNCHANGED Promise!vars /\ mode' = "scan" /\ source' = source /\ Promise!Lines < PROGRAM_LINE
    BY <1>2, StartScanSteps
  <2>2. mode' \notin Inner /\ mode' # "lines"
    BY <2>1 DEF Inner
  <2>3. Promise!Lines' < PROGRAM_LINE
    BY <2>1, LinesStay
  <2>4. source[Len(source)] = Newline
    BY <1>2 DEF RInv, Measured
  <2>5. Measured'
    BY <2>1, <2>2, <2>3, <2>4 DEF Measured, Newline
  <2> QED BY <2>1, <2>2, <2>5, NothingSeen DEF Fine
<1> QED BY <1>1, <1>2

LEMMA TokensFine ==
    RInv /\ (\/ skip_space \/ null_word \/ keyword \/ long_operator \/ short_operator
             \/ identifier \/ number) => Fine
<1> SUFFICES ASSUME RInv, \/ skip_space \/ null_word \/ keyword \/ long_operator
                          \/ short_operator \/ identifier \/ number
             PROVE  Fine
  OBVIOUS
<1>1. Promise!Munch
  BY SpaceMunches, WordMunches, OperatorMunches, IdentifierMunches, NumberMunches
<1>2. mode = "scan" /\ mode' = "scan"
  BY DEF skip_space, null_word, keyword, long_operator, short_operator, identifier, number, Round
<1>3. mode \in Loops \ {"lines"} /\ mode' # "lines" /\ mode' \notin Inner
  BY <1>2 DEF Loops, Inner
<1>4. source' = source
  BY SourceStays DEF Next, tokenize
<1> QED BY <1>1, <1>3, <1>4, RoundFine

LEMMA LiteralsFine == RInv /\ (open_string \/ string \/ character) => Fine
<1> SUFFICES ASSUME RInv, open_string \/ string \/ character
             PROVE  Fine
  OBVIOUS
<1>1. source' = source
  BY SourceStays DEF Next, tokenize
<1>2. mode \in Loops \ {"lines"} /\ mode' # "lines"
  BY DEF open_string, string, character, Round, Look, new_token, Loops
<1>3. CASE character
  <2>1. Promise!Munch \/ Promise!Lose
    BY <1>3, CharacterSteps
  <2>2. mode' \notin Inner
    BY <1>3 DEF character, Round, Look, Inner
  <2> QED BY <1>1, <1>2, <2>1, <2>2, RoundFine
<1>4. CASE open_string \/ string
  <2>1. /\ Promise!Munch \/ Promise!Lose \/ UNCHANGED Promise!vars
        /\ mode' = "string" => source' = source /\ p' = p /\ source[p] = Quote /\ Quoted(q')
    BY <1>4, OpenStringSteps, StringSteps
  <2>2. mode' = "string" \/ mode' \notin Inner
    BY <1>4 DEF open_string, string, Look, Inner
  <2>3. Measured'
    BY <1>1, <1>2, MeasuredOn
  <2>4. Seen'
    BY <2>1, <2>2, SeenOn, NothingSeen
  <2> QED BY <2>1, <2>3, <2>4 DEF Fine, Promise!Next
<1> QED BY <1>3, <1>4

LEMMA CommentsFine ==
    RInv /\ (open_line_comment \/ line_comment \/ open_block_comment \/ block_comment \/ quoted)
    => Fine
<1> SUFFICES ASSUME RInv, \/ open_line_comment \/ line_comment \/ open_block_comment
                          \/ block_comment \/ quoted
             PROVE  Fine
  OBVIOUS
<1>1. source' = source
  BY SourceStays DEF Next, tokenize
<1>2. mode \in Loops \ {"lines"}
  BY DEF open_line_comment, line_comment, open_block_comment, block_comment, quoted, Round, Loops
<1>3. CASE open_line_comment \/ open_block_comment
  <2>1. /\ UNCHANGED Promise!vars /\ p' = p
        /\ \/ mode' = "line comment" /\ InLine(q')
           \/ mode' = "block comment" /\ InBlock(q')
    BY <1>3, OpenCommentSteps
  <2>2. mode' # "lines"
    BY <2>1
  <2> QED BY <1>1, <1>2, <2>1, <2>2, MeasuredOn, SeenOn DEF Fine
<1>4. CASE line_comment
  <2>1. /\ Promise!Munch \/ UNCHANGED Promise!vars
        /\ mode' = "scan" \/ mode' = "line comment"
        /\ mode' = "line comment" => source' = source /\ p' = p /\ InLine(q')
    BY <1>4, LineCommentSteps
  <2>2. mode' # "lines" /\ (mode' \notin Inner \/ mode' = "line comment")
    BY <2>1 DEF Inner
  <2> QED BY <1>1, <1>2, <2>1, <2>2, MeasuredOn, SeenOn, NothingSeen DEF Fine, Promise!Next
<1>5. CASE block_comment \/ quoted
  <2>1. /\ Promise!Munch \/ Promise!Lose \/ UNCHANGED Promise!vars
        /\ mode' \in {"scan", "block comment", "quoted", "overrun"}
        /\ mode' \in {"block comment", "quoted"} => source' = source /\ p' = p /\ InBlock(q')
        /\ mode' = "quoted" => Promise!QuoteIn(p, q')
    BY <1>5, BlockCommentSteps
  <2>2. mode' # "lines" /\ (mode' \notin Inner \/ mode' = "block comment" \/ mode' = "quoted")
    BY <2>1 DEF Inner
  <2> QED BY <1>1, <1>2, <2>1, <2>2, MeasuredOn, SeenOn, NothingSeen DEF Fine, Promise!Next
<1> QED BY <1>3, <1>4, <1>5

LEMMA EndsFine == RInv /\ (end_of_file \/ bad_character) => Fine
<1> SUFFICES ASSUME RInv, end_of_file \/ bad_character
             PROVE  Fine
  OBVIOUS
<1>1. source' = source
  BY SourceStays DEF Next, tokenize
<1>2. \/ Promise!End /\ mode' = "done"
      \/ Promise!Error /\ mode' = "error"
  BY EndSteps, ErrorSteps
<1>3. mode \in Loops \ {"lines"}
  BY DEF end_of_file, bad_character, Round, Loops
<1>4. mode' # "lines" /\ mode' \notin Inner
  BY <1>2 DEF Inner
<1> QED BY <1>1, <1>2, <1>3, <1>4, RoundFine

\* The parser's steps, and those of other parts, leave the reading alone.
LEMMA OthersFine == RInv /\ (expect \/ UNCHANGED vars) => Fine
<1> SUFFICES ASSUME RInv, expect \/ UNCHANGED vars
             PROVE  Fine
  OBVIOUS
<1>1. UNCHANGED <<source, row, charPoint, p, q, mode, tokens>>
  BY DEF expect, vars
<1>2. UNCHANGED Promise!vars
  BY <1>1 DEF Promise!vars
<1>3. Measured'
  <2>1. Promise!Lines' = Promise!Lines
    BY <1>1, LinesStay
  <2>2. Newlines(row - 1)' = Newlines(row - 1)
    BY <1>1 DEF Newlines, Newline
  <2> QED BY <1>1, <2>1, <2>2 DEF RInv, Measured, Newline
<1>4. Seen'
  <2>1. mode' \notin Inner \/ mode \in Inner
    BY <1>1
  <2>2. ASSUME mode \in Inner
        PROVE  Seen'
    BY <1>1, <2>2, SeenOn DEF RInv, Seen, Inner
  <2> QED BY <2>1, <2>2, NothingSeen
<1> QED BY <1>2, <1>3, <1>4 DEF Fine

LEMMA EveryStepFine == RInv /\ [Next]_vars => Fine /\ RInv'
<1> SUFFICES ASSUME RInv, [Next]_vars
             PROVE  Fine /\ RInv'
  OBVIOUS
<1>1. Inv'
  BY StepInv DEF RInv
<1>2. CASE tokenize
  BY <1>1, <1>2, LinesFine, TokensFine, LiteralsFine, CommentsFine, EndsFine
     DEF tokenize, Fine, RInv
<1>3. CASE expect \/ Stopped \/ UNCHANGED vars
  BY <1>1, <1>3, OthersFine DEF Stopped, Fine, RInv
<1> QED BY <1>2, <1>3 DEF Next

-----------------------------------------------------------------------------
(* The theorem. *)

\* tokenize() (tokenize.c:29-252) reads a file as TokenStream says: each of its
\* steps is TokenStream's to the next longest lexeme, to the end of the file, to an
\* error where no lexeme starts, or to what nothing is promised of, or it changes
\* nothing that TokenStream speaks of.
THEOREM StepsAsPromised == Spec => Promise!Steps
<1>1. Init => RInv /\ Promise!Init
  BY RInit
<1>2. RInv /\ [Next]_vars => RInv' /\ [Promise!Next]_(Promise!vars)
  BY EveryStepFine DEF Fine
<1> QED BY <1>1, <1>2, PTL DEF Spec, Promise!Steps
================================================================================
