--------------------------- MODULE Tokenizer_proofs ---------------------------
(***************************************************************************)
(* For every file, every set of keywords and operators and every classes   *)
(* of characters: the list of tokens is well-formed and in order, no       *)
(* token's spelling is changed by the replacing of escapes, and an error   *)
(* is reported at its line and column.                                     *)
(***************************************************************************)
EXTENDS Tokenizer, RecursionLemmas, FiniteSetTheorems

Inner == {"line comment", "block comment", "quoted", "string"}

\* The tokens end before the round of the loop starts.
Behind == mode \in Loops =>
    \A t \in DOMAIN tokens : tokens[t].str + tokens[t].len <= p

\* What has not been read is as it is in the file.
Ahead == mode \in Loops => \A i \in p..Len(source) : user_input[i] = source[i]

\* An inner loop looks at the text behind the start of its round.
Looking == mode \in Inner => p < q /\ q <= End

Inv == TypeOK /\ TokensInOrder /\ SpellingKept /\ Behind /\ Ahead /\ Looking

-----------------------------------------------------------------------------
(* The helpers. *)

\* The NUL behind the text is of no class, so that a run ends there at the latest.
LEMMA RunEndExists ==
    ASSUME TypeOK, NEW i \in 1..End, NEW class, NUL \notin class
    PROVE  RunEnd(i, class) \in i..End
<1> DEFINE S == {j \in i..End : At(j) \notin class}
<1>1. End \in Nat /\ End \in i..End
  BY DEF TypeOK, End
<1>2. At(End) = NUL
  BY <1>1 DEF At
<1>3. End \in S
  BY <1>1, <1>2
<1>4. S \subseteq Nat /\ S # {}
  BY <1>1, <1>3
<1>5. PICK j \in S : \A k \in S : j <= k
  <2> HIDE DEF S
  <2> QED BY <1>4, Least
<1>6. \A k \in i..(j - 1) : At(k) \in class
  <2> TAKE k \in i..(j - 1)
  <2>1. k \in i..End /\ ~(j <= k)
    BY <1>1, <1>5
  <2>2. k \notin S
    BY <1>5, <2>1
  <2> QED BY <2>1, <2>2
<1>7. j \in i..End /\ At(j) \notin class
  BY <1>5
<1> QED BY <1>6, <1>7 DEF RunEnd

\* A position with a character other than NUL is in the text.
LEMMA InText ==
    ASSUME TypeOK, NEW i \in Nat, At(i) # NUL
    PROVE  i < End
BY DEF At

LEMMA EndIsNat == TypeOK => End \in Nat \ {0} /\ End = Len(source) + 1
BY DEF TypeOK, End

LEMMA ElementOf ==
    ASSUME NEW T, NEW s \in Seq(T), NEW t \in 1..Len(s)
    PROVE  s[t] \in T /\ DOMAIN s = 1..Len(s) /\ Len(s) \in Nat
OBVIOUS

LEMMA WiderSeq ==
    ASSUME NEW S, NEW T, S \subseteq T, NEW s \in Seq(S)
    PROVE  s \in Seq(T)
OBVIOUS

LEMMA SumBelow ==
    ASSUME NEW a \in Nat, NEW b \in Nat, NEW c \in Nat, NEW d \in Nat, a + b <= c, c <= d
    PROVE  a + b <= d
OBVIOUS

\* What lies in a segment that ends before x lies before x.
LEMMA Between ==
    ASSUME NEW a \in Nat, NEW b \in Nat, NEW x \in Nat, NEW y \in Nat,
           NEW k \in a..(a + b - 1), a >= 1, a + b <= x, x <= y
    PROVE  k \in Int /\ k >= 1 /\ k < y
OBVIOUS

LEMMA TokenTyped ==
    ASSUME TypeOK, NEW t \in DOMAIN tokens
    PROVE  /\ tokens[t].kind \in Kinds
           /\ tokens[t].str \in 1..End /\ tokens[t].str \in Nat /\ tokens[t].str >= 1
           /\ tokens[t].len \in Nat
<1> DEFINE T == [kind : Kinds, str : 1..End, len : Nat]
<1>1. tokens \in Seq(T)
  BY DEF TypeOK
<1>2. DOMAIN tokens = 1..Len(tokens)
  <2> HIDE DEF T
  <2> QED BY <1>1
<1>3. tokens[t] \in T
  <2> HIDE DEF T
  <2> QED BY <1>1, <1>2, ElementOf
<1>4. tokens[t].str \in 1..End /\ tokens[t].kind \in Kinds /\ tokens[t].len \in Nat
  BY <1>3
<1> QED BY <1>4, EndIsNat

\* What the text starts with is in the text.
LEMMA Fits ==
    ASSUME TypeOK, NEW i \in Nat \ {0}, NEW S, NUL \notin S, NEW w \in Seq(S), w # <<>>,
           StartsWith(i, w)
    PROVE  Len(w) \in Nat /\ i + Len(w) <= End
<1>1. Len(w) \in Nat \ {0} /\ DOMAIN w = 1..Len(w)
  OBVIOUS
<1>2. Len(w) \in DOMAIN w /\ w[Len(w)] \in S
  <2>1. Len(w) \in 1..Len(w)
    BY <1>1
  <2> QED BY <2>1, ElementOf
<1>3. At(i + Len(w) - 1) = w[Len(w)]
  BY <1>2 DEF StartsWith
<1>4. At(i + Len(w) - 1) # NUL
  BY <1>2, <1>3
<1>5. i + Len(w) - 1 \in Nat
  BY <1>1
<1>6. i + Len(w) - 1 < End
  BY <1>4, <1>5, InText
<1> QED BY <1>1, <1>6, EndIsNat

LEMMA WordFits ==
    ASSUME TypeOK, NEW w \in Keywords \cup {NullWord}, IsWord(w)
    PROVE  Len(w) \in Nat /\ p + Len(w) <= End
<1>1. w \in Seq(Letters) /\ w # <<>>
  BY WordsAssumption
<1>2. NUL \notin Letters
  BY ClassesAssumption DEF Alnum
<1>3. p \in Nat \ {0}
  BY EndIsNat DEF TypeOK
<1>4. StartsWith(p, w)
  BY DEF IsWord
<1> QED BY <1>1, <1>2, <1>3, <1>4, Fits

LEMMA LongOpFits ==
    ASSUME TypeOK, IsLongOp
    PROVE  p + 2 <= End
<1>1. PICK w \in LongOps : StartsWith(p, w)
  BY DEF IsLongOp
<1>2. Len(w) = 2 /\ w \in Seq(ShortOps \cup {"|"})
  BY OpsAssumption
<1>3. NUL \notin ShortOps \cup {"|"}
  BY ClassesAssumption DEF NUL
<1>4. p \in Nat \ {0}
  BY EndIsNat DEF TypeOK
<1>5. w # <<>>
  <2>1. Len(<<>>) = 0
    OBVIOUS
  <2> QED BY <2>1, <1>2
<1> QED BY <1>1, <1>2, <1>3, <1>4, <1>5, Fits

\* error_at() names a line of charPoint or none.
LEMMA ReportTyped ==
    ASSUME TypeOK, NEW loc \in 1..End
    PROVE  error_at(loc).loc \in 0..End /\ error_at(loc).line \in 0..PROGRAM_LINE
<1> DEFINE Reached == {l \in 1..(PROGRAM_LINE - 1) : loc <= charTotal[l]}
<1> DEFINE line == CHOOSE l \in Reached : \A k \in Reached : l <= k
<1>1. End \in Nat /\ PROGRAM_LINE \in Nat \ {0}
  BY EndIsNat, LineAssumption
<1>2. CASE Reached = {}
  <2>1. error_at(loc) = [loc |-> loc, line |-> PROGRAM_LINE, row |-> 0]
    BY <1>2 DEF error_at
  <2> QED BY <2>1, <1>1
<1>3. CASE Reached # {}
  <2>1. error_at(loc) = [loc |-> loc, line |-> line, row |-> loc - charTotal[line - 1]]
    BY <1>3 DEF error_at
  <2>2. Reached \subseteq Nat /\ Reached \subseteq 0..PROGRAM_LINE
    BY <1>1
  <2>3. line \in Reached
    <3> HIDE DEF Reached
    <3>1. \E l \in Reached : \A k \in Reached : l <= k
      BY <2>2, <1>3, Least
    <3> QED BY <3>1
  <2>4. line \in 0..PROGRAM_LINE
    BY <2>2, <2>3
  <2> HIDE DEF line, Reached
  <2> QED BY <2>1, <2>4, <1>1
<1> QED BY <1>2, <1>3

-----------------------------------------------------------------------------
(* The steps. *)

LEMMA InitInv == Init => Inv
<1> SUFFICES ASSUME Init
             PROVE  Inv
  OBVIOUS
<1>1. PICK file \in Files : source = read_file(file)
  BY DEF Init
<1>2. file \in Seq(Characters)
  BY FilesAssumption
<1>3. source \in Seq(Characters)
  <2>1. file \in Seq(Characters)
    BY <1>2, WiderSeq
  <2>2. Newline \in Characters
    BY CharactersAssumption
  <2>3. Append(file, Newline) \in Seq(Characters)
    BY <2>1, <2>2
  <2> QED BY <1>1, <2>1, <2>3 DEF read_file
<1>4. user_input = source /\ tokens = <<>> /\ charPoint = <<>> /\ row = 1 /\ p = 1 /\ q = 1
      /\ mode = "lines" /\ report = NoReport
  BY DEF Init
<1>5. End \in Nat \ {0}
  BY <1>3, <1>4 DEF End
<1>6. tokens \in Seq([kind : Kinds, str : 1..End, len : Nat]) /\ DOMAIN tokens = {}
  BY <1>4
<1>7. charPoint \in Seq(-128..127) /\ Len(charPoint) = 0
  BY <1>4
<1>8. TypeOK
  BY <1>3, <1>4, <1>5, <1>6, <1>7, LineAssumption DEF TypeOK, NoReport, Loops, Ends
<1>9. TokensInOrder /\ SpellingKept /\ Behind
  BY <1>6 DEF TokensInOrder, SpellingKept, Behind
<1>10. Ahead /\ Looking
  BY <1>4 DEF Ahead, Looking, Inner
<1> QED BY <1>8, <1>9, <1>10 DEF Inv

\* What is left alone by the steps that make no token.
LEMMA NoToken ==
    ASSUME Inv, UNCHANGED <<source, user_input, tokens>>,
           row' \in 1..End, charPoint' \in Seq(-128..127), Len(charPoint') < PROGRAM_LINE,
           mode' \in Loops \cup Ends, mode' \in Loops => mode \in Loops,
           p' \in 1..End, p <= p', q' \in Nat,
           mode' \in Inner => p' < q' /\ q' <= End,
           report'.loc \in 0..End, report'.line \in 0..PROGRAM_LINE
    PROVE  Inv'
<1> USE DEF Inv
<1>1. End' = End
  BY DEF End
<1>2. TypeOK'
  BY <1>1 DEF TypeOK
<1>3. TokensInOrder' /\ SpellingKept'
  BY <1>1 DEF TokensInOrder, SpellingKept
<1>4. Behind'
  <2> SUFFICES ASSUME mode' \in Loops, NEW t \in DOMAIN tokens
               PROVE  tokens[t].str + tokens[t].len <= p'
    BY DEF Behind
  <2>1. tokens[t].str + tokens[t].len <= p
    BY DEF Behind
  <2>3. tokens[t].str \in Nat /\ tokens[t].len \in Nat /\ p \in Nat /\ p' \in Nat
    BY TokenTyped, EndIsNat DEF TypeOK
  <2> QED BY <2>1, <2>3
<1>5. Ahead'
  <2> SUFFICES ASSUME mode' \in Loops, NEW i \in p'..Len(source)
               PROVE  user_input[i] = source[i]
    BY DEF Ahead
  <2>1. Len(source) \in Nat /\ p \in Nat /\ p' \in Nat
    BY EndIsNat DEF TypeOK
  <2>2. i \in p..Len(source)
    BY <2>1
  <2> QED BY <2>2 DEF Ahead
<1>6. Looking'
  BY <1>1 DEF Looking
<1> QED BY <1>2, <1>3, <1>4, <1>5, <1>6

\* A token that lies between the start of the round and the start of the next one.
LEMMA NewToken ==
    ASSUME Inv, mode \in Loops,
           NEW kind \in Kinds, NEW i \in Nat, NEW len \in Nat, NEW next \in Nat,
           tokens' = Append(tokens, Token(kind, i, len)),
           p' \in 1..End, p <= i, i <= End, i + len <= next, next <= End,
           mode' \in Loops => p' = next,
           mode' \in {"scan"} \cup Ends,
           UNCHANGED <<source, row, charPoint, q>>,
           report'.loc \in 0..End, report'.line \in 0..PROGRAM_LINE,
           \/ UNCHANGED user_input
           \/ /\ kind = "TK_CHARACTER"
              /\ user_input' \in Seq(Characters)
              /\ Len(user_input') = Len(user_input)
              /\ \A k \in 1..Len(user_input) : k < i \/ k >= next => user_input'[k] = user_input[k]
    PROVE  Inv'
<1> DEFINE l == Len(tokens)
<1> DEFINE new == Token(kind, i, len)
<1>1. End \in Nat \ {0} /\ End = Len(source) + 1 /\ Len(source) \in Nat
      /\ Len(user_input) = Len(source) /\ p \in Nat /\ p >= 1
  BY EndIsNat DEF Inv, TypeOK
<1>2. End' = End /\ user_input' \in Seq(Characters) /\ Len(user_input') = Len(source)
  BY DEF Inv, TypeOK, End
<1>3. new \in [kind : Kinds, str : 1..End, len : Nat] /\ new.str = i /\ new.len = len
      /\ new.kind = kind
  BY <1>1 DEF Token
<1>4. tokens \in Seq([kind : Kinds, str : 1..End, len : Nat]) /\ l \in Nat
      /\ DOMAIN tokens = 1..l
  BY DEF Inv, TypeOK
<1>5. tokens' \in Seq([kind : Kinds, str : 1..End, len : Nat]) /\ DOMAIN tokens' = 1..(l + 1)
      /\ tokens'[l + 1] = new /\ \A t \in 1..l : tokens'[t] = tokens[t]
  <2> HIDE DEF new
  <2>1. tokens' = Append(tokens, new)
    BY DEF new
  <2> QED BY <2>1, <1>3, <1>4
<1>6. \A t \in 1..l : tokens[t].str \in Nat /\ tokens[t].len \in Nat /\ tokens[t].str >= 1
                      /\ tokens[t].str + tokens[t].len <= p
  <2> TAKE t \in 1..l
  <2>1. t \in DOMAIN tokens
    BY <1>4
  <2>2. TypeOK /\ Behind
    BY DEF Inv
  <2> QED BY <2>1, <2>2, TokenTyped DEF Behind
<1> HIDE DEF l, new
<1>7. TypeOK'
  <2>1. p' \in 1..End' /\ row' \in 1..End' /\ q' \in Nat /\ mode' \in Loops \cup Ends
    BY <1>2 DEF Inv, TypeOK, Loops
  <2>2. tokens' \in Seq([kind : Kinds, str : 1..End', len : Nat])
    BY <1>2, <1>5
  <2>3. source' \in Seq(Characters) /\ Len(user_input') = Len(source') /\ charPoint' \in Seq(-128..127)
        /\ Len(charPoint') < PROGRAM_LINE
    BY <1>2 DEF Inv, TypeOK
  <2>4. report'.loc \in 0..End' /\ report'.line \in 0..PROGRAM_LINE
    BY <1>2
  <2> QED BY <1>2, <2>1, <2>2, <2>3, <2>4 DEF TypeOK
<1>8. TokensInOrder'
  <2>1. ASSUME NEW t \in 1..(l + 1)
        PROVE  tokens'[t].str + tokens'[t].len <= End
    <3>1. CASE t = l + 1
      BY <3>1, <1>1, <1>3, <1>5, SMTT(30)
    <3>2. CASE t \in 1..l
      <4>1. tokens'[t] = tokens[t]
        BY <3>2, <1>5
      <4>2. tokens[t].str \in Nat /\ tokens[t].len \in Nat /\ tokens[t].str + tokens[t].len <= p
        BY <3>2, <1>6
      <4>3. p <= End
        BY <1>1
      <4>4. tokens[t].str + tokens[t].len <= End
        BY <4>2, <4>3, <1>1, SMTT(30)
      <4> QED BY <4>1, <4>4
    <3> QED BY <3>1, <3>2, <1>4
  <2>2. ASSUME NEW t \in 1..(l + 1), NEW u \in 1..(l + 1), t < u
        PROVE  tokens'[t].str + tokens'[t].len <= tokens'[u].str
    <3>1. t \in 1..l
      BY <2>2, <1>4
    <3>2. CASE u = l + 1
      <4>1. tokens'[u].str = i /\ tokens'[t] = tokens[t]
        BY <3>1, <3>2, <1>3, <1>5
      <4>2. tokens[t].str \in Nat /\ tokens[t].len \in Nat /\ tokens[t].str + tokens[t].len <= p
        BY <3>1, <1>6
      <4>3. tokens[t].str + tokens[t].len <= i
        BY <4>2, <1>1, SumBelow
      <4> QED BY <4>1, <4>3
    <3>3. CASE u \in 1..l
      <4>1. t \in DOMAIN tokens /\ u \in DOMAIN tokens
        BY <3>1, <3>3, <1>4 DEF l
      <4>2. tokens[t].str + tokens[t].len <= tokens[u].str
        BY <4>1, <2>2 DEF Inv, TokensInOrder
      <4> QED BY <4>2, <3>1, <3>3, <1>5
    <3> QED BY <3>2, <3>3, <1>4
  <2> QED BY <2>1, <2>2, <1>2, <1>5 DEF TokensInOrder
<1>9. SpellingKept'
  <2> SUFFICES ASSUME NEW t \in 1..(l + 1), tokens'[t].kind # "TK_CHARACTER",
                      NEW k \in tokens'[t].str..(tokens'[t].str + tokens'[t].len - 1)
               PROVE  user_input'[k] = source[k]
    BY <1>5, ZenonT(30) DEF SpellingKept
  <2>1. CASE t = l + 1
    <3>1. kind # "TK_CHARACTER" /\ k \in i..(i + len - 1)
      BY <2>1, <1>3, <1>5
    <3>2. k \in p..Len(source) /\ user_input' = user_input
      BY <3>1, <1>1
    <3> QED BY <3>2 DEF Inv, Ahead
  <2>2. CASE t \in 1..l
    <3>1. tokens'[t] = tokens[t] /\ t \in DOMAIN tokens
      BY <2>2, <1>4, <1>5 DEF l
    <3>2. k \in tokens[t].str..(tokens[t].str + tokens[t].len - 1)
          /\ tokens[t].kind # "TK_CHARACTER"
      BY <3>1
    <3>3. user_input[k] = source[k]
      BY <3>1, <3>2 DEF Inv, SpellingKept
    <3>4. tokens[t].str \in Nat /\ tokens[t].len \in Nat /\ tokens[t].str >= 1
          /\ tokens[t].str + tokens[t].len <= p
      BY <2>2, <1>6
    <3>5. k \in Int /\ k >= 1 /\ k < i
      <4> DEFINE a == tokens[t].str
      <4> DEFINE b == tokens[t].len
      <4>1. a \in Nat /\ b \in Nat /\ a >= 1 /\ a + b <= p /\ k \in a..(a + b - 1)
        BY <3>2, <3>4
      <4>2. p \in Nat /\ i \in Nat /\ p <= i
        BY <1>1
      <4> HIDE DEF a, b
      <4> QED BY <4>1, <4>2, Between
    <3>6. k \in 1..Len(user_input)
      BY <3>5, <1>1
    <3> QED BY <3>3, <3>5, <3>6
  <2> QED BY <2>1, <2>2, <1>4
<1>10. Behind'
  <2> SUFFICES ASSUME mode' \in Loops, NEW t \in 1..(l + 1)
               PROVE  tokens'[t].str + tokens'[t].len <= p'
    BY <1>5 DEF Behind
  <2>1. CASE t = l + 1
    BY <2>1, <1>3, <1>5
  <2>2. CASE t \in 1..l
    <3>1. p <= p' /\ p' \in Nat
      BY <1>1
    <3>2. tokens'[t] = tokens[t]
      BY <2>2, <1>5
    <3>3. tokens[t].str \in Nat /\ tokens[t].len \in Nat /\ tokens[t].str + tokens[t].len <= p
      BY <2>2, <1>6
    <3> QED BY <3>1, <3>2, <3>3, <1>1, SMTT(30)
  <2> QED BY <2>1, <2>2, <1>4
<1>11. Ahead'
  <2> SUFFICES ASSUME mode' \in Loops, NEW k \in p'..Len(source)
               PROVE  user_input'[k] = source[k]
    BY DEF Ahead
  <2>1. k \in p..Len(source) /\ k \in 1..Len(user_input) /\ k >= next
    BY <1>1
  <2>2. user_input[k] = source[k]
    BY <2>1 DEF Inv, Ahead
  <2> QED BY <2>1, <2>2
<1>12. Looking'
  BY DEF Looking, Inner, Ends
<1> QED BY <1>7, <1>8, <1>9, <1>10, <1>11, <1>12 DEF Inv

LEMMA LookInv ==
    ASSUME Inv, mode \in Loops, NEW loop \in Inner \cup {"overrun"}, NEW i \in Nat, p < i,
           Look(loop, i)
    PROVE  Inv'
<1>1. UNCHANGED <<source, user_input, row, charPoint, p, tokens, report>> /\ q' = i
  BY DEF Look
<1>2. mode' \in Inner \cup {"overrun"} /\ (mode' \in Inner => i <= End)
  <2>1. End \in Nat /\ mode' = IF i > End THEN "overrun" ELSE loop
    BY EndIsNat DEF Look, Inv
  <2>2. "overrun" \notin Inner
    BY DEF Inner
  <2>3. CASE i > End
    BY <2>1, <2>2, <2>3
  <2>4. CASE i <= End
    BY <2>1, <2>4
  <2> QED BY <2>1, <2>3, <2>4
<1>3. mode' \in Loops \cup Ends
  BY <1>2 DEF Inner, Loops, Ends
<1>4. row' \in 1..End /\ charPoint' \in Seq(-128..127) /\ Len(charPoint') < PROGRAM_LINE
      /\ p' \in 1..End /\ p <= p' /\ q' \in Nat
      /\ report'.loc \in 0..End /\ report'.line \in 0..PROGRAM_LINE
  BY <1>1, EndIsNat DEF Inv, TypeOK
<1> QED BY <1>1, <1>2, <1>3, <1>4, NoToken

LEMMA ResumeInv ==
    ASSUME Inv, mode \in Loops, NEW next \in Nat, p <= next, next <= End, Resume(next)
    PROVE  Inv'
<1>1. UNCHANGED <<source, user_input, row, charPoint, q, tokens, report>>
      /\ p' = next /\ mode' = "scan"
  BY DEF Resume
<1>2. row' \in 1..End /\ charPoint' \in Seq(-128..127) /\ Len(charPoint') < PROGRAM_LINE
      /\ p' \in 1..End /\ p <= p' /\ q' \in Nat
      /\ report'.loc \in 0..End /\ report'.line \in 0..PROGRAM_LINE
  BY <1>1, EndIsNat DEF Inv, TypeOK
<1>3. mode' \in Loops /\ mode' \notin Inner
  BY <1>1 DEF Loops, Inner
<1> QED BY <1>1, <1>2, <1>3, NoToken

LEMMA CharIsByte == ASSUME NEW n \in Int PROVE AsChar(n) \in -128..127
BY DEF AsChar

LEMMA MeasureLineInv == Inv /\ MeasureLine => Inv'
<1> SUFFICES ASSUME Inv, MeasureLine
             PROVE  Inv'
  OBVIOUS
<1>1. PICK n \in row..Len(user_input) :
         /\ row' = n + 1
         /\ \/ charPoint' = Append(charPoint, AsChar(Length(n)))
               /\ Len(charPoint) + 1 < PROGRAM_LINE /\ UNCHANGED mode
            \/ mode' = "overrun" /\ UNCHANGED charPoint
  BY DEF MeasureLine
<1>2. UNCHANGED <<source, user_input, p, q, tokens, report>> /\ mode = "lines"
  BY DEF MeasureLine
<1>3. row \in Nat \ {0} /\ Len(user_input) \in Nat /\ End = Len(user_input) + 1
      /\ charPoint \in Seq(-128..127) /\ Len(charPoint) < PROGRAM_LINE
      /\ PROGRAM_LINE \in Nat
  BY EndIsNat, LineAssumption DEF Inv, TypeOK, End
<1>4. row' \in 1..End
  BY <1>1, <1>3
<1>5. AsChar(Length(n)) \in -128..127
  <2>1. Length(n) \in Int
    BY <1>3 DEF Length
  <2> QED BY <2>1, CharIsByte
<1>6. charPoint' \in Seq(-128..127) /\ Len(charPoint') < PROGRAM_LINE
  <2>1. CASE UNCHANGED charPoint
    BY <2>1, <1>3
  <2>2. CASE charPoint' = Append(charPoint, AsChar(Length(n))) /\ Len(charPoint) + 1 < PROGRAM_LINE
    <3> DEFINE c == AsChar(Length(n))
    <3>1. charPoint' = Append(charPoint, c) /\ c \in -128..127
      BY <2>2, <1>5
    <3> HIDE DEF c
    <3>2. charPoint' \in Seq(-128..127) /\ Len(charPoint') = Len(charPoint) + 1
      BY <3>1, <1>3
    <3> QED BY <3>2, <2>2
  <2> QED BY <1>1, <2>1, <2>2
<1>7. mode' \in {"lines", "overrun"}
  BY <1>1, <1>2
<1>8. mode' \in Loops \cup Ends /\ mode \in Loops /\ mode' \notin Inner
  BY <1>2, <1>7 DEF Loops, Ends, Inner
<1>9. p' \in 1..End /\ p <= p' /\ q' \in Nat
      /\ report'.loc \in 0..End /\ report'.line \in 0..PROGRAM_LINE
  BY <1>2, EndIsNat DEF Inv, TypeOK
<1> QED BY <1>2, <1>4, <1>6, <1>8, <1>9, NoToken

\* The round of the for loop, as far as it makes no token.
LEMMA SkipInv ==
    Inv /\ (StartScan \/ skip_space \/ open_line_comment \/ open_block_comment \/ open_string)
    => Inv'
<1> SUFFICES ASSUME Inv
             PROVE  StartScan \/ skip_space \/ open_line_comment \/ open_block_comment
                    \/ open_string => Inv'
  OBVIOUS
<1>1. p \in Nat \ {0} /\ End \in Nat /\ p <= End /\ q \in Nat /\ row \in 1..End
      /\ charPoint \in Seq(-128..127) /\ Len(charPoint) < PROGRAM_LINE
      /\ report.loc \in 0..End /\ report.line \in 0..PROGRAM_LINE
  BY EndIsNat DEF Inv, TypeOK
<1>2. ASSUME StartScan
      PROVE  Inv'
  <2>1. UNCHANGED <<source, user_input, row, charPoint, p, q, tokens, report>>
        /\ mode' = "scan" /\ mode = "lines"
    BY <1>2 DEF StartScan
  <2>2. mode' \in Loops /\ mode' \notin Inner /\ mode \in Loops
    BY <2>1 DEF Loops, Inner
  <2> QED BY <1>1, <2>1, <2>2, NoToken
<1>3. ASSUME skip_space
      PROVE  Inv'
  <2>1. UNCHANGED <<source, user_input, row, charPoint, q, mode, tokens, report>>
        /\ mode = "scan" /\ p' = p + 1 /\ p < End
    BY <1>3 DEF skip_space, Round
  <2>2. mode' \in Loops /\ mode' \notin Inner /\ mode \in Loops
    BY <2>1 DEF Loops, Inner
  <2>3. p' \in 1..End /\ p <= p'
    BY <1>1, <2>1
  <2> QED BY <1>1, <2>1, <2>2, <2>3, NoToken
<1>4. ASSUME open_line_comment
      PROVE  Inv'
  <2>1. mode = "scan" /\ Look("line comment", p + 2)
    BY <1>4 DEF open_line_comment, Round
  <2>2. mode \in Loops /\ "line comment" \in Inner
    BY <2>1 DEF Loops, Inner
  <2>3. p + 2 \in Nat /\ p < p + 2
    BY <1>1
  <2> QED BY <2>1, <2>2, <2>3, LookInv
<1>5. ASSUME open_block_comment
      PROVE  Inv'
  <2>1. mode = "scan" /\ Look("block comment", p + 1)
    BY <1>5 DEF open_block_comment, Round
  <2>2. mode \in Loops /\ "block comment" \in Inner
    BY <2>1 DEF Loops, Inner
  <2>3. p + 1 \in Nat /\ p < p + 1
    BY <1>1
  <2> QED BY <2>1, <2>2, <2>3, LookInv
<1>6. ASSUME open_string
      PROVE  Inv'
  <2>1. mode = "scan" /\ Look("string", p + 1)
    BY <1>6 DEF open_string, Round
  <2>2. mode \in Loops /\ "string" \in Inner
    BY <2>1 DEF Loops, Inner
  <2>3. p + 1 \in Nat /\ p < p + 1
    BY <1>1
  <2> QED BY <2>1, <2>2, <2>3, LookInv
<1> QED BY <1>2, <1>3, <1>4, <1>5, <1>6

\* The loops that skip comments.
LEMMA CommentInv == Inv /\ (line_comment \/ block_comment \/ quoted) => Inv'
<1> SUFFICES ASSUME Inv
             PROVE  line_comment \/ block_comment \/ quoted => Inv'
  OBVIOUS
<1>1. TypeOK /\ p \in Nat \ {0} /\ End \in Nat /\ p <= End /\ q \in Nat
  BY EndIsNat DEF Inv, TypeOK
<1>2. mode \in Inner => mode \in Loops /\ p < q /\ q <= End
  BY DEF Inv, Looking, Inner, Loops
<1>3. ASSUME line_comment
      PROVE  Inv'
  <2>1. mode \in Inner
    BY <1>3 DEF line_comment, Inner
  <2>2. CASE Resume(q)
    BY <2>1, <2>2, <1>1, <1>2, ResumeInv
  <2>3. CASE Look("line comment", q + 1)
    <3>1. "line comment" \in Inner
      BY DEF Inner
    <3>2. q + 1 \in Nat /\ p < q + 1
      BY <2>1, <1>1, <1>2
    <3> QED BY <2>1, <2>3, <3>1, <3>2, <1>2, LookInv
  <2> QED BY <1>3, <2>2, <2>3 DEF line_comment
<1>4. ASSUME block_comment
      PROVE  Inv'
  <2>1. mode \in Inner
    BY <1>4 DEF block_comment, Inner
  <2>2. q + 1 \in Nat /\ p < q + 1
    BY <2>1, <1>1, <1>2
  <2>3. CASE Look("quoted", q + 1)
    <3>1. "quoted" \in Inner
      BY DEF Inner
    <3> QED BY <2>1, <2>2, <2>3, <3>1, <1>2, LookInv
  <2>4. CASE StartsWith(q + 1, <<"*", "/">>) /\ Resume(q + 3)
    <3> DEFINE w == <<"*", "/">>
    <3>1. w \in Seq({"*", "/"}) /\ Len(w) = 2 /\ w # <<>> /\ NUL \notin {"*", "/"}
      BY DEF NUL
    <3>2. q + 1 \in Nat \ {0} /\ StartsWith(q + 1, w)
      BY <2>4, <1>1
    <3> HIDE DEF w
    <3>3. q + 1 + Len(w) <= End
      BY <3>1, <3>2, <1>1, Fits
    <3>4. q + 3 \in Nat /\ p <= q + 3 /\ q + 3 <= End
      BY <3>1, <3>3, <2>1, <1>1, <1>2
    <3> QED BY <2>1, <2>4, <3>4, <1>2, ResumeInv
  <2>5. CASE Look("block comment", q + 1)
    <3>1. "block comment" \in Inner
      BY DEF Inner
    <3> QED BY <2>1, <2>2, <2>5, <3>1, <1>2, LookInv
  <2> QED BY <1>4, <2>3, <2>4, <2>5 DEF block_comment
<1>5. ASSUME quoted
      PROVE  Inv'
  <2>1. mode \in Inner
    BY <1>5 DEF quoted, Inner
  <2>2. q + 1 \in Nat /\ p < q + 1 /\ q + 2 \in Nat /\ p < q + 2
    BY <2>1, <1>1, <1>2
  <2>3. "block comment" \in Inner /\ "quoted" \in Inner
    BY DEF Inner
  <2>4. Look("block comment", q + 1) \/ Look("quoted", q + 2) \/ Look("quoted", q + 1)
    BY <1>5 DEF quoted
  <2>5. CASE Look("block comment", q + 1)
    BY <2>1, <2>2, <2>3, <2>5, <1>2, LookInv
  <2>6. CASE Look("quoted", q + 2)
    BY <2>1, <2>2, <2>3, <2>6, <1>2, LookInv
  <2>7. CASE Look("quoted", q + 1)
    BY <2>1, <2>2, <2>3, <2>7, <1>2, LookInv
  <2> QED BY <2>4, <2>5, <2>6, <2>7
<1> QED BY <1>3, <1>4, <1>5

\* new_token() in a round that leaves the text alone.
LEMMA PlainToken ==
    ASSUME Inv, mode \in Loops,
           NEW kind \in Kinds, NEW i \in Nat, NEW len \in Nat, NEW next \in Nat,
           new_token(kind, i, len, next), UNCHANGED user_input,
           p <= i, i <= End, i + len <= next, next <= End, p <= next,
           mode' \in {"scan"} \cup Ends
    PROVE  Inv'
<1>1. tokens' = Append(tokens, Token(kind, i, len)) /\ p' = next
      /\ UNCHANGED <<source, row, charPoint, q, report>>
  BY DEF new_token
<1>2. p' \in 1..End
  BY <1>1, EndIsNat DEF Inv, TypeOK
<1>3. report'.loc \in 0..End /\ report'.line \in 0..PROGRAM_LINE
  BY <1>1 DEF Inv, TypeOK
<1> QED BY <1>1, <1>2, <1>3, NewToken

LEMMA WordInv == Inv /\ (null_word \/ keyword) => Inv'
<1> SUFFICES ASSUME Inv, null_word \/ keyword
             PROVE  Inv'
  OBVIOUS
<1>1. TypeOK /\ p \in Nat \ {0} /\ End \in Nat /\ p <= End
  BY EndIsNat DEF Inv, TypeOK
<1>2. mode = "scan" /\ UNCHANGED <<user_input, mode>>
  BY DEF null_word, keyword, Round
<1>3. mode \in Loops /\ mode' \in {"scan"} \cup Ends
  BY <1>2 DEF Loops
<1>4. PICK w \in Keywords \cup {NullWord}, kind \in {"TK_NUM", "TK_KEYWORD"} :
         IsWord(w) /\ new_token(kind, p, Len(w), p + Len(w))
  BY DEF null_word, keyword
<1>5. kind \in Kinds
  BY DEF Kinds
<1>6. Len(w) \in Nat /\ p + Len(w) <= End
  BY <1>1, <1>4, WordFits
<1> DEFINE n == Len(w)
<1>7. n \in Nat /\ p + n <= End /\ new_token(kind, p, n, p + n)
  BY <1>4, <1>6
<1> HIDE DEF n
<1>8. p + n \in Nat /\ p <= p + n
  BY <1>1, <1>7
<1> QED BY <1>1, <1>2, <1>3, <1>5, <1>7, <1>8, PlainToken

LEMMA OperatorInv == Inv /\ (long_operator \/ short_operator) => Inv'
<1> SUFFICES ASSUME Inv, long_operator \/ short_operator
             PROVE  Inv'
  OBVIOUS
<1>1. TypeOK /\ p \in Nat \ {0} /\ End \in Nat /\ p <= End
  BY EndIsNat DEF Inv, TypeOK
<1>2. mode = "scan" /\ UNCHANGED <<user_input, mode>>
  BY DEF long_operator, short_operator, Round
<1>3. mode \in Loops /\ mode' \in {"scan"} \cup Ends /\ "TK_RESERVED" \in Kinds
  BY <1>2 DEF Loops, Kinds
<1>4. CASE long_operator
  <2>1. p + 2 <= End /\ new_token("TK_RESERVED", p, 2, p + 2)
    BY <1>1, <1>4, LongOpFits DEF long_operator
  <2> QED BY <1>1, <1>2, <1>3, <2>1, PlainToken
<1>5. CASE short_operator
  <2>1. p < End /\ new_token("TK_RESERVED", p, 1, p + 1)
    BY <1>5 DEF short_operator, Round
  <2> QED BY <1>1, <1>2, <1>3, <2>1, PlainToken
<1> QED BY <1>4, <1>5

LEMMA StringInv == Inv /\ string => Inv'
<1> SUFFICES ASSUME Inv, string
             PROVE  Inv'
  OBVIOUS
<1>1. TypeOK /\ p \in Nat \ {0} /\ End \in Nat /\ p <= End /\ q \in Nat
  BY EndIsNat DEF Inv, TypeOK
<1>2. mode = "string"
  BY DEF string
<1>3. mode \in Loops /\ "string" \in Inner /\ "TK_STRING" \in Kinds
  BY <1>2 DEF Loops, Inner, Kinds
<1>4. p < q /\ q <= End
  BY <1>2, <1>3 DEF Inv, Looking
<1>5. CASE At(q) = Quote
  <2>1. new_token("TK_STRING", p + 1, q - p - 1, q + 1) /\ mode' = "scan" /\ UNCHANGED user_input
    BY <1>5 DEF string
  <2>2. At(q) # NUL
    BY <1>5 DEF Quote, NUL
  <2>3. q < End
    BY <1>1, <2>2, InText
  <2>4. q - p - 1 \in Nat /\ p + 1 + (q - p - 1) <= q + 1 /\ q + 1 \in Nat /\ q + 1 <= End
        /\ p + 1 \in Nat /\ p <= p + 1 /\ p + 1 <= End /\ p <= q + 1
    BY <2>3, <1>1, <1>4
  <2> QED BY <1>1, <1>3, <2>1, <2>4, PlainToken
<1>6. CASE At(q) # Quote
  <2>1. Look("string", IF At(q) = Backslash THEN q + 2 ELSE q + 1)
    BY <1>6 DEF string
  <2>2. Look("string", q + 2) \/ Look("string", q + 1)
    BY <2>1
  <2>3. q + 2 \in Nat /\ q + 1 \in Nat /\ p < q + 2 /\ p < q + 1
    BY <1>1, <1>4
  <2> QED BY <1>3, <2>2, <2>3, LookInv
<1> QED BY <1>5, <1>6

LEMMA CharacterInv == Inv /\ character => Inv'
<1> SUFFICES ASSUME Inv, character
             PROVE  Inv'
  OBVIOUS
<1> DEFINE escape == At(p + 1) = Backslash
<1> DEFINE c == IF escape THEN p + 2 ELSE p + 1
<1>1. TypeOK /\ p \in Nat \ {0} /\ End \in Nat /\ p <= End /\ End = Len(user_input) + 1
      /\ user_input \in Seq(Characters) /\ Len(user_input) = Len(source)
  BY EndIsNat DEF Inv, TypeOK
<1>2. mode = "scan" /\ p < End
  BY DEF character, Round
<1>3. mode \in Loops /\ "TK_CHARACTER" \in Kinds
  BY <1>2 DEF Loops, Kinds
<1>4. c \in Nat /\ p < c
  BY <1>1
<1>5. CASE mode' = "exit" /\ UNCHANGED <<source, user_input, row, charPoint, p, q, tokens, report>>
  <2>1. mode' \in Loops \cup Ends /\ mode' \notin Inner /\ mode' \notin Loops
    BY <1>5 DEF Loops, Ends, Inner
  <2>2. row' \in 1..End /\ charPoint' \in Seq(-128..127) /\ Len(charPoint') < PROGRAM_LINE
        /\ p' \in 1..End /\ p <= p' /\ q' \in Nat
        /\ report'.loc \in 0..End /\ report'.line \in 0..PROGRAM_LINE
    BY <1>1, <1>5 DEF Inv, TypeOK
  <2> QED BY <1>5, <2>1, <2>2, NoToken
<1>6. CASE Look("overrun", c + 2)
  <2>1. c + 2 \in Nat /\ p < c + 2
    BY <1>1, <1>4
  <2> HIDE DEF c
  <2> QED BY <1>3, <1>6, <2>1, LookInv
<1>7. CASE /\ ~(escape /\ At(c) \notin DOMAIN Escapes)
           /\ c + 2 <= End
           /\ new_token("TK_CHARACTER", c, 1, c + 2)
           /\ user_input' = IF escape
                            THEN [user_input EXCEPT ![c] = Escapes[user_input[c]]]
                            ELSE user_input
           /\ UNCHANGED mode
  <2>1. tokens' = Append(tokens, Token("TK_CHARACTER", c, 1)) /\ p' = c + 2
        /\ UNCHANGED <<source, row, charPoint, q, report>>
    BY <1>7 DEF new_token
  <2>2. p' \in 1..End /\ mode' \in {"scan"} \cup Ends
        /\ report'.loc \in 0..End /\ report'.line \in 0..PROGRAM_LINE
    <3>1. p' \in 1..End
      BY <1>1, <1>4, <1>7, <2>1
    <3>2. report'.loc \in 0..End /\ report'.line \in 0..PROGRAM_LINE
      BY <2>1 DEF Inv, TypeOK
    <3> QED BY <1>2, <1>7, <3>1, <3>2
  <2>3. \/ UNCHANGED user_input
        \/ /\ user_input' \in Seq(Characters)
           /\ Len(user_input') = Len(user_input)
           /\ \A k \in 1..Len(user_input) : k < c \/ k >= c + 2 => user_input'[k] = user_input[k]
    <3>1. CASE ~escape
      BY <1>7, <3>1
    <3>2. CASE escape
      <4>1. c \in 1..Len(user_input) /\ DOMAIN user_input = 1..Len(user_input)
        BY <1>1, <1>4, <1>7
      <4>2. At(c) = user_input[c] /\ At(c) \in DOMAIN Escapes
        BY <1>1, <1>4, <1>7, <3>2 DEF At
      <4>3. Escapes[user_input[c]] \in Characters
        BY <4>2, EscapesAssumption
      <4> DEFINE e == Escapes[user_input[c]]
      <4>4. user_input' = [user_input EXCEPT ![c] = e] /\ e \in Characters
        BY <1>7, <3>2, <4>3
      <4> HIDE DEF c, e
      <4>5. user_input' \in Seq(Characters) /\ Len(user_input') = Len(user_input)
        BY <1>1, <4>1, <4>4
      <4>6. \A k \in 1..Len(user_input) : k < c \/ k >= c + 2 => user_input'[k] = user_input[k]
        BY <1>1, <1>4, <4>1, <4>4
      <4> QED BY <4>5, <4>6
    <3> QED BY <3>1, <3>2
  <2>4. p <= c /\ c <= End /\ c + 1 <= c + 2 /\ c + 2 \in Nat /\ c + 2 <= End
    BY <1>1, <1>4, <1>7
  <2> HIDE DEF c, escape
  <2> QED BY <1>3, <1>4, <2>1, <2>2, <2>3, <2>4, NewToken
<1> QED BY <1>1, <1>4, <1>5, <1>6, <1>7 DEF character

LEMMA RunInv == Inv /\ (identifier \/ number) => Inv'
<1> SUFFICES ASSUME Inv, identifier \/ number
             PROVE  Inv'
  OBVIOUS
<1>1. TypeOK /\ p \in Nat \ {0} /\ End \in Nat
  BY EndIsNat DEF Inv, TypeOK
<1>2. mode = "scan" /\ p < End /\ UNCHANGED <<user_input, mode>>
  BY DEF identifier, number, Round
<1>3. mode \in Loops /\ mode' \in {"scan"} \cup Ends /\ "TK_IDENT" \in Kinds /\ "TK_NUM" \in Kinds
  BY <1>2 DEF Loops, Kinds
<1>4. NUL \notin Alnum /\ NUL \notin Digits
  BY ClassesAssumption DEF Alnum
<1>5. CASE identifier
  <2> DEFINE next == RunEnd(p + 1, Alnum)
  <2>1. next \in (p + 1)..End
    <3>1. p + 1 \in 1..End
      BY <1>1, <1>2
    <3> QED BY <3>1, <1>1, <1>4, RunEndExists
  <2>2. new_token("TK_IDENT", p, next - p, next)
    BY <1>5 DEF identifier
  <2> HIDE DEF next
  <2>3. next \in Nat /\ next - p \in Nat /\ p + (next - p) <= next /\ next <= End /\ p <= next
    BY <2>1, <1>1
  <2> QED BY <1>1, <1>2, <1>3, <2>2, <2>3, PlainToken
<1>6. CASE number
  <2> DEFINE next == RunEnd(p, Digits)
  <2>1. next \in p..End
    <3>1. p \in 1..End
      BY <1>1, <1>2
    <3> QED BY <3>1, <1>1, <1>4, RunEndExists
  <2>2. new_token("TK_NUM", p, 0, next)
    BY <1>6 DEF number
  <2> HIDE DEF next
  <2>3. next \in Nat /\ p + 0 <= next /\ next <= End /\ p <= next
    BY <2>1, <1>1
  <2> QED BY <1>1, <1>2, <1>3, <2>2, <2>3, PlainToken
<1> QED BY <1>5, <1>6

LEMMA EndInv == Inv /\ (end_of_file \/ bad_character \/ expect) => Inv'
<1> SUFFICES ASSUME Inv
             PROVE  end_of_file \/ bad_character \/ expect => Inv'
  OBVIOUS
<1>1. TypeOK /\ p \in Nat \ {0} /\ End \in Nat /\ p <= End
  BY EndIsNat DEF Inv, TypeOK
<1>2. ASSUME end_of_file
      PROVE  Inv'
  <2>1. mode = "scan" /\ mode' = "done" /\ UNCHANGED user_input /\ new_token("TK_EOF", p, 0, p)
    BY <1>2 DEF end_of_file
  <2>2. mode \in Loops /\ mode' \in {"scan"} \cup Ends /\ "TK_EOF" \in Kinds
    BY <2>1 DEF Loops, Ends, Kinds
  <2>3. p + 0 <= p
    BY <1>1
  <2> QED BY <1>1, <2>1, <2>2, <2>3, PlainToken
<1>3. ASSUME bad_character
      PROVE  Inv'
  <2>1. mode = "scan" /\ mode' = "error" /\ p < End /\ report' = error_at(p)
        /\ tokens' = Append(tokens, Token("TK_ERROR", p, 1))
        /\ UNCHANGED <<source, user_input, row, charPoint, p, q>>
    BY <1>3 DEF bad_character, Round
  <2>2. mode \in Loops /\ mode' \in {"scan"} \cup Ends /\ mode' \notin Loops /\ "TK_ERROR" \in Kinds
    BY <2>1 DEF Loops, Ends, Kinds
  <2>3. p \in 1..End
    BY <1>1
  <2>4. report'.loc \in 0..End /\ report'.line \in 0..PROGRAM_LINE
    BY <1>1, <2>1, <2>3, ReportTyped
  <2>5. p' \in 1..End /\ p + 1 \in Nat /\ p + 1 <= End /\ p + 1 <= p + 1 /\ 1 \in Nat
    BY <1>1, <2>1
  <2> QED BY <1>1, <2>1, <2>2, <2>4, <2>5, NewToken
<1>4. ASSUME expect
      PROVE  Inv'
  <2>1. PICK t \in DOMAIN tokens : report' = error_at(tokens[t].str)
    BY <1>4 DEF expect
  <2>2. mode = "done" /\ UNCHANGED <<source, user_input, row, charPoint, p, q, mode, tokens>>
    BY <1>4 DEF expect
  <2>3. tokens[t].str \in 1..End
    BY <1>1, TokenTyped
  <2>4. report'.loc \in 0..End /\ report'.line \in 0..PROGRAM_LINE
    BY <1>1, <2>1, <2>3, ReportTyped
  <2>5. mode' \in Loops \cup Ends /\ mode' \notin Loops /\ mode' \notin Inner
    BY <2>2 DEF Loops, Ends, Inner
  <2>6. row' \in 1..End /\ charPoint' \in Seq(-128..127) /\ Len(charPoint') < PROGRAM_LINE
        /\ p' \in 1..End /\ p <= p' /\ q' \in Nat
    BY <1>1, <2>2 DEF TypeOK
  <2> QED BY <2>2, <2>4, <2>5, <2>6, NoToken
<1> QED BY <1>2, <1>3, <1>4

LEMMA StepInv == Inv /\ [Next]_vars => Inv'
<1> SUFFICES ASSUME Inv, [Next]_vars
             PROVE  Inv'
  OBVIOUS
<1>1. CASE tokenize
  BY <1>1, MeasureLineInv, SkipInv, CommentInv, WordInv, OperatorInv, StringInv, CharacterInv,
     RunInv, EndInv
  DEF tokenize
<1>2. CASE expect
  BY <1>2, EndInv
<1>3. CASE UNCHANGED vars
  <2>1. UNCHANGED <<source, user_input, row, charPoint, p, q, mode, tokens, report>> /\ End' = End
    BY <1>3 DEF vars, End
  <2>2. TypeOK' /\ TokensInOrder' /\ SpellingKept'
    BY <2>1 DEF Inv, TypeOK, TokensInOrder, SpellingKept
  <2>3. Behind' /\ Ahead' /\ Looking'
    BY <2>1 DEF Inv, Behind, Ahead, Looking
  <2> QED BY <2>2, <2>3 DEF Inv
<1> QED BY <1>1, <1>2, <1>3 DEF Next, Stopped

LEMMA Invariance == Spec => []Inv
<1> QED BY InitInv, StepInv, PTL DEF Spec

-----------------------------------------------------------------------------
(* The table of the lines, from which an error is placed. *)

Newlines(n) == {k \in 1..n : source[k] = Newline}

\* charTotal, of a table c.
Sums(c) ==
    CHOOSE sums : sums = [l \in Nat |->
        IF l = 0 THEN 0 ELSE sums[l - 1] + (IF l \in DOMAIN c THEN c[l] ELSE 0)]

\* The lines measured so far end where the sums of their lengths say.
Measures(c, l) ==
    /\ Sums(c)[l - 1] < Sums(c)[l] /\ Sums(c)[l] <= Len(source)
    /\ source[Sums(c)[l]] = Newline
    /\ \A k \in (Sums(c)[l - 1] + 1)..(Sums(c)[l] - 1) : source[k] # Newline

Table ==
    /\ mode = "lines" => p = 1
    /\ mode \notin {"lines", "overrun"} => row = End
    /\ LinesFit =>
          /\ \A l \in 1..Len(charPoint) : Measures(charPoint, l)
          /\ mode # "overrun" => Sums(charPoint)[Len(charPoint)] = row - 1

LInv == Inv /\ Table /\ ReportIsTrue

LEMMA NewlinesFinite ==
    ASSUME NEW n \in Int
    PROVE  IsFiniteSet(Newlines(n)) /\ Cardinality(Newlines(n)) \in Nat
<1>1. IsFiniteSet(1..n) /\ Newlines(n) \in SUBSET (1..n)
  BY FS_Interval DEF Newlines
<1>2. IsFiniteSet(Newlines(n))
  BY <1>1, FS_Subset
<1> QED BY <1>2, FS_CardinalityType

\* One line more.
LEMMA NewlinesNext ==
    ASSUME NEW i \in Nat \ {0}, NEW n \in Nat, i <= n, source[n] = Newline,
           \A k \in i..(n - 1) : source[k] # Newline
    PROVE  Cardinality(Newlines(n)) = Cardinality(Newlines(i - 1)) + 1
<1>1. n \notin Newlines(i - 1)
  BY DEF Newlines
<1>2. Newlines(n) = Newlines(i - 1) \cup {n}
  <2>1. ASSUME NEW k \in Newlines(n), k # n
        PROVE  k \in Newlines(i - 1)
    <3>1. k \in 1..n /\ source[k] = Newline
      BY DEF Newlines
    <3>2. k \in 1..(i - 1) \/ k \in i..(n - 1)
      BY <2>1, <3>1
    <3> QED BY <3>1, <3>2 DEF Newlines
  <2>2. ASSUME NEW k \in Newlines(i - 1) \cup {n}
        PROVE  k \in Newlines(n)
    <3>1. k = n \/ (k \in 1..(i - 1) /\ source[k] = Newline)
      BY DEF Newlines
    <3>2. k \in 1..n
      BY <3>1
    <3> QED BY <3>1, <3>2 DEF Newlines
  <2> QED BY <2>1, <2>2
<1>3. i - 1 \in Int
  OBVIOUS
<1> HIDE DEF Newlines
<1> QED BY <1>1, <1>2, <1>3, NewlinesFinite, FS_AddElement

LEMMA SumsAre ==
    ASSUME NEW c \in Seq(Int)
    PROVE  /\ Sums(c)[0] = 0
           /\ \A l \in Nat : Sums(c)[l] \in Int
           /\ \A l \in 1..Len(c) : Sums(c)[l] = Sums(c)[l - 1] + c[l]
<1> DEFINE n == Len(c)
<1> DEFINE Added(l) == IF l \in DOMAIN c THEN c[l] ELSE 0
<1> DEFINE Body(f) == [l \in Nat |-> IF l = 0 THEN 0 ELSE f[l - 1] + Added(l)]
<1> DEFINE step == [k \in 1..n |-> [s \in Int |-> s + c[k]]]
<1>1. n \in Nat /\ DOMAIN c = 1..n /\ \A k \in 1..n : c[k] \in Int
  OBVIOUS
<1>2. step \in [1..n -> [Int -> Int]] /\ \A k \in 1..n, s \in Int : step[k][s] = s + c[k]
  BY <1>1
<1> HIDE DEF step, n
<1>3. Defines(n, Int, 0, step)
  <2>1. 0 \in Int
    OBVIOUS
  <2> QED BY <1>1, <1>2, <2>1, RecursionExists
<1>4. PICK g \in [0..n -> Int] : g[0] = 0 /\ \A k \in 1..n : g[k] = step[k][g[k - 1]]
  BY <1>3 DEF Defines
<1>5. \A k \in 1..n : g[k] = g[k - 1] + c[k]
  <2> TAKE k \in 1..n
  <2>1. k - 1 \in 0..n
    BY <1>1
  <2>2. g[k - 1] \in Int
    BY <2>1
  <2> QED BY <1>2, <1>4, <2>2
<1> DEFINE h == [l \in Nat |-> IF l <= n THEN g[l] ELSE g[n]]
<1>6. h = Body(h)
  <2>1. ASSUME NEW l \in Nat
        PROVE  h[l] = IF l = 0 THEN 0 ELSE h[l - 1] + Added(l)
    <3>1. CASE l = 0
      BY <1>1, <1>4, <3>1
    <3>2. CASE l \in 1..n
      <4>1. l # 0 /\ l <= n /\ l - 1 \in Nat /\ l - 1 <= n /\ Added(l) = c[l]
        BY <1>1, <3>2
      <4> QED BY <1>5, <3>2, <4>1
    <3>3. CASE l > n
      <4>1. l # 0 /\ l - 1 \in Nat /\ Added(l) = 0 /\ ~(l <= n) /\ n \in 0..n
        BY <1>1, <3>3
      <4>2. g[n] \in Int
        BY <4>1
      <4>3. h[l - 1] = g[n]
        <5>1. l - 1 = n \/ ~(l - 1 <= n)
          BY <1>1, <3>3
        <5> QED BY <4>1, <5>1
      <4> QED BY <4>1, <4>2, <4>3
    <3> QED BY <1>1, <3>1, <3>2, <3>3
  <2> HIDE DEF Added
  <2> QED BY <2>1
<1> DEFINE sums == CHOOSE f : f = Body(f)
<1>7. sums = Body(sums)
  <2> HIDE DEF h, Body
  <2> QED BY <1>6
<1>8. Sums(c) = sums
  BY DEF Sums
<1> HIDE DEF sums
<1>9. sums[0] = 0 /\ \A l \in Nat \ {0} : sums[l] = sums[l - 1] + Added(l)
  BY <1>7
<1> DEFINE G(m) == {l \in Nat : sums[l] \in Int}
<1>10. ASSUME NEW m \in Nat
       PROVE  sums[m] \in Int
  <2>1. 0 \in G(m)
    BY <1>9
  <2>2. ASSUME NEW k \in 1..m, k - 1 \in G(m)
        PROVE  k \in G(m)
    <3>1. k \in Nat \ {0} /\ Added(k) \in Int
      BY <1>1
    <3>2. sums[k] = sums[k - 1] + Added(k)
      BY <1>9, <3>1
    <3> HIDE DEF Added
    <3> QED BY <2>2, <3>1, <3>2
  <2>3. 0..m \subseteq G(m)
    <3> HIDE DEF G
    <3> QED BY <2>1, <2>2, UpTo
  <2>4. m \in 0..m
    OBVIOUS
  <2> QED BY <2>3, <2>4
<1>11. \A l \in 1..n : l \in Nat \ {0} /\ Added(l) = c[l]
  BY <1>1
<1> QED BY <1>8, <1>9, <1>10, <1>11 DEF n

LEMMA TableTyped ==
    ASSUME Inv
    PROVE  charPoint \in Seq(Int) /\ Len(charPoint) \in Nat /\ Len(charPoint) < PROGRAM_LINE
<1>1. charPoint \in Seq(-128..127) /\ Len(charPoint) < PROGRAM_LINE
  BY DEF Inv, TypeOK
<1>2. -128..127 \subseteq Int
  OBVIOUS
<1>3. charPoint \in Seq(Int)
  BY <1>1, <1>2, WiderSeq
<1>4. Len(charPoint) \in Nat
  BY <1>3
<1> QED BY <1>1, <1>3, <1>4

LEMMA TotalIs == charTotal = Sums(charPoint)
BY DEF charTotal, Sums

\* A line more does not change the sums of those before it.
LEMMA SumsGrow ==
    ASSUME NEW c \in Seq(Int), NEW x \in Int
    PROVE  /\ \A l \in 0..Len(c) : Sums(Append(c, x))[l] = Sums(c)[l]
           /\ Sums(Append(c, x))[Len(c) + 1] = Sums(c)[Len(c)] + x
<1> DEFINE n == Len(c)
<1> DEFINE d == Append(c, x)
<1>1. /\ n \in Nat /\ d \in Seq(Int) /\ Len(d) = n + 1
      /\ d[n + 1] = x /\ \A l \in 1..n : d[l] = c[l]
  OBVIOUS
<1> HIDE DEF d
<1>2. /\ Sums(c)[0] = 0 /\ Sums(d)[0] = 0
      /\ \A l \in 1..n : Sums(c)[l] = Sums(c)[l - 1] + c[l]
      /\ \A l \in 1..(n + 1) : Sums(d)[l] = Sums(d)[l - 1] + d[l]
  BY <1>1, SumsAre
<1> DEFINE G == {l \in 0..n : Sums(d)[l] = Sums(c)[l]}
<1>3. 0 \in G
  BY <1>1, <1>2
<1>4. ASSUME NEW k \in 1..n, k - 1 \in G
      PROVE  k \in G
  <2>1. k \in 1..(n + 1) /\ k \in 0..n
    BY <1>1
  <2> QED BY <1>1, <1>2, <1>4, <2>1
<1>5. 0..n \subseteq G
  <2> HIDE DEF G, n
  <2> QED BY <1>1, <1>3, <1>4, UpTo
<1>6. n + 1 \in 1..(n + 1) /\ n \in 0..n /\ (n + 1) - 1 = n
  BY <1>1
<1>7. Sums(d)[n + 1] = Sums(d)[n] + x /\ Sums(d)[n] = Sums(c)[n]
  BY <1>1, <1>2, <1>5, <1>6
<1> QED BY <1>5, <1>7 DEF d

\* The l-th line ends at the l-th new line.
LEMMA LinesCounted ==
    ASSUME Inv, Table, LinesFit
    PROVE  \A l \in 0..Len(charPoint) :
              /\ Sums(charPoint)[l] \in Nat
              /\ Cardinality(Newlines(Sums(charPoint)[l])) = l
<1> DEFINE n == Len(charPoint)
<1> DEFINE LineEnd(l) == Sums(charPoint)[l]
<1> DEFINE G == {l \in 0..n : LineEnd(l) \in Nat /\ Cardinality(Newlines(LineEnd(l))) = l}
<1>1. charPoint \in Seq(Int) /\ n \in Nat
  BY TableTyped
<1>2. LineEnd(0) = 0 /\ \A l \in Nat : LineEnd(l) \in Int
  BY <1>1, SumsAre
<1>3. 0 \in G
  <2>1. Newlines(0) = {}
    BY DEF Newlines
  <2>2. Cardinality(Newlines(0)) = 0
    BY <2>1, FS_EmptySet
  <2> QED BY <1>1, <1>2, <2>2
<1>4. ASSUME NEW k \in 1..n, k - 1 \in G
      PROVE  k \in G
  <2>1. Measures(charPoint, k)
    BY DEF Table
  <2>2. /\ LineEnd(k) \in Int /\ LineEnd(k - 1) \in Nat /\ LineEnd(k - 1) < LineEnd(k)
        /\ source[LineEnd(k)] = Newline
        /\ \A i \in (LineEnd(k - 1) + 1)..(LineEnd(k) - 1) : source[i] # Newline
    BY <1>2, <1>4, <2>1 DEF Measures
  <2>3. Cardinality(Newlines(LineEnd(k - 1))) = k - 1
    BY <1>4
  <2> HIDE DEF LineEnd
  <2>4. /\ LineEnd(k) \in Nat /\ LineEnd(k - 1) + 1 \in Nat \ {0} /\ LineEnd(k - 1) + 1 <= LineEnd(k)
        /\ (LineEnd(k - 1) + 1) - 1 = LineEnd(k - 1)
    BY <2>2
  <2>5. Cardinality(Newlines(LineEnd(k))) = (k - 1) + 1
    BY <2>2, <2>3, <2>4, NewlinesNext
  <2>6. (k - 1) + 1 = k /\ k \in 0..n
    OBVIOUS
  <2> QED BY <2>4, <2>5, <2>6
<1>5. 0..n \subseteq G
  <2> HIDE DEF G, n
  <2> QED BY <1>1, <1>3, <1>4, UpTo
<1> QED BY <1>5

LEMMA ReportTrue ==
    ASSUME Inv, Table, LinesFit, mode \notin {"lines", "overrun"},
           NEW loc \in Nat \ {0}, loc < End
    PROVE  LET r == error_at(loc) IN
           /\ r.loc = loc
           /\ r.line = Cardinality(Before(loc)) + 1
           /\ Before(loc) = {} => r.row = loc
           /\ Before(loc) # {} => /\ loc - r.row \in Before(loc)
                                  /\ \A k \in Before(loc) : k <= loc - r.row
<1> DEFINE n == Len(charPoint)
<1> DEFINE Total(l) == Sums(charPoint)[l]
<1> DEFINE Reached == {l \in 1..(PROGRAM_LINE - 1) : loc <= Total(l)}
<1>1. /\ charPoint \in Seq(Int) /\ n \in Nat /\ n < PROGRAM_LINE /\ PROGRAM_LINE \in Nat
      /\ row = End /\ End = Len(source) + 1 /\ Len(source) \in Nat
  BY TableTyped, EndIsNat, LineAssumption DEF Inv, Table
<1>2. Total(0) = 0 /\ \A l \in Nat : Total(l) \in Int
  BY <1>1, SumsAre
<1>3. Total(n) = End - 1
  BY <1>1 DEF Table
<1>4. \A l \in 1..n : Measures(charPoint, l)
  BY DEF Table
<1>5. \A l \in 0..n : Total(l) \in Nat /\ Cardinality(Newlines(Total(l))) = l
  BY LinesCounted
<1>6. n \in Reached
  <2>1. n # 0 /\ loc <= Total(n)
    BY <1>1, <1>2, <1>3
  <2> QED BY <1>1, <2>1
<1>7. Reached \subseteq Nat /\ Reached # {}
  BY <1>1, <1>6
<1> DEFINE m == CHOOSE l \in Reached : \A k \in Reached : l <= k
<1>8. m \in Reached /\ \A k \in Reached : m <= k
  <2>1. \E l \in Reached : \A k \in Reached : l <= k
    <3> HIDE DEF Reached
    <3> QED BY <1>7, Least
  <2> HIDE DEF Reached
  <2> QED BY <2>1
<1>9. error_at(loc) = [loc |-> loc, line |-> m, row |-> loc - Total(m - 1)]
  <2>1. Reached = {l \in 1..(PROGRAM_LINE - 1) : loc <= charTotal[l]}
    BY TotalIs
  <2>2. charTotal[m - 1] = Total(m - 1)
    BY TotalIs
  <2> QED BY <1>7, <2>1, <2>2 DEF error_at
<1> DEFINE b == Total(m - 1)
<1>10. m \in 1..n /\ m - 1 \in 0..n
  <2>1. m <= n /\ m \in 1..(PROGRAM_LINE - 1)
    BY <1>6, <1>8
  <2> HIDE DEF m, Reached
  <2> QED BY <1>1, <2>1
<1>11. loc <= Total(m)
  BY <1>8
<1> HIDE DEF m
<1>12. b < loc /\ b \in Nat
  <2>1. b \in Nat
    BY <1>5, <1>10
  <2>2. CASE m = 1
    BY <1>2, <2>2
  <2>3. CASE m # 1
    <3>1. m - 1 \in 1..(PROGRAM_LINE - 1) /\ ~(m <= m - 1)
      BY <1>1, <1>10, <2>3
    <3>2. m - 1 \notin Reached
      <4> HIDE DEF Reached
      <4> QED BY <1>8, <3>1
    <3>3. ~(loc <= b)
      BY <3>1, <3>2
    <3> HIDE DEF b, Reached
    <3> QED BY <2>1, <3>3
  <2> QED BY <2>1, <2>2, <2>3
<1>13. Before(loc) = Newlines(b)
  <2>1. Total(m) \in Nat /\ \A k \in (b + 1)..(Total(m) - 1) : source[k] # Newline
    BY <1>4, <1>5, <1>10 DEF Measures
  <2> HIDE DEF b, Total
  <2>2. \A k \in 1..(loc - 1) : k \in 1..b \/ k \in (b + 1)..(Total(m) - 1)
    BY <1>11, <1>12, <2>1
  <2>3. \A k \in 1..b : k \in 1..(loc - 1)
    BY <1>12
  <2> QED BY <2>1, <2>2, <2>3 DEF Before, Newlines
<1>14. Cardinality(Before(loc)) + 1 = m
  <2>1. Cardinality(Newlines(b)) = m - 1
    BY <1>5, <1>10
  <2> HIDE DEF b
  <2> QED BY <1>10, <1>13, <2>1
<1>15. m = 1 => b = 0 /\ Before(loc) = {}
  <2>1. m = 1 => b = 0
    BY <1>2
  <2> HIDE DEF b
  <2> QED BY <1>13, <2>1 DEF Newlines
<1>16. m # 1 => b \in Before(loc)
  <2> SUFFICES ASSUME m # 1
               PROVE  b \in Before(loc)
    OBVIOUS
  <2>1. m - 1 \in 1..n
    BY <1>1, <1>10
  <2>2. Measures(charPoint, m - 1)
    BY <1>4, <2>1
  <2>3. source[b] = Newline /\ Total((m - 1) - 1) < b
    BY <2>2 DEF Measures
  <2>4. (m - 1) - 1 \in 0..n
    BY <1>1, <2>1
  <2>5. Total((m - 1) - 1) \in Nat
    BY <1>5, <2>4
  <2> HIDE DEF b, Total
  <2>6. b \in 1..b
    BY <1>12, <2>3, <2>5
  <2> QED BY <1>13, <2>3, <2>6 DEF Newlines
<1>17. \A k \in Before(loc) : k <= b
  <2> HIDE DEF b
  <2> QED BY <1>13 DEF Newlines
<1> DEFINE r == error_at(loc)
<1>18. r.loc = loc /\ r.line = m /\ r.row = loc - b
  BY <1>9
<1> HIDE DEF r, b
<1>19. loc - r.row = b /\ (b = 0 => r.row = loc)
  BY <1>12, <1>18
<1> QED BY <1>14, <1>15, <1>16, <1>17, <1>18, <1>19 DEF r

LEMMA TableInit == Init => Table /\ ReportIsTrue
<1> SUFFICES ASSUME Init
             PROVE  Table /\ ReportIsTrue
  OBVIOUS
<1>1. mode = "lines" /\ p = 1 /\ row = 1 /\ charPoint = <<>> /\ report = NoReport
  BY DEF Init
<1>2. Sums(charPoint)[Len(charPoint)] = row - 1
  <2>1. <<>> \in Seq(Int) /\ Len(<<>>) = 0
    OBVIOUS
  <2>2. Sums(<<>>)[0] = 0
    BY <2>1, SumsAre
  <2> QED BY <1>1, <2>1, <2>2
<1>3. \A l \in 1..Len(charPoint) : FALSE
  BY <1>1
<1> QED BY <1>1, <1>2, <1>3 DEF Table, ReportIsTrue

\* A line that fits is entered with its length.
LEMMA LengthFits ==
    ASSUME LinesFit, Len(source) \in Nat, NEW i \in Nat \ {0}, NEW n \in Nat, i <= n,
           n <= Len(source), \A k \in i..(n - 1) : source[k] # Newline
    PROVE  n - i + 1 \in 1..127
<1> SUFFICES ASSUME n - i + 1 > 127
             PROVE  FALSE
  OBVIOUS
<1>1. i \in 1..(Len(source) - 126)
  OBVIOUS
<1>2. PICK k \in i..(i + 126) : source[k] = Newline
  BY <1>1 DEF LinesFit
<1>3. k \in i..(n - 1)
  OBVIOUS
<1> QED BY <1>2, <1>3

LEMMA MeasureLineTable == LInv /\ MeasureLine => Table' /\ ReportIsTrue'
<1> SUFFICES ASSUME LInv, MeasureLine
             PROVE  Table' /\ ReportIsTrue'
  OBVIOUS
<1>1. Inv /\ Table /\ ReportIsTrue /\ Inv'
  BY MeasureLineInv DEF LInv
<1>2. UNCHANGED <<source, user_input, p, q, tokens, report>> /\ mode = "lines"
  BY DEF MeasureLine
<1>3. mode' \in {"lines", "overrun"}
  BY <1>2 DEF MeasureLine
<1>4. ReportIsTrue'
  <2>1. End' = End /\ LinesFit' = LinesFit
    BY <1>2 DEF End, LinesFit, Newline
  <2>2. Before(report.loc)' = Before(report.loc)
    BY <1>2 DEF Before, Newline
  <2> QED BY <1>1, <1>2, <2>1, <2>2 DEF ReportIsTrue, NoReport
<1>5. ASSUME LinesFit'
      PROVE  /\ \A l \in 1..Len(charPoint') : Measures(charPoint, l)'
             /\ mode' # "overrun" => Sums(charPoint')[Len(charPoint')] = row' - 1
  <2>1. LinesFit
    BY <1>2, <1>5 DEF LinesFit, Newline
  <2>2. /\ charPoint \in Seq(Int) /\ Len(charPoint) \in Nat
        /\ \A l \in 1..Len(charPoint) : Measures(charPoint, l)
        /\ Sums(charPoint)[Len(charPoint)] = row - 1
    BY <1>1, <1>2, <2>1, TableTyped DEF Table
  <2>3. Len(source) \in Nat /\ row \in Nat \ {0} /\ Len(user_input) = Len(source)
    BY <1>1, EndIsNat DEF Inv, TypeOK
  <2>4. PICK n \in row..Len(user_input) :
            /\ user_input[n] = Newline
            /\ \A k \in row..(n - 1) : user_input[k] # Newline
            /\ row' = n + 1
            /\ IF Len(charPoint) + 1 < PROGRAM_LINE
               THEN charPoint' = Append(charPoint, AsChar(Length(n))) /\ UNCHANGED mode
               ELSE mode' = "overrun" /\ UNCHANGED charPoint
    BY DEF MeasureLine
  <2>5. CASE ~(Len(charPoint) + 1 < PROGRAM_LINE)
    <3>1. charPoint' = charPoint /\ mode' = "overrun"
      BY <2>4, <2>5
    <3>2. \A l : Measures(charPoint, l)' <=> Measures(charPoint, l)
      BY <1>2, <3>1 DEF Measures, Newline, Sums
    <3> QED BY <2>2, <3>1, <3>2
  <2>6. CASE Len(charPoint) + 1 < PROGRAM_LINE
    <3> DEFINE x == n - row + 1
    <3> DEFINE d == Append(charPoint, x)
    <3> DEFINE L == Len(charPoint)
    <3>1. \A k \in 1..Len(source) : user_input[k] = source[k]
      BY <1>1, <1>2 DEF Inv, Ahead, Table, Loops
    <3>2. /\ n \in Nat /\ row <= n /\ n <= Len(source) /\ n \in 1..Len(source)
          /\ \A k \in row..(n - 1) : k \in 1..Len(source)
      BY <2>3, <2>4
    <3>3. source[n] = Newline /\ \A k \in row..(n - 1) : source[k] # Newline
      BY <2>4, <3>1, <3>2
    <3>4. x \in 1..127
      BY <2>1, <2>3, <3>2, <3>3, LengthFits
    <3>5. AsChar(Length(n)) = x
      <4>1. Length(n) = x
        BY <2>3, <3>2 DEF Length
      <4>2. \A y \in 1..127 : ((y + 128) % 256) - 128 = y
        OBVIOUS
      <4> HIDE DEF x
      <4> QED BY <3>4, <4>1, <4>2 DEF AsChar
    <3>6. charPoint' = d
      BY <2>4, <2>6, <3>5
    <3>7. x \in Int /\ row - 1 \in Int /\ (row - 1) + x = n
      BY <2>3, <3>2
    <3>8. /\ \A l \in 0..L : Sums(d)[l] = Sums(charPoint)[l]
          /\ Sums(d)[L + 1] = n
          /\ Len(d) = L + 1
      <4>1. Sums(d)[L + 1] = Sums(charPoint)[L] + x
            /\ \A l \in 0..L : Sums(d)[l] = Sums(charPoint)[l]
        BY <2>2, <3>7, SumsGrow
      <4>2. Len(d) = L + 1
        BY <2>2, <3>7
      <4> HIDE DEF d, x
      <4> QED BY <2>2, <3>7, <4>1, <4>2
    <3> HIDE DEF d, x
    <3>9. ASSUME NEW l \in 1..(L + 1)
          PROVE  Measures(d, l)
      <4>1. CASE l \in 1..L
        <5>1. l \in 0..L /\ l - 1 \in 0..L
          BY <2>2, <4>1
        <5>2. Measures(charPoint, l)
          BY <2>2, <4>1
        <5> QED BY <3>8, <5>1, <5>2 DEF Measures
      <4>2. CASE l = L + 1
        <5>1. l - 1 = L /\ L \in 0..L
          BY <2>2, <4>2
        <5>2. Sums(d)[l - 1] = row - 1 /\ Sums(d)[l] = n
          BY <2>2, <3>8, <4>2, <5>1
        <5>3. row - 1 < n /\ (row - 1) + 1 = row
          BY <2>3, <3>2
        <5> QED BY <3>2, <3>3, <5>2, <5>3 DEF Measures
      <4> QED BY <2>2, <4>1, <4>2
    <3>10. \A l : Measures(charPoint, l)' <=> Measures(d, l)
      BY <1>2, <3>6 DEF Measures, Newline, Sums
    <3>11. row' - 1 = n
      BY <2>4, <3>2
    <3> QED BY <3>6, <3>8, <3>9, <3>10, <3>11
  <2> QED BY <2>5, <2>6
<1>6. mode' = "lines" => p' = 1
  BY <1>1, <1>2 DEF Table
<1> QED BY <1>3, <1>4, <1>5, <1>6 DEF Table

\* The other steps leave the table as it is.
LEMMA TableStays ==
    ASSUME Inv, Table, Inv', UNCHANGED <<source, row, charPoint>>,
           mode' = "lines" => mode = "lines" /\ p' = p,
           mode' \notin {"lines", "overrun"} => mode # "overrun" /\ row = End
    PROVE  Table'
<1>1. End' = End
  <2>1. End = Len(source) + 1
    BY EndIsNat DEF Inv
  <2>2. End' = Len(user_input') + 1 /\ Len(user_input') = Len(source')
    BY DEF Inv, TypeOK, End
  <2> QED BY <2>1, <2>2
<1>2. LinesFit' => LinesFit
  BY DEF LinesFit, Newline
<1>3. \A l : Measures(charPoint, l) => Measures(charPoint, l)'
  BY DEF Measures, Newline, Sums
<1>4. mode' # "overrun" => mode # "overrun"
  OBVIOUS
<1>5. LinesFit' => /\ \A l \in 1..Len(charPoint') : Measures(charPoint, l)'
                   /\ mode' # "overrun" => Sums(charPoint')[Len(charPoint')] = row' - 1
  BY <1>2, <1>3, <1>4 DEF Table
<1> QED BY <1>1, <1>5 DEF Table

\* A report that is made is true, and stays so.
LEMMA ReportStays ==
    ASSUME Inv, Inv', Table, source' = source, ReportIsTrue,
           \/ report' = report
           \/ /\ mode \notin {"lines", "overrun"}
              /\ \E loc \in 1..End : report' = error_at(loc)
    PROVE  ReportIsTrue'
<1>1. End' = End /\ End = Len(source) + 1 /\ Len(source) \in Nat
  <2>1. End = Len(source) + 1 /\ Len(source) \in Nat
    BY EndIsNat DEF Inv, TypeOK
  <2>2. End' = Len(user_input') + 1 /\ Len(user_input') = Len(source')
    BY DEF Inv, TypeOK, End
  <2> QED BY <2>1, <2>2
<1>2. LinesFit' = LinesFit /\ NoReport' = NoReport
  BY DEF LinesFit, Newline, NoReport
<1>3. Before(report.loc)' = Before(report'.loc)
  BY DEF Before, Newline
<1>4. CASE report' = report
  BY <1>1, <1>2, <1>3, <1>4 DEF ReportIsTrue
<1>5. CASE /\ mode \notin {"lines", "overrun"}
           /\ \E loc \in 1..End : report' = error_at(loc)
  <2>1. PICK loc \in 1..End : report' = error_at(loc)
    BY <1>5
  <2>2. loc \in Nat \ {0}
    BY <1>1
  <2>3. error_at(loc).loc = loc
    BY DEF error_at
  <2>4. SUFFICES ASSUME LinesFit, loc < End
                 PROVE  /\ report'.line = Cardinality(Before(loc)) + 1
                        /\ Before(loc) = {} => report'.row = loc
                        /\ Before(loc) # {} => /\ loc - report'.row \in Before(loc)
                                               /\ \A k \in Before(loc) : k <= loc - report'.row
    BY <1>1, <1>2, <1>3, <2>1, <2>3 DEF ReportIsTrue
  <2> QED BY <1>5, <2>1, <2>2, <2>4, ReportTrue
<1> QED BY <1>4, <1>5

LEMMA ScanTable ==
    LInv /\ (tokenize \/ expect) /\ ~MeasureLine => Table' /\ ReportIsTrue'
<1> SUFFICES ASSUME LInv, tokenize \/ expect, ~MeasureLine
             PROVE  Table' /\ ReportIsTrue'
  OBVIOUS
<1>1. Inv /\ Table /\ ReportIsTrue /\ Inv'
  BY StepInv DEF LInv, Next
<1>2. UNCHANGED <<source, row, charPoint>>
  BY DEF tokenize, expect, StartScan, skip_space, open_line_comment, line_comment,
         open_block_comment, block_comment, quoted, null_word, keyword, long_operator,
         short_operator, open_string, string, character, identifier, number, end_of_file,
         bad_character, Look, Resume, new_token
<1>3. mode # "overrun" /\ (mode = "lines" => StartScan) /\ mode' # "lines"
  BY DEF tokenize, expect, StartScan, skip_space, open_line_comment, line_comment,
         open_block_comment, block_comment, quoted, null_word, keyword, long_operator,
         short_operator, open_string, string, character, identifier, number, end_of_file,
         bad_character, Look, Resume, Round
<1>4. row = End
  BY <1>1, <1>3 DEF Table, StartScan
<1>5. \/ report' = report
      \/ /\ mode \notin {"lines", "overrun"}
         /\ \E loc \in 1..End : report' = error_at(loc)
  <2>1. CASE bad_character
    BY <1>1, <2>1 DEF bad_character, Round, Inv, TypeOK
  <2>2. CASE expect
    <3>1. PICK t \in DOMAIN tokens : report' = error_at(tokens[t].str)
      BY <2>2 DEF expect
    <3>2. tokens[t].str \in 1..End
      <4>1. tokens \in Seq([kind : Kinds, str : 1..End, len : Nat])
        BY <1>1 DEF Inv, TypeOK
      <4> DEFINE T == [kind : Kinds, str : 1..End, len : Nat]
      <4>2. T = [kind : Kinds, str : 1..End, len : Nat]
        OBVIOUS
      <4> HIDE DEF T
      <4>3. t \in 1..Len(tokens) /\ tokens \in Seq(T)
        BY <4>1, <4>2
      <4>4. tokens[t] \in T
        BY <4>3, ElementOf
      <4> QED BY <4>2, <4>4
    <3> QED BY <2>2, <3>1, <3>2 DEF expect
  <2>3. CASE ~bad_character /\ ~expect
    BY <2>3 DEF tokenize, StartScan, skip_space, open_line_comment, line_comment,
         open_block_comment, block_comment, quoted, null_word, keyword, long_operator,
         short_operator, open_string, string, character, identifier, number, end_of_file,
         Look, Resume, new_token
  <2> QED BY <2>1, <2>2, <2>3
<1>6. Table'
  BY <1>1, <1>2, <1>3, <1>4, TableStays
<1>7. ReportIsTrue'
  BY <1>1, <1>2, <1>5, ReportStays
<1> QED BY <1>6, <1>7

LEMMA TableStep == LInv /\ [Next]_vars => LInv'
<1> SUFFICES ASSUME LInv, [Next]_vars
             PROVE  LInv'
  OBVIOUS
<1>1. Inv'
  BY StepInv DEF LInv
<1>2. CASE MeasureLine
  BY <1>1, <1>2, MeasureLineTable DEF LInv
<1>3. CASE (tokenize \/ expect) /\ ~MeasureLine
  BY <1>1, <1>3, ScanTable DEF LInv
<1>4. CASE UNCHANGED vars
  <2>1. UNCHANGED <<source, row, charPoint, mode, p, report>>
    BY <1>4 DEF vars
  <2>2. Table'
    BY <1>1, <2>1, TableStays DEF LInv, Table
  <2>3. ReportIsTrue'
    BY <1>1, <2>1, ReportStays DEF LInv
  <2> QED BY <1>1, <2>2, <2>3 DEF LInv
<1> QED BY <1>2, <1>3, <1>4 DEF Next, Stopped

-----------------------------------------------------------------------------
(* The theorems. *)

\* Whatever the file, the positions that tokenize() and error_at() use lie in the text
\* or at its end, and charPoint is not written behind its last line.
THEOREM TokenizerTypeCorrect == Spec => []TypeOK
<1>1. Inv => TypeOK
  BY DEF Inv
<1> QED BY <1>1, Invariance, PTL

\* new_token() (tokenize.c:254) is never given a part of the text that another token
\* has, nor one behind the end.
THEOREM TokensOrdered == Spec => []TokensInOrder
<1>1. Inv => TokensInOrder
  BY DEF Inv
<1> QED BY <1>1, Invariance, PTL

\* The escapes that tokenize() replaces in user_input (tokenize.c:201-216) change the
\* spelling of no token but the character literal they are in.
THEOREM SpellingIsKept == Spec => []SpellingKept
<1>1. Inv => SpellingKept
  BY DEF Inv
<1> QED BY <1>1, Invariance, PTL

\* When every line fits an entry of charPoint, error_at() (tokenize.c:345-373) gives
\* the line and the column of any address before the end of the file: the lengths that
\* the first loop of tokenize() has entered add up to the ends of the lines.
THEOREM ReportsAreTrue == Spec => []ReportIsTrue
<1>1. Init => LInv
  BY InitInv, TableInit DEF LInv
<1>2. LInv => ReportIsTrue
  BY DEF LInv
<1> QED BY <1>1, <1>2, TableStep, PTL DEF Spec
=============================================================================
