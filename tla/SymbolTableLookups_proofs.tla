----------------------- MODULE SymbolTableLookups_proofs -----------------------
(***************************************************************************)
(* What lookups in the symbol table find, for every set of names and every *)
(* bound: a use of a name its innermost declaration, if the newest local   *)
(* of the name is in an open block (UseBindsInnermost, for all programs),  *)
(* and, for programs whose struct tags are not names of their variables,   *)
(* "." and "->" the tag of the struct (TagLookupFindsTag) and in it        *)
(* members that do not overlap unless their own struct has been defined    *)
(* again (MembersDisjoint), and .data one place for each global variable   *)
(* (DataMatchesGlobals).                                                   *)
(***************************************************************************)
EXTENDS SymbolTable_proofs, RecursionLemmas

-----------------------------------------------------------------------------
(* Scopes.  The list is never cut back at the end of a block, so a use     *)
(* finds the local of the innermost block because that is the newest: the  *)
(* invariant orders the locals of the open blocks by those blocks.  The     *)
(* locals of the blocks that have ended lie anywhere between them.          *)

InOrder(idents, live, top) ==
    \A j \in 1..Len(idents) : idents[j].kind = "LVAR" =>
        /\ idents[j].block \in 1..top
        /\ idents[j].block \in live =>
              \A i \in 1..(j - 1) : idents[i].kind = "LVAR" /\ idents[i].block \in live =>
                                       idents[i].block <= idents[j].block

Live == {blocks[k] : k \in DOMAIN blocks}

\* A block that is begun in another has the greater number.
Nested ==
    \A k \in 1..Len(blocks) :
        /\ blocks[k] \in 1..begun
        /\ \A l \in 1..(k - 1) : blocks[l] < blocks[k]

ScopesInv ==
    /\ TypeOK
    /\ InOrder(identHead, Live, begun)
    /\ Nested

LEMMA NewestIs ==
    ASSUME NEW n \in Nat, NEW S, S \subseteq 1..n, S # {}
    PROVE  Newest(S) \in S /\ Newest(S) # 0 /\ \A j \in S : j <= Newest(S)
<1>1. \E i \in S : \A j \in S : j <= i
  BY GreatestIndex
<1>2. Newest(S) \in S /\ \A j \in S : j <= Newest(S)
  BY <1>1 DEF Newest
<1>3. Newest(S) \in 1..n
  BY <1>2
<1> QED BY <1>2, <1>3

\* find_identifier returns the newest local of the name, else the newest variable
\* of the file, else a function, and NULL only if there is none of the three.
LEMMA FindsInnermost ==
    ASSUME NEW k \in Nat, NEW idents \in Seq(Identifiers(k)), NEW name
    PROVE  LET found  == find_identifier(name, idents)
               D(kind) == Declared(name, kind, idents)
           IN  /\ D("LVAR") # {} => found \in D("LVAR") /\ \A j \in D("LVAR") : j <= found
               /\ D("LVAR") = {} /\ D("GVAR") # {} => found \in D("GVAR")
               /\ D("LVAR") = {} /\ D("GVAR") = {} /\ found # 0 => found \in D("FUNC")
               /\ found = 0 => D("LVAR") = {} /\ D("GVAR") = {} /\ D("FUNC") = {}
<1> DEFINE D(kind) == Declared(name, kind, idents)
<1>1. \A kind : /\ D(kind) # {} => /\ Newest(D(kind)) \in D(kind) /\ Newest(D(kind)) # 0
                                  /\ \A j \in D(kind) : j <= Newest(D(kind))
                /\ D(kind) = {} => Newest(D(kind)) = 0
  <2> TAKE kind
  <2>1. D(kind) \subseteq 1..Len(idents) /\ Len(idents) \in Nat
    BY DEF Declared
  <2> DEFINE S == D(kind)
  <2> HIDE DEF S
  <2>2. S # {} => Newest(S) \in S /\ Newest(S) # 0 /\ \A j \in S : j <= Newest(S)
    BY <2>1, NewestIs DEF S
  <2>3. S = {} => Newest(S) = 0
    BY DEF Newest
  <2> QED BY <2>2, <2>3 DEF S
<1>2. find_identifier(name, idents) =
          IF Newest(D("LVAR")) # 0 THEN Newest(D("LVAR"))
          ELSE IF Newest(D("GVAR")) # 0 THEN Newest(D("GVAR")) ELSE Newest(D("FUNC"))
  BY DEF find_identifier
<1> HIDE DEF D
<1>3. /\ D("LVAR") # {} => /\ find_identifier(name, idents) \in D("LVAR")
                           /\ \A j \in D("LVAR") : j <= find_identifier(name, idents)
      /\ D("LVAR") = {} /\ D("GVAR") # {} => find_identifier(name, idents) \in D("GVAR")
      /\ D("LVAR") = {} /\ D("GVAR") = {} /\ find_identifier(name, idents) # 0
            => find_identifier(name, idents) \in D("FUNC")
      /\ find_identifier(name, idents) = 0
            => D("LVAR") = {} /\ D("GVAR") = {} /\ D("FUNC") = {}
  BY <1>1, <1>2
<1> QED BY <1>3 DEF D

LEMMA InOrderAppend ==
    ASSUME NEW k \in Nat, NEW idents \in Seq(Identifiers(k)), NEW top \in Nat, NEW live,
           InOrder(idents, live, top), NEW new,
           new.kind = "LVAR" => new.block \in 1..top /\ \A b \in live : b <= new.block
    PROVE  InOrder(Append(idents, new), live, top)
<1> DEFINE n == Len(idents)
<1> DEFINE more == Append(idents, new)
<1>1. /\ n \in Nat /\ Len(more) = n + 1
      /\ \A i \in 1..n : more[i] = idents[i]
      /\ more[n + 1] = new
  OBVIOUS
<1> HIDE DEF more
<1>2. ASSUME NEW j \in 1..(n + 1), more[j].kind = "LVAR"
      PROVE  /\ more[j].block \in 1..top
             /\ more[j].block \in live =>
                   \A i \in 1..(j - 1) : more[i].kind = "LVAR" /\ more[i].block \in live =>
                                            more[i].block <= more[j].block
  <2>1. CASE j \in 1..n
    <3>1. \A i \in 1..(j - 1) : i \in 1..n
      BY <1>1, <2>1
    <3> QED BY <1>1, <1>2, <2>1, <3>1 DEF InOrder
  <2>2. CASE j = n + 1
    <3>1. more[j] = new
      BY <1>1, <2>2
    <3> QED BY <1>2, <3>1
  <2> QED BY <1>1, <2>1, <2>2
<1> QED BY <1>1, <1>2 DEF InOrder, more

\* The block being parsed is the last one that has been begun of those still open.
LEMMA BlockIsLast ==
    ASSUME blocks \in Seq(Nat), begun \in Nat, Nested, blocks # <<>>
    PROVE  block \in 1..begun /\ \A b \in Live : b <= block
<1>1. Len(blocks) \in 1..Len(blocks) /\ block = blocks[Len(blocks)]
  BY DEF block
<1>2. block \in 1..begun
  BY <1>1 DEF Nested
<1>3. ASSUME NEW k \in DOMAIN blocks PROVE blocks[k] <= block
  <2>1. k = Len(blocks) \/ k \in 1..(Len(blocks) - 1)
    BY <1>1
  <2>2. blocks[k] \in Nat /\ block \in Nat
    BY <1>1, <1>2
  <2> QED BY <1>1, <2>1, <2>2, SMTT(30) DEF Nested
<1> QED BY <1>2, <1>3 DEF Live

\* new_identifier and typeSpec keep the order: what they link is of this block.
LEMMA InOrderNew ==
    ASSUME NEW k \in Nat, NEW t, t.idents \in Seq(Identifiers(k)), ScopesInv,
           InOrder(t.idents, Live, begun),
           NEW kind, NEW name, NEW type, NEW isTag, kind = "LVAR" => blocks # <<>>
    PROVE  InOrder(new_identifier(t, kind, name, type, isTag).idents, Live, begun)
<1> DEFINE u == new_identifier(t, kind, name, type, isTag)
<1>1. \/ u.idents = t.idents
      \/ \E o : u.idents = Append(t.idents, Identifier(kind, name, type, o, isTag))
  BY DEF new_identifier
<1> HIDE DEF u
<1>2. /\ begun \in Nat
      /\ kind = "LVAR" => block \in 1..begun /\ \A b \in Live : b <= block
  BY BlockIsLast DEF ScopesInv, TypeOK
<1>3. ASSUME NEW o
      PROVE  InOrder(Append(t.idents, Identifier(kind, name, type, o, isTag)), Live, begun)
  <2> DEFINE new == Identifier(kind, name, type, o, isTag)
  <2>1. new.kind = kind /\ (kind = "LVAR" => new.block = block)
    BY DEF Identifier
  <2>2. new.kind = "LVAR" => new.block \in 1..begun /\ \A b \in Live : b <= new.block
    BY <1>2, <2>1
  <2> HIDE DEF new
  <2>3. InOrder(Append(t.idents, new), Live, begun)
    BY <1>2, <2>2, InOrderAppend
  <2> QED BY <2>3 DEF new
<1> QED BY <1>1, <1>3 DEF u

LEMMA InOrderTypeSpec ==
    ASSUME NEW k \in Nat, NEW t, t.idents \in Seq(Identifiers(k)), ScopesInv,
           InOrder(t.idents, Live, begun), NEW kind, kind = "LVAR" => blocks # <<>>, NEW spec
    PROVE  InOrder(typeSpec(t, kind, spec).table.idents, Live, begun)
<1> DEFINE fresh == [base |-> "struct", struct |-> Len(t.structs) + 1, mods |-> <<>>]
<1> DEFINE grown == [idents |-> t.idents, offset |-> t.offset,
                     structs |-> Append(t.structs, NewStruct(spec.tag))]
<1>1. \/ typeSpec(t, kind, spec).table = t
      \/ typeSpec(t, kind, spec).table = new_identifier(grown, kind, spec.tag, fresh, TRUE)
  BY DEF typeSpec
<1>2. grown.idents = t.idents
  OBVIOUS
<1> HIDE DEF grown, fresh
<1>3. InOrder(new_identifier(grown, kind, spec.tag, fresh, TRUE).idents, Live, begun)
  BY <1>2, InOrderNew
<1> QED BY <1>1, <1>3

\* Blocks that end, and blocks that begin with a number of their own, leave the
\* order of the locals of the others.
LEMMA InOrderBlocks ==
    ASSUME NEW idents, NEW live, NEW top \in Nat, InOrder(idents, live, top),
           NEW live2, NEW top2 \in Nat, top <= top2, live2 \subseteq live \cup {top + 1}
    PROVE  InOrder(idents, live2, top2)
<1>1. 1..top \subseteq 1..top2 /\ top + 1 \notin 1..top
  OBVIOUS
<1>2. \A j \in 1..Len(idents) : idents[j].kind = "LVAR" => idents[j].block \in 1..top
  BY DEF InOrder
<1>3. \A j \in 1..Len(idents) :
          idents[j].kind = "LVAR" /\ idents[j].block \in live2 => idents[j].block \in live
  BY <1>1, <1>2
<1>4. ASSUME NEW j \in 1..Len(idents), idents[j].kind = "LVAR", idents[j].block \in live2,
             NEW i \in 1..(j - 1), idents[i].kind = "LVAR", idents[i].block \in live2
      PROVE  idents[i].block <= idents[j].block
  <2>1. idents[j].block \in live
    BY <1>3, <1>4
  <2>2. idents[i].block \in live
    <3>1. i \in 1..Len(idents)
      BY <1>4
    <3> QED BY <1>3, <1>4, <3>1
  <2> QED BY <1>4, <2>1, <2>2 DEF InOrder
<1> QED BY <1>1, <1>2, <1>4 DEF InOrder

LEMMA ScopesStep == ScopesInv /\ [Next]_vars => ScopesInv'
<1> SUFFICES ASSUME ScopesInv, [Next]_vars PROVE ScopesInv'
  OBVIOUS
<1>0. /\ TypeOK /\ TypeOK'
      /\ TableOK(Table) /\ Table.idents = identHead
      /\ identHead \in Seq(Identifiers(Len(structs))) /\ Len(structs) \in Nat
      /\ begun \in Nat /\ blocks \in Seq(Nat) /\ Nested
      /\ InOrder(identHead, Live, begun)
      /\ kindHere = "LVAR" => blocks # <<>>
  BY TypeStep, TableType, TableLengths DEF ScopesInv, TypeOK, Table, kindHere
<1>1. ASSUME NEW kind, kind = "LVAR" => blocks # <<>>,
             NEW from \in {"LVAR", "GVAR", "NONE"}, from = "LVAR" => blocks # <<>>,
             NEW spec \in Specs, NEW name, NEW type,
             from = "NONE" => ~UnknownTag(spec)
      PROVE  LET t == typeSpec(Table, from, spec).table
             IN  /\ InOrder(t.idents, Live, begun)
                 /\ InOrder(new_identifier(t, kind, name, type, FALSE).idents, Live, begun)
  <2> DEFINE t == typeSpec(Table, from, spec).table
  <2>1. InOrder(t.idents, Live, begun)
    BY <1>0, <1>1, InOrderTypeSpec
  <2>2. TableOK(t)
    <3>1. /\ from \in {"LVAR", "GVAR", "STRUCT_MEMBER", "NONE"} /\ block \in Nat
          /\ from = "NONE" /\ spec.base = "struct"
                => find_identifier(spec.tag, Table.idents) # 0
      BY <1>0, <1>1, BlockIsNat DEF UnknownTag
    <3> QED BY <1>0, <3>1, TypeSpec
  <2> HIDE DEF t
  <2>3. t.idents \in Seq(Identifiers(Len(t.structs))) /\ Len(t.structs) \in Nat
    BY <2>2, TableLengths DEF TableOK
  <2>4. InOrder(new_identifier(t, kind, name, type, FALSE).idents, Live, begun)
    BY <1>0, <1>1, <2>1, <2>3, InOrderNew
  <2> QED BY <2>1, <2>4 DEF t
<1>9. InOrder(identHead', Live, begun) /\ UNCHANGED text => ScopesInv'
  BY <1>0 DEF ScopesInv, text, Live, Nested
<1>2. ASSUME NEW name \in Names, NEW spec \in Specs, NEW mods \in Shapes,
             declaration(name, spec, mods)
      PROVE  ScopesInv'
  <2>1. kindHere \in {"LVAR", "GVAR", "NONE"} /\ kindHere # "NONE"
    BY DEF kindHere
  <2>2. PICK type : identHead' = new_identifier(typeSpec(Table, kindHere, spec).table,
                                               kindHere, name, type, FALSE).idents
    BY <1>2 DEF declaration, SetTable
  <2>3. InOrder(identHead', Live, begun)
    BY <1>0, <1>1, <2>1, <2>2
  <2>4. UNCHANGED text
    BY <1>2 DEF declaration
  <2> QED BY <1>0, <1>9, <2>3, <2>4
<1>3. ASSUME NEW name \in Names, NEW spec \in Specs, NEW mods \in Shapes,
             FunctionHead(name, spec, mods)
      PROVE  InOrder(identHead', Live, begun)
  <2>1. CASE UnknownTag(spec)
    BY <1>0, <1>3, <2>1 DEF FunctionHead, table
  <2>2. CASE ~UnknownTag(spec)
    <3>1. PICK type : identHead' = new_identifier(typeSpec(Table, "NONE", spec).table,
                                                 "FUNC", name, type, FALSE).idents
      BY <1>3, <2>2 DEF FunctionHead, SetTable
    <3>2. "NONE" \in {"LVAR", "GVAR", "NONE"} /\ "NONE" # "LVAR" /\ "FUNC" # "LVAR"
      OBVIOUS
    <3> QED BY <1>1, <2>2, <3>1, <3>2
  <2> QED BY <2>1, <2>2
<1>4. ASSUME NEW name \in Names, NEW spec \in Specs, NEW mods \in Shapes,
             \/ funcPrototype(name, spec, mods)
             \/ funcDefine(name, spec, mods)
      PROVE  ScopesInv'
  <2>1. InOrder(identHead', Live, begun)
    BY <1>3, <1>4 DEF funcPrototype, funcDefine
  <2>2. \/ UNCHANGED text
        \/ blocks' = <<begun + 1>> /\ begun' = begun + 1
    BY <1>4 DEF funcPrototype, funcDefine
  <2>3. CASE blocks' = <<begun + 1>> /\ begun' = begun + 1
    <3>1. Live' = {begun + 1} /\ Len(blocks') = 1 /\ blocks'[1] = begun + 1
      BY <2>3 DEF Live
    <3>2. InOrder(identHead', Live', begun')
      BY <1>0, <2>1, <2>3, <3>1, InOrderBlocks
    <3>3. Nested'
      BY <1>0, <2>3, <3>1 DEF Nested
    <3> QED BY <1>0, <3>2, <3>3 DEF ScopesInv
  <2> QED BY <1>9, <2>1, <2>2, <2>3
<1>5. ASSUME NEW name \in Members, NEW spec \in Specs, NEW mods \in Shapes,
             StructMember(name, spec, mods)
      PROVE  ScopesInv'
  <2> DEFINE t == typeSpec(Table, "STRUCT_MEMBER", spec).table
  <2>1. t.idents = identHead
    BY <1>0 DEF typeSpec, new_identifier
  <2>2. \E ms : identHead' = [t.idents EXCEPT ![open.tag].members = ms]
    BY <1>5 DEF StructMember, SetTable
  <2> HIDE DEF t
  <2>3. PICK ms : identHead' = [identHead EXCEPT ![open.tag].members = ms]
    BY <2>1, <2>2
  <2>4. Len(identHead') = Len(identHead) /\ Len(identHead) \in Nat
    BY <1>0, <2>3
  <2>5. \A i \in 1..Len(identHead) : /\ identHead'[i].kind = identHead[i].kind
                                     /\ identHead'[i].block = identHead[i].block
    <3> TAKE i \in 1..Len(identHead)
    <3>1. CASE i # open.tag
      BY <1>0, <2>3, <3>1
    <3>2. CASE i = open.tag
      <4>1. identHead'[i] = [identHead[i] EXCEPT !.members = ms]
        BY <1>0, <2>3, <3>2
      <4>2. identHead[i] \in Identifiers(Len(structs))
        BY <1>0
      <4> QED BY <4>1, <4>2 DEF Identifiers
    <3> QED BY <3>1, <3>2
  <2>6. \A j \in 1..Len(identHead) : \A i \in 1..(j - 1) : i \in 1..Len(identHead)
    BY <2>4
  <2>7. InOrder(identHead', Live, begun)
    BY <1>0, <2>4, <2>5, <2>6 DEF InOrder
  <2>8. UNCHANGED text
    BY <1>5 DEF StructMember
  <2> QED BY <1>0, <1>9, <2>7, <2>8
<1>6. ASSUME NEW tag \in Tags, StructOpen(tag)
      PROVE  ScopesInv'
  <2> DEFINE spec == [base |-> "struct", tag |-> tag]
  <2>1. spec \in Specs /\ kindHere \in {"LVAR", "GVAR", "NONE"} /\ kindHere # "NONE"
    BY DEF Specs, kindHere
  <2>2. identHead' = typeSpec(Table, kindHere, spec).table.idents
    BY <1>6 DEF StructOpen, SetTable
  <2> HIDE DEF spec
  <2>3. InOrder(identHead', Live, begun)
    BY <1>0, <1>1, <2>1, <2>2
  <2>4. UNCHANGED text
    BY <1>6 DEF StructOpen
  <2> QED BY <1>0, <1>9, <2>3, <2>4
<1>7. ASSUME NEW name \in Names, NEW called \in BOOLEAN, primary_expr(name, called)
      PROVE  ScopesInv'
  <2>1. \/ identHead' = identHead
        \/ identHead' = new_identifier(Table, "FUNC", name, new_type("int"), FALSE).idents
    BY <1>7 DEF primary_expr, SetTable, table
  <2>2. "FUNC" # "LVAR"
    OBVIOUS
  <2>3. InOrder(new_identifier(Table, "FUNC", name, new_type("int"), FALSE).idents, Live, begun)
    BY <1>0, <2>2, InOrderNew
  <2>4. UNCHANGED text
    BY <1>7 DEF primary_expr
  <2> QED BY <1>0, <1>9, <2>1, <2>3, <2>4
<1>8. CASE StructClose \/ new_string_vector \/ gens \/ UNCHANGED vars
  <2>1. UNCHANGED <<identHead, text>>
    BY <1>8 DEF StructClose, new_string_vector, gens, vars, table
  <2> QED BY <1>0, <1>9, <2>1
<1>10. CASE BlockBegin
  <2>1. blocks' = Append(blocks, begun + 1) /\ begun' = begun + 1 /\ identHead' = identHead
    BY <1>10 DEF BlockBegin, table
  <2> DEFINE n == Len(blocks)
  <2>2. /\ n \in Nat /\ Len(blocks') = n + 1 /\ DOMAIN blocks' = 1..(n + 1)
        /\ \A k \in 1..n : blocks'[k] = blocks[k]
        /\ blocks'[n + 1] = begun + 1
    BY <1>0, <2>1
  <2>3. Live' \subseteq Live \cup {begun + 1}
    <3>1. \A k \in 1..(n + 1) : k \in 1..n \/ k = n + 1
      BY <2>2
    <3>2. Live' = {blocks'[k] : k \in 1..(n + 1)}
      BY <2>2 DEF Live
    <3>3. DOMAIN blocks = 1..n
      BY <1>0
    <3>4. \A k \in 1..n : blocks[k] \in Live
      BY <3>3 DEF Live
    <3>5. ASSUME NEW k \in 1..(n + 1)
          PROVE  blocks'[k] \in Live \cup {begun + 1}
      <4>1. CASE k \in 1..n
        <5>1. blocks'[k] = blocks[k]
          BY <2>2, <4>1
        <5> QED BY <3>4, <4>1, <5>1
      <4>2. CASE k = n + 1
        BY <2>2, <4>2
      <4> QED BY <3>1, <4>1, <4>2
    <3> QED BY <3>2, <3>5
  <2>4. InOrder(identHead', Live', begun')
    BY <1>0, <2>1, <2>3, InOrderBlocks
  <2>5. ASSUME NEW k \in 1..(n + 1)
        PROVE  blocks'[k] \in 1..begun' /\ \A l \in 1..(k - 1) : blocks'[l] < blocks'[k]
    <3>1. \A l \in 1..(k - 1) : l \in 1..n /\ blocks'[l] = blocks[l] /\ blocks[l] \in 1..begun
      BY <1>0, <2>2 DEF Nested
    <3>2. CASE k \in 1..n
      BY <1>0, <2>1, <2>2, <3>1, <3>2 DEF Nested
    <3>3. CASE k = n + 1
      BY <1>0, <2>1, <2>2, <3>1, <3>3
    <3> QED BY <2>2, <3>2, <3>3
  <2>6. Nested'
    BY <2>2, <2>5 DEF Nested
  <2> QED BY <1>0, <2>4, <2>6 DEF ScopesInv
<1>11. CASE BlockEnd \/ FunctionEnd
  <2>1. /\ begun' = begun /\ identHead' = identHead
        /\ \/ Len(blocks) > 1 /\ blocks' = SubSeq(blocks, 1, Len(blocks) - 1)
           \/ blocks' = <<>>
    BY <1>11 DEF BlockEnd, FunctionEnd, table
  <2>2. /\ Len(blocks') \in 0..Len(blocks) /\ DOMAIN blocks' = 1..Len(blocks')
        /\ \A k \in 1..Len(blocks') : blocks'[k] = blocks[k]
    BY <1>0, <2>1
  <2>3. Live' \subseteq Live \cup {begun + 1}
    BY <1>0, <2>2, SMTT(30) DEF Live
  <2>4. InOrder(identHead', Live', begun')
    BY <1>0, <2>1, <2>3, InOrderBlocks
  <2>5. \A k \in 1..Len(blocks') :
            /\ k \in 1..Len(blocks) /\ blocks'[k] = blocks[k]
            /\ \A l \in 1..(k - 1) : blocks'[l] = blocks[l]
    BY <1>0, <2>2
  <2>6. Nested'
    BY <1>0, <2>1, <2>5 DEF Nested
  <2> QED BY <1>0, <2>4, <2>6 DEF ScopesInv
<1> QED BY <1>2, <1>4, <1>5, <1>6, <1>7, <1>8, <1>10, <1>11 DEF Next, Stopped

\* What UseBindsInnermost says of one step.
Bound ==
    resolved' # Unbound =>
        LET name == resolved'.name
            d == identHead'[resolved'.index]
            locals == Declared(name, "LVAR", identHead')
        IN  /\ d.name = name
            /\ Newest(locals) \in Visible(name, identHead') =>
                  resolved'.index = Newest(Innermost(name, identHead'))
            /\ locals = {} =>
                  (d.kind = "GVAR" <=> Declared(name, "GVAR", identHead') # {})

\* The newest local is the innermost visible one, if it is visible.
LEMMA NewestIsInnermost ==
    ASSUME ScopesInv, NEW name,
           Newest(Declared(name, "LVAR", identHead)) \in Visible(name, identHead)
    PROVE  Newest(Declared(name, "LVAR", identHead)) = Newest(Innermost(name, identHead))
<1> DEFINE D == Declared(name, "LVAR", identHead)
<1> DEFINE V == Visible(name, identHead)
<1> DEFINE I == Innermost(name, identHead)
<1> DEFINE n == Newest(D)
<1>0. identHead \in Seq(Identifiers(Len(structs)))
  BY DEF ScopesInv, TypeOK
<1>1. /\ Len(identHead) \in Nat /\ DOMAIN identHead = 1..Len(identHead)
      /\ begun \in Nat /\ InOrder(identHead, Live, begun)
  <2>1. Len(identHead) \in Nat /\ DOMAIN identHead = 1..Len(identHead)
    BY <1>0
  <2>2. begun \in Nat /\ InOrder(identHead, Live, begun)
    BY DEF ScopesInv, TypeOK
  <2> QED BY <2>1, <2>2
<1>2. /\ D \subseteq 1..Len(identHead) /\ V \subseteq D
      /\ \A i \in V : identHead[i].block \in Live
      /\ \A i \in D : identHead[i].kind = "LVAR"
      /\ I = {i \in V : \A j \in V : identHead[j].block <= identHead[i].block}
  BY <1>1 DEF Declared, Visible, Innermost, Live
<1> HIDE DEF D, V, I
<1>3. n \in V
  BY DEF D, V
<1>4. \A j \in D : j <= n
  BY <1>1, <1>2, <1>3, NewestIs
<1> HIDE DEF n
<1>5. ASSUME NEW j \in V PROVE identHead[j].block <= identHead[n].block
  <2>1. /\ j \in 1..Len(identHead) /\ n \in 1..Len(identHead) /\ j <= n
        /\ identHead[j].kind = "LVAR" /\ identHead[n].kind = "LVAR"
        /\ identHead[j].block \in Live /\ identHead[n].block \in Live
    BY <1>2, <1>3, <1>4
  <2>2. identHead[n].block \in 1..begun
    BY <1>1, <2>1 DEF InOrder
  <2>3. j = n \/ j \in 1..(n - 1)
    BY <1>1, <2>1
  <2> QED BY <1>1, <2>1, <2>2, <2>3 DEF InOrder
<1>6. n \in I /\ I \subseteq 1..Len(identHead) /\ I # {}
  BY <1>2, <1>3, <1>5
<1>7. Newest(I) \in I /\ \A j \in I : j <= Newest(I)
  BY <1>1, <1>6, NewestIs
<1>8. n <= Newest(I) /\ Newest(I) <= n /\ n \in Nat /\ Newest(I) \in Nat
  BY <1>2, <1>4, <1>6, <1>7
<1>9. n = Newest(I)
  BY <1>8
<1> QED BY <1>9 DEF n, D, I

\* A name that is found is bound to its innermost declaration.
LEMMA UseOfKnown ==
    ASSUME ScopesInv, NEW name, find_identifier(name, identHead) # 0,
           identHead' = identHead,
           resolved' = [name |-> name, index |-> find_identifier(name, identHead)]
    PROVE  Bound
<1> DEFINE found == find_identifier(name, identHead)
<1> DEFINE D(kind) == Declared(name, kind, identHead)
<1>1. identHead \in Seq(Identifiers(Len(structs))) /\ Len(structs) \in Nat
  BY TableLengths DEF ScopesInv, TypeOK
<1>2. /\ D("LVAR") # {} => found \in D("LVAR") /\ \A j \in D("LVAR") : j <= found
      /\ D("LVAR") = {} /\ D("GVAR") # {} => found \in D("GVAR")
      /\ D("LVAR") = {} /\ D("GVAR") = {} /\ found # 0 => found \in D("FUNC")
  BY <1>1, FindsInnermost
<1>3. \A kind : D(kind) \subseteq 1..Len(identHead)
                /\ \A i \in D(kind) : identHead[i].name = name /\ identHead[i].kind = kind
  BY <1>1 DEF Declared
<1>4. identHead[found].name = name
  <2>1. \E kind : found \in D(kind)
    BY <1>2
  <2> HIDE DEF D, found
  <2> QED BY <1>3, <2>1
<1>5. ASSUME Newest(D("LVAR")) \in Visible(name, identHead)
      PROVE  found = Newest(Innermost(name, identHead))
  <2>1. Newest(D("LVAR")) \in D("LVAR") /\ \A j \in D("LVAR") : j <= Newest(D("LVAR"))
    <3>1. Visible(name, identHead) \subseteq D("LVAR")
      BY DEF Visible
    <3>2. D("LVAR") # {} /\ D("LVAR") \subseteq 1..Len(identHead) /\ Len(identHead) \in Nat
      BY <1>1, <1>3, <1>5, <3>1
    <3> HIDE DEF D
    <3> QED BY <3>2, NewestIs
  <2>2. Newest(D("LVAR")) = Newest(Innermost(name, identHead))
    BY <1>5, NewestIsInnermost
  <2> HIDE DEF found, D
  <2>3. found \in D("LVAR") /\ Newest(D("LVAR")) <= found /\ found <= Newest(D("LVAR"))
    BY <1>2, <2>1
  <2>4. found \in Nat /\ Newest(D("LVAR")) \in Nat
    BY <1>3, <2>1, <2>3
  <2> QED BY <2>2, <2>3, <2>4
<1>6. D("LVAR") = {} => (identHead[found].kind = "GVAR" <=> D("GVAR") # {})
  <2> HIDE DEF D
  <2>1. found # 0
    OBVIOUS
  <2> HIDE DEF found
  <2> QED BY <1>2, <1>3, <2>1
<1>7. resolved'.index = found /\ resolved'.name = name
  OBVIOUS
<1> HIDE DEF found
<1> QED BY <1>4, <1>5, <1>6, <1>7 DEF Bound

\* A call of an unknown name is bound to the function it declares.
LEMMA UseOfUnknown ==
    ASSUME ScopesInv, NEW name \in Names, find_identifier(name, identHead) = 0,
           SetTable(new_identifier(Table, "FUNC", name, new_type("int"), FALSE)),
           resolved' = [name |-> name, index |-> Len(identHead) + 1]
    PROVE  Bound
<1> DEFINE new == Identifier("FUNC", name, new_type("int"), 0, FALSE)
<1>1. identHead \in Seq(Identifiers(Len(structs))) /\ Len(structs) \in Nat
  BY TableLengths DEF ScopesInv, TypeOK
<1>2. identHead' = Append(identHead, new)
  BY DEF SetTable, new_identifier, Table
<1>3. new.kind = "FUNC" /\ new.name = name
  BY DEF Identifier
<1> HIDE DEF new
<1>4. /\ Len(identHead) \in Nat /\ DOMAIN identHead' = 1..(Len(identHead) + 1)
      /\ \A i \in 1..Len(identHead) : identHead'[i] = identHead[i]
      /\ identHead'[Len(identHead) + 1] = new
      /\ DOMAIN identHead = 1..Len(identHead)
  BY <1>1, <1>2
<1>5. Declared(name, "LVAR", identHead) = {} /\ Declared(name, "GVAR", identHead) = {}
  BY <1>1, FindsInnermost
<1>6. ASSUME NEW kind \in {"LVAR", "GVAR"}
      PROVE  Declared(name, kind, identHead') = {}
  <2> SUFFICES ASSUME NEW i \in Declared(name, kind, identHead') PROVE FALSE
    OBVIOUS
  <2>1. i \in 1..(Len(identHead) + 1) /\ identHead'[i].name = name /\ identHead'[i].kind = kind
    BY <1>4 DEF Declared
  <2>2. i # Len(identHead) + 1
    BY <1>3, <1>4, <2>1
  <2>3. i \in 1..Len(identHead)
    BY <1>4, <2>1, <2>2
  <2>4. i \in Declared(name, kind, identHead)
    BY <1>4, <2>1, <2>3 DEF Declared
  <2> QED BY <1>5, <2>4
<1>7. resolved'.index = Len(identHead) + 1 /\ resolved'.name = name
  OBVIOUS
<1>8. identHead'[resolved'.index] = new
  BY <1>4, <1>7
<1>9. Declared(name, "LVAR", identHead') = {} /\ Declared(name, "GVAR", identHead') = {}
  BY <1>6
<1>10. Visible(name, identHead') = {}
  BY <1>9 DEF Visible
<1> QED BY <1>3, <1>7, <1>8, <1>9, <1>10 DEF Bound

LEMMA BoundStep == ScopesInv /\ [Next]_vars => [Bound]_vars
<1> SUFFICES ASSUME ScopesInv, Next PROVE Bound \/ UNCHANGED vars
  OBVIOUS
<1>1. ASSUME NEW name \in Names, NEW called \in BOOLEAN, primary_expr(name, called)
      PROVE  Bound
  <2>1. CASE find_identifier(name, identHead) # 0
    <3>1. /\ identHead' = identHead
          /\ resolved' = [name |-> name, index |-> find_identifier(name, identHead)]
      BY <1>1, <2>1 DEF primary_expr, table
    <3> QED BY <2>1, <3>1, UseOfKnown
  <2>2. CASE find_identifier(name, identHead) = 0 /\ called
    <3>1. /\ SetTable(new_identifier(Table, "FUNC", name, new_type("int"), FALSE))
          /\ resolved' = [name |-> name, index |-> Len(identHead) + 1]
      BY <1>1, <2>2 DEF primary_expr
    <3> QED BY <2>2, <3>1, UseOfUnknown
  <2>3. CASE find_identifier(name, identHead) = 0 /\ ~called
    BY <1>1, <2>3 DEF primary_expr, Bound
  <2> QED BY <2>1, <2>2, <2>3
<1>2. ASSUME NEW name \in Names, NEW spec \in Specs, NEW mods \in Shapes,
             \/ declaration(name, spec, mods)
             \/ funcPrototype(name, spec, mods)
             \/ funcDefine(name, spec, mods)
      PROVE  Bound
  BY <1>2 DEF declaration, funcPrototype, funcDefine, FunctionHead, Bound
<1>3. ASSUME NEW name \in Members, NEW spec \in Specs, NEW mods \in Shapes,
             StructMember(name, spec, mods)
      PROVE  Bound
  BY <1>3 DEF StructMember, Bound
<1>4. ASSUME NEW tag \in Tags, StructOpen(tag)
      PROVE  Bound
  BY <1>4 DEF StructOpen, Bound
<1>5. CASE BlockBegin \/ BlockEnd \/ FunctionEnd \/ StructClose \/ new_string_vector \/ gens
  BY <1>5 DEF BlockBegin, BlockEnd, FunctionEnd, StructClose, new_string_vector, gens, Bound
<1> QED BY <1>1, <1>2, <1>3, <1>4, <1>5 DEF Next, Stopped

LEMMA ScopesInit == Init => ScopesInv
<1> SUFFICES ASSUME Init PROVE ScopesInv
  OBVIOUS
<1>1. Len(identHead) = 0 /\ Len(blocks) = 0
  BY DEF Init
<1> QED BY <1>1, TypeInit DEF ScopesInv, InOrder, Nested

\* When the newest local of a name is in a block that is open, a use of the name
\* is bound to the declaration of the innermost block that has one, though the
\* locals of all blocks that have ended are still in the list; a name that no
\* function declares is bound to the variable of the file before the function
\* (find_identifier, primary_expr).
THEOREM InnermostIsBound == Spec => UseBindsInnermost
<1>1. UseBindsInnermost <=> [][Bound]_vars
  BY DEF UseBindsInnermost, Bound
<1> QED BY <1>1, ScopesInit, ScopesStep, BoundStep, PTL DEF Spec

-----------------------------------------------------------------------------
(* Tags and members.  A tag is alone with its spelling, so a search by     *)
(* spelling finds it; a complete struct has a tag with its member list; and *)
(* the members follow each other, with complete types, inside the size of  *)
(* the struct, or inside struct_size while the list is read - but for those *)
(* whose own struct has been defined again, as if they were older than     *)
(* every identifier (Outdated).                                            *)

TagsAlone(t) ==
    \A i \in 1..Len(t.idents) : t.idents[i].isTag =>
        /\ t.idents[i].type.mods = <<>>
        /\ \A j \in 1..Len(t.idents) : t.idents[j].name = t.idents[i].name => j = i

GlobalsAlone(t) ==
    \A i, j \in 1..Len(t.idents) :
        /\ t.idents[i].kind = "GVAR" /\ t.idents[j].kind = "GVAR"
        /\ t.idents[i].name = t.idents[j].name
        => i = j

Chained(ms, size, objs) ==
    \A a \in 1..Len(ms) : ~Outdated(ms[a].type, 1, objs) =>
        /\ Complete(ms[a].type, objs)
        /\ ms[a].offset + Room(ms[a].type, objs) <= size
        /\ \A b \in (a + 1)..Len(ms) :
              ms[a].offset + Room(ms[a].type, objs) <= ms[b].offset

Space(t, o, i) ==
    IF o.tag = i /\ o.members # <<>>
    THEN o.struct_size
    ELSE t.structs[t.idents[i].type.struct].size

MembersPlaced(t, o) ==
    \A i \in 1..Len(t.idents) : t.idents[i].isTag =>
        /\ Chained(t.idents[i].members, Space(t, o, i), t.structs)
        /\ o.tag = i /\ o.members # <<>> => t.idents[i].members = o.members

Finished(t) ==
    \A s \in 1..Len(t.structs) : t.structs[s].complete =>
        \E i \in 1..Len(t.idents) :
            /\ t.idents[i].isTag
            /\ t.idents[i].type.struct = s
            /\ t.idents[i].members # <<>>

Described(t, o) ==
    Layout(t) /\ TagsAlone(t) /\ GlobalsAlone(t) /\ MembersPlaced(t, o) /\ Finished(t)

\* An identifier that can be added to the list: if it or one with its spelling is a
\* tag, or both are variables of the file, it is the only one.
Alone(t, new) ==
    /\ new.members = <<>>
    /\ new.isTag => new.type.mods = <<>>
    /\ \A j \in 1..Len(t.idents) :
          /\ new.isTag \/ t.idents[j].isTag => t.idents[j].name # new.name
          /\ new.kind = "GVAR" /\ t.idents[j].kind = "GVAR" => t.idents[j].name # new.name

\* The struct of a tag exists, has its name, and is that of no other tag.
LEMMA TagStruct ==
    ASSUME Names \cap Tags = {},
           NEW t, Layout(t), NEW i \in 1..Len(t.idents), t.idents[i].isTag
    PROVE  /\ t.idents[i].type.base = "struct"
           /\ t.idents[i].type.struct \in 1..Len(t.structs)
           /\ t.structs[t.idents[i].type.struct].name = t.idents[i].name
           /\ TagsAlone(t) => \A j \in 1..Len(t.idents) :
                 t.idents[j].isTag /\ t.idents[j].type.struct = t.idents[i].type.struct
                     => j = i
<1>1. \A j \in 1..Len(t.idents) : t.idents[j].isTag =>
          /\ t.idents[j].type.base = "struct"
          /\ t.structs[t.idents[j].type.struct].name = t.idents[j].name
  BY DEF Layout, Tagged
<1>2. /\ t.idents \in Seq(Identifiers(Len(t.structs)))
      /\ Len(t.structs) \in Nat
  BY TableLengths DEF Layout, TableOK
<1>3. t.idents[i].type \in Types(Len(t.structs))
  <2>1. t.idents[i] \in Identifiers(Len(t.structs))
    BY <1>2
  <2> QED BY <2>1 DEF Identifiers
<1>4. t.idents[i].type.struct \in 1..Len(t.structs)
  BY <1>1, <1>2, <1>3 DEF Types
<1>5. ASSUME TagsAlone(t), NEW j \in 1..Len(t.idents), t.idents[j].isTag,
             t.idents[j].type.struct = t.idents[i].type.struct
      PROVE  j = i
  <2>1. t.idents[j].name = t.idents[i].name
    BY <1>1, <1>5, Zenon
  <2> QED BY <2>1, <1>5, Zenon DEF TagsAlone
<1> QED BY <1>1, <1>4, <1>5, Zenon

LEMMA ChainedKept ==
    ASSUME NEW objs \in Seq(StructObjects), NEW news \in Seq(StructObjects),
           NEW ms \in Seq(MemberRecords(Len(objs))), NEW size, Chained(ms, size, objs),
           NEW n \in Nat, 1 <= n,
           \A s \in 1..Len(objs) : s \in 1..Len(news) /\ Succeeds(objs[s], news[s], n)
    PROVE  Chained(ms, size, news)
<1>1. \A a \in 1..Len(ms) : ms[a].type \in Types(Len(objs))
  <2> TAKE a \in 1..Len(ms)
  <2>1. ms[a] \in MemberRecords(Len(objs))
    OBVIOUS
  <2> QED BY <2>1 DEF MemberRecords
<1>2. \A a \in 1..Len(ms) : ~Outdated(ms[a].type, 1, news) =>
          /\ ~Outdated(ms[a].type, 1, objs)
          /\ Complete(ms[a].type, news)
          /\ Room(ms[a].type, news) = Room(ms[a].type, objs)
  <2> SUFFICES ASSUME NEW a \in 1..Len(ms), ~Outdated(ms[a].type, 1, news)
               PROVE  /\ ~Outdated(ms[a].type, 1, objs)
                      /\ Complete(ms[a].type, news)
                      /\ Room(ms[a].type, news) = Room(ms[a].type, objs)
    OBVIOUS
  <2>1. ~Outdated(ms[a].type, 1, objs) => Complete(ms[a].type, objs)
    BY DEF Chained
  <2>2. 1 \in 1..n /\ ms[a].type \in Types(Len(objs))
    BY <1>1
  <2>3. /\ ~Outdated(ms[a].type, 1, objs)
        /\ Complete(ms[a].type, news)
        /\ sizeofType(ms[a].type, news) = sizeofType(ms[a].type, objs)
    BY <2>1, <2>2, CompleteSize
  <2> QED BY <2>3 DEF Room
<1> QED BY <1>2 DEF Chained

LEMMA ChainedAppend ==
    ASSUME NEW objs \in Seq(StructObjects), NEW k \in Nat,
           NEW ms \in Seq(MemberRecords(k)), NEW size \in Nat, Chained(ms, size, objs),
           NEW member, member.offset = size, Complete(member.type, objs),
           member.type \in Types(Len(objs)), k <= Len(objs)
    PROVE  Chained(Append(ms, member), size + Room(member.type, objs), objs)
<1> DEFINE n == Len(ms)
<1> DEFINE more == Append(ms, member)
<1> DEFINE room == Room(member.type, objs)
<1>1. /\ n \in Nat /\ Len(more) = n + 1
      /\ \A a \in 1..n : more[a] = ms[a]
      /\ more[n + 1] = member
  OBVIOUS
<1>2. room \in Nat
  BY RoomIsNat
<1>3. \A a \in 1..n : ~Outdated(ms[a].type, 1, objs) =>
          /\ Complete(ms[a].type, objs)
          /\ ms[a].offset + Room(ms[a].type, objs) \in Nat
          /\ ms[a].offset + Room(ms[a].type, objs) <= size
  <2> SUFFICES ASSUME NEW a \in 1..n, ~Outdated(ms[a].type, 1, objs)
               PROVE  /\ Complete(ms[a].type, objs)
                      /\ ms[a].offset + Room(ms[a].type, objs) \in Nat
                      /\ ms[a].offset + Room(ms[a].type, objs) <= size
    OBVIOUS
  <2>1. ms[a] \in MemberRecords(k)
    OBVIOUS
  <2>2. ms[a].offset \in Nat /\ ms[a].type \in Types(k)
    BY <2>1 DEF MemberRecords
  <2>3. Len(objs) \in Nat
    OBVIOUS
  <2>4. ms[a].type \in Types(Len(objs))
    BY <2>2, <2>3, TypesGrow
  <2>5. Room(ms[a].type, objs) \in Nat
    BY <2>4, RoomIsNat
  <2> QED BY <2>2, <2>5 DEF Chained
<1> HIDE DEF more, room
<1> SUFFICES ASSUME NEW a \in 1..(n + 1), ~Outdated(more[a].type, 1, objs)
             PROVE  /\ Complete(more[a].type, objs)
                    /\ more[a].offset + Room(more[a].type, objs) <= size + room
                    /\ \A b \in (a + 1)..(n + 1) :
                          more[a].offset + Room(more[a].type, objs) <= more[b].offset
  BY <1>1 DEF Chained, more, room
<1>4. CASE a \in 1..n
  <2>1. more[a] = ms[a]
    BY <1>1, <1>4
  <2> DEFINE end == ms[a].offset + Room(ms[a].type, objs)
  <2>2. ~Outdated(ms[a].type, 1, objs) /\ end \in Nat /\ end <= size
    BY <1>3, <1>4, <2>1
  <2>3. ASSUME NEW b \in (a + 1)..(n + 1)
        PROVE  end <= more[b].offset
    <3>1. CASE b = n + 1
      BY <1>1, <2>2, <3>1
    <3>2. CASE b # n + 1
      <4>1. b \in (a + 1)..n /\ b \in 1..n
        BY <1>1, <1>4, <3>2
      <4> QED BY <1>1, <1>4, <2>2, <4>1 DEF Chained
    <3> QED BY <3>1, <3>2
  <2> HIDE DEF end
  <2>4. end <= size + room
    BY <1>2, <2>2
  <2> QED BY <1>3, <1>4, <2>1, <2>2, <2>3, <2>4 DEF end
<1>5. CASE a = n + 1
  <2>1. more[a] = member /\ Room(more[a].type, objs) = room
    BY <1>1, <1>5 DEF room
  <2>2. (a + 1)..(n + 1) = {}
    BY <1>1, <1>5
  <2>3. more[a].offset + Room(more[a].type, objs) <= size + room
    BY <1>2, <2>1
  <2> QED BY <2>1, <2>2, <2>3
<1> QED BY <1>1, <1>4, <1>5

\* Adding incomplete structs, and an identifier that is alone, keeps the description.
LEMMA DescribedGrows ==
    ASSUME Names \cap Tags = {},
           NEW t, NEW o, Described(t, o), NEW u, Layout(u),
           o.tag \in 0..Len(t.idents),
           Len(u.idents) = Len(t.idents) \/
              (Len(u.idents) = Len(t.idents) + 1 /\ Alone(t, u.idents[Len(t.idents) + 1])),
           Len(u.structs) >= Len(t.structs),
           \A i \in 1..Len(t.idents) : u.idents[i] = t.idents[i],
           \A s \in 1..Len(t.structs) : u.structs[s] = t.structs[s],
           \A s \in 1..Len(u.structs) : s \in 1..Len(t.structs) \/ ~u.structs[s].complete
    PROVE  Described(u, o)
<1> DEFINE n == Len(t.idents)
<1> DEFINE m == Len(u.idents)
<1> DEFINE new == u.idents[n + 1]
<1>1. /\ TableOK(t) /\ TableOK(u) /\ Layout(t)
      /\ n \in Nat /\ m \in Nat
      /\ t.structs \in Seq(StructObjects) /\ u.structs \in Seq(StructObjects)
      /\ t.idents \in Seq(Identifiers(Len(t.structs)))
  BY TableLengths DEF Described, Layout, TableOK
<1>2. /\ \A i \in 1..m : i \in 1..n \/ (i = n + 1 /\ Alone(t, new))
      /\ \A i \in 1..n : i \in 1..m /\ u.idents[i] = t.idents[i]
  BY <1>1
<1> HIDE DEF m, new
<1>3. TagsAlone(u)
  <2> SUFFICES ASSUME NEW i \in 1..m, u.idents[i].isTag
               PROVE  /\ u.idents[i].type.mods = <<>>
                      /\ \A j \in 1..m : u.idents[j].name = u.idents[i].name => j = i
    BY DEF TagsAlone, m
  <2>1. CASE i \in 1..n
    <3>1. /\ t.idents[i].isTag /\ t.idents[i].type.mods = <<>>
          /\ \A j \in 1..n : t.idents[j].name = t.idents[i].name => j = i
      BY <1>2, <2>1 DEF Described, TagsAlone
    <3>2. Alone(t, new) => new.name # t.idents[i].name
      BY <2>1, <3>1 DEF Alone
    <3> QED BY <1>2, <2>1, <3>1, <3>2 DEF new
  <2>2. CASE i = n + 1 /\ Alone(t, new)
    <3>1. u.idents[i] = new /\ new.isTag
      BY <2>2 DEF new
    <3>2. /\ new.type.mods = <<>>
          /\ \A j \in 1..n : t.idents[j].name # new.name
      BY <2>2, <3>1 DEF Alone
    <3> QED BY <1>2, <2>2, <3>1, <3>2
  <2> QED BY <1>2, <2>1, <2>2
<1>4. GlobalsAlone(u)
  <2> SUFFICES ASSUME NEW i \in 1..m, NEW j \in 1..m,
                      u.idents[i].kind = "GVAR", u.idents[j].kind = "GVAR",
                      u.idents[i].name = u.idents[j].name
               PROVE  i = j
    BY DEF GlobalsAlone, m
  <2>1. \A a \in 1..n : Alone(t, new) /\ new.kind = "GVAR" /\ t.idents[a].kind = "GVAR"
                            => t.idents[a].name # new.name
    BY DEF Alone
  <2>2. CASE i \in 1..n /\ j \in 1..n
    BY <1>2, <2>2 DEF Described, GlobalsAlone
  <2>3. CASE i \in 1..n /\ j \notin 1..n
    <3>1. j = n + 1 /\ Alone(t, new) /\ u.idents[j] = new
      BY <1>2, <2>3 DEF new
    <3> QED BY <1>2, <2>1, <2>3, <3>1
  <2>4. CASE i \notin 1..n /\ j \in 1..n
    <3>1. i = n + 1 /\ Alone(t, new) /\ u.idents[i] = new
      BY <1>2, <2>4 DEF new
    <3> QED BY <1>2, <2>1, <2>4, <3>1
  <2>5. CASE i \notin 1..n /\ j \notin 1..n
    BY <1>2, <2>5
  <2> QED BY <2>2, <2>3, <2>4, <2>5
<1>5. MembersPlaced(u, o)
  <2> SUFFICES ASSUME NEW i \in 1..m, u.idents[i].isTag
               PROVE  /\ Chained(u.idents[i].members, Space(u, o, i), u.structs)
                      /\ o.tag = i /\ o.members # <<>> => u.idents[i].members = o.members
    BY DEF MembersPlaced, m
  <2>1. CASE i \in 1..n
    <3>1. u.idents[i] = t.idents[i] /\ t.idents[i].isTag
      BY <1>2, <2>1
    <3>2. /\ Chained(t.idents[i].members, Space(t, o, i), t.structs)
          /\ o.tag = i /\ o.members # <<>> => t.idents[i].members = o.members
      BY <2>1, <3>1 DEF Described, MembersPlaced
    <3>3. t.idents[i].type.struct \in 1..Len(t.structs)
      BY <1>1, <2>1, <3>1, TagStruct
    <3>4. u.structs[t.idents[i].type.struct] = t.structs[t.idents[i].type.struct]
      BY <3>3
    <3>5. Space(u, o, i) = Space(t, o, i)
      BY <3>1, <3>4 DEF Space
    <3>6. t.idents[i].members \in Seq(MemberRecords(Len(t.structs)))
      <4>1. t.idents[i] \in Identifiers(Len(t.structs))
        BY <1>1, <2>1
      <4> QED BY <4>1 DEF Identifiers
    <3>7. Chained(t.idents[i].members, Space(t, o, i), u.structs)
      <4>1. \A s \in 1..Len(t.structs) :
                s \in 1..Len(u.structs) /\ Succeeds(t.structs[s], u.structs[s], 1)
        BY <1>1 DEF Succeeds
      <4>2. 1 \in Nat /\ 1 <= 1
        OBVIOUS
      <4> QED BY <1>1, <3>2, <3>6, <4>1, <4>2, ChainedKept
    <3> QED BY <3>1, <3>2, <3>4, <3>5, <3>7
  <2>2. CASE i = n + 1 /\ Alone(t, new)
    <3>1. u.idents[i].members = <<>>
      BY <2>2 DEF Alone, new
    <3>2. o.tag # i
      BY <1>1, <2>2
    <3> QED BY <3>1, <3>2 DEF Chained
  <2> QED BY <1>2, <2>1, <2>2
<1>6. Finished(u)
  <2> SUFFICES ASSUME NEW s \in 1..Len(u.structs), u.structs[s].complete
               PROVE  \E i \in 1..m : /\ u.idents[i].isTag
                                      /\ u.idents[i].type.struct = s
                                      /\ u.idents[i].members # <<>>
    BY DEF Finished, m
  <2>1. s \in 1..Len(t.structs) /\ t.structs[s].complete
    OBVIOUS
  <2>2. PICK i \in 1..n : /\ t.idents[i].isTag
                         /\ t.idents[i].type.struct = s
                         /\ t.idents[i].members # <<>>
    BY <2>1 DEF Described, Finished
  <2> QED BY <1>2, <2>2
<1> QED BY <1>3, <1>4, <1>5, <1>6 DEF Described

LEMMA DescribedTypeSpec ==
    ASSUME Names \cap Tags = {},
           NEW t, NEW o, Described(t, o), o.tag \in 0..Len(t.idents), block \in Nat,
           NEW kind \in {"LVAR", "GVAR", "STRUCT_MEMBER", "NONE"}, NEW spec \in Specs,
           kind = "NONE" /\ spec.base = "struct" => find_identifier(spec.tag, t.idents) # 0
    PROVE  LET u == typeSpec(t, kind, spec).table
           IN  /\ Described(u, o)
               /\ Len(u.idents) >= Len(t.idents)
               /\ \A i \in 1..Len(u.idents) : i \in 1..Len(t.idents) \/ u.idents[i].isTag
               /\ \A i \in 1..Len(t.idents) : u.idents[i] = t.idents[i]
<1> DEFINE u == typeSpec(t, kind, spec).table
<1> DEFINE found == find_identifier(spec.tag, t.idents)
<1> DEFINE n == Len(t.idents)
<1>1. /\ Layout(t) /\ TableOK(t)
      /\ n \in Nat /\ Len(t.structs) \in Nat
      /\ t.idents \in Seq(Identifiers(Len(t.structs)))
  BY TableLengths DEF Described, Layout, TableOK
<1>2. CASE spec.base # "struct" \/ found # 0
  <2>1. u = t
    BY <1>2 DEF typeSpec
  <2> HIDE DEF u
  <2> QED BY <1>1, <2>1 DEF u
<1>3. CASE spec.base = "struct" /\ found = 0
  <2> DEFINE fresh == [base |-> "struct", struct |-> Len(t.structs) + 1, mods |-> <<>>]
  <2> DEFINE grown == [idents |-> t.idents, offset |-> t.offset,
                       structs |-> Append(t.structs, NewStruct(spec.tag))]
  <2>1. u = new_identifier(grown, kind, spec.tag, fresh, TRUE)
    BY <1>3 DEF typeSpec
  <2>2. grown.idents = t.idents /\ fresh.mods = <<>>
    OBVIOUS
  <2> HIDE DEF grown, fresh
  <2>3. \/ u.idents = t.idents
        \/ \E off : u.idents = Append(t.idents, Identifier(kind, spec.tag, fresh, off, TRUE))
    <3>1. \/ new_identifier(grown, kind, spec.tag, fresh, TRUE).idents = grown.idents
          \/ \E off : new_identifier(grown, kind, spec.tag, fresh, TRUE).idents =
                          Append(grown.idents, Identifier(kind, spec.tag, fresh, off, TRUE))
      BY DEF new_identifier
    <3> HIDE DEF u
    <3> QED BY <2>1, <2>2, <3>1
  <2>4. /\ Layout(u)
        /\ \A i \in 1..n : u.idents[i] = t.idents[i]
        /\ \A s \in 1..Len(t.structs) : u.structs[s] = t.structs[s]
        /\ \A s \in 1..Len(u.structs) : s \in 1..Len(t.structs) \/ ~u.structs[s].complete
    <3>1. /\ Layout(u)
          /\ \A i \in 1..Len(t.idents) : u.idents[i] = t.idents[i]
          /\ \A s \in 1..Len(t.structs) : u.structs[s] = t.structs[s]
          /\ \A s \in 1..Len(u.structs) :
                s \in 1..Len(t.structs)
                   \/ (~u.structs[s].complete /\ u.structs[s].redefined = 0)
          /\ kind = "STRUCT_MEMBER" => u.idents = t.idents /\ u.offset = t.offset
      <4> HIDE DEF n
      <4> QED BY <1>1, LayoutTypeSpec, ZenonT(30)
    <3> HIDE DEF u
    <3> QED BY <3>1
  <2>5. Len(u.structs) >= Len(t.structs) /\ Len(u.idents) >= n
    BY <1>1, TypeSpec
  <2> HIDE DEF u
  <2>6. ASSUME NEW off
        PROVE  Alone(t, Identifier(kind, spec.tag, fresh, off, TRUE))
    <3> DEFINE new == Identifier(kind, spec.tag, fresh, off, TRUE)
    <3>1. /\ new.members = <<>> /\ new.type = fresh /\ new.name = spec.tag
      BY DEF Identifier
    <3>2. \A j \in 1..n : t.idents[j].name # spec.tag
      <4> TAKE j \in 1..n
      <4>1. find_identifier(t.idents[j].name, t.idents) # 0
        BY <1>1, LinkedIsFound
      <4> QED BY <1>3, <4>1
    <3> HIDE DEF new
    <3> QED BY <2>2, <3>1, <3>2 DEF Alone, new
  <2>7. CASE u.idents = t.idents
    <3>1. Len(u.idents) = n
      BY <2>7
    <3>2. Described(u, o)
      BY <2>4, <2>5, <3>1, DescribedGrows
    <3> QED BY <2>4, <2>5, <3>1, <3>2 DEF u
  <2>8. ASSUME NEW off, u.idents = Append(t.idents, Identifier(kind, spec.tag, fresh, off, TRUE))
        PROVE  /\ Described(u, o)
               /\ \A i \in 1..Len(u.idents) : i \in 1..n \/ u.idents[i].isTag
    <3> DEFINE new == Identifier(kind, spec.tag, fresh, off, TRUE)
    <3>1. new.isTag
      BY DEF Identifier
    <3>2. Alone(t, new)
      BY <2>6
    <3>3. u.idents = Append(t.idents, new)
      BY <2>8
    <3> HIDE DEF new
    <3>4. Len(u.idents) = n + 1 /\ u.idents[n + 1] = new
      BY <1>1, <3>3
    <3>5. Described(u, o)
      BY <2>4, <2>5, <3>2, <3>4, DescribedGrows
    <3>6. \A i \in 1..Len(u.idents) : i \in 1..n \/ u.idents[i].isTag
      BY <1>1, <3>1, <3>4
    <3> QED BY <3>5, <3>6
  <2> QED BY <2>3, <2>4, <2>5, <2>7, <2>8 DEF u
<1> QED BY <1>2, <1>3

LEMMA DescribedNew ==
    ASSUME Names \cap Tags = {},
           NEW t, NEW o, Described(t, o), o.tag \in 0..Len(t.idents), block \in Nat,
           NEW kind \in {"LVAR", "GVAR", "FUNC"}, NEW name \in Names,
           NEW type \in Types(Len(t.structs)),
           kind \in {"LVAR", "GVAR"} => Complete(type, t.structs),
           kind = "GVAR" => \A j \in 1..Len(t.idents) :
               t.idents[j].kind = "GVAR" /\ t.idents[j].name = name => t.idents[j].isTag
    PROVE  Described(new_identifier(t, kind, name, type, FALSE), o)
<1> DEFINE u == new_identifier(t, kind, name, type, FALSE)
<1> DEFINE n == Len(t.idents)
<1>1. /\ Layout(t) /\ TableOK(t)
      /\ n \in Nat /\ Len(t.structs) \in Nat
      /\ t.idents \in Seq(Identifiers(Len(t.structs)))
  BY TableLengths DEF Described, Layout, TableOK
<1>2. /\ name \in Names \cup Tags /\ name \notin Tags /\ FALSE \in BOOLEAN
      /\ kind \in {"LVAR", "GVAR", "FUNC", "STRUCT_MEMBER"} /\ kind # "STRUCT_MEMBER"
  OBVIOUS
<1>3. Layout(u)
  BY <1>1, <1>2, LayoutGrows
<1>4. u.structs = t.structs
  BY DEF new_identifier
<1>5. \E off : u.idents = Append(t.idents, Identifier(kind, name, type, off, FALSE))
  BY <1>2 DEF new_identifier
<1> HIDE DEF u
<1>6. PICK off : u.idents = Append(t.idents, Identifier(kind, name, type, off, FALSE))
  BY <1>5
<1> DEFINE new == Identifier(kind, name, type, off, FALSE)
<1>7. new.members = <<>> /\ new.name = name /\ new.kind = kind /\ ~new.isTag
  BY DEF Identifier
<1>8. u.idents = Append(t.idents, new)
  BY <1>6
<1> HIDE DEF new
<1>9. \A j \in 1..n : t.idents[j].isTag => t.idents[j].name # name
  <2> TAKE j \in 1..n
  <2>1. t.idents[j].isTag <=> t.idents[j].name \in Tags
    BY <1>1 DEF Layout, Tagged
  <2> QED BY <1>2, <2>1
<1>10. Alone(t, new)
  BY <1>7, <1>9 DEF Alone
<1>11. /\ Len(u.idents) = n + 1 /\ u.idents[n + 1] = new
       /\ \A i \in 1..n : u.idents[i] = t.idents[i]
  BY <1>1, <1>8
<1>12. Described(u, o)
  <2>1. Len(u.structs) >= Len(t.structs)
    BY <1>1, <1>4
  <2> QED BY <1>3, <1>4, <1>10, <1>11, <2>1, DescribedGrows
<1> QED BY <1>12 DEF u

-----------------------------------------------------------------------------
(* The steps. *)

KnownInv == SlotsInv /\ Described(Table, open)

LEMMA DescribedSet ==
    ASSUME NEW u, SetTable(u), Described(u, open')
    PROVE  Described(Table', open')
BY SMTT(30) DEF SetTable, Table, Described, TagsAlone, GlobalsAlone, MembersPlaced, Finished, Space,
       Layout, Tagged, Placed, Current, TableOK

LEMMA DescribedUnchanged ==
    ASSUME KnownInv, UNCHANGED <<table, open>>
    PROVE  Described(Table', open')
<1>1. Table' = Table /\ open' = open
  BY DEF Table, table
<1> QED BY <1>1 DEF KnownInv

\* What every step starts from.
LEMMA KnownFacts ==
    KnownInv => /\ TypeOK /\ Layout(Table) /\ TableOK(Table) /\ Described(Table, open)
                /\ Table.structs = structs /\ Table.idents = identHead
                /\ identHead \in Seq(Identifiers(Len(structs)))
                /\ structs \in Seq(StructObjects)
                /\ DOMAIN identHead = 1..Len(identHead) /\ DOMAIN structs = 1..Len(structs)
                /\ Len(structs) \in Nat /\ Len(identHead) \in Nat
                /\ block \in Nat /\ open.tag \in 0..Len(identHead)
                /\ kindHere \in {"LVAR", "GVAR"}
<1> SUFFICES ASSUME KnownInv
             PROVE  /\ TypeOK /\ Layout(Table) /\ TableOK(Table) /\ Described(Table, open)
                    /\ Table.structs = structs /\ Table.idents = identHead
                    /\ identHead \in Seq(Identifiers(Len(structs)))
                    /\ structs \in Seq(StructObjects)
                    /\ DOMAIN identHead = 1..Len(identHead) /\ DOMAIN structs = 1..Len(structs)
                    /\ Len(structs) \in Nat /\ Len(identHead) \in Nat
                    /\ block \in Nat /\ open.tag \in 0..Len(identHead)
                    /\ kindHere \in {"LVAR", "GVAR"}
  OBVIOUS
<1>1. /\ identHead \in Seq(Identifiers(Len(structs)))
      /\ structs \in Seq(StructObjects)
  BY DEF KnownInv, SlotsInv, TypeOK
<1>2. DOMAIN identHead = 1..Len(identHead) /\ DOMAIN structs = 1..Len(structs)
  BY <1>1
<1> QED BY <1>1, <1>2, BlockIsNat, TableType, TableLengths
        DEF KnownInv, SlotsInv, TypeOK, Table, kindHere

LEMMA declarationDescribed ==
    ASSUME Names \cap Tags = {}, KnownInv,
           NEW name \in Names, NEW spec \in Specs, NEW mods \in Shapes,
           declaration(name, spec, mods)
    PROVE  Described(Table', open')
<1> DEFINE typed == typeSpec(Table, kindHere, spec)
<1> DEFINE type == derive(typed.type, mods)
<1> DEFINE u == new_identifier(typed.table, kindHere, name, type, FALSE)
<1>1. /\ Layout(Table) /\ TableOK(Table) /\ Described(Table, open)
      /\ Table.idents = identHead /\ Len(identHead) \in Nat
      /\ block \in Nat /\ open.tag \in 0..Len(identHead)
      /\ kindHere \in {"LVAR", "GVAR"}
  BY KnownFacts
<1>2. /\ Len(type.mods) <= 2
      /\ Complete(type, typed.table.structs)
      /\ SetTable(u)
      /\ open' = open
      /\ blocks = <<>> => FreshAtFileScope(name, {"GVAR", "FUNC"})
  BY DEF declaration
<1>3. TableOK(typed.table) /\ typed.type \in Types(Len(typed.table.structs))
  BY <1>1, TypeSpec
<1>4. /\ Described(typed.table, open)
      /\ Len(typed.table.idents) >= Len(Table.idents)
      /\ \A i \in 1..Len(typed.table.idents) :
            i \in 1..Len(Table.idents) \/ typed.table.idents[i].isTag
      /\ \A i \in 1..Len(Table.idents) : typed.table.idents[i] = Table.idents[i]
  <2>1. kindHere \in {"LVAR", "GVAR", "STRUCT_MEMBER", "NONE"} /\ kindHere # "NONE"
    BY <1>1
  <2> DEFINE t == Table
  <2>2. Described(t, open) /\ open.tag \in 0..Len(t.idents)
    BY <1>1
  <2> HIDE DEF t
  <2>3. LET v == typeSpec(t, kindHere, spec).table
        IN  /\ Described(v, open)
            /\ Len(v.idents) >= Len(t.idents)
            /\ \A i \in 1..Len(v.idents) : i \in 1..Len(t.idents) \/ v.idents[i].isTag
            /\ \A i \in 1..Len(t.idents) : v.idents[i] = t.idents[i]
    BY <1>1, <2>1, <2>2, DescribedTypeSpec
  <2> QED BY <2>3 DEF t
<1> HIDE DEF typed
<1>5. Len(typed.table.structs) \in Nat /\ Len(typed.table.idents) \in Nat
  BY <1>3, TableLengths
<1>6. type \in Types(Len(typed.table.structs))
  BY <1>2, <1>3, <1>5, DeriveType
<1> HIDE DEF type
<1>7. ASSUME kindHere = "GVAR", NEW j \in 1..Len(typed.table.idents),
             typed.table.idents[j].kind = "GVAR", typed.table.idents[j].name = name
      PROVE  typed.table.idents[j].isTag
  <2>1. blocks = <<>>
    BY <1>7 DEF kindHere
  <2>2. CASE j \in 1..Len(identHead)
    <3>1. typed.table.idents[j] = identHead[j]
      BY <1>1, <1>4, <2>2
    <3>2. DOMAIN identHead = 1..Len(identHead)
      BY KnownFacts
    <3>3. identHead[j].isTag
      BY <1>2, <1>7, <2>1, <2>2, <3>1, <3>2 DEF FreshAtFileScope
    <3> QED BY <3>1, <3>3
  <2>3. CASE j \notin 1..Len(identHead)
    BY <1>1, <1>4, <2>3
  <2> QED BY <2>2, <2>3
<1>8. open.tag \in 0..Len(typed.table.idents)
  BY <1>1, <1>4, <1>5
<1>9. kindHere \in {"LVAR", "GVAR", "FUNC"}
  BY <1>1
<1>10. Described(u, open)
  BY <1>1, <1>2, <1>4, <1>6, <1>7, <1>8, <1>9, DescribedNew
<1> HIDE DEF u
<1> QED BY <1>2, <1>10, DescribedSet

LEMMA FunctionHeadDescribed ==
    ASSUME Names \cap Tags = {}, KnownInv,
           NEW name \in Names, NEW spec \in Specs, NEW mods \in Shapes,
           FunctionHead(name, spec, mods)
    PROVE  Described(Table', open')
<1> DEFINE typed == typeSpec(Table, "NONE", spec)
<1> DEFINE type == derive(typed.type, mods)
<1> DEFINE u == new_identifier(typed.table, "FUNC", name, type, FALSE)
<1>1. /\ TableOK(Table) /\ Described(Table, open)
      /\ Table.idents = identHead /\ Len(identHead) \in Nat
      /\ block \in Nat /\ open.tag \in 0..Len(identHead)
  BY KnownFacts
<1>2. open' = open
  BY DEF FunctionHead
<1>3. CASE UnknownTag(spec)
  <2>1. UNCHANGED <<table, open>>
    BY <1>3 DEF FunctionHead
  <2> QED BY <2>1, DescribedUnchanged
<1>4. CASE ~UnknownTag(spec)
  <2>1. spec.base = "struct" => find_identifier(spec.tag, Table.idents) # 0
    BY <1>1, <1>4 DEF UnknownTag
  <2>2. Len(type.mods) <= 2 /\ SetTable(u)
    BY <1>4 DEF FunctionHead
  <2>3. typed.type \in Types(Len(typed.table.structs)) /\ TableOK(typed.table)
    BY <1>1, <2>1, TypeSpec
  <2>4. /\ Described(typed.table, open)
        /\ Len(typed.table.idents) >= Len(Table.idents)
    BY <1>1, <2>1, DescribedTypeSpec
  <2> HIDE DEF typed
  <2>5. Len(typed.table.structs) \in Nat /\ Len(typed.table.idents) \in Nat
    BY <2>3, TableLengths
  <2>6. type \in Types(Len(typed.table.structs))
    BY <2>2, <2>3, <2>5, DeriveType
  <2> HIDE DEF type
  <2>7. open.tag \in 0..Len(typed.table.idents)
    BY <1>1, <2>4, <2>5
  <2>8. Described(u, open)
    BY <1>1, <2>4, <2>6, <2>7, DescribedNew
  <2> HIDE DEF u
  <2> QED BY <1>2, <2>2, <2>8, DescribedSet
<1> QED BY <1>3, <1>4

LEMMA primary_exprDescribed ==
    ASSUME Names \cap Tags = {}, KnownInv,
           NEW name \in Names, NEW called \in BOOLEAN, primary_expr(name, called)
    PROVE  Described(Table', open')
<1> DEFINE u == new_identifier(Table, "FUNC", name, new_type("int"), FALSE)
<1>1. /\ TableOK(Table) /\ Described(Table, open)
      /\ Table.idents = identHead /\ Table.structs = structs /\ Len(structs) \in Nat
      /\ block \in Nat /\ open.tag \in 0..Len(identHead)
  BY KnownFacts
<1>2. open' = open /\ (UNCHANGED table \/ SetTable(u))
  BY DEF primary_expr
<1>3. new_type("int") \in Types(Len(Table.structs))
  BY <1>1 DEF new_type, Types
<1>4. Described(u, open)
  BY <1>1, <1>3, DescribedNew
<1> HIDE DEF u
<1> QED BY <1>2, <1>4, DescribedSet, DescribedUnchanged

\* The tag of the list that is opened keeps the members it has, until the first of
\* the new ones.
LEMMA StructOpenDescribed ==
    ASSUME Names \cap Tags = {}, KnownInv, NEW tag \in Tags, StructOpen(tag)
    PROVE  Described(Table', open')
<1> DEFINE spec == [base |-> "struct", tag |-> tag]
<1> DEFINE t == typeSpec(Table, kindHere, spec).table
<1> DEFINE index == find_identifier(tag, t.idents)
<1> DEFINE type == t.idents[index].type
<1> DEFINE u == Reopened(t, index)
<1>1. /\ Layout(Table) /\ TableOK(Table) /\ Described(Table, open)
      /\ Table.idents = identHead
      /\ block \in Nat /\ open.tag \in 0..Len(identHead)
      /\ kindHere \in {"LVAR", "GVAR"}
  BY KnownFacts
<1>2. spec \in Specs /\ spec.base = "struct"
  BY DEF Specs
<1>3. /\ Layout(t) /\ Layout(u) /\ SetTable(u) /\ IsTable(t)
      /\ index \in 1..Len(t.idents)
      /\ open' = [tag |-> index, struct_size |-> 0, members |-> <<>>]
  BY StructOpenTable DEF KnownInv
<1>4. kindHere \in {"LVAR", "GVAR", "STRUCT_MEMBER", "NONE"} /\ kindHere # "NONE"
  BY <1>1
<1>5. Described(t, open) /\ open = NoStruct
  <2> HIDE DEF spec
  <2>1. Described(t, open)
    BY <1>1, <1>2, <1>4, DescribedTypeSpec
  <2> QED BY <2>1 DEF StructOpen, Parsing
<1> HIDE DEF t, index, u, spec
<1>6. /\ TableOK(t)
      /\ t.structs \in Seq(StructObjects)
      /\ t.idents \in Seq(Identifiers(Len(t.structs)))
      /\ Len(t.structs) \in Nat /\ Len(t.idents) \in Nat
  BY <1>3, TableLengths DEF Layout, TableOK
<1>7. /\ TableOK(u) /\ u.structs \in Seq(StructObjects)
      /\ u.idents = t.idents
      /\ Len(u.structs) = Len(t.structs)
      /\ \A s \in 1..Len(t.structs) : Succeeds(t.structs[s], u.structs[s], Len(t.idents))
      /\ \A s \in 1..Len(t.structs) :
            \/ u.structs[s] = t.structs[s]
            \/ ~u.structs[s].complete /\ u.structs[s].size = t.structs[s].size
  <2>1. TableOK(u) => u.structs \in Seq(StructObjects)
    BY DEF TableOK
  <2> QED BY <1>1, <1>3, <1>6, <2>1, ReopenedTable, SMTT(30) DEF u
<1>8. TagsAlone(u) /\ GlobalsAlone(u)
  BY <1>5, <1>7 DEF Described, TagsAlone, GlobalsAlone
<1>9. MembersPlaced(u, open')
  <2> SUFFICES ASSUME NEW i \in 1..Len(t.idents), t.idents[i].isTag
               PROVE  /\ Chained(t.idents[i].members, Space(u, open', i), u.structs)
                      /\ open'.members = <<>>
    BY <1>7 DEF MembersPlaced
  <2>1. t.idents[i].type.struct \in 1..Len(t.structs)
    BY <1>3, TagStruct
  <2>2. Space(u, open', i) = Space(t, open, i)
    BY <1>3, <1>5, <1>7, <2>1 DEF Space, NoStruct
  <2>3. Chained(t.idents[i].members, Space(t, open, i), t.structs)
    BY <1>5 DEF Described, MembersPlaced
  <2>4. t.idents[i].members \in Seq(MemberRecords(Len(t.structs)))
    <3>1. t.idents[i] \in Identifiers(Len(t.structs))
      BY <1>6
    <3> QED BY <3>1 DEF Identifiers
  <2>5. /\ Len(t.idents) \in Nat /\ 1 <= Len(t.idents)
        /\ \A s \in 1..Len(t.structs) :
              s \in 1..Len(u.structs) /\ Succeeds(t.structs[s], u.structs[s], Len(t.idents))
    BY <1>3, <1>6, <1>7
  <2>6. Chained(t.idents[i].members, Space(t, open, i), u.structs)
    BY <1>6, <1>7, <2>3, <2>4, <2>5, ChainedKept
  <2> QED BY <1>3, <2>2, <2>6
<1>10. Finished(u)
  <2> SUFFICES ASSUME NEW s \in 1..Len(t.structs), u.structs[s].complete
               PROVE  \E i \in 1..Len(t.idents) : /\ t.idents[i].isTag
                                                  /\ t.idents[i].type.struct = s
                                                  /\ t.idents[i].members # <<>>
    BY <1>7 DEF Finished
  <2>1. t.structs[s].complete
    BY <1>7
  <2> QED BY <1>5, <2>1 DEF Described, Finished
<1>11. Described(u, open')
  BY <1>3, <1>8, <1>9, <1>10 DEF Described
<1> QED BY <1>3, <1>11, DescribedSet

\* A member is put behind those that are there, and struct_size behind it.
LEMMA StructMemberDescribed ==
    ASSUME Names \cap Tags = {}, KnownInv, SlotsInv',
           NEW name \in Members, NEW spec \in Specs, NEW mods \in Shapes,
           StructMember(name, spec, mods)
    PROVE  Described(Table', open')
<1> DEFINE typed == typeSpec(Table, "STRUCT_MEMBER", spec)
<1> DEFINE t == typed.table
<1> DEFINE type == derive(typed.type, mods)
<1> DEFINE member == [name |-> name, type |-> type, offset |-> open.struct_size]
<1> DEFINE ms == Append(open.members, member)
<1> DEFINE g == open.tag
<1>1. /\ Layout(Table) /\ TableOK(Table) /\ Described(Table, open)
      /\ Table.idents = identHead /\ Table.structs = structs /\ Len(structs) \in Nat
      /\ Len(identHead) \in Nat
      /\ block \in Nat /\ g \in 0..Len(identHead)
      /\ identHead \in Seq(Identifiers(Len(structs)))
  BY KnownFacts
<1>2. /\ Len(type.mods) <= 2
      /\ Complete(type, t.structs)
      /\ open # NoStruct
      /\ identHead' = [t.idents EXCEPT ![g].members = ms]
      /\ structs' = t.structs
      /\ open' = [open EXCEPT !.struct_size = @ + Room(type, t.structs), !.members = ms]
  BY DEF StructMember, SetTable, Room
<1>3. t.idents = identHead
  BY <1>1 DEF typeSpec, new_identifier
<1>4. Described(t, open)
  BY <1>1, DescribedTypeSpec
<1>5. /\ TableOK(t) /\ typed.type \in Types(Len(t.structs))
      /\ Len(t.structs) >= Len(structs)
  BY <1>1, TypeSpec
<1>6. Len(t.structs) \in Nat /\ t.structs \in Seq(StructObjects)
  BY <1>5, TableLengths DEF TableOK
<1> HIDE DEF typed
<1>7. type \in Types(Len(t.structs))
  BY <1>2, <1>5, <1>6, DeriveType
<1>8. member.offset = open.struct_size /\ member.type = type
  OBVIOUS
<1> HIDE DEF t, type, member
<1>9. /\ open \in [tag : 0..Len(identHead), struct_size : Nat,
                   members : Seq(MemberRecords(Len(structs)))]
      /\ g # 0 /\ identHead[g].isTag
  BY <1>2 DEF KnownInv, SlotsInv, TypeOK, OpenIsIncomplete
<1>10. /\ g \in 1..Len(identHead)
       /\ open'.tag = g /\ open'.members = ms
       /\ open'.struct_size = open.struct_size + Room(type, t.structs)
  <2> HIDE DEF ms
  <2>1. g \in 1..Len(identHead)
    BY <1>1, <1>9
  <2> QED BY <1>2, <1>9, <2>1
<1>11. Chained(open.members, open.struct_size, t.structs)
  <2>1. CASE open.members = <<>>
    <3>1. Len(open.members) = 0
      BY <2>1
    <3> QED BY <3>1 DEF Chained
  <2>2. CASE open.members # <<>>
    <3>1. Space(t, open, g) = open.struct_size
      BY <2>2 DEF Space
    <3> QED BY <1>3, <1>4, <1>9, <1>10, <2>2, <3>1 DEF Described, MembersPlaced
  <2> QED BY <2>1, <2>2
<1>12. Chained(ms, open'.struct_size, t.structs)
  <2>1. open.struct_size \in Nat /\ open.members \in Seq(MemberRecords(Len(structs)))
    BY <1>9
  <2>2. Chained(Append(open.members, member), open.struct_size + Room(member.type, t.structs),
                t.structs)
    BY <1>1, <1>2, <1>5, <1>6, <1>7, <1>8, <1>11, <2>1, ChainedAppend
  <2> QED BY <1>8, <1>10, <2>2
<1>13. ms # <<>>
  <2>1. open.members \in Seq(MemberRecords(Len(structs)))
    BY <1>9
  <2>2. Len(ms) = Len(open.members) + 1 /\ Len(open.members) \in Nat
    BY <2>1
  <2> HIDE DEF ms
  <2> QED BY <2>2
<1> HIDE DEF ms
<1>14. /\ Len(identHead') = Len(identHead)
       /\ identHead'[g].members = ms
       /\ \A i \in 1..Len(identHead) :
             /\ identHead'[i].name = identHead[i].name
             /\ identHead'[i].kind = identHead[i].kind
             /\ identHead'[i].type = identHead[i].type
             /\ identHead'[i].isTag = identHead[i].isTag
             /\ i # g => identHead'[i].members = identHead[i].members
  <2>1. identHead' = [identHead EXCEPT ![g].members = ms]
    BY <1>2, <1>3
  <2>2. Len(identHead') = Len(identHead) /\ identHead'[g] = [identHead[g] EXCEPT !.members = ms]
    BY <1>1, <1>10, <2>1
  <2>3. \A i \in 1..Len(identHead) : i # g => identHead'[i] = identHead[i]
    BY <1>1, <2>1
  <2>4. identHead[g] \in Identifiers(Len(structs))
    BY <1>1, <1>10
  <2>5. /\ identHead'[g].name = identHead[g].name
        /\ identHead'[g].kind = identHead[g].kind
        /\ identHead'[g].type = identHead[g].type
        /\ identHead'[g].isTag = identHead[g].isTag
        /\ identHead'[g].members = ms
    BY <2>2, <2>4 DEF Identifiers
  <2> QED BY <2>2, <2>3, <2>5
<1> DEFINE v == Table'
<1>15. v.idents = identHead' /\ v.structs = t.structs /\ Layout(v)
  <2>1. Layout(v)
    BY DEF SlotsInv
  <2> QED BY <1>2, <2>1 DEF Table
<1> HIDE DEF v
<1>16. TagsAlone(v)
  BY <1>3, <1>4, <1>14, <1>15 DEF Described, TagsAlone
<1>17. GlobalsAlone(v)
  BY <1>3, <1>4, <1>14, <1>15 DEF Described, GlobalsAlone
<1>18. MembersPlaced(v, open')
  <2> SUFFICES ASSUME NEW i \in 1..Len(identHead), v.idents[i].isTag
               PROVE  /\ Chained(v.idents[i].members, Space(v, open', i), t.structs)
                      /\ g = i => v.idents[i].members = ms
    BY <1>10, <1>14, <1>15 DEF MembersPlaced
  <2>1. CASE i = g
    <3>1. v.idents[i].members = ms
      BY <1>14, <1>15, <2>1
    <3>2. Space(v, open', i) = open'.struct_size
      BY <1>10, <1>13, <2>1 DEF Space
    <3> QED BY <1>12, <2>1, <3>1, <3>2
  <2>2. CASE i # g
    <3>1. /\ v.idents[i].members = t.idents[i].members
          /\ v.idents[i].type = t.idents[i].type
          /\ t.idents[i].isTag
      BY <1>3, <1>14, <1>15, <2>2
    <3>2. Space(v, open', i) = Space(t, open, i)
      BY <1>10, <1>15, <2>2, <3>1 DEF Space
    <3>3. Chained(t.idents[i].members, Space(t, open, i), t.structs)
      BY <1>3, <1>4, <2>2, <3>1 DEF Described, MembersPlaced
    <3> QED BY <2>2, <3>1, <3>2, <3>3
  <2> QED BY <2>1, <2>2
<1>19. Finished(v)
  <2> SUFFICES ASSUME NEW s \in 1..Len(t.structs), t.structs[s].complete
               PROVE  \E i \in 1..Len(identHead) : /\ v.idents[i].isTag
                                                   /\ v.idents[i].type.struct = s
                                                   /\ v.idents[i].members # <<>>
    BY <1>14, <1>15 DEF Finished
  <2>1. PICK i \in 1..Len(identHead) : /\ identHead[i].isTag
                                       /\ identHead[i].type.struct = s
                                       /\ identHead[i].members # <<>>
    BY <1>3, <1>4 DEF Described, Finished
  <2>2. v.idents[i].members # <<>>
    BY <1>13, <1>14, <1>15, <2>1
  <2> QED BY <1>14, <1>15, <2>1, <2>2
<1>20. Described(v, open')
  BY <1>15, <1>16, <1>17, <1>18, <1>19 DEF Described
<1> QED BY <1>20 DEF v

\* The struct gets the size that its members lie in; no other tag has it.
LEMMA StructCloseDescribed ==
    ASSUME Names \cap Tags = {}, KnownInv, SlotsInv', StructClose
    PROVE  Described(Table', open')
<1> DEFINE g == open.tag
<1> DEFINE s == identHead[g].type.struct
<1> DEFINE t == Table
<1> DEFINE closed == [structs[s] EXCEPT !.size = open.struct_size, !.complete = TRUE]
<1>1. /\ Layout(t) /\ Described(t, open)
      /\ t.idents = identHead /\ t.structs = structs /\ Len(structs) \in Nat
      /\ Len(identHead) \in Nat
      /\ g \in 0..Len(identHead)
      /\ identHead \in Seq(Identifiers(Len(structs)))
      /\ structs \in Seq(StructObjects)
  BY KnownFacts
<1>2. /\ open # NoStruct /\ g # 0
      /\ identHead[g].isTag
      /\ open.members # <<>>
  BY DEF KnownInv, SlotsInv, TypeOK, OpenIsIncomplete, StructClose
<1>3. g \in 1..Len(identHead)
  <2> HIDE DEF g
  <2> QED BY <1>1, <1>2
<1> HIDE DEF t
<1>4. /\ identHead[g].type.base = "struct" /\ identHead[g].type.mods = <<>>
      /\ s \in 1..Len(structs)
      /\ \A j \in 1..Len(identHead) :
            identHead[j].isTag /\ identHead[j].type.struct = s => j = g
  <2>1. TagsAlone(t) /\ t.idents[g].isTag /\ g \in 1..Len(t.idents)
    BY <1>1, <1>2, <1>3 DEF Described
  <2>2. /\ t.idents[g].type.base = "struct"
        /\ t.idents[g].type.struct \in 1..Len(t.structs)
        /\ \A j \in 1..Len(t.idents) :
              t.idents[j].isTag /\ t.idents[j].type.struct = t.idents[g].type.struct => j = g
    BY <1>1, <2>1, TagStruct
  <2>3. t.idents[g].type.mods = <<>>
    BY <2>1 DEF TagsAlone
  <2> QED BY <1>1, <2>2, <2>3
<1>5. /\ structs' = [structs EXCEPT ![s] = closed]
      /\ identHead' = identHead /\ open' = NoStruct
  BY <1>4 DEF StructClose
<1>6. closed.size = open.struct_size
  <2>1. structs[s] \in StructObjects
    BY <1>1, <1>4
  <2> QED BY <2>1 DEF StructObjects
<1>7. identHead[g].members = open.members /\ Chained(open.members, open.struct_size, structs)
  <2>1. Space(t, open, g) = open.struct_size
    BY <1>2 DEF Space
  <2> QED BY <1>1, <1>2, <1>3, <2>1 DEF Described, MembersPlaced
<1> HIDE DEF s, closed
<1>8. /\ Len(structs') = Len(structs)
      /\ structs'[s] = closed
      /\ \A i \in 1..Len(structs) : i # s => structs'[i] = structs[i]
  BY <1>1, <1>4, <1>5
<1> DEFINE v == Table'
<1>9. v.idents = identHead /\ v.structs = structs' /\ Layout(v) /\ v.structs \in Seq(StructObjects)
  <2>1. Layout(v)
    BY DEF SlotsInv
  <2> QED BY <1>5, <2>1 DEF Table, Layout, TableOK
<1> HIDE DEF v
<1>10. TagsAlone(v) /\ GlobalsAlone(v)
  BY <1>1, <1>9 DEF Described, TagsAlone, GlobalsAlone
<1>11. ASSUME NEW i \in 1..Len(identHead), NEW size,
              Chained(identHead[i].members, size, structs)
       PROVE  Chained(identHead[i].members, size, structs')
  <2>1. identHead[i].members \in Seq(MemberRecords(Len(structs)))
    <3>1. identHead[i] \in Identifiers(Len(structs))
      BY <1>1
    <3> QED BY <3>1 DEF Identifiers
  <2>2. \A j \in 1..Len(structs) :
            j \in 1..Len(structs') /\ Succeeds(structs[j], structs'[j], Len(identHead))
    BY StructCloseSucceeds DEF KnownInv
  <2>3. Len(identHead) \in Nat /\ 1 <= Len(identHead)
    BY <1>1, <1>3
  <2> QED BY <1>1, <1>9, <1>11, <2>1, <2>2, <2>3, ChainedKept
<1>12. MembersPlaced(v, open')
  <2> SUFFICES ASSUME NEW i \in 1..Len(identHead), identHead[i].isTag
               PROVE  /\ Chained(identHead[i].members, Space(v, open', i), structs')
                      /\ open'.tag # i
    BY <1>9 DEF MembersPlaced
  <2>1. open'.tag = 0 /\ open'.tag # i
    BY <1>5 DEF NoStruct
  <2>2. Space(v, open', i) = structs'[identHead[i].type.struct].size
    BY <1>9, <2>1 DEF Space
  <2>3. CASE i = g
    BY <1>3, <1>6, <1>7, <1>8, <1>11, <2>1, <2>2, <2>3 DEF s
  <2>4. CASE i # g
    <3>1. identHead[i].type.struct # s
      BY <1>4, <2>4
    <3>2. identHead[i].type.struct \in 1..Len(structs)
      BY <1>1, TagStruct
    <3>3. structs'[identHead[i].type.struct] = structs[identHead[i].type.struct]
      BY <1>8, <3>1, <3>2
    <3>4. Space(v, open', i) = Space(t, open, i)
      BY <1>1, <2>2, <2>4, <3>3 DEF Space
    <3>5. Chained(identHead[i].members, Space(t, open, i), structs)
      BY <1>1, <2>4 DEF Described, MembersPlaced
    <3> QED BY <1>11, <2>1, <3>3, <3>4, <3>5
  <2> QED BY <2>3, <2>4
<1>13. Finished(v)
  <2> SUFFICES ASSUME NEW a \in 1..Len(structs), structs'[a].complete
               PROVE  \E i \in 1..Len(identHead) : /\ identHead[i].isTag
                                                   /\ identHead[i].type.struct = a
                                                   /\ identHead[i].members # <<>>
    BY <1>8, <1>9 DEF Finished
  <2>1. CASE a = s
    BY <1>2, <1>3, <1>7, <2>1 DEF s
  <2>2. CASE a # s
    BY <1>1, <1>8, <2>2 DEF Described, Finished
  <2> QED BY <2>1, <2>2
<1>14. Described(v, open')
  BY <1>9, <1>10, <1>12, <1>13 DEF Described
<1> QED BY <1>14 DEF v

LEMMA KnownStep ==
    ASSUME Names \cap Tags = {}
    PROVE  KnownInv /\ [Next]_vars => KnownInv'
<1> SUFFICES ASSUME KnownInv, [Next]_vars PROVE KnownInv'
  OBVIOUS
<1>0. SlotsInv'
  BY SlotsStep DEF KnownInv
<1>1. ASSUME NEW name \in Names, NEW spec \in Specs, NEW mods \in Shapes,
             \/ declaration(name, spec, mods)
             \/ funcPrototype(name, spec, mods)
             \/ funcDefine(name, spec, mods)
      PROVE  Described(Table', open')
  BY <1>1, declarationDescribed, FunctionHeadDescribed DEF funcPrototype, funcDefine
<1>2. ASSUME NEW name \in Members, NEW spec \in Specs, NEW mods \in Shapes,
             StructMember(name, spec, mods)
      PROVE  Described(Table', open')
  BY <1>0, <1>2, StructMemberDescribed
<1>3. ASSUME NEW tag \in Tags, StructOpen(tag)
      PROVE  Described(Table', open')
  BY <1>3, StructOpenDescribed
<1>4. ASSUME NEW name \in Names, NEW called \in BOOLEAN, primary_expr(name, called)
      PROVE  Described(Table', open')
  BY <1>4, primary_exprDescribed
<1>5. ASSUME StructClose
      PROVE  Described(Table', open')
  BY <1>0, <1>5, StructCloseDescribed
<1>6. ASSUME OtherStep \/ UNCHANGED vars
      PROVE  Described(Table', open')
  <2>1. UNCHANGED <<table, open>>
    BY <1>6 DEF OtherStep, BlockBegin, BlockEnd, FunctionEnd, new_string_vector, gens, vars
  <2> QED BY <2>1, DescribedUnchanged
<1>7. Described(Table', open')
  BY <1>1, <1>2, <1>3, <1>4, <1>5, <1>6 DEF Next, Stopped, OtherStep
<1> QED BY <1>0, <1>7 DEF KnownInv

LEMMA KnownInit == Init => KnownInv
<1> SUFFICES ASSUME Init PROVE KnownInv
  OBVIOUS
<1>1. Table.idents = <<>> /\ Table.structs = <<>>
  BY DEF Init, Table
<1>2. Len(Table.idents) = 0 /\ Len(Table.structs) = 0
  BY <1>1
<1>3. TagsAlone(Table) /\ GlobalsAlone(Table) /\ MembersPlaced(Table, open) /\ Finished(Table)
  BY <1>2 DEF TagsAlone, GlobalsAlone, MembersPlaced, Finished
<1>4. SlotsInv
  BY SlotsInit
<1>5. Layout(Table)
  BY <1>4 DEF SlotsInv
<1> QED BY <1>3, <1>4, <1>5 DEF KnownInv, Described

LEMMA KnownTags ==
    ASSUME Names \cap Tags = {}
    PROVE  KnownInv => TagLookupFindsTag
<1> SUFFICES ASSUME KnownInv, NEW i \in DOMAIN identHead,
                    identHead[i].type.base = "struct",
                    structs[identHead[i].type.struct].complete
             PROVE  LET tag == find_struct_tag(identHead[i].type, identHead, structs)
                    IN  /\ tag # 0
                        /\ identHead[tag].isTag
                        /\ identHead[tag].type.struct = identHead[i].type.struct
                        /\ identHead[tag].members # <<>>
  BY DEF TagLookupFindsTag
<1> DEFINE s == identHead[i].type.struct
<1>1. /\ Layout(Table) /\ Described(Table, open)
      /\ Table.structs = structs /\ Table.idents = identHead
      /\ identHead \in Seq(Identifiers(Len(structs)))
      /\ DOMAIN identHead = 1..Len(identHead)
      /\ Len(structs) \in Nat /\ Len(identHead) \in Nat
  BY KnownFacts
<1>2. s \in 1..Len(structs)
  <2>1. identHead[i] \in Identifiers(Len(structs))
    BY <1>1
  <2>2. identHead[i].type \in Types(Len(structs))
    BY <2>1 DEF Identifiers
  <2> QED BY <1>1, <2>2 DEF Types
<1> HIDE DEF s
<1>3. PICK k \in 1..Len(identHead) : /\ identHead[k].isTag
                                     /\ identHead[k].type.struct = s
                                     /\ identHead[k].members # <<>>
  BY <1>1, <1>2 DEF Described, Finished, s
<1> DEFINE hits == {j \in DOMAIN identHead : identHead[j].name = structs[s].name}
<1>4. structs[s].name = identHead[k].name
  BY <1>1, <1>3, TagStruct
<1>5. hits = {k}
  BY <1>1, <1>3, <1>4 DEF Described, TagsAlone
<1>6. Newest(hits) \in hits /\ Newest(hits) # 0
  <2>1. hits \subseteq 1..Len(identHead) /\ hits # {}
    BY <1>3, <1>5
  <2> HIDE DEF hits
  <2> QED BY <1>1, <2>1, NewestIs
<1>7. find_struct_tag(identHead[i].type, identHead, structs) = Newest(hits)
  BY DEF find_struct_tag, s
<1> HIDE DEF hits
<1>8. find_struct_tag(identHead[i].type, identHead, structs) = k
  BY <1>5, <1>6, <1>7
<1> QED BY <1>3, <1>6, <1>7, <1>8 DEF s

LEMMA KnownMembers ==
    ASSUME Names \cap Tags = {}
    PROVE  KnownInv => MembersDisjoint
<1> SUFFICES ASSUME KnownInv, NEW i \in DOMAIN identHead, identHead[i].isTag,
                    NEW a \in DOMAIN identHead[i].members,
                    \/ identHead[i].members[a].type.base # "struct"
                    \/ Pointing(identHead[i].members[a].type)
                    \/ structs[identHead[i].members[a].type.struct].redefined = 0
             PROVE  LET ms == identHead[i].members
                        End(x) == ms[x].offset + sizeofType(ms[x].type, structs)
                    IN  /\ End(a) <= LayoutSize(i)
                        /\ \A b \in (a + 1)..Len(ms) : End(a) <= ms[b].offset
  BY DEF MembersDisjoint
<1> DEFINE ms == identHead[i].members
<1>1. /\ Described(Table, open)
      /\ Table.structs = structs /\ Table.idents = identHead
      /\ identHead \in Seq(Identifiers(Len(structs)))
      /\ structs \in Seq(StructObjects)
      /\ DOMAIN identHead = 1..Len(identHead)
      /\ Len(structs) \in Nat /\ Len(identHead) \in Nat
      /\ TypeOK /\ Layout(Table)
  BY KnownFacts
<1>2. ms \in Seq(MemberRecords(Len(structs)))
  <2>1. identHead[i] \in Identifiers(Len(structs))
    BY <1>1
  <2> QED BY <2>1 DEF Identifiers
<1>3. Chained(ms, Space(Table, open, i), structs)
  BY <1>1 DEF Described, MembersPlaced
<1>4. Space(Table, open, i) = LayoutSize(i)
  BY <1>1 DEF Space, LayoutSize
<1>5. LayoutSize(i) \in Nat
  <2>1. open.struct_size \in Nat
    BY <1>1 DEF TypeOK
  <2>2. Table.idents[i].type.struct \in 1..Len(Table.structs)
    BY <1>1, TagStruct
  <2>3. structs[identHead[i].type.struct] \in StructObjects
    BY <1>1, <2>2
  <2> QED BY <2>1, <2>3 DEF LayoutSize, StructObjects
<1> HIDE DEF ms
<1>6. a \in 1..Len(ms) /\ Len(ms) \in Nat
  BY <1>2 DEF ms
<1>7. \A b \in 1..Len(ms) : ms[b].offset \in Nat /\ ms[b].type \in Types(Len(structs))
  <2> TAKE b \in 1..Len(ms)
  <2>1. ms[b] \in MemberRecords(Len(structs))
    BY <1>2
  <2> QED BY <2>1 DEF MemberRecords
<1>8. /\ sizeofType(ms[a].type, structs) \in Nat
      /\ Room(ms[a].type, structs) \in Nat
      /\ sizeofType(ms[a].type, structs) <= Room(ms[a].type, structs)
  <2>1. sizeofType(ms[a].type, structs) \in Nat
    BY <1>1, <1>6, <1>7, SizeIsNat
  <2> QED BY <2>1 DEF Room, Slot
<1>9. ~Outdated(ms[a].type, 1, structs)
  BY DEF Outdated, ms
<1>10. ms[a].offset + Room(ms[a].type, structs) <= LayoutSize(i)
  BY <1>3, <1>4, <1>6, <1>9 DEF Chained
<1>11. ms[a].offset + sizeofType(ms[a].type, structs) <= LayoutSize(i)
  BY <1>5, <1>6, <1>7, <1>8, <1>10
<1>12. \A b \in (a + 1)..Len(ms) :
           ms[a].offset + sizeofType(ms[a].type, structs) <= ms[b].offset
  <2> TAKE b \in (a + 1)..Len(ms)
  <2>1. b \in 1..Len(ms)
    BY <1>6
  <2>2. ms[a].offset + Room(ms[a].type, structs) <= ms[b].offset
    BY <1>3, <1>6, <1>9 DEF Chained
  <2> QED BY <1>6, <1>7, <1>8, <2>1, <2>2
<1> QED BY <1>11, <1>12 DEF ms

\* "." and "->" find the tag of the struct and its members, in whatever block and
\* order structs were mentioned, declared, defined and defined again, as long as no
\* variable is spelled like a tag: typeSpec adds a tag only when nothing has its spelling, and
\* the struct that a pointer member names for itself is never completed (find_struct_tag).
THEOREM TagsAreFound ==
    ASSUME Names \cap Tags = {}
    PROVE  Spec => []TagLookupFindsTag
<1>1. KnownInv /\ [Next]_vars => KnownInv'
  BY KnownStep
<1> QED BY <1>1, KnownInit, KnownTags, PTL DEF Spec

\* The members of a struct do not overlap, and lie inside the size that its variables
\* are given, with the sizes that the types of the members have when code is generated
\* (the member loop of typeSpec), however often the struct itself is defined - but for
\* the members whose own struct has been defined more than once.
THEOREM MembersApart ==
    ASSUME Names \cap Tags = {}
    PROVE  Spec => []MembersDisjoint
<1>1. KnownInv /\ [Next]_vars => KnownInv'
  BY KnownStep
<1> QED BY <1>1, KnownInit, KnownMembers, PTL DEF Spec

-----------------------------------------------------------------------------
(* The .data section. *)

\* An identifier with a place in .data.
Global(idents, i) == idents[i].kind = "GVAR"

\* The labels of the global variables among the first k identifiers, in the order of the
\* list, are one for each.
LabelsOf(idents, objs, k, labels) ==
    /\ \A e \in 1..Len(labels) :
          \E i \in 1..k : Global(idents, i) /\ labels[e] = GlobalLabel(idents[i], objs)
    /\ \A i \in 1..k : Global(idents, i) =>
          \E e \in 1..Len(labels) : labels[e] = GlobalLabel(idents[i], objs)
    /\ \A a, b \in 1..Len(labels) : labels[a].label = labels[b].label => a = b

LEMMA LabelsOfNext ==
    ASSUME NEW idents, NEW objs, NEW k \in Nat, NEW S, NEW labels \in Seq(S),
           LabelsOf(idents, objs, k, labels), Global(idents, k + 1),
           \A i \in 1..k : Global(idents, i) => idents[i].name # idents[k + 1].name
    PROVE  LabelsOf(idents, objs, k + 1, Append(labels, GlobalLabel(idents[k + 1], objs)))
<1> DEFINE n == Len(labels)
<1> DEFINE new == GlobalLabel(idents[k + 1], objs)
<1> DEFINE more == Append(labels, new)
<1>1. /\ n \in Nat /\ Len(more) = n + 1
      /\ \A e \in 1..n : more[e] = labels[e]
      /\ more[n + 1] = new
  OBVIOUS
<1>2. \A i : GlobalLabel(idents[i], objs).label = <<"", idents[i].name>>
  BY DEF GlobalLabel
<1> HIDE DEF more
<1>3. ASSUME NEW e \in 1..n
      PROVE  labels[e].label # new.label
  <2>1. PICK i \in 1..k : Global(idents, i) /\ labels[e] = GlobalLabel(idents[i], objs)
    BY DEF LabelsOf
  <2>2. idents[i].name # idents[k + 1].name
    BY <2>1
  <2>3. labels[e].label = <<"", idents[i].name>> /\ new.label = <<"", idents[k + 1].name>>
    BY <1>2, <2>1
  <2>4. \A x, y : <<"", x>> = <<"", y>> => x = y
    OBVIOUS
  <2> HIDE DEF new
  <2> QED BY <2>2, <2>3, <2>4
<1> HIDE DEF new
<1>4. ASSUME NEW e \in 1..(n + 1)
      PROVE  \E i \in 1..(k + 1) : Global(idents, i) /\ more[e] = GlobalLabel(idents[i], objs)
  <2>1. CASE e = n + 1
    <3>1. k + 1 \in 1..(k + 1)
      OBVIOUS
    <3> QED BY <1>1, <2>1, <3>1 DEF new
  <2>2. CASE e # n + 1
    <3>1. e \in 1..n
      BY <1>1, <2>2
    <3>2. PICK i \in 1..k : Global(idents, i) /\ labels[e] = GlobalLabel(idents[i], objs)
      BY <3>1 DEF LabelsOf
    <3>3. i \in 1..(k + 1)
      OBVIOUS
    <3> QED BY <1>1, <3>1, <3>2, <3>3
  <2> QED BY <2>1, <2>2
<1>5. ASSUME NEW i \in 1..(k + 1), Global(idents, i)
      PROVE  \E e \in 1..(n + 1) : more[e] = GlobalLabel(idents[i], objs)
  <2>1. CASE i = k + 1
    <3>1. n + 1 \in 1..(n + 1)
      BY <1>1
    <3> QED BY <1>1, <2>1, <3>1 DEF new
  <2>2. CASE i # k + 1
    <3>1. i \in 1..k
      BY <2>2
    <3>2. PICK e \in 1..n : labels[e] = GlobalLabel(idents[i], objs)
      BY <1>5, <3>1 DEF LabelsOf
    <3>3. e \in 1..(n + 1)
      BY <1>1
    <3> QED BY <1>1, <3>2, <3>3
  <2> QED BY <2>1, <2>2
<1>6. ASSUME NEW a \in 1..(n + 1), NEW b \in 1..(n + 1), more[a].label = more[b].label
      PROVE  a = b
  <2>1. \A e \in 1..(n + 1) : e = n + 1 \/ e \in 1..n
    BY <1>1
  <2>2. CASE a \in 1..n /\ b \in 1..n
    BY <1>1, <1>6, <2>2 DEF LabelsOf
  <2>3. CASE a \in 1..n /\ b = n + 1
    BY <1>1, <1>3, <1>6, <2>3
  <2>4. CASE a = n + 1 /\ b \in 1..n
    BY <1>1, <1>3, <1>6, <2>4
  <2> QED BY <2>1, <2>2, <2>3, <2>4
<1>7. LabelsOf(idents, objs, k + 1, more)
  BY <1>1, <1>4, <1>5, <1>6 DEF LabelsOf
<1> QED BY <1>7 DEF more, new

\* GlobalLabels has one label for every global variable of the list, if no two of them
\* have the same spelling.
LEMMA GlobalLabelsAre ==
    ASSUME NEW k \in Nat, NEW idents \in Seq(Identifiers(k)), NEW objs,
           \A i, j \in 1..Len(idents) :
               Global(idents, i) /\ Global(idents, j) /\ idents[i].name = idents[j].name
                   => i = j
    PROVE  /\ LabelsOf(idents, objs, Len(idents), GlobalLabels(idents, objs))
           /\ \E S : GlobalLabels(idents, objs) \in Seq(S)
<1> DEFINE n == Len(idents)
<1> DEFINE E == {GlobalLabel(idents[i], objs) : i \in 1..n}
<1> DEFINE S == Seq(E)
<1> DEFINE step == [i \in 1..n |-> [s \in S |->
                      IF Global(idents, i) THEN Append(s, GlobalLabel(idents[i], objs)) ELSE s]]
<1>0. n \in Nat /\ <<>> \in S
  OBVIOUS
<1>1. step \in [1..n -> [S -> S]]
  <2> SUFFICES ASSUME NEW i \in 1..n, NEW s \in S
               PROVE  Append(s, GlobalLabel(idents[i], objs)) \in S
    OBVIOUS
  <2>1. GlobalLabel(idents[i], objs) \in E
    OBVIOUS
  <2> HIDE DEF E
  <2> QED BY <2>1
<1>2. \A i \in 1..n, s \in S :
          step[i][s] = IF Global(idents, i) THEN Append(s, GlobalLabel(idents[i], objs)) ELSE s
  OBVIOUS
<1> HIDE DEF step, S, n
<1>3. Defines(n, S, <<>>, step)
  BY <1>0, <1>1, RecursionExists
<1>4. PICK g \in [0..n -> S] : g[0] = <<>> /\ \A i \in 1..n : g[i] = step[i][g[i - 1]]
  BY <1>3 DEF Defines
<1>5. \A i \in 1..n : /\ g[i - 1] \in S
                     /\ g[i] = IF Global(idents, i)
                               THEN Append(g[i - 1], GlobalLabel(idents[i], objs))
                               ELSE g[i - 1]
  <2> TAKE i \in 1..n
  <2>1. i - 1 \in 0..n
    BY <1>0
  <2>2. g[i - 1] \in S
    BY <2>1
  <2> QED BY <1>2, <1>4, <2>2
<1> DEFINE Body(f) ==
        [i \in 0..n |-> IF i = 0 THEN <<>>
                        ELSE IF Global(idents, i)
                        THEN Append(f[i - 1], GlobalLabel(idents[i], objs))
                        ELSE f[i - 1]]
<1>6. g = Body(g)
  <2>1. \A i \in 0..n : g[i] = Body(g)[i]
    <3> TAKE i \in 0..n
    <3>1. CASE i = 0
      BY <1>4, <3>1
    <3>2. CASE i # 0
      <4>1. i \in 1..n
        BY <1>0, <3>2
      <4> QED BY <1>5, <3>2, <4>1
    <3> QED BY <3>1, <3>2
  <2> QED BY <2>1
<1> DEFINE f == CHOOSE h : h = Body(h)
<1>7. f = Body(f)
  <2> HIDE DEF Body
  <2> QED BY <1>6
<1>8. GlobalLabels(idents, objs) = f[n]
  BY DEF GlobalLabels, Global, n
<1> HIDE DEF f
<1>9. /\ f[0] = <<>>
      /\ \A i \in 1..n : f[i] = IF Global(idents, i)
                               THEN Append(f[i - 1], GlobalLabel(idents[i], objs))
                               ELSE f[i - 1]
  <2>1. \A i \in 0..n : f[i] = IF i = 0 THEN <<>>
                              ELSE IF Global(idents, i)
                              THEN Append(f[i - 1], GlobalLabel(idents[i], objs))
                              ELSE f[i - 1]
    BY <1>7
  <2>2. 0 \in 0..n /\ \A i \in 1..n : i \in 0..n /\ i # 0
    BY <1>0
  <2> QED BY <2>1, <2>2
<1> HIDE DEF Body
<1> DEFINE G == {i \in Nat : f[i] \in S /\ LabelsOf(idents, objs, i, f[i])}
<1>10. 0 \in G
  <2>1. f[0] = <<>> /\ f[0] \in S
    BY <1>0, <1>9
  <2>2. Len(f[0]) = 0
    BY <2>1
  <2>3. LabelsOf(idents, objs, 0, f[0])
    BY <2>2 DEF LabelsOf
  <2> QED BY <2>1, <2>3
<1>11. ASSUME NEW i \in 1..n, i - 1 \in G
       PROVE  i \in G
  <2>1. i \in Nat /\ i - 1 \in Nat /\ (i - 1) + 1 = i
    BY <1>0
  <2>2. f[i - 1] \in S /\ LabelsOf(idents, objs, i - 1, f[i - 1])
    BY <1>11
  <2>3. CASE Global(idents, i)
    <3>1. f[i] = Append(f[i - 1], GlobalLabel(idents[i], objs))
      BY <1>9, <2>3
    <3>2. \A j \in 1..(i - 1) : Global(idents, j) => idents[j].name # idents[i].name
      <4> SUFFICES ASSUME NEW j \in 1..(i - 1), Global(idents, j),
                          idents[j].name = idents[i].name
                   PROVE  FALSE
        OBVIOUS
      <4>1. j \in 1..Len(idents) /\ i \in 1..Len(idents) /\ j # i
        BY <1>0 DEF n
      <4> QED BY <2>3, <4>1
    <3>3. LabelsOf(idents, objs, i, f[i])
      <4>1. f[i - 1] \in Seq(E)
        BY <2>2 DEF S
      <4> HIDE DEF E
      <4> DEFINE k1 == i - 1
      <4>2. /\ k1 \in Nat /\ f[k1] \in Seq(E) /\ LabelsOf(idents, objs, k1, f[k1])
            /\ Global(idents, k1 + 1)
            /\ \A j \in 1..k1 : Global(idents, j) => idents[j].name # idents[k1 + 1].name
        BY <2>1, <2>2, <2>3, <3>2, <4>1
      <4>3. k1 + 1 = i
        BY <2>1
      <4> HIDE DEF k1
      <4>4. LabelsOf(idents, objs, k1 + 1,
                     Append(f[k1], GlobalLabel(idents[k1 + 1], objs)))
        BY <4>2, LabelsOfNext
      <4> QED BY <3>1, <4>3, <4>4 DEF k1
    <3>4. f[i] \in S
      <4>1. GlobalLabel(idents[i], objs) \in E
        BY DEF n
      <4> HIDE DEF E
      <4> QED BY <2>2, <3>1, <4>1 DEF S
    <3> QED BY <2>1, <3>3, <3>4
  <2>4. CASE ~Global(idents, i)
    <3>1. f[i] = f[i - 1]
      BY <1>9, <2>4
    <3>2. LabelsOf(idents, objs, i, f[i])
      <4>1. \A j \in 1..i : j \in 1..(i - 1) \/ j = i
        BY <2>1
      <4>2. \A j \in 1..(i - 1) : j \in 1..i
        BY <2>1
      <4> QED BY <2>2, <2>4, <3>1, <4>1, <4>2 DEF LabelsOf
    <3> QED BY <2>1, <2>2, <3>1, <3>2
  <2> QED BY <2>3, <2>4
<1>12. n \in G
  <2> HIDE DEF G
  <2>1. 0..n \subseteq G
    BY <1>0, <1>10, <1>11, UpTo
  <2> QED BY <1>0, <2>1
<1>13. f[n] \in Seq(E) /\ LabelsOf(idents, objs, n, f[n])
  BY <1>12 DEF S
<1> HIDE DEF E
<1> QED BY <1>8, <1>13 DEF n

Printed ==
    /\ strings \in Seq(Nat)
    /\ \A i \in 1..Len(strings) : strings[i] = i - 1
    /\ status = "done" =>
          data = StringLabels(strings) \o GlobalLabels(identHead, structs)

LEMMA PrintedStep == Printed /\ [Next]_vars => Printed'
<1> SUFFICES ASSUME Printed, [Next]_vars PROVE Printed'
  OBVIOUS
<1>1. CASE new_string_vector
  <2>1. strings' = Append(strings, Len(strings)) /\ status' = "parsing"
    BY <1>1 DEF new_string_vector, Parsing
  <2>2. strings \in Seq(Nat) /\ Len(strings) \in Nat
    BY DEF Printed
  <2>3. strings' \in Seq(Nat)
    BY <2>1, <2>2
  <2>4. /\ Len(strings') = Len(strings) + 1
        /\ strings'[Len(strings) + 1] = Len(strings)
        /\ \A i \in 1..Len(strings) : strings'[i] = strings[i]
    BY <2>1, <2>2
  <2>5. \A i \in 1..Len(strings') : strings'[i] = i - 1
    <3> TAKE i \in 1..Len(strings')
    <3>1. i \in 1..Len(strings) \/ i = Len(strings) + 1
      BY <2>2, <2>4
    <3> QED BY <2>2, <2>4, <3>1 DEF Printed
  <2> QED BY <2>1, <2>3, <2>5 DEF Printed
<1>2. CASE gens
  BY <1>2 DEF gens, Printed, table
<1>3. ASSUME strings' = strings, status' # "done"
      PROVE  Printed'
  BY <1>3 DEF Printed
<1>4. CASE UNCHANGED vars
  BY <1>4 DEF vars, table, Printed
<1>5. ASSUME NEW name \in Names, NEW spec \in Specs, NEW mods \in Shapes,
             \/ declaration(name, spec, mods)
             \/ funcPrototype(name, spec, mods)
             \/ funcDefine(name, spec, mods)
      PROVE  Printed'
  <2>1. strings' = strings /\ status' # "done"
    BY <1>5 DEF declaration, funcPrototype, funcDefine, FunctionHead, Parsing
  <2> QED BY <1>3, <2>1
<1>6. ASSUME NEW name \in Members, NEW spec \in Specs, NEW mods \in Shapes,
             StructMember(name, spec, mods)
      PROVE  Printed'
  BY <1>3, <1>6 DEF StructMember
<1>7. ASSUME NEW tag \in Tags, StructOpen(tag)
      PROVE  Printed'
  BY <1>3, <1>7 DEF StructOpen, Parsing
<1>8. ASSUME NEW name \in Names, NEW called \in BOOLEAN, primary_expr(name, called)
      PROVE  Printed'
  BY <1>3, <1>8 DEF primary_expr, Parsing
<1>9. CASE BlockBegin \/ BlockEnd \/ FunctionEnd \/ StructClose
  BY <1>3, <1>9 DEF BlockBegin, BlockEnd, FunctionEnd, StructClose, Parsing
<1> QED BY <1>1, <1>2, <1>4, <1>5, <1>6, <1>7, <1>8, <1>9 DEF Next, Stopped

JoinedBy(a, b, c) ==
    /\ DOMAIN c = 1..(Len(a) + Len(b))
    /\ \A i \in 1..Len(a) : c[i] = a[i]
    /\ \A i \in 1..Len(b) : c[Len(a) + i] = b[i]

LEMMA Joined ==
    ASSUME NEW U, NEW a \in Seq(U), NEW b \in Seq(U)
    PROVE  JoinedBy(a, b, a \o b)
<1>1. a \o b \in Seq(U) /\ Len(a \o b) = Len(a) + Len(b)
  OBVIOUS
<1>2. \A i \in 1..Len(a) : (a \o b)[i] = a[i]
  OBVIOUS
<1>3. ASSUME NEW i \in 1..Len(b)
      PROVE  (a \o b)[Len(a) + i] = b[i]
  <2>1. /\ Len(a) + i \in 1..(Len(a) + Len(b))
        /\ ~(Len(a) + i <= Len(a))
        /\ (Len(a) + i) - Len(a) = i
    OBVIOUS
  <2> QED BY <2>1
<1> QED BY <1>1, <1>2, <1>3 DEF JoinedBy

LEMMA KnownData == KnownInv /\ Printed => DataMatchesGlobals
<1> SUFFICES ASSUME KnownInv, Printed, status = "done"
             PROVE  /\ \A a, b \in DOMAIN data : data[a].label = data[b].label => a = b
                    /\ \A s \in DOMAIN strings :
                          \E e \in DOMAIN data : data[e].label = <<".LC", strings[s]>>
                    /\ \A i \in DOMAIN identHead :
                          identHead[i].kind = "GVAR" /\ IsObject(i) =>
                              \E e \in DOMAIN data :
                                  data[e] = [label |-> <<"", identHead[i].name>>,
                                             size  |-> SizeOf(i)]
  BY DEF DataMatchesGlobals
<1> DEFINE n == Len(strings)
<1> DEFINE literals == StringLabels(strings)
<1> DEFINE globals == GlobalLabels(identHead, structs)
<1> DEFINE m == Len(globals)
<1>1. /\ n \in Nat /\ DOMAIN strings = 1..n
      /\ \A i \in 1..n : strings[i] = i - 1
      /\ data = literals \o globals
  BY DEF Printed
<1>2. /\ identHead \in Seq(Identifiers(Len(structs))) /\ Len(structs) \in Nat
      /\ DOMAIN identHead = 1..Len(identHead)
      /\ GlobalsAlone(Table) /\ Table.idents = identHead
  BY KnownFacts DEF Described
<1>3. /\ LabelsOf(identHead, structs, Len(identHead), globals)
      /\ \E S : globals \in Seq(S)
  <2>1. \A i, j \in 1..Len(identHead) :
            Global(identHead, i) /\ Global(identHead, j)
                /\ identHead[i].name = identHead[j].name => i = j
    BY <1>2 DEF GlobalsAlone, Global
  <2> QED BY <1>2, <2>1, GlobalLabelsAre
<1>4. /\ literals \in Seq({literals[i] : i \in 1..n}) /\ Len(literals) = n
      /\ \A i \in 1..n : literals[i].label = <<".LC", i - 1>>
  <2>1. literals = [i \in 1..n |-> [label |-> <<".LC", strings[i]>>, size |-> 0]]
    BY <1>1 DEF StringLabels
  <2> HIDE DEF literals, n
  <2>2. DOMAIN literals = 1..n
    BY <2>1
  <2>3. \A i \in 1..n : literals[i].label = <<".LC", strings[i]>>
    BY <2>1
  <2>4. literals = [i \in 1..n |-> literals[i]]
    BY <2>1
  <2>5. literals \in Seq({literals[i] : i \in 1..n}) /\ Len(literals) = n
    <3> DEFINE T == {literals[i] : i \in 1..n}
    <3>1. \A i \in 1..n : literals[i] \in T
      OBVIOUS
    <3> HIDE DEF T
    <3>2. literals \in [1..n -> T]
      BY <2>4, <3>1
    <3>3. literals \in Seq(T) /\ Len(literals) = n
      BY <1>1, <3>2
    <3> QED BY <3>3 DEF T
  <2> QED BY <1>1, <2>3, <2>5
<1> HIDE DEF literals, globals
<1>5. PICK S : globals \in Seq(S)
  BY <1>3
<1>6. /\ m \in Nat /\ DOMAIN data = 1..(n + m)
      /\ \A i \in 1..n : data[i] = literals[i]
      /\ \A i \in 1..m : data[n + i] = globals[i]
  <2> DEFINE T == {literals[i] : i \in 1..n}
  <2>1. literals \in Seq(T)
    BY <1>4
  <2> HIDE DEF T
  <2>2. m \in Nat
    BY <1>5
  <2>3. Seq(T) \subseteq Seq(T \cup S) /\ Seq(S) \subseteq Seq(T \cup S)
    OBVIOUS
  <2>4. literals \in Seq(T \cup S) /\ globals \in Seq(T \cup S)
    BY <1>5, <2>1, <2>3
  <2> DEFINE U == T \cup S
  <2>5. literals \in Seq(U) /\ globals \in Seq(U) /\ Len(literals) = n
    BY <1>4, <2>4
  <2> HIDE DEF U, n
  <2>6. /\ DOMAIN (literals \o globals) = 1..(n + m)
        /\ \A i \in 1..n : (literals \o globals)[i] = literals[i]
        /\ \A i \in 1..m : (literals \o globals)[n + i] = globals[i]
    <3>1. JoinedBy(literals, globals, literals \o globals)
      <4>1. literals \in Seq(U) /\ globals \in Seq(U)
        BY <2>5
      <4> QED BY <4>1, Joined
    <3> QED BY <2>5, <3>1 DEF JoinedBy
  <2> QED BY <1>1, <2>2, <2>6
<1>7. \A a \in DOMAIN data : a \in 1..n \/ a - n \in 1..m
  BY <1>1, <1>6
<1>8. \A i \in 1..m : \E name : globals[i].label = <<"", name>>
  <2> TAKE i \in 1..m
  <2>1. PICK j \in 1..Len(identHead) : globals[i] = GlobalLabel(identHead[j], structs)
    BY <1>3 DEF LabelsOf
  <2>2. globals[i].label = <<"", identHead[j].name>>
    <3>1. GlobalLabel(identHead[j], structs).label = <<"", identHead[j].name>>
      BY DEF GlobalLabel
    <3> QED BY <2>1, <3>1
  <2> QED BY <2>2
<1>9. \A a \in 1..m : n + a \in DOMAIN data
  BY <1>1, <1>6
<1>10. ASSUME NEW a \in DOMAIN data, NEW b \in DOMAIN data, data[a].label = data[b].label
       PROVE  a = b
  <2>1. \A x \in DOMAIN data : x \in 1..n =>
            x - 1 \in Int /\ x \in Int /\ data[x].label = <<".LC", x - 1>>
    <3> SUFFICES ASSUME NEW x \in 1..n
                 PROVE  x - 1 \in Int /\ x \in Int /\ data[x].label = <<".LC", x - 1>>
      OBVIOUS
    <3>1. data[x] = literals[x]
      BY <1>6
    <3>2. literals[x].label = <<".LC", x - 1>>
      BY <1>4
    <3> QED BY <3>1, <3>2
  <2>2. \A x \in DOMAIN data : x - n \in 1..m =>
            n + (x - n) = x /\ data[x] = globals[x - n]
    BY <1>1, <1>6, SMTT(30)
  <2>3. \A x \in DOMAIN data : x - n \in 1..m => \E name : data[x].label = <<"", name>>
    BY <1>8, <2>2
  <2>4. \A x, name : <<".LC", x>> # <<"", name>>
    OBVIOUS
  <2>5. CASE a \in 1..n /\ b \in 1..n
    <3>1. <<".LC", a - 1>> = <<".LC", b - 1>>
      BY <1>10, <2>1, <2>5
    <3>2. a - 1 = b - 1
      BY <3>1
    <3> QED BY <2>5, <3>2
  <2>6. CASE a \in 1..n /\ b - n \in 1..m
    BY <1>10, <2>1, <2>3, <2>4, <2>6
  <2>7. CASE a - n \in 1..m /\ b \in 1..n
    BY <1>10, <2>1, <2>3, <2>4, <2>7
  <2>8. CASE a - n \in 1..m /\ b - n \in 1..m
    <3>1. globals[a - n].label = globals[b - n].label
      BY <1>10, <2>2, <2>8
    <3>2. a - n = b - n
      BY <1>3, <2>8, <3>1 DEF LabelsOf
    <3>3. n + (a - n) = n + (b - n)
      BY <3>2
    <3> QED BY <2>2, <2>8, <3>3
  <2> QED BY <1>7, <2>5, <2>6, <2>7, <2>8
<1>11. ASSUME NEW s \in DOMAIN strings
       PROVE  \E e \in DOMAIN data : data[e].label = <<".LC", strings[s]>>
  <2>1. s \in 1..n /\ s \in DOMAIN data
    BY <1>1, <1>6
  <2> QED BY <1>1, <1>4, <1>6, <2>1
<1>12. ASSUME NEW i \in DOMAIN identHead, identHead[i].kind = "GVAR"
       PROVE  \E e \in DOMAIN data :
                  data[e] = [label |-> <<"", identHead[i].name>>, size |-> SizeOf(i)]
  <2>1. PICK e \in 1..m : globals[e] = GlobalLabel(identHead[i], structs)
    BY <1>2, <1>3, <1>12 DEF LabelsOf, Global
  <2>2. data[n + e] = globals[e] /\ n + e \in DOMAIN data
    <3>1. e \in 1..m
      BY <2>1
    <3>2. \A a \in 1..m : data[n + a] = globals[a]
      BY <1>6
    <3> HIDE DEF n, m
    <3>3. data[n + e] = globals[e]
      BY <3>1, <3>2
    <3> QED BY <1>9, <3>1, <3>3
  <2> QED BY <2>1, <2>2 DEF GlobalLabel, SizeOf
<1> QED BY <1>10, <1>11, <1>12

\* Every global variable has one place in .data, of the size with which it is accessed,
\* every literal has its own, and no label is printed twice, although tags that were
\* declared at file scope are printed among the variables (gens).
THEOREM GlobalsArePlaced ==
    ASSUME Names \cap Tags = {}
    PROVE  Spec => []DataMatchesGlobals
<1>1. KnownInv /\ [Next]_vars => KnownInv'
  BY KnownStep
<1>2. Init => Printed
  <2> SUFFICES ASSUME Init PROVE Printed
    OBVIOUS
  <2>1. strings = <<>> /\ status # "done" /\ Len(strings) = 0
    BY DEF Init
  <2> QED BY <2>1 DEF Printed
<1> QED BY <1>1, <1>2, KnownInit, PrintedStep, KnownData, PTL DEF Spec
=============================================================================
