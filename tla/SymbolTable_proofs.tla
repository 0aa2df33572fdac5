-------------------------- MODULE SymbolTable_proofs --------------------------
(***************************************************************************)
(* The type invariant of the symbol table, for every set of names and      *)
(* every bound, what lookups and additions to the table return, and that   *)
(* what the code writes to a local of the frame overlaps no other local.   *)
(***************************************************************************)
EXTENDS SymbolTable, WellFoundedInduction, TLAPS

-----------------------------------------------------------------------------
(* Lookups. *)

\* A non-empty set of indices has a greatest element.
LEMMA GreatestIndex ==
    ASSUME NEW n \in Nat, NEW S, S \subseteq 1..n, S # {}
    PROVE  \E i \in S : \A j \in S : j <= i
<1> DEFINE T == {k \in Nat : n - k \in S}
<1> DEFINE R == {p \in Nat \X Nat : p[1] < p[2]}
<1>1. IsWellFoundedOn(R, Nat)
  BY NatLessThanWellFounded DEF OpToRel
<1>2. T \subseteq Nat /\ T # {}
  <2>1. PICK i \in S : i \in 1..n
    OBVIOUS
  <2>2. n - i \in Nat /\ n - (n - i) = i
    BY <2>1
  <2> QED BY <2>2
<1>3. PICK x \in T : \A y \in T : ~(<<y, x>> \in R)
  <2> HIDE DEF T, R
  <2> QED BY <1>1, <1>2, WFMin
<1>4. ASSUME NEW y \in T
      PROVE  x <= y
  <2>1. x \in Nat /\ y \in Nat
    OBVIOUS
  <2>2. <<y, x>> \notin R
    <3> HIDE DEF R, T
    <3> QED BY <1>3
  <2>3. <<y, x>> \in Nat \X Nat /\ <<y, x>>[1] = y /\ <<y, x>>[2] = x
    BY <2>1
  <2>4. ~(y < x)
    BY <2>2, <2>3
  <2> QED BY <2>1, <2>4
<1>5. \A j \in S : j <= n - x
  <2> TAKE j \in S
  <2>1. n - j \in T
    <3>1. n - j \in Nat /\ n - (n - j) = j
      OBVIOUS
    <3> QED BY <3>1
  <2> QED BY <2>1, <1>4
<1> QED BY <1>5

LEMMA NewestIsIn ==
    ASSUME NEW n \in Nat, NEW S, S \subseteq 1..n
    PROVE  Newest(S) \in 0..n /\ (Newest(S) # 0 => Newest(S) \in S)
<1>1. CASE S = {}
  BY <1>1 DEF Newest
<1>2. CASE S # {}
  <2>1. \E i \in S : \A j \in S : j <= i
    BY <1>2, GreatestIndex
  <2>2. Newest(S) \in S
    BY <1>2, <2>1 DEF Newest
  <2>3. Newest(S) \in 1..n
    BY <2>2
  <2> QED BY <2>2, <2>3
<1> QED BY <1>1, <1>2

\* find_identifier returns NULL or an identifier with the name; it returns NULL
\* only if no linked identifier has it.
LEMMA FindIdentifier ==
    ASSUME NEW k \in Nat, NEW idents \in Seq(Identifiers(k)), NEW name
    PROVE  LET i == find_identifier(name, idents)
           IN  /\ i \in 0..Len(idents)
               /\ i # 0 => idents[i].name = name
<1>1. \A kind : Declared(name, kind, idents) \subseteq 1..Len(idents)
  BY DEF Declared
<1>2. \A kind : LET i == Newest(Declared(name, kind, idents))
                IN  /\ i \in 0..Len(idents)
                    /\ i # 0 => i \in Declared(name, kind, idents)
  <2> TAKE kind
  <2> QED BY <1>1, NewestIsIn
<1> QED BY <1>2 DEF find_identifier, Declared

-----------------------------------------------------------------------------
(* Types. *)

LEMMA EntryReplaced ==
    ASSUME NEW S, NEW s \in Seq(S), NEW i \in 1..Len(s), NEW e \in S
    PROVE  [s EXCEPT ![i] = e] \in Seq(S) /\ Len([s EXCEPT ![i] = e]) = Len(s)
OBVIOUS

LEMMA IndicesGrow ==
    ASSUME NEW a \in Nat, NEW b \in Nat, b >= a
    PROVE  0..a \subseteq 0..b
OBVIOUS

LEMMA TypesGrow ==
    ASSUME NEW k \in Nat, NEW l \in Nat, k <= l
    PROVE  /\ Types(k) \subseteq Types(l)
           /\ MemberRecords(k) \subseteq MemberRecords(l)
           /\ Seq(MemberRecords(k)) \subseteq Seq(MemberRecords(l))
           /\ Identifiers(k) \subseteq Identifiers(l)
           /\ Seq(Identifiers(k)) \subseteq Seq(Identifiers(l))
<1>1. Types(k) \subseteq Types(l)
  BY DEF Types
<1>2. MemberRecords(k) \subseteq MemberRecords(l)
  BY <1>1 DEF MemberRecords
<1>3. Seq(MemberRecords(k)) \subseteq Seq(MemberRecords(l))
  BY <1>2
<1>4. Identifiers(k) \subseteq Identifiers(l)
  BY <1>1, <1>3 DEF Identifiers
<1> QED BY <1>1, <1>2, <1>3, <1>4

LEMMA DerivedSize ==
    ASSUME NEW mod \in Modifiers, NEW inner \in Nat
    PROVE  Derived(mod, inner) \in Nat
<1>1. mod.n \in Nat
  BY DEF Modifiers
<1>2. mod.n * inner \in Nat
  BY <1>1
<1> QED BY <1>2 DEF Derived

\* sizeofType is defined, and a size, for every type in the table.
LEMMA SizeIsNat ==
    ASSUME NEW objs \in Seq(StructObjects), NEW t \in Types(Len(objs))
    PROVE  sizeofType(t, objs) \in Nat
<1>1. BaseSize(t, objs) \in Nat
  <2>1. CASE t.base = "struct"
    <3>1. t.struct \in 0..Len(objs) /\ t.struct # 0
      BY <2>1 DEF Types
    <3>2. objs[t.struct] \in StructObjects
      BY <3>1
    <3> QED BY <2>1, <3>2 DEF BaseSize, StructObjects
  <2>2. CASE t.base # "struct"
    BY <2>2 DEF BaseSize
  <2> QED BY <2>1, <2>2
<1>2. t.mods \in Seq(Modifiers) /\ Len(t.mods) <= 2
  BY DEF Types
<1>3. \A i \in 1..Len(t.mods) : t.mods[i] \in Modifiers
  BY <1>2
<1> DEFINE inner == IF Len(t.mods) = 2 THEN Derived(t.mods[2], BaseSize(t, objs))
                    ELSE BaseSize(t, objs)
<1>4. inner \in Nat
  <2>1. CASE Len(t.mods) = 2
    <3>1. t.mods[2] \in Modifiers
      BY <2>1, <1>3
    <3>2. Derived(t.mods[2], BaseSize(t, objs)) \in Nat
      BY <3>1, <1>1, DerivedSize
    <3> QED BY <2>1, <3>2
  <2>2. CASE Len(t.mods) # 2
    BY <2>2, <1>1
  <2> QED BY <2>1, <2>2
<1>5. t.mods # <<>> => t.mods[1] \in Modifiers
  BY <1>2
<1>6. t.mods # <<>> => Derived(t.mods[1], inner) \in Nat
  <2> HIDE DEF inner
  <2> QED BY <1>4, <1>5, DerivedSize
<1> QED BY <1>1, <1>6 DEF sizeofType

LEMMA ShapesAreModifiers ==
    ASSUME NEW mods \in Shapes
    PROVE  mods \in Seq(Modifiers)
BY SymbolTableAssumption DEF ModLists

LEMMA DeriveType ==
    ASSUME NEW k \in Nat, NEW t \in Types(k), NEW mods \in Shapes,
           Len(derive(t, mods).mods) <= 2
    PROVE  /\ derive(t, mods) \in Types(k)
           /\ derive(t, mods).base = t.base
           /\ derive(t, mods).struct = t.struct
<1>1. mods \in Seq(Modifiers)
  BY ShapesAreModifiers
<1>2. mods \o t.mods \in Seq(Modifiers)
  BY <1>1 DEF Types
<1> QED BY <1>2 DEF derive, Types

-----------------------------------------------------------------------------
(* The table as a whole. *)

\* A struct object changes only until it is complete, or by a definition that makes the
\* first n identifiers outdated.
Succeeds(old, new, n) ==
    /\ new.name = old.name
    /\ \/ new = old
       \/ ~old.complete /\ new.redefined = old.redefined
       \/ new.redefined >= n

TableOK(t) ==
    /\ t.structs \in Seq(StructObjects)
    /\ t.idents \in Seq(Identifiers(Len(t.structs)))
    /\ t.offset \in Nat

LEMMA TableLengths ==
    /\ TypeOK => Len(structs) \in Nat /\ Len(identHead) \in Nat
    /\ \A u : TableOK(u) => Len(u.structs) \in Nat /\ Len(u.idents) \in Nat
<1>1. TypeOK => structs \in Seq(StructObjects)
                /\ identHead \in Seq(Identifiers(Len(structs)))
  BY DEF TypeOK
<1>2. \A u : TableOK(u) => u.structs \in Seq(StructObjects)
                         /\ u.idents \in Seq(Identifiers(Len(u.structs)))
  BY DEF TableOK
<1> QED BY <1>1, <1>2

LEMMA BlockIsNat == TypeOK => block \in Nat
<1> SUFFICES ASSUME TypeOK PROVE block \in Nat
  OBVIOUS
<1>1. blocks \in Seq(Nat)
  BY DEF TypeOK
<1>2. CASE blocks = <<>>
  BY <1>2 DEF block
<1>3. CASE blocks # <<>>
  <2>1. Len(blocks) \in 1..Len(blocks)
    BY <1>1, <1>3
  <2>2. blocks[Len(blocks)] \in Nat
    BY <1>1, <2>1
  <2> QED BY <1>3, <2>2 DEF block
<1> QED BY <1>2, <1>3

\* new_identifier keeps the table well formed, only adds to the list, and leaves
\* the struct objects alone.
LEMMA NewIdentifier ==
    ASSUME NEW t, TableOK(t), block \in Nat,
           NEW kind \in {"LVAR", "GVAR", "FUNC", "STRUCT_MEMBER"},
           NEW name \in Names \cup Tags, NEW isTag \in BOOLEAN,
           NEW type \in Types(Len(t.structs))
    PROVE  LET u == new_identifier(t, kind, name, type, isTag)
           IN  /\ TableOK(u)
               /\ u.structs = t.structs
               /\ Len(u.idents) >= Len(t.idents)
               /\ kind # "STRUCT_MEMBER" => Len(u.idents) = Len(t.idents) + 1
<1> DEFINE u == new_identifier(t, kind, name, type, isTag)
<1> DEFINE off == t.offset + Slot(sizeofType(type, t.structs))
<1>1. off \in Nat
  BY SizeIsNat DEF Slot, TableOK
<1>2. ASSUME NEW o \in Nat, kind # "STRUCT_MEMBER"
      PROVE  Identifier(kind, name, type, o, isTag) \in Identifiers(Len(t.structs))
  BY <1>2 DEF Identifier, Identifiers
<1>3. CASE kind = "STRUCT_MEMBER"
  BY <1>3 DEF new_identifier, TableOK
<1>4. CASE kind = "LVAR"
  <2> HIDE DEF off
  <2>1. /\ u.idents = Append(t.idents, Identifier(kind, name, type, off, isTag))
        /\ u.offset = off
        /\ u.structs = t.structs
    BY <1>4 DEF new_identifier, off
  <2>2. Identifier(kind, name, type, off, isTag) \in Identifiers(Len(t.structs))
    BY <1>1, <1>2, <1>4
  <2> QED BY <2>1, <2>2, <1>1 DEF TableOK
<1>5. CASE kind \in {"GVAR", "FUNC"}
  <2>1. /\ u.idents = Append(t.idents, Identifier(kind, name, type, 0, isTag))
        /\ u.offset = t.offset
        /\ u.structs = t.structs
    BY <1>5 DEF new_identifier
  <2>2. Identifier(kind, name, type, 0, isTag) \in Identifiers(Len(t.structs))
    BY <1>2, <1>5
  <2> QED BY <2>1, <2>2 DEF TableOK
<1> QED BY <1>3, <1>4, <1>5

\* typeSpec keeps the table well formed and returns a type in it.
LEMMA TypeSpec ==
    ASSUME NEW t, TableOK(t), block \in Nat,
           NEW kind \in {"LVAR", "GVAR", "STRUCT_MEMBER", "NONE"}, NEW spec \in Specs,
           kind = "NONE" /\ spec.base = "struct" => find_identifier(spec.tag, t.idents) # 0
    PROVE  LET r == typeSpec(t, kind, spec)
           IN  /\ TableOK(r.table)
               /\ r.type \in Types(Len(r.table.structs))
               /\ Len(r.table.structs) >= Len(t.structs)
               /\ Len(r.table.idents) >= Len(t.idents)
<1> DEFINE r == typeSpec(t, kind, spec)
<1> DEFINE found == find_identifier(spec.tag, t.idents)
<1>0. Len(t.structs) \in Nat /\ Len(t.idents) \in Nat
  BY DEF TableOK
<1>1. CASE spec.base # "struct"
  <2>1. r.table = t /\ r.type = new_type(spec.base)
    BY <1>1 DEF typeSpec
  <2>2. spec.base \in {"int", "char", "void"}
    BY <1>1, SymbolTableAssumption DEF Specs
  <2>3. new_type(spec.base) \in Types(Len(t.structs))
    BY <1>0, <2>2 DEF new_type, Types
  <2> QED BY <1>0, <2>1, <2>3
<1>2. CASE spec.base = "struct" /\ found # 0
  <2>1. r.table = t /\ r.type = t.idents[found].type
    BY <1>2 DEF typeSpec
  <2>2. found \in 1..Len(t.idents)
    BY <1>0, <1>2, FindIdentifier DEF TableOK
  <2>3. t.idents[found] \in Identifiers(Len(t.structs))
    BY <2>2 DEF TableOK
  <2> QED BY <1>0, <2>1, <2>3 DEF Identifiers
<1>3. CASE spec.base = "struct" /\ found = 0
  <2> DEFINE fresh == [base |-> "struct", struct |-> Len(t.structs) + 1, mods |-> <<>>]
  <2> DEFINE object == NewStruct(spec.tag)
  <2> DEFINE grown == [idents |-> t.idents, offset |-> t.offset,
                       structs |-> Append(t.structs, object)]
  <2>1. spec.tag \in Tags
    BY <1>3, SymbolTableAssumption DEF Specs
  <2>2. object \in StructObjects
    BY <2>1 DEF StructObjects, NewStruct
  <2>3. Len(grown.structs) = Len(t.structs) + 1
    BY DEF TableOK
  <2>4. TableOK(grown)
    <3>1. grown.structs \in Seq(StructObjects)
      BY <2>2, <2>3 DEF TableOK
    <3>2. grown.idents \in Seq(Identifiers(Len(grown.structs)))
      <4>1. Seq(Identifiers(Len(t.structs))) \subseteq Seq(Identifiers(Len(grown.structs)))
        <5> HIDE DEF grown
        <5> QED BY <1>0, <2>3, TypesGrow
      <4> QED BY <4>1 DEF TableOK
    <3> QED BY <2>3, <3>1, <3>2 DEF TableOK
  <2>5. fresh \in Types(Len(grown.structs))
    BY <1>0, <2>3 DEF Types
  <2>6. r = [table |-> new_identifier(grown, kind, spec.tag, fresh, TRUE), type |-> fresh]
    BY <1>3 DEF typeSpec
  <2>7. kind \in {"LVAR", "GVAR", "FUNC", "STRUCT_MEMBER"}
    BY <1>3
  <2>10. grown.idents = t.idents
    OBVIOUS
  <2> HIDE DEF grown, fresh
  <2>8. LET u == new_identifier(grown, kind, spec.tag, fresh, TRUE)
        IN  /\ TableOK(u)
            /\ u.structs = grown.structs
            /\ Len(u.idents) >= Len(grown.idents)
    BY <2>1, <2>4, <2>5, <2>7, NewIdentifier
  <2>9. r.table = new_identifier(grown, kind, spec.tag, fresh, TRUE) /\ r.type = fresh
    BY <2>6
  <2>11. TableOK(r.table) /\ r.type \in Types(Len(r.table.structs))
    BY <2>5, <2>8, <2>9
  <2>12. r.table.structs = grown.structs /\ Len(r.table.idents) >= Len(grown.idents)
    BY <2>8, <2>9
  <2>13. /\ Len(r.table.structs) >= Len(t.structs)
         /\ Len(r.table.idents) >= Len(t.idents)
    BY <1>0, <2>3, <2>10, <2>12
  <2> QED BY <2>11, <2>13
<1> QED BY <1>1, <1>2, <1>3

\* The name of an LVAR, GVAR or FUNC in the list is found.
LEMMA LinkedIsFound ==
    ASSUME NEW k \in Nat, NEW idents \in Seq(Identifiers(k)), NEW i \in 1..Len(idents)
    PROVE  find_identifier(idents[i].name, idents) # 0
<1> DEFINE name == idents[i].name
<1>1. ASSUME NEW kind, idents[i].kind = kind
      PROVE  Newest(Declared(name, kind, idents)) # 0
  <2>1. i \in Declared(name, kind, idents)
    BY <1>1 DEF Declared
  <2>2. Declared(name, kind, idents) \subseteq 1..Len(idents)
    BY DEF Declared
  <2>3. Declared(name, kind, idents) # {}
    BY <2>1
  <2> DEFINE D == Declared(name, kind, idents)
  <2> HIDE DEF D
  <2>4. \E a \in D : \A b \in D : b <= a
    BY <2>2, <2>3, GreatestIndex DEF D
  <2>5. Newest(D) \in D
    BY <2>3, <2>4 DEF Newest, D
  <2>6. Newest(D) \in 1..Len(idents)
    BY <2>2, <2>5 DEF D
  <2> QED BY <2>6 DEF D
<1>2. idents[i] \in Identifiers(k)
  OBVIOUS
<1>3. idents[i].kind \in {"LVAR", "GVAR", "FUNC"}
  BY <1>2 DEF Identifiers
<1> QED BY <1>1, <1>3 DEF find_identifier

\* typeSpec of a struct tag leaves the tag in the list, when it is one of the
\* kinds that new_identifier links.
LEMMA TagIsFound ==
    ASSUME NEW t, TableOK(t), block \in Nat, NEW kind \in {"LVAR", "GVAR"},
           NEW spec \in Specs, spec.base = "struct"
    PROVE  find_identifier(spec.tag, typeSpec(t, kind, spec).table.idents) # 0
<1> DEFINE found == find_identifier(spec.tag, t.idents)
<1> DEFINE r == typeSpec(t, kind, spec)
<1>1. CASE found # 0
  <2>1. r.table = t
    BY <1>1 DEF typeSpec
  <2> QED BY <1>1, <2>1
<1>2. CASE found = 0
  <2> DEFINE idents == r.table.idents
  <2>1. TableOK(r.table)
    BY TypeSpec
  <2>2. Len(r.table.structs) \in Nat /\ idents \in Seq(Identifiers(Len(r.table.structs)))
    BY <2>1, TableLengths DEF TableOK
  <2>3. \E ident : idents = Append(t.idents, ident) /\ ident.name = spec.tag
    <3> DEFINE fresh == [base |-> "struct", struct |-> Len(t.structs) + 1, mods |-> <<>>]
    <3> DEFINE object == NewStruct(spec.tag)
    <3> DEFINE grown == [idents |-> t.idents, offset |-> t.offset,
                         structs |-> Append(t.structs, object)]
    <3>1. r.table = new_identifier(grown, kind, spec.tag, fresh, TRUE)
      BY <1>2 DEF typeSpec
    <3>2. grown.idents = t.idents
      OBVIOUS
    <3> HIDE DEF grown, fresh, r
    <3>3. \E o : new_identifier(grown, kind, spec.tag, fresh, TRUE).idents =
                   Append(t.idents, Identifier(kind, spec.tag, fresh, o, TRUE))
      BY <3>2 DEF new_identifier
    <3>4. \A o : Identifier(kind, spec.tag, fresh, o, TRUE).name = spec.tag
      BY DEF Identifier
    <3> QED BY <3>1, <3>3, <3>4
  <2> HIDE DEF r
  <2>4. t.idents \in Seq(Identifiers(Len(t.structs)))
    BY DEF TableOK
  <2>5. PICK ident : idents = Append(t.idents, ident) /\ ident.name = spec.tag
    BY <2>3
  <2> HIDE DEF idents
  <2>6. Len(t.idents) \in Nat
    BY <2>4
  <2>7. Len(idents) = Len(t.idents) + 1 /\ idents[Len(idents)] = ident
    BY <2>4, <2>5
  <2>8. Len(idents) \in 1..Len(idents)
    BY <2>6, <2>7
  <2> DEFINE k == Len(r.table.structs)
  <2>9. k \in Nat /\ idents \in Seq(Identifiers(k))
    BY <2>2 DEF idents
  <2> HIDE DEF k
  <2>10. find_identifier(idents[Len(idents)].name, idents) # 0
    BY <2>8, <2>9, LinkedIsFound
  <2> QED BY <2>5, <2>7, <2>10 DEF idents, r
<1> QED BY <1>1, <1>2

-----------------------------------------------------------------------------
(* The type invariant. *)

LEMMA TypeInit == Init => TypeOK
<1> SUFFICES ASSUME Init PROVE TypeOK
  OBVIOUS
<1>1. structs = <<>> /\ identHead = <<>> /\ strings = <<>>
  BY DEF Init
<1>2. /\ structs \in Seq(StructObjects)
      /\ identHead \in Seq(Identifiers(Len(structs)))
      /\ strings \in Seq(Nat)
  BY <1>1
<1>3. open = [tag |-> 0, struct_size |-> 0, members |-> <<>>]
  BY DEF Init, NoStruct
<1>4. open \in [tag : 0..Len(identHead), struct_size : Nat,
                members : Seq(MemberRecords(Len(structs)))]
  BY <1>1, <1>3
<1>5. resolved \in [name : Names \cup {""}, index : 0..Len(identHead)]
  <2>1. Len(identHead) = 0
    BY <1>1
  <2>2. 0 \in 0..Len(identHead)
    BY <2>1
  <2> QED BY <2>2 DEF Init, Unbound
<1> QED BY <1>2, <1>4, <1>5 DEF Init, TypeOK

\* Setting the table to a well-formed one that is no smaller keeps what refers
\* to it well formed.
LEMMA SetTableType ==
    ASSUME TypeOK, NEW u, TableOK(u), SetTable(u),
           Len(u.structs) >= Len(structs), Len(u.idents) >= Len(identHead)
    PROVE  /\ structs' \in Seq(StructObjects)
           /\ identHead' \in Seq(Identifiers(Len(structs')))
           /\ identHeadOffset' \in Nat
           /\ Len(identHead) \in Nat
           /\ Len(identHead') \in Nat
           /\ Len(identHead') >= Len(identHead)
           /\ Len(structs') \in Nat
           /\ \A ms : ms \in Seq(MemberRecords(Len(structs)))
                         => ms \in Seq(MemberRecords(Len(structs')))
<1>1. structs' = u.structs /\ identHead' = u.idents /\ identHeadOffset' = u.offset
  BY DEF SetTable
<1>2. structs \in Seq(StructObjects) /\ identHead \in Seq(Identifiers(Len(structs)))
  BY DEF TypeOK
<1>3. u.structs \in Seq(StructObjects) /\ u.idents \in Seq(Identifiers(Len(u.structs)))
  BY DEF TableOK
<1>4. /\ Len(structs) \in Nat
      /\ Len(u.structs) \in Nat
      /\ Len(identHead) \in Nat
      /\ Len(u.idents) \in Nat
  BY <1>2, <1>3
<1>5. Seq(MemberRecords(Len(structs))) \subseteq Seq(MemberRecords(Len(u.structs)))
  BY <1>4, TypesGrow
<1>6. u.offset \in Nat
  BY DEF TableOK
<1> QED BY <1>1, <1>3, <1>4, <1>5, <1>6

\* A step that sets the table to such a table, and neither adds a literal nor
\* touches the struct that is open, keeps the type invariant.
LEMMA TypeKept ==
    ASSUME TypeOK, NEW u, TableOK(u), SetTable(u),
           Len(u.structs) >= Len(structs), Len(u.idents) >= Len(identHead),
           UNCHANGED <<strings, open>>,
           resolved' \in [name : Names \cup {""}, index : 0..Len(u.idents)],
           blocks' \in Seq(Nat), begun' \in Nat, status' \in {"parsing", "error", "done"}
    PROVE  TypeOK'
<1> DEFINE k == Len(structs)
<1>1. /\ structs' \in Seq(StructObjects)
      /\ identHead' \in Seq(Identifiers(Len(structs')))
      /\ identHeadOffset' \in Nat
      /\ Len(identHead) \in Nat
      /\ Len(identHead') \in Nat
      /\ Len(identHead') >= Len(identHead)
      /\ \A ms : ms \in Seq(MemberRecords(Len(structs)))
                    => ms \in Seq(MemberRecords(Len(structs')))
  BY SetTableType
<1>2. /\ open \in [tag : 0..Len(identHead), struct_size : Nat,
                   members : Seq(MemberRecords(Len(structs)))]
      /\ open = NoStruct \/ open.tag # 0
      /\ strings \in Seq(Nat)
  BY DEF TypeOK
<1>3. 0..Len(identHead) \subseteq 0..Len(identHead')
  BY <1>1, IndicesGrow
<1>4. open \in [tag : 0..Len(identHead'), struct_size : Nat,
                members : Seq(MemberRecords(Len(structs')))]
  BY <1>1, <1>2, <1>3
<1>5. Len(identHead') = Len(u.idents)
  BY DEF SetTable
<1>6. (open = NoStruct \/ open.tag # 0)'
  BY <1>2 DEF NoStruct
<1> QED BY <1>1, <1>2, <1>4, <1>5, <1>6 DEF TypeOK

LEMMA TableType == TypeOK => TableOK(Table)
BY DEF TypeOK, TableOK, Table

LEMMA UnboundType ==
    ASSUME NEW u, TableOK(u)
    PROVE  Unbound \in [name : Names \cup {""}, index : 0..Len(u.idents)]
BY TableLengths DEF Unbound

LEMMA declarationType ==
    ASSUME TypeOK, NEW name \in Names, NEW spec \in Specs, NEW mods \in Shapes,
           declaration(name, spec, mods)
    PROVE  TypeOK'
<1> DEFINE typed == typeSpec(Table, kindHere, spec)
<1> DEFINE type == derive(typed.type, mods)
<1> DEFINE u == new_identifier(typed.table, kindHere, name, type, FALSE)
<1>1. kindHere \in {"LVAR", "GVAR"} /\ block \in Nat
  BY BlockIsNat DEF kindHere
<1>2. TableOK(Table) /\ Table.structs = structs /\ Table.idents = identHead
  BY TableType DEF Table
<1>3. /\ TableOK(typed.table)
      /\ typed.type \in Types(Len(typed.table.structs))
      /\ Len(typed.table.structs) >= Len(structs)
      /\ Len(typed.table.idents) >= Len(identHead)
  BY <1>1, <1>2, TypeSpec
<1>4. Len(type.mods) <= 2 /\ SetTable(u)
  BY DEF declaration
<1> HIDE DEF typed
<1>5. type \in Types(Len(typed.table.structs))
  <2>1. Len(typed.table.structs) \in Nat
    BY <1>3 DEF TableOK
  <2> QED BY <1>3, <1>4, <2>1, DeriveType
<1> HIDE DEF type
<1>6. /\ TableOK(u)
      /\ u.structs = typed.table.structs
      /\ Len(u.idents) = Len(typed.table.idents) + 1
  <2>1. kindHere # "STRUCT_MEMBER" /\ name \in Names \cup Tags /\ FALSE \in BOOLEAN
    BY <1>1
  <2>2. kindHere \in {"LVAR", "GVAR", "FUNC", "STRUCT_MEMBER"}
    BY <1>1
  <2> QED BY <1>1, <1>3, <1>5, <2>1, <2>2, NewIdentifier, ZenonT(30)
<1> HIDE DEF u
<1>7. Len(u.structs) >= Len(structs) /\ Len(u.idents) >= Len(identHead)
  BY <1>3, <1>6, TableLengths
<1>8. /\ resolved' = Unbound
      /\ UNCHANGED <<strings, open, blocks, begun, status>>
  BY DEF declaration, text
<1>9. resolved' \in [name : Names \cup {""}, index : 0..Len(u.idents)]
  BY <1>6, <1>8, UnboundType
<1>10. blocks \in Seq(Nat) /\ begun \in Nat /\ status \in {"parsing", "error", "done"}
  BY DEF TypeOK
<1> QED BY <1>4, <1>6, <1>7, <1>8, <1>9, <1>10, TypeKept

\* The part of the proof that a prototype and a definition share.
LEMMA FunctionHeadType ==
    ASSUME TypeOK, NEW name \in Names, NEW spec \in Specs, NEW mods \in Shapes,
           FunctionHead(name, spec, mods), blocks' \in Seq(Nat), begun' \in Nat
    PROVE  TypeOK'
<1> DEFINE typed == typeSpec(Table, "NONE", spec)
<1> DEFINE type == derive(typed.type, mods)
<1> DEFINE u == new_identifier(typed.table, "FUNC", name, type, FALSE)
<1>1. TableOK(Table) /\ Table.structs = structs /\ Table.idents = identHead
  BY TableType DEF Table
<1>2. /\ block \in Nat /\ blocks \in Seq(Nat) /\ begun \in Nat
      /\ status \in {"parsing", "error", "done"}
  BY BlockIsNat DEF TypeOK
<1>3. resolved' = Unbound /\ UNCHANGED <<strings, open>>
  BY DEF FunctionHead
<1>4. CASE UnknownTag(spec)
  <2>1. status' = "error" /\ UNCHANGED table
    BY <1>4 DEF FunctionHead
  <2>2. resolved' \in [name : Names \cup {""}, index : 0..Len(identHead)]
    BY <1>1, <1>3, UnboundType
  <2> QED BY <1>3, <2>1, <2>2 DEF TypeOK, table, NoStruct
<1>5. CASE ~UnknownTag(spec)
  <2>1. spec.base = "struct" => find_identifier(spec.tag, identHead) # 0
    BY <1>5 DEF UnknownTag
  <2>2. /\ TableOK(typed.table)
        /\ typed.type \in Types(Len(typed.table.structs))
        /\ Len(typed.table.structs) >= Len(structs)
        /\ Len(typed.table.idents) >= Len(identHead)
    BY <1>1, <1>2, <2>1, TypeSpec
  <2>3. Len(type.mods) <= 2 /\ SetTable(u) /\ status' = status
    BY <1>5 DEF FunctionHead
  <2> HIDE DEF typed
  <2>4. type \in Types(Len(typed.table.structs))
    <3>1. Len(typed.table.structs) \in Nat
      BY <2>2 DEF TableOK
    <3> QED BY <2>2, <2>3, <3>1, DeriveType
  <2> HIDE DEF type
  <2>5. /\ TableOK(u)
        /\ u.structs = typed.table.structs
        /\ Len(u.idents) = Len(typed.table.idents) + 1
    <3>1. name \in Names \cup Tags /\ FALSE \in BOOLEAN
      OBVIOUS
    <3> QED BY <1>2, <2>2, <2>4, <3>1, NewIdentifier
  <2> HIDE DEF u
  <2>6. Len(u.structs) >= Len(structs) /\ Len(u.idents) >= Len(identHead)
    BY <2>2, <2>5, TableLengths
  <2>7. resolved' \in [name : Names \cup {""}, index : 0..Len(u.idents)]
    BY <1>3, <2>5, UnboundType
  <2> QED BY <1>2, <1>3, <2>3, <2>5, <2>6, <2>7, TypeKept
<1> QED BY <1>4, <1>5

LEMMA primary_exprType ==
    ASSUME TypeOK, NEW name \in Names, NEW called \in BOOLEAN,
           primary_expr(name, called)
    PROVE  TypeOK'
<1> DEFINE found == find_identifier(name, identHead)
<1> DEFINE u == new_identifier(Table, "FUNC", name, new_type("int"), FALSE)
<1>1. TableOK(Table) /\ Table.structs = structs /\ Table.idents = identHead
  BY TableType DEF Table
<1>2. /\ block \in Nat /\ blocks \in Seq(Nat) /\ begun \in Nat
      /\ status \in {"parsing", "error", "done"}
  BY BlockIsNat DEF TypeOK
<1>3. UNCHANGED <<strings, open, blocks, begun>>
  BY DEF primary_expr, text
<1>4. Len(structs) \in Nat /\ Len(identHead) \in Nat
  BY TableLengths
<1>5. found \in 0..Len(identHead)
  BY <1>4, FindIdentifier DEF TypeOK
<1>6. CASE found # 0
  <2>1. resolved' = [name |-> name, index |-> found] /\ UNCHANGED <<table, status>>
    BY <1>6 DEF primary_expr
  <2> HIDE DEF found
  <2>2. resolved' \in [name : Names \cup {""}, index : 0..Len(identHead)]
    BY <1>5, <2>1
  <2> QED BY <1>3, <2>1, <2>2 DEF TypeOK, table, NoStruct
<1>7. CASE found = 0 /\ called
  <2>1. /\ SetTable(u)
        /\ resolved' = [name |-> name, index |-> Len(identHead) + 1]
        /\ status' = status
    BY <1>7 DEF primary_expr
  <2>2. new_type("int") \in Types(Len(Table.structs))
    BY <1>1, <1>4 DEF new_type, Types
  <2>3. /\ TableOK(u)
        /\ u.structs = structs
        /\ Len(u.idents) = Len(identHead) + 1
    <3>1. name \in Names \cup Tags /\ FALSE \in BOOLEAN
      OBVIOUS
    <3> QED BY <1>1, <1>2, <2>2, <3>1, NewIdentifier
  <2> HIDE DEF u
  <2>4. Len(u.structs) >= Len(structs) /\ Len(u.idents) >= Len(identHead)
    BY <1>4, <2>3
  <2>5. Len(identHead) + 1 \in 0..Len(u.idents)
    BY <1>4, <2>3
  <2>6. resolved' \in [name : Names \cup {""}, index : 0..Len(u.idents)]
    BY <2>1, <2>5
  <2> QED BY <1>2, <1>3, <2>1, <2>3, <2>4, <2>6, TypeKept
<1>8. CASE found = 0 /\ ~called
  <2>1. status' = "error" /\ resolved' = Unbound /\ UNCHANGED table
    BY <1>8 DEF primary_expr
  <2>2. resolved' \in [name : Names \cup {""}, index : 0..Len(identHead)]
    BY <1>1, <2>1, UnboundType
  <2> QED BY <1>3, <2>1, <2>2 DEF TypeOK, table, NoStruct
<1> QED BY <1>6, <1>7, <1>8

\* A table is a record of its three parts.
IsTable(t) == t = [idents |-> t.idents, offset |-> t.offset, structs |-> t.structs]

LEMMA TypeSpecIsTable ==
    ASSUME NEW t, IsTable(t), NEW kind, NEW spec
    PROVE  IsTable(typeSpec(t, kind, spec).table)
<1> DEFINE fresh == [base |-> "struct", struct |-> Len(t.structs) + 1, mods |-> <<>>]
<1> DEFINE grown == [idents |-> t.idents, offset |-> t.offset,
                     structs |-> Append(t.structs, NewStruct(spec.tag))]
<1>1. \/ typeSpec(t, kind, spec).table = t
      \/ typeSpec(t, kind, spec).table = new_identifier(grown, kind, spec.tag, fresh, TRUE)
  BY DEF typeSpec
<1>2. IsTable(grown)
  BY DEF IsTable
<1> HIDE DEF grown, fresh
<1>3. IsTable(new_identifier(grown, kind, spec.tag, fresh, TRUE))
  BY <1>2 DEF new_identifier, IsTable
<1> QED BY <1>1, <1>3

\* What StructOpen makes of the table that typeSpec returns.
Reopened(t, index) ==
    LET type == t.idents[index].type
    IN  IF type.base = "struct" /\ type.mods = <<>>
        THEN [t EXCEPT !.structs = DefineAgain(@, type.struct, t.idents)]
        ELSE t

\* Beginning a member list keeps the table well formed: only the struct of the
\* tag changes, to an incomplete one of the same name.
LEMMA ReopenedTable ==
    ASSUME NEW t, IsTable(t), TableOK(t), block \in Nat, NEW index \in 1..Len(t.idents)
    PROVE  LET u == Reopened(t, index)
               type == t.idents[index].type
           IN  /\ TableOK(u)
               /\ u.idents = t.idents /\ u.offset = t.offset
               /\ Len(u.structs) = Len(t.structs)
               /\ \A s \in 1..Len(t.structs) :
                     Succeeds(t.structs[s], u.structs[s], Len(t.idents))
               /\ \A s \in 1..Len(t.structs) :
                     ~(type.base = "struct" /\ type.mods = <<>> /\ type.struct = s)
                        => u.structs[s] = t.structs[s]
               /\ type.base = "struct" /\ type.mods = <<>> =>
                     /\ type.struct \in 1..Len(t.structs)
                     /\ ~u.structs[type.struct].complete
                     /\ u.structs[type.struct].size = t.structs[type.struct].size
<1> DEFINE u == Reopened(t, index)
<1> DEFINE type == t.idents[index].type
<1> DEFINE s == type.struct
<1> DEFINE objs == t.structs
<1> DEFINE r == IF objs[s].complete THEN Len(t.idents) ELSE objs[s].redefined
<1> DEFINE new == [objs[s] EXCEPT !.complete = FALSE,
                                  !.definedIn = objs[s].definedIn \cup {block},
                                  !.redefined = r]
<1>1. /\ objs \in Seq(StructObjects)
      /\ t.idents \in Seq(Identifiers(Len(objs)))
      /\ Len(objs) \in Nat /\ Len(t.idents) \in Nat /\ t.offset \in Nat
  BY TableLengths DEF TableOK
<1>2. type \in Types(Len(objs))
  <2>1. t.idents[index] \in Identifiers(Len(objs))
    BY <1>1
  <2> QED BY <2>1 DEF Identifiers
<1>6. \A f : /\ [t EXCEPT !.structs = f].idents = t.idents
             /\ [t EXCEPT !.structs = f].offset = t.offset
             /\ [t EXCEPT !.structs = f].structs = f
  BY DEF IsTable
<1>3. CASE type.base = "struct" /\ type.mods = <<>>
  <2>1. s \in 1..Len(objs)
    BY <1>1, <1>2, <1>3 DEF Types
  <2>2. objs[s] \in StructObjects
    BY <1>1, <2>1
  <2>3. u = [t EXCEPT !.structs = [objs EXCEPT ![s] = new]]
    <3>1. u = [t EXCEPT !.structs = DefineAgain(objs, s, t.idents)]
      BY <1>3 DEF Reopened
    <3>2. DefineAgain(objs, s, t.idents) = [objs EXCEPT ![s] = new]
      <4> HIDE DEF s, objs
      <4> QED BY <1>1, <2>1 DEF DefineAgain
    <3> QED BY <3>1, <3>2
  <2>4. r \in Nat
    BY <1>1, <2>2 DEF StructObjects
  <2>5. new \in StructObjects /\ new.name = objs[s].name /\ ~new.complete
        /\ new.redefined = r /\ new.size = objs[s].size
    <3> HIDE DEF r, s, objs
    <3> QED BY <2>2, <2>4 DEF StructObjects
  <2> DEFINE news == [objs EXCEPT ![s] = new]
  <2>6. u.structs = news /\ u.idents = t.idents /\ u.offset = t.offset
    BY <2>3, <1>6, SMTT(30)
  <2> HIDE DEF new, u, r
  <2>7. /\ news \in Seq(StructObjects) /\ Len(news) = Len(objs)
        /\ news[s] = new
        /\ \A a \in 1..Len(objs) : a # s => news[a] = objs[a]
    <3> HIDE DEF s, objs
    <3> QED BY <1>1, <2>1, <2>5, EntryReplaced
  <2> HIDE DEF news
  <2>8. TableOK(u)
    BY <1>1, <2>6, <2>7 DEF TableOK
  <2>9. Succeeds(objs[s], new, Len(t.idents))
    BY <1>1, <2>5, SMTT(30) DEF Succeeds, r
  <2>10. \A a \in 1..Len(objs) : Succeeds(objs[a], news[a], Len(t.idents))
    BY <2>7, <2>9 DEF Succeeds
  <2> QED BY <1>3, <2>1, <2>5, <2>6, <2>7, <2>8, <2>10 DEF u
<1>4. CASE ~(type.base = "struct" /\ type.mods = <<>>)
  <2>1. u = t
    BY <1>4 DEF Reopened
  <2> QED BY <1>1, <1>4, <2>1 DEF Succeeds
<1> QED BY <1>3, <1>4

LEMMA StructOpenType ==
    ASSUME TypeOK, NEW tag \in Tags, StructOpen(tag)
    PROVE  TypeOK'
<1> DEFINE spec == [base |-> "struct", tag |-> tag]
<1> DEFINE typed == typeSpec(Table, kindHere, spec)
<1> DEFINE index == find_identifier(tag, typed.table.idents)
<1> DEFINE u == Reopened(typed.table, index)
<1>1. TableOK(Table) /\ Table.structs = structs /\ Table.idents = identHead
  BY TableType DEF Table
<1>2. /\ block \in Nat /\ blocks \in Seq(Nat) /\ begun \in Nat
      /\ status \in {"parsing", "error", "done"}
      /\ strings \in Seq(Nat)
  BY BlockIsNat DEF TypeOK
<1>3. kindHere \in {"LVAR", "GVAR"}
  BY DEF kindHere
<1>4. spec \in Specs
  BY DEF Specs
<1>5. /\ TableOK(typed.table)
      /\ Len(typed.table.structs) >= Len(structs)
      /\ Len(typed.table.idents) >= Len(identHead)
      /\ find_identifier(tag, typed.table.idents) # 0
  <2> HIDE DEF spec
  <2>1. spec.base = "struct" /\ spec.tag = tag
    BY DEF spec
  <2>2. find_identifier(tag, typed.table.idents) # 0
    BY <1>1, <1>2, <1>3, <1>4, <2>1, TagIsFound
  <2> QED BY <1>1, <1>2, <1>3, <1>4, <2>2, TypeSpec
<1>6. SetTable(u)
  BY DEF StructOpen, Reopened
<1>7. open' = [tag |-> index, struct_size |-> 0, members |-> <<>>]
  BY DEF StructOpen
<1> HIDE DEF typed
<1>8. index \in 0..Len(typed.table.idents)
  <2>1. Len(typed.table.structs) \in Nat
    BY <1>5, TableLengths
  <2> QED BY <1>5, <2>1, FindIdentifier DEF TableOK
<1> HIDE DEF index
<1>15. /\ TableOK(u) /\ u.idents = typed.table.idents
       /\ Len(u.structs) = Len(typed.table.structs)
  <2>1. Len(typed.table.idents) \in Nat /\ index # 0
    BY <1>5, TableLengths DEF index
  <2>2. index \in 1..Len(typed.table.idents)
    BY <1>8, <2>1
  <2>3. IsTable(typed.table)
    BY TypeSpecIsTable DEF typed, IsTable, Table
  <2> QED BY <1>2, <1>5, <2>2, <2>3, ReopenedTable
<1> HIDE DEF u
<1>9. /\ structs' \in Seq(StructObjects)
      /\ identHead' \in Seq(Identifiers(Len(structs')))
      /\ identHeadOffset' \in Nat
  BY <1>5, <1>6, <1>15, SetTableType
<1>10. Len(identHead') = Len(typed.table.idents)
  BY <1>6, <1>15 DEF SetTable
<1>11. open' \in [tag : 0..Len(identHead'), struct_size : Nat,
                  members : Seq(MemberRecords(Len(structs')))]
  <2>1. open'.tag = index /\ open'.struct_size = 0 /\ open'.members = <<>>
    BY <1>7
  <2>2. <<>> \in Seq(MemberRecords(Len(structs')))
    OBVIOUS
  <2> QED BY <1>7, <1>8, <1>10, <2>2
<1>12. open'.tag # 0
  BY <1>5, <1>7 DEF index
<1>13. /\ resolved' = Unbound
       /\ UNCHANGED <<strings, blocks, begun, status>>
  BY DEF StructOpen, text
<1>14. resolved' \in [name : Names \cup {""}, index : 0..Len(identHead')]
  BY <1>5, <1>10, <1>13, UnboundType
<1> QED BY <1>2, <1>9, <1>11, <1>12, <1>13, <1>14 DEF TypeOK

LEMMA StructMemberType ==
    ASSUME TypeOK, NEW name \in Members, NEW spec \in Specs, NEW mods \in Shapes,
           StructMember(name, spec, mods)
    PROVE  TypeOK'
<1> DEFINE typed == typeSpec(Table, "STRUCT_MEMBER", spec)
<1> DEFINE type == derive(typed.type, mods)
<1> DEFINE size == sizeofType(type, typed.table.structs)
<1> DEFINE member == [name |-> name, type |-> type, offset |-> open.struct_size]
<1> DEFINE idents == typed.table.idents
<1> DEFINE listed == [idents EXCEPT ![open.tag].members = Append(open.members, member)]
<1> DEFINE u == [idents |-> listed, offset |-> typed.table.offset,
                 structs |-> typed.table.structs]
<1> DEFINE k == Len(typed.table.structs)
<1>1. TableOK(Table) /\ Table.structs = structs /\ Table.idents = identHead
  BY TableType DEF Table
<1>2. /\ block \in Nat /\ blocks \in Seq(Nat) /\ begun \in Nat
      /\ status \in {"parsing", "error", "done"}
      /\ strings \in Seq(Nat)
      /\ open \in [tag : 0..Len(identHead), struct_size : Nat,
                   members : Seq(MemberRecords(Len(structs)))]
      /\ open = NoStruct \/ open.tag # 0
  BY BlockIsNat DEF TypeOK
<1>3. /\ open # NoStruct
      /\ Len(type.mods) <= 2
      /\ SetTable(u)
      /\ open' = [open EXCEPT !.struct_size = @ + Slot(size),
                              !.members = Append(@, member)]
      /\ resolved' = Unbound
      /\ UNCHANGED <<strings, blocks, begun, status>>
  BY DEF StructMember, text
<1>4. /\ TableOK(typed.table)
      /\ typed.type \in Types(k)
      /\ k >= Len(structs)
      /\ Len(idents) >= Len(identHead)
  BY <1>1, <1>2, TypeSpec
<1>5. k \in Nat /\ idents \in Seq(Identifiers(k)) /\ typed.table.structs \in Seq(StructObjects)
  BY <1>4, TableLengths DEF TableOK
<1> HIDE DEF typed, k
<1>6. type \in Types(k)
  BY <1>3, <1>4, <1>5, DeriveType
<1> HIDE DEF type
<1>7. size \in Nat
  BY <1>5, <1>6, SizeIsNat DEF k
<1>8. Slot(size) \in Nat
  BY <1>7 DEF Slot
<1> HIDE DEF size
<1>9. Len(structs) \in Nat /\ Len(identHead) \in Nat /\ Len(idents) \in Nat
  BY <1>5, TableLengths
<1>10. Seq(MemberRecords(Len(structs))) \subseteq Seq(MemberRecords(k))
  BY <1>4, <1>5, <1>9, TypesGrow
<1>11. member \in MemberRecords(k)
  BY <1>2, <1>6 DEF MemberRecords
<1> HIDE DEF member
<1>12. Append(open.members, member) \in Seq(MemberRecords(k))
  <2>1. open.members \in Seq(MemberRecords(k))
    BY <1>2, <1>10
  <2> QED BY <1>11, <2>1
<1>13. open.tag \in 1..Len(idents)
  <2>1. open.tag \in 0..Len(identHead) /\ open.tag # 0
    BY <1>2, <1>3
  <2> QED BY <1>4, <1>9, <2>1
<1>14. listed \in Seq(Identifiers(k)) /\ Len(listed) = Len(idents)
  <2> DEFINE new == [idents[open.tag] EXCEPT !.members = Append(open.members, member)]
  <2>1. idents[open.tag] \in Identifiers(k)
    BY <1>5, <1>13
  <2>2. new \in Identifiers(k)
    BY <1>12, <2>1 DEF Identifiers
  <2>3. listed = [idents EXCEPT ![open.tag] = new]
    BY <1>5, <1>13
  <2> HIDE DEF new, idents, listed
  <2> QED BY <1>5, <1>13, <2>2, <2>3, EntryReplaced
<1> HIDE DEF listed, idents
<1>15. TableOK(u)
  <2>1. typed.table.offset \in Nat
    BY <1>4 DEF TableOK
  <2> QED BY <1>5, <1>14, <2>1 DEF TableOK, k
<1>16. u.idents = listed /\ Len(u.structs) = k
  BY DEF k
<1> HIDE DEF u
<1>17. /\ structs' \in Seq(StructObjects)
       /\ identHead' \in Seq(Identifiers(Len(structs')))
       /\ identHeadOffset' \in Nat
  BY <1>3, <1>4, <1>14, <1>15, <1>16, SetTableType
<1>18. Len(structs') = k /\ Len(identHead') = Len(idents)
  BY <1>3, <1>14, <1>16 DEF SetTable
<1>19. open' \in [tag : 0..Len(identHead'), struct_size : Nat,
                  members : Seq(MemberRecords(Len(structs')))]
  <2>1. /\ open'.tag = open.tag
        /\ open'.struct_size = open.struct_size + Slot(size)
        /\ open'.members = Append(open.members, member)
        /\ open' = [tag |-> open'.tag, struct_size |-> open'.struct_size,
                    members |-> open'.members]
    BY <1>2, <1>3
  <2>2. open.struct_size + Slot(size) \in Nat
    BY <1>2, <1>8
  <2>3. open.tag \in 0..Len(identHead')
    BY <1>9, <1>13, <1>18
  <2> QED BY <1>12, <1>18, <2>1, <2>2, <2>3
<1>20. open'.tag # 0
  BY <1>2, <1>3
<1>21. resolved' \in [name : Names \cup {""}, index : 0..Len(identHead')]
  <2>1. Len(identHead') = Len(u.idents)
    BY <1>14, <1>16, <1>18
  <2> QED BY <1>3, <1>15, <2>1, UnboundType
<1> QED BY <1>2, <1>3, <1>17, <1>19, <1>20, <1>21 DEF TypeOK

LEMMA StructCloseType ==
    ASSUME TypeOK, StructClose
    PROVE  TypeOK'
<1> DEFINE type == identHead[open.tag].type
<1>1. /\ structs \in Seq(StructObjects)
      /\ identHead \in Seq(Identifiers(Len(structs)))
      /\ identHeadOffset \in Nat /\ blocks \in Seq(Nat) /\ begun \in Nat
      /\ status \in {"parsing", "error", "done"}
      /\ strings \in Seq(Nat)
      /\ open \in [tag : 0..Len(identHead), struct_size : Nat,
                   members : Seq(MemberRecords(Len(structs)))]
      /\ open = NoStruct \/ open.tag # 0
  BY DEF TypeOK
<1>2. /\ open # NoStruct
      /\ structs' = IF type.base = "struct" /\ type.mods = <<>>
                    THEN [structs EXCEPT ![type.struct] =
                              [@ EXCEPT !.size = open.struct_size, !.complete = TRUE]]
                    ELSE structs
      /\ open' = NoStruct
      /\ resolved' = Unbound
      /\ UNCHANGED <<identHead, identHeadOffset, strings, blocks, begun, status>>
  BY DEF StructClose, text
<1>3. Len(structs) \in Nat /\ Len(identHead) \in Nat
  BY TableLengths
<1>4. type \in Types(Len(structs))
  <2>1. open.tag \in 1..Len(identHead)
    BY <1>1, <1>2, <1>3
  <2>2. identHead[open.tag] \in Identifiers(Len(structs))
    BY <1>1, <2>1
  <2> QED BY <2>2 DEF Identifiers
<1> HIDE DEF type
<1>5. structs' \in Seq(StructObjects) /\ Len(structs') = Len(structs)
  <2>1. CASE type.base = "struct" /\ type.mods = <<>>
    <3> DEFINE s == type.struct
    <3> DEFINE new == [structs[s] EXCEPT !.size = open.struct_size, !.complete = TRUE]
    <3>1. s \in 1..Len(structs)
      BY <1>3, <1>4, <2>1 DEF Types
    <3>2. structs[s] \in StructObjects
      BY <1>1, <3>1
    <3>3. new \in StructObjects
      BY <1>1, <3>2 DEF StructObjects
    <3>4. structs' = [structs EXCEPT ![s] = new]
      BY <1>2, <2>1
    <3> HIDE DEF s, new
    <3> QED BY <1>1, <3>1, <3>3, <3>4, EntryReplaced
  <2>2. CASE ~(type.base = "struct" /\ type.mods = <<>>)
    BY <1>1, <1>2, <2>2
  <2> QED BY <2>1, <2>2
<1>6. open' \in [tag : 0..Len(identHead), struct_size : Nat,
                 members : Seq(MemberRecords(Len(structs)))]
  <2>1. 0 \in 0..Len(identHead)
    BY <1>3
  <2> QED BY <1>2, <2>1 DEF NoStruct
<1>7. resolved' \in [name : Names \cup {""}, index : 0..Len(identHead)]
  <2>1. TableOK(Table) /\ Table.idents = identHead
    BY TableType DEF Table
  <2> QED BY <1>2, <2>1, UnboundType
<1>8. (open = NoStruct)'
  BY <1>2 DEF NoStruct
<1> QED BY <1>1, <1>2, <1>5, <1>6, <1>7, <1>8 DEF TypeOK

\* The steps that leave the table, and the struct that is open, alone.
OtherStep == BlockBegin \/ BlockEnd \/ FunctionEnd \/ new_string_vector \/ gens

LEMMA OtherStepsType ==
    ASSUME TypeOK, OtherStep \/ UNCHANGED vars
    PROVE  TypeOK'
<1>1. Unbound \in [name : Names \cup {""}, index : 0..Len(identHead)]
  <2>1. TableOK(Table) /\ Table.idents = identHead
    BY TableType DEF Table
  <2> QED BY <2>1, UnboundType
<1>2. CASE FunctionEnd
  <2>1. blocks' = <<>> /\ begun' = begun /\ <<>> \in Seq(Nat)
    BY <1>2 DEF FunctionEnd
  <2> QED BY <1>1, <1>2, <2>1 DEF FunctionEnd, table, TypeOK, NoStruct
<1>6. CASE BlockBegin
  <2>1. blocks' = Append(blocks, begun + 1) /\ begun' = begun + 1
    BY <1>6 DEF BlockBegin
  <2>2. blocks \in Seq(Nat) /\ begun \in Nat
    BY DEF TypeOK
  <2>3. blocks' \in Seq(Nat) /\ begun' \in Nat
    BY <2>1, <2>2
  <2> QED BY <1>1, <1>6, <2>3 DEF BlockBegin, table, TypeOK, NoStruct
<1>7. CASE BlockEnd
  <2>1. blocks \in Seq(Nat) /\ Len(blocks) > 1
    BY <1>7 DEF BlockEnd, TypeOK
  <2>2. SubSeq(blocks, 1, Len(blocks) - 1) \in Seq(Nat)
    BY <2>1
  <2> QED BY <1>1, <1>7, <2>2 DEF BlockEnd, table, TypeOK, NoStruct
<1>3. CASE new_string_vector
  <2>1. strings \in Seq(Nat) /\ strings' = Append(strings, Len(strings))
    BY <1>3 DEF new_string_vector, TypeOK
  <2>2. Len(strings) \in Nat
    BY <2>1
  <2>3. strings' \in Seq(Nat)
    BY <2>1, <2>2
  <2> QED BY <1>1, <1>3, <2>3 DEF new_string_vector, table, text, TypeOK, NoStruct
<1>4. CASE gens
  BY <1>1, <1>4 DEF gens, table, text, TypeOK, NoStruct
<1>5. CASE UNCHANGED vars
  BY <1>5 DEF vars, table, text, TypeOK, NoStruct
<1> QED BY <1>2, <1>3, <1>4, <1>5, <1>6, <1>7 DEF OtherStep

LEMMA TypeStep == TypeOK /\ [Next]_vars => TypeOK'
<1> SUFFICES ASSUME TypeOK, [Next]_vars PROVE TypeOK'
  OBVIOUS
<1>1. ASSUME NEW name \in Names, NEW spec \in Specs, NEW mods \in Shapes,
             \/ declaration(name, spec, mods)
             \/ funcPrototype(name, spec, mods)
             \/ funcDefine(name, spec, mods)
      PROVE  TypeOK'
  <2>1. CASE declaration(name, spec, mods)
    BY <2>1, declarationType
  <2>2. CASE funcPrototype(name, spec, mods)
    <3>1. FunctionHead(name, spec, mods) /\ blocks' \in Seq(Nat) /\ begun' \in Nat
      BY <2>2 DEF funcPrototype, text, TypeOK
    <3> QED BY <3>1, FunctionHeadType
  <2>3. CASE funcDefine(name, spec, mods)
    <3>1. FunctionHead(name, spec, mods) /\ blocks \in Seq(Nat) /\ begun \in Nat
      BY <2>3 DEF funcDefine, TypeOK
    <3>2. blocks' \in Seq(Nat) /\ begun' \in Nat
      <4>1. <<begun + 1>> \in Seq(Nat) /\ begun + 1 \in Nat
        BY <3>1
      <4> QED BY <2>3, <3>1, <4>1 DEF funcDefine, text
    <3> QED BY <3>1, <3>2, FunctionHeadType
  <2> QED BY <1>1, <2>1, <2>2, <2>3
<1>2. ASSUME NEW name \in Members, NEW spec \in Specs, NEW mods \in Shapes,
             StructMember(name, spec, mods)
      PROVE  TypeOK'
  BY <1>2, StructMemberType
<1>3. ASSUME NEW tag \in Tags, StructOpen(tag)
      PROVE  TypeOK'
  BY <1>3, StructOpenType
<1>4. ASSUME NEW name \in Names, NEW called \in BOOLEAN, primary_expr(name, called)
      PROVE  TypeOK'
  BY <1>4, primary_exprType
<1>5. CASE StructClose
  BY <1>5, StructCloseType
<1>6. CASE OtherStep \/ UNCHANGED vars
  BY <1>6, OtherStepsType
<1> QED BY <1>1, <1>2, <1>3, <1>4, <1>5, <1>6 DEF Next, Stopped, OtherStep

\* No type, member or identifier refers to a struct object that does not exist,
\* so that sizeofType is defined on everything gen() asks it about, and the name
\* last bound is in the list (new_identifier, typeSpec, primary_expr).
THEOREM TypeCorrect == Spec => []TypeOK
BY TypeInit, TypeStep, PTL DEF Spec
-----------------------------------------------------------------------------
(* The frame: what the code writes to a local overlaps no other local      *)
(* (SlotsDisjoint), for every set of names and every bound.                *)
(*                                                                         *)
(* SlotsDisjoint alone is not inductive: "}" of a struct could resize the  *)
(* type of a local that exists.  It does not, unless the struct has been   *)
(* defined again: an object is declared with a complete type, and a struct *)
(* is only incomplete while no object, or none that is not outdated, has   *)
(* it.  The invariant says so: Placed (the slots are disjoint and the types*)
(* of the objects complete, but for those that are outdated) and           *)
(* OpenIsIncomplete.  Tagged (an identifier is a tag exactly when its name *)
(* is one, and then its type is the struct of that name) is about programs *)
(* whose struct tags are not names of their variables, for the lookups.    *)

Tagged(t) ==
    \A i \in 1..Len(t.idents) :
        /\ t.idents[i].isTag <=> t.idents[i].name \in Tags
        /\ t.idents[i].isTag =>
              /\ t.idents[i].type.base = "struct"
              /\ t.structs[t.idents[i].type.struct].name = t.idents[i].name

Room(type, objs) == Slot(sizeofType(type, objs))

\* The j-th identifier is an object, of the size that it was declared with.
Current(t, j) ==
    /\ t.idents[j].kind \in {"LVAR", "GVAR"}
    /\ ~t.idents[j].isTag
    /\ ~Outdated(t.idents[j].type, j, t.structs)

Placed(t) ==
    \A j \in 1..Len(t.idents) :
        /\ Current(t, j) => Complete(t.idents[j].type, t.structs)
        /\ t.idents[j].kind = "LVAR" => t.idents[j].offset <= t.offset
        /\ Current(t, j) /\ t.idents[j].kind = "LVAR" =>
              /\ Room(t.idents[j].type, t.structs) <= t.idents[j].offset
              /\ \A i \in 1..(j - 1) : t.idents[i].kind = "LVAR" =>
                    t.idents[i].offset + Room(t.idents[j].type, t.structs)
                        <= t.idents[j].offset

Layout(t) ==
    /\ TableOK(t)
    /\ Names \cap Tags = {} => Tagged(t)
    /\ Placed(t)

OpenIsIncomplete ==
    open # NoStruct =>
        LET type == identHead[open.tag].type
        IN  /\ Names \cap Tags = {} => identHead[open.tag].isTag
            /\ type.base = "struct" /\ type.mods = <<>> => ~structs[type.struct].complete

SlotsInv == TypeOK /\ Layout(Table) /\ OpenIsIncomplete

-----------------------------------------------------------------------------
(* Sizes. *)

\* The size of a pointer is the same wherever its struct is.
LEMMA PointingSize ==
    ASSUME NEW k \in Nat, NEW type \in Types(k), Pointing(type), NEW objs, NEW news
    PROVE  sizeofType(type, news) = sizeofType(type, objs)
<1>1. type.mods \in Seq(Modifiers) /\ Len(type.mods) <= 2
  BY DEF Types
<1>2. PICK i \in 1..Len(type.mods) : type.mods[i].kind = "ptr"
  BY <1>1 DEF Pointing
<1>3. \A inner : Derived(type.mods[i], inner) = 8
  BY <1>2 DEF Derived
<1>4. type.mods # <<>>
  BY <1>1, <1>2
<1>5. CASE i = 1
  BY <1>3, <1>4, <1>5 DEF sizeofType
<1>6. CASE i = 2
  <2>1. Len(type.mods) \in Nat /\ Len(type.mods) <= 2
    BY <1>1
  <2>2. 2 \in 1..Len(type.mods)
    BY <1>2, <1>6
  <2>3. Len(type.mods) = 2
    <3> DEFINE l == Len(type.mods)
    <3> HIDE DEF l
    <3>1. l \in Nat /\ l <= 2 /\ 2 \in 1..l
      BY <2>1, <2>2 DEF l
    <3>2. l = 2
      BY <3>1
    <3> QED BY <3>2 DEF l
  <2>4. \A inner : Derived(type.mods[2], inner) = 8
    BY <1>3, <1>6
  <2>5. \A o : sizeofType(type, o) = Derived(type.mods[1], 8)
    BY <1>4, <2>3, <2>4 DEF sizeofType
  <2> QED BY <2>5
<1>7. i = 1 \/ i = 2
  BY <1>1, <1>2
<1> QED BY <1>5, <1>6, <1>7

\* A type that is complete, and not outdated by what happens to the structs, stays
\* complete and of the same size.
LEMMA CompleteSize ==
    ASSUME NEW objs \in Seq(StructObjects), NEW news \in Seq(StructObjects),
           NEW type \in Types(Len(objs)), NEW n \in Nat, NEW i \in 1..n,
           ~Outdated(type, i, news),
           ~Outdated(type, i, objs) => Complete(type, objs),
           \A s \in 1..Len(objs) : s \in 1..Len(news) /\ Succeeds(objs[s], news[s], n)
    PROVE  /\ ~Outdated(type, i, objs)
           /\ Complete(type, news)
           /\ sizeofType(type, news) = sizeofType(type, objs)
<1>1. Len(objs) \in Nat /\ (type.base = "struct" => type.struct \in 1..Len(objs))
  BY DEF Types
<1>2. CASE Pointing(type)
  BY <1>1, <1>2, PointingSize DEF Complete, Outdated
<1>3. CASE ~Pointing(type) /\ type.base # "struct"
  <2>1. ~Outdated(type, i, objs) /\ Complete(type, objs)
    BY <1>3 DEF Outdated
  <2>2. type.base \in {"int", "char"}
    BY <1>3, <2>1 DEF Complete
  <2> QED BY <2>1, <2>2 DEF Complete, sizeofType, BaseSize
<1>4. CASE ~Pointing(type) /\ type.base = "struct"
  <2> DEFINE old == objs[type.struct]
  <2> DEFINE new == news[type.struct]
  <2>1. Succeeds(old, new, n) /\ new.redefined \in Nat /\ old.redefined \in Nat
    <3>1. type.struct \in 1..Len(objs) /\ type.struct \in 1..Len(news)
      BY <1>1, <1>4
    <3>2. old \in StructObjects /\ new \in StructObjects
      BY <3>1
    <3> QED BY <3>1, <3>2 DEF StructObjects
  <2>2. ~(i <= new.redefined)
    BY <1>4 DEF Outdated
  <2>3. Outdated(type, i, objs) <=> i <= old.redefined
    BY <1>4 DEF Outdated
  <2>4. Complete(type, objs) <=> old.complete
    BY <1>4 DEF Complete
  <2> HIDE DEF old, new
  <2>5. ~(new.redefined >= n)
    BY <2>1, <2>2
  <2>6. new = old
    BY <2>1, <2>2, <2>3, <2>4, <2>5 DEF Succeeds
  <2>7. old.complete /\ ~Outdated(type, i, objs)
    BY <2>2, <2>3, <2>4, <2>6
  <2>8. BaseSize(type, news) = BaseSize(type, objs)
    BY <1>4, <2>6 DEF BaseSize, old, new
  <2> QED BY <1>4, <2>6, <2>7, <2>8 DEF Complete, sizeofType, old, new
<1> QED BY <1>2, <1>3, <1>4

LEMMA RoomIsNat ==
    ASSUME NEW objs \in Seq(StructObjects), NEW type \in Types(Len(objs))
    PROVE  Room(type, objs) \in Nat /\ Room(type, objs) >= 8
BY SizeIsNat DEF Room, Slot

-----------------------------------------------------------------------------
(* Changes of the table. *)

\* A change that leaves the identifiers where they are, and changes structs only
\* until they are complete or when they are defined again, keeps the layout.
LEMMA LayoutKept ==
    ASSUME NEW t, Layout(t), NEW u, TableOK(u),
           u.offset = t.offset,
           Len(u.idents) = Len(t.idents),
           \A i \in 1..Len(t.idents) :
               /\ u.idents[i].kind = t.idents[i].kind
               /\ u.idents[i].name = t.idents[i].name
               /\ u.idents[i].type = t.idents[i].type
               /\ u.idents[i].offset = t.idents[i].offset
               /\ u.idents[i].isTag = t.idents[i].isTag,
           \A s \in 1..Len(t.structs) :
               /\ s \in 1..Len(u.structs)
               /\ Succeeds(t.structs[s], u.structs[s], Len(t.idents))
    PROVE  Layout(u)
<1>1. /\ t.structs \in Seq(StructObjects)
      /\ u.structs \in Seq(StructObjects)
      /\ Len(t.idents) \in Nat
      /\ \A i \in 1..Len(t.idents) : t.idents[i] \in Identifiers(Len(t.structs))
  BY DEF Layout, TableOK
<1>2. \A i \in 1..Len(t.idents) : t.idents[i].type \in Types(Len(t.structs))
  BY <1>1 DEF Identifiers
<1>3. ASSUME Names \cap Tags = {}
      PROVE  Tagged(u)
  <2> SUFFICES ASSUME NEW i \in 1..Len(t.idents)
               PROVE  /\ u.idents[i].isTag <=> u.idents[i].name \in Tags
                      /\ u.idents[i].isTag =>
                            /\ u.idents[i].type.base = "struct"
                            /\ u.structs[u.idents[i].type.struct].name = u.idents[i].name
    BY DEF Tagged
  <2>1. /\ t.idents[i].isTag <=> t.idents[i].name \in Tags
        /\ t.idents[i].isTag =>
              /\ t.idents[i].type.base = "struct"
              /\ t.structs[t.idents[i].type.struct].name = t.idents[i].name
    BY <1>3 DEF Layout, Tagged
  <2>2. t.idents[i].isTag => t.idents[i].type.struct \in 1..Len(t.structs)
    BY <1>2, <2>1 DEF Types
  <2> QED BY <2>1, <2>2 DEF Succeeds
<1>4. ASSUME NEW j \in 1..Len(t.idents), Current(u, j)
      PROVE  /\ Current(t, j)
             /\ Complete(t.idents[j].type, u.structs)
             /\ Room(t.idents[j].type, u.structs) = Room(t.idents[j].type, t.structs)
  <2> DEFINE type == t.idents[j].type
  <2>1. /\ type \in Types(Len(t.structs)) /\ ~Outdated(type, j, u.structs)
        /\ ~Outdated(type, j, t.structs) <=> Current(t, j)
    BY <1>2, <1>4 DEF Current
  <2>2. Current(t, j) => Complete(type, t.structs)
    BY DEF Layout, Placed
  <2> HIDE DEF type
  <2>3. /\ ~Outdated(type, j, t.structs)
        /\ Complete(type, u.structs)
        /\ sizeofType(type, u.structs) = sizeofType(type, t.structs)
    BY <1>1, <2>1, <2>2, CompleteSize
  <2> QED BY <2>1, <2>3 DEF Room, type
<1>5. Placed(u)
  <2> SUFFICES ASSUME NEW j \in 1..Len(t.idents)
               PROVE  /\ Current(u, j) => Complete(u.idents[j].type, u.structs)
                      /\ u.idents[j].kind = "LVAR" => u.idents[j].offset <= u.offset
                      /\ Current(u, j) /\ u.idents[j].kind = "LVAR" =>
                            /\ Room(u.idents[j].type, u.structs) <= u.idents[j].offset
                            /\ \A i \in 1..(j - 1) : u.idents[i].kind = "LVAR" =>
                                  u.idents[i].offset + Room(u.idents[j].type, u.structs)
                                      <= u.idents[j].offset
    BY DEF Placed
  <2>1. \A i \in 1..(j - 1) : i \in 1..Len(t.idents)
    BY <1>1
  <2>2. /\ t.idents[j].kind = "LVAR" => t.idents[j].offset <= t.offset
        /\ Current(t, j) /\ t.idents[j].kind = "LVAR" =>
              /\ Room(t.idents[j].type, t.structs) <= t.idents[j].offset
              /\ \A i \in 1..(j - 1) : t.idents[i].kind = "LVAR" =>
                    t.idents[i].offset + Room(t.idents[j].type, t.structs)
                        <= t.idents[j].offset
    BY DEF Layout, Placed
  <2> QED BY <1>4, <2>1, <2>2
<1> QED BY <1>3, <1>5 DEF Layout

\* new_identifier keeps the layout: a local gets a slot past all that are taken.
LEMMA LayoutGrows ==
    ASSUME NEW t, Layout(t), block \in Nat,
           NEW kind \in {"LVAR", "GVAR", "FUNC", "STRUCT_MEMBER"},
           NEW name \in Names \cup Tags, NEW isTag \in BOOLEAN,
           NEW type \in Types(Len(t.structs)),
           Names \cap Tags = {} => (isTag <=> name \in Tags),
           isTag => type.base = "struct" /\ t.structs[type.struct].name = name,
           kind \in {"LVAR", "GVAR"} /\ ~isTag => Complete(type, t.structs)
    PROVE  Layout(new_identifier(t, kind, name, type, isTag))
<1> DEFINE u == new_identifier(t, kind, name, type, isTag)
<1> DEFINE n == Len(t.idents)
<1> DEFINE off == IF kind = "LVAR" THEN t.offset + Room(type, t.structs) ELSE 0
<1> DEFINE new == Identifier(kind, name, type, off, isTag)
<1>1. CASE kind = "STRUCT_MEMBER"
  BY <1>1 DEF new_identifier
<1>2. CASE kind # "STRUCT_MEMBER"
  <2>1. TableOK(u)
    BY NewIdentifier DEF Layout
  <2>2. /\ u.structs = t.structs
        /\ u.idents = Append(t.idents, new)
        /\ u.offset = IF kind = "LVAR" THEN off ELSE t.offset
    BY <1>2 DEF new_identifier, Room
  <2>3. /\ new.kind = kind /\ new.name = name /\ new.type = type
        /\ new.offset = off /\ new.isTag = isTag
    BY DEF Identifier
  <2>4. /\ t.idents \in Seq(Identifiers(Len(t.structs)))
        /\ t.structs \in Seq(StructObjects)
        /\ t.offset \in Nat
    BY DEF Layout, TableOK
  <2>5. Room(type, t.structs) \in Nat
    BY <2>4, RoomIsNat
  <2> HIDE DEF u, new
  <2>6. /\ n \in Nat
        /\ Len(u.idents) = n + 1
        /\ \A i \in 1..n : u.idents[i] = t.idents[i]
        /\ u.idents[n + 1] = new
    BY <2>2, <2>4
  <2>7. u.offset \in Nat /\ t.offset <= u.offset
    BY <2>2, <2>4, <2>5
  <2>8. \A i \in 1..n : t.idents[i].kind = "LVAR" =>
                           t.idents[i].offset \in Nat /\ t.idents[i].offset <= t.offset
    <3>1. \A i \in 1..n : t.idents[i] \in Identifiers(Len(t.structs))
      BY <2>4
    <3>2. \A i \in 1..n : t.idents[i].offset \in Nat
      BY <3>1 DEF Identifiers
    <3> QED BY <3>2 DEF Layout, Placed
  <2>9. ASSUME Names \cap Tags = {}
        PROVE  Tagged(u)
    <3> SUFFICES ASSUME NEW i \in 1..(n + 1)
                 PROVE  /\ u.idents[i].isTag <=> u.idents[i].name \in Tags
                        /\ u.idents[i].isTag =>
                              /\ u.idents[i].type.base = "struct"
                              /\ t.structs[u.idents[i].type.struct].name = u.idents[i].name
      BY <2>2, <2>6, SMTT(30) DEF Tagged
    <3>1. CASE i \in 1..n
      BY <2>6, <2>9, <3>1 DEF Layout, Tagged
    <3>2. CASE i = n + 1
      BY <2>3, <2>6, <2>9, <3>2
    <3> QED BY <2>6, <3>1, <3>2
  <2>10. Placed(u)
    <3> SUFFICES ASSUME NEW j \in 1..(n + 1)
                 PROVE  /\ Current(u, j) => Complete(u.idents[j].type, t.structs)
                        /\ u.idents[j].kind = "LVAR" => u.idents[j].offset <= u.offset
                        /\ Current(u, j) /\ u.idents[j].kind = "LVAR" =>
                              /\ Room(u.idents[j].type, t.structs) <= u.idents[j].offset
                              /\ \A i \in 1..(j - 1) : u.idents[i].kind = "LVAR" =>
                                    u.idents[i].offset + Room(u.idents[j].type, t.structs)
                                        <= u.idents[j].offset
      BY <2>2, <2>6 DEF Placed
    <3>1. CASE j \in 1..n
      <4>1. u.idents[j] = t.idents[j] /\ (Current(u, j) <=> Current(t, j))
        BY <2>2, <2>6, <3>1 DEF Current
      <4>2. \A i \in 1..(j - 1) : u.idents[i] = t.idents[i]
        BY <2>6, <3>1
      <4>3. /\ Current(t, j) => Complete(t.idents[j].type, t.structs)
            /\ Current(t, j) /\ t.idents[j].kind = "LVAR" =>
                  /\ Room(t.idents[j].type, t.structs) <= t.idents[j].offset
                  /\ \A i \in 1..(j - 1) : t.idents[i].kind = "LVAR" =>
                        t.idents[i].offset + Room(t.idents[j].type, t.structs)
                            <= t.idents[j].offset
        BY <3>1 DEF Layout, Placed
      <4>4. t.idents[j].kind = "LVAR" => t.idents[j].offset <= u.offset
        BY <2>4, <2>7, <2>8, <3>1
      <4> QED BY <4>1, <4>2, <4>3, <4>4
    <3>2. CASE j = n + 1
      <4>1. u.idents[j] = new /\ new.type = type /\ new.kind = kind /\ new.isTag = isTag
        BY <2>3, <2>6, <3>2
      <4>2. Current(u, j) => Complete(u.idents[j].type, t.structs)
        BY <4>1 DEF Current
      <4>3. ASSUME kind = "LVAR"
            PROVE  /\ new.offset <= u.offset
                   /\ Room(type, t.structs) <= new.offset
                   /\ \A i \in 1..(j - 1) : u.idents[i].kind = "LVAR" =>
                         u.idents[i].offset + Room(type, t.structs) <= new.offset
        <5>1. off = t.offset + Room(type, t.structs) /\ u.offset = off /\ new.offset = off
          BY <2>2, <2>3, <4>3
        <5>2. \A i \in 1..n : u.idents[i].kind = "LVAR" =>
                                 u.idents[i].offset + Room(type, t.structs) <= off
          <6> SUFFICES ASSUME NEW i \in 1..n, t.idents[i].kind = "LVAR"
                       PROVE  t.idents[i].offset + Room(type, t.structs)
                                  <= t.offset + Room(type, t.structs)
            BY <2>6, <5>1
          <6>1. t.idents[i].offset \in Nat /\ t.idents[i].offset <= t.offset
            BY <2>8
          <6> QED BY <2>4, <2>5, <6>1
        <5>3. Room(type, t.structs) <= off /\ off <= u.offset
          BY <2>4, <2>5, <5>1
        <5>4. 1..(j - 1) = 1..n
          BY <2>6, <3>2
        <5> HIDE DEF off
        <5> QED BY <5>1, <5>2, <5>3, <5>4
      <4> QED BY <4>1, <4>2, <4>3
    <3> QED BY <2>6, <3>1, <3>2
  <2> QED BY <2>1, <2>9, <2>10 DEF Layout, u
<1> QED BY <1>1, <1>2

\* typeSpec keeps the layout and leaves what is in the table where it is; a struct
\* that it adds is incomplete.
LEMMA LayoutTypeSpec ==
    ASSUME NEW t, Layout(t), block \in Nat,
           NEW kind \in {"LVAR", "GVAR", "STRUCT_MEMBER", "NONE"}, NEW spec \in Specs,
           kind = "NONE" /\ spec.base = "struct" => find_identifier(spec.tag, t.idents) # 0
    PROVE  LET u == typeSpec(t, kind, spec).table
           IN  /\ Layout(u)
               /\ \A i \in 1..Len(t.idents) : u.idents[i] = t.idents[i]
               /\ \A s \in 1..Len(t.structs) : u.structs[s] = t.structs[s]
               /\ \A s \in 1..Len(u.structs) :
                     s \in 1..Len(t.structs)
                        \/ (~u.structs[s].complete /\ u.structs[s].redefined = 0)
               /\ kind = "STRUCT_MEMBER" => u.idents = t.idents /\ u.offset = t.offset
<1> DEFINE r == typeSpec(t, kind, spec)
<1> DEFINE found == find_identifier(spec.tag, t.idents)
<1> DEFINE n == Len(t.idents)
<1>1. CASE spec.base # "struct" \/ found # 0
  <2>1. r.table = t
    BY <1>1 DEF typeSpec
  <2> QED BY <2>1
<1>2. CASE spec.base = "struct" /\ found = 0
  <2> DEFINE k == Len(t.structs) + 1
  <2> DEFINE fresh == [base |-> "struct", struct |-> k, mods |-> <<>>]
  <2> DEFINE object == NewStruct(spec.tag)
  <2> DEFINE grown == [idents |-> t.idents, offset |-> t.offset,
                       structs |-> Append(t.structs, object)]
  <2> DEFINE u == new_identifier(grown, kind, spec.tag, fresh, TRUE)
  <2>1. r.table = u
    BY <1>2 DEF typeSpec
  <2>2. spec.tag \in Tags
    BY <1>2, SymbolTableAssumption DEF Specs
  <2>3. /\ t.structs \in Seq(StructObjects)
        /\ t.idents \in Seq(Identifiers(Len(t.structs)))
        /\ t.offset \in Nat
    BY DEF Layout, TableOK
  <2>4. object \in StructObjects
    BY <2>2 DEF StructObjects, NewStruct
  <2>5. /\ grown.idents = t.idents /\ grown.offset = t.offset
        /\ grown.structs = Append(t.structs, object)
    OBVIOUS
  <2>6. /\ Len(t.structs) \in Nat
        /\ Len(grown.structs) = k
        /\ grown.structs \in Seq(StructObjects)
        /\ \A s \in 1..Len(t.structs) : grown.structs[s] = t.structs[s]
        /\ grown.structs[k] = object
    <3> HIDE DEF object
    <3> QED BY <2>3, <2>4
  <2>7. /\ fresh.base = "struct" /\ fresh.struct = k /\ fresh.mods = <<>>
        /\ object.name = spec.tag /\ object.complete = FALSE /\ object.redefined = 0
    BY DEF NewStruct
  <2>8. kind \in {"LVAR", "GVAR", "FUNC", "STRUCT_MEMBER"}
    BY <1>2
  <2> DEFINE new == Identifier(kind, spec.tag, fresh,
                               IF kind = "LVAR"
                               THEN t.offset + Slot(sizeofType(fresh, grown.structs)) ELSE 0,
                               TRUE)
  <2>9. /\ u.structs = grown.structs
        /\ kind = "STRUCT_MEMBER" => u.idents = t.idents /\ u.offset = t.offset
        /\ kind # "STRUCT_MEMBER" => u.idents = Append(t.idents, new)
        /\ new.type = fresh
    BY DEF new_identifier, Identifier
  <2>10. fresh \in Types(k)
    BY <2>6 DEF Types
  <2> HIDE DEF object, grown, fresh, u, new
  <2>11. TableOK(grown)
    <3>1. Len(t.structs) <= Len(grown.structs) /\ Len(grown.structs) \in Nat
      BY <2>6
    <3>2. Seq(Identifiers(Len(t.structs))) \subseteq Seq(Identifiers(Len(grown.structs)))
      BY <2>6, <3>1, TypesGrow
    <3> QED BY <2>3, <2>5, <2>6, <3>2 DEF TableOK
  <2>12. Layout(grown)
    <3>1. \A s \in 1..Len(t.structs) :
              /\ s \in 1..Len(grown.structs)
              /\ Succeeds(t.structs[s], grown.structs[s], Len(t.idents))
      BY <2>6 DEF Succeeds
    <3> QED BY <2>5, <2>11, <3>1, LayoutKept
  <2>13. Layout(u)
    BY <2>2, <2>6, <2>7, <2>8, <2>10, <2>12, LayoutGrows DEF u
  <2>14. /\ n \in Nat
         /\ \A i \in 1..n : u.idents[i] = t.idents[i]
    <3>1. CASE kind = "STRUCT_MEMBER"
      BY <2>3, <2>9, <3>1
    <3>2. CASE kind # "STRUCT_MEMBER"
      BY <2>3, <2>9, <3>2, SMTT(30)
    <3> QED BY <3>1, <3>2
  <2>15. \A s \in 1..Len(u.structs) : s \in 1..Len(t.structs) \/ s = k
    BY <2>6, <2>9
  <2>16. ~u.structs[k].complete /\ u.structs[k].redefined = 0
    BY <2>6, <2>7, <2>9
  <2> QED BY <2>1, <2>6, <2>9, <2>13, <2>14, <2>15, <2>16
<1> QED BY <1>1, <1>2

\* A step that sets the table to one with a layout, when no struct is open.
LEMMA SlotsKept ==
    ASSUME SlotsInv, TypeOK', NEW u, Layout(u), SetTable(u), open' = NoStruct
    PROVE  SlotsInv'
<1>1. identHead' = u.idents /\ identHeadOffset' = u.offset /\ structs' = u.structs
  BY DEF SetTable
<1>2. Layout(Table)'
  BY <1>1 DEF Layout, Tagged, Placed, Current, TableOK, Table
<1>3. OpenIsIncomplete'
  BY DEF OpenIsIncomplete, NoStruct
<1> QED BY <1>2, <1>3 DEF SlotsInv

\* A step that leaves the table and the struct that is open alone.
LEMMA SlotsUnchanged ==
    ASSUME SlotsInv, TypeOK', UNCHANGED <<table, open>>
    PROVE  SlotsInv'
<1>1. Table' = Table /\ UNCHANGED <<identHead, structs, open>>
  BY DEF Table, table
<1>2. Layout(Table)'
  BY <1>1 DEF SlotsInv, Layout, Tagged, Placed, Current, TableOK
<1>3. OpenIsIncomplete'
  BY <1>1 DEF SlotsInv, OpenIsIncomplete, NoStruct
<1> QED BY <1>2, <1>3 DEF SlotsInv

-----------------------------------------------------------------------------
(* The steps. *)

LEMMA declarationSlots ==
    ASSUME SlotsInv, TypeOK',
           NEW name \in Names, NEW spec \in Specs, NEW mods \in Shapes,
           declaration(name, spec, mods)
    PROVE  SlotsInv'
<1> DEFINE typed == typeSpec(Table, kindHere, spec)
<1> DEFINE type == derive(typed.type, mods)
<1> DEFINE u == new_identifier(typed.table, kindHere, name, type, FALSE)
<1>1. /\ Layout(Table) /\ TableOK(Table)
      /\ block \in Nat
      /\ kindHere \in {"LVAR", "GVAR"}
  BY BlockIsNat, TableType DEF SlotsInv, TypeOK, kindHere
<1>2. /\ Len(type.mods) <= 2
      /\ Complete(type, typed.table.structs)
      /\ SetTable(u)
      /\ open = NoStruct /\ open' = open
  BY DEF declaration, Parsing
<1>3. typed.type \in Types(Len(typed.table.structs)) /\ TableOK(typed.table)
  BY <1>1, TypeSpec
<1>4. Layout(typed.table)
  BY <1>1, LayoutTypeSpec
<1> HIDE DEF typed
<1>5. type \in Types(Len(typed.table.structs))
  <2>1. Len(typed.table.structs) \in Nat
    BY <1>3, TableLengths
  <2> QED BY <1>2, <1>3, <2>1, DeriveType
<1> HIDE DEF type
<1>6. Layout(u)
  <2>1. /\ name \in Names \cup Tags /\ FALSE \in BOOLEAN
       /\ (Names \cap Tags = {} => name \notin Tags)
    OBVIOUS
  <2>2. kindHere \in {"LVAR", "GVAR", "FUNC", "STRUCT_MEMBER"}
    BY <1>1
  <2> QED BY <1>1, <1>2, <1>4, <1>5, <2>1, <2>2, LayoutGrows
<1> HIDE DEF u
<1> QED BY <1>2, <1>6, SlotsKept

LEMMA FunctionHeadSlots ==
    ASSUME SlotsInv, TypeOK',
           NEW name \in Names, NEW spec \in Specs, NEW mods \in Shapes,
           FunctionHead(name, spec, mods)
    PROVE  SlotsInv'
<1> DEFINE typed == typeSpec(Table, "NONE", spec)
<1> DEFINE type == derive(typed.type, mods)
<1> DEFINE u == new_identifier(typed.table, "FUNC", name, type, FALSE)
<1>1. /\ Layout(Table) /\ TableOK(Table) /\ Table.idents = identHead
      /\ block \in Nat
  BY BlockIsNat, TableType DEF SlotsInv, TypeOK, Table
<1>2. open = NoStruct /\ open' = open
  BY DEF FunctionHead, Parsing
<1>3. CASE UnknownTag(spec)
  <2>1. UNCHANGED table
    BY <1>3 DEF FunctionHead
  <2> QED BY <1>2, <2>1, SlotsUnchanged
<1>4. CASE ~UnknownTag(spec)
  <2>1. spec.base = "struct" => find_identifier(spec.tag, Table.idents) # 0
    BY <1>1, <1>4 DEF UnknownTag
  <2>2. Len(type.mods) <= 2 /\ SetTable(u)
    BY <1>4 DEF FunctionHead
  <2>3. typed.type \in Types(Len(typed.table.structs)) /\ TableOK(typed.table)
    BY <1>1, <2>1, TypeSpec
  <2>4. Layout(typed.table)
    BY <1>1, <2>1, LayoutTypeSpec
  <2> HIDE DEF typed
  <2>5. type \in Types(Len(typed.table.structs))
    <3>1. Len(typed.table.structs) \in Nat
      BY <2>3, TableLengths
    <3> QED BY <2>2, <2>3, <3>1, DeriveType
  <2> HIDE DEF type
  <2>6. Layout(u)
    <3>1. /\ name \in Names \cup Tags /\ FALSE \in BOOLEAN
         /\ (Names \cap Tags = {} => name \notin Tags)
      OBVIOUS
    <3> QED BY <1>1, <2>4, <2>5, <3>1, LayoutGrows
  <2> HIDE DEF u
  <2> QED BY <1>2, <2>2, <2>6, SlotsKept
<1> QED BY <1>3, <1>4

LEMMA primary_exprSlots ==
    ASSUME SlotsInv, TypeOK',
           NEW name \in Names, NEW called \in BOOLEAN,
           primary_expr(name, called)
    PROVE  SlotsInv'
<1> DEFINE u == new_identifier(Table, "FUNC", name, new_type("int"), FALSE)
<1>1. /\ Layout(Table) /\ TableOK(Table)
      /\ block \in Nat
      /\ Len(Table.structs) \in Nat
  BY BlockIsNat, TableType, TableLengths DEF SlotsInv, TypeOK
<1>2. open = NoStruct /\ open' = open
  BY DEF primary_expr, Parsing
<1>3. UNCHANGED table \/ SetTable(u)
  BY DEF primary_expr
<1>4. Layout(u)
  <2>1. /\ name \in Names \cup Tags /\ FALSE \in BOOLEAN
       /\ (Names \cap Tags = {} => name \notin Tags)
    OBVIOUS
  <2>2. new_type("int") \in Types(Len(Table.structs))
    BY <1>1 DEF new_type, Types
  <2> QED BY <1>1, <2>1, <2>2, LayoutGrows
<1> HIDE DEF u
<1> QED BY <1>2, <1>3, <1>4, SlotsKept, SlotsUnchanged

\* The struct that a member list is opened for is incomplete from then on, and what
\* has been declared with it outdated.
LEMMA StructOpenTable ==
    ASSUME SlotsInv, NEW tag \in Tags, StructOpen(tag)
    PROVE  LET spec  == [base |-> "struct", tag |-> tag]
               t     == typeSpec(Table, kindHere, spec).table
               index == find_identifier(tag, t.idents)
               u     == Reopened(t, index)
           IN  /\ Layout(t) /\ Layout(u) /\ SetTable(u)
               /\ index \in 1..Len(t.idents)
               /\ t.idents[index].name = tag
               /\ IsTable(t)
               /\ open' = [tag |-> index, struct_size |-> 0, members |-> <<>>]
               /\ Len(t.idents) >= Len(identHead) /\ Len(t.structs) >= Len(structs)
               /\ \A i \in 1..Len(identHead) : t.idents[i] = identHead[i]
               /\ \A s \in 1..Len(structs) : t.structs[s] = structs[s]
<1> DEFINE spec == [base |-> "struct", tag |-> tag]
<1> DEFINE t == typeSpec(Table, kindHere, spec).table
<1> DEFINE index == find_identifier(tag, t.idents)
<1> DEFINE u == Reopened(t, index)
<1>1. /\ Layout(Table) /\ TableOK(Table) /\ IsTable(Table)
      /\ Table.structs = structs /\ Table.idents = identHead
      /\ block \in Nat
      /\ kindHere \in {"LVAR", "GVAR"}
  BY BlockIsNat, TableType DEF SlotsInv, kindHere, Table, IsTable
<1>2. spec \in Specs /\ spec.base = "struct" /\ spec.tag = tag
  BY DEF Specs
<1>3. SetTable(u) /\ open' = [tag |-> index, struct_size |-> 0, members |-> <<>>]
  BY DEF StructOpen, Reopened
<1> HIDE DEF spec
<1>4. kindHere \in {"LVAR", "GVAR", "STRUCT_MEMBER", "NONE"} /\ kindHere # "NONE"
  BY <1>1
<1>5. /\ Layout(t)
      /\ \A i \in 1..Len(Table.idents) : t.idents[i] = Table.idents[i]
      /\ \A s \in 1..Len(Table.structs) : t.structs[s] = Table.structs[s]
  BY <1>1, <1>2, <1>4, LayoutTypeSpec, ZenonT(30)
<1>6. Len(t.idents) >= Len(Table.idents) /\ Len(t.structs) >= Len(Table.structs)
  BY <1>1, <1>2, <1>4, TypeSpec
<1>7. IsTable(t)
  BY <1>1, TypeSpecIsTable
<1>8. index # 0
  BY <1>1, <1>2, TagIsFound
<1> HIDE DEF t
<1>9. /\ TableOK(t) /\ Len(t.structs) \in Nat /\ Len(t.idents) \in Nat
      /\ t.idents \in Seq(Identifiers(Len(t.structs)))
  BY <1>5, TableLengths DEF Layout, TableOK
<1>10. index \in 1..Len(t.idents) /\ t.idents[index].name = tag
  <2>1. index \in 0..Len(t.idents) /\ t.idents[index].name = tag
    BY <1>8, <1>9, FindIdentifier
  <2> HIDE DEF index
  <2> QED BY <1>8, <1>9, <2>1
<1> HIDE DEF index
<1>11. /\ TableOK(u) /\ u.idents = t.idents /\ u.offset = t.offset
       /\ Len(u.structs) = Len(t.structs)
       /\ \A s \in 1..Len(t.structs) :
             Succeeds(t.structs[s], u.structs[s], Len(t.idents))
  BY <1>1, <1>7, <1>9, <1>10, ReopenedTable
<1> HIDE DEF u
<1>12. Layout(u)
  BY <1>5, <1>11, LayoutKept
<1> QED BY <1>1, <1>3, <1>5, <1>6, <1>7, <1>10, <1>12 DEF u, index, t, spec

LEMMA StructOpenSlots ==
    ASSUME SlotsInv, TypeOK', NEW tag \in Tags, StructOpen(tag)
    PROVE  SlotsInv'
<1> DEFINE t == typeSpec(Table, kindHere, [base |-> "struct", tag |-> tag]).table
<1> DEFINE index == find_identifier(tag, t.idents)
<1> DEFINE u == Reopened(t, index)
<1>1. /\ Layout(t) /\ Layout(u) /\ SetTable(u) /\ IsTable(t)
      /\ index \in 1..Len(t.idents)
      /\ t.idents[index].name = tag
      /\ open'.tag = index
      /\ block \in Nat
  BY StructOpenTable, BlockIsNat DEF SlotsInv
<1> HIDE DEF t, index
<1>2. LET type == t.idents[index].type
      IN  /\ u.idents = t.idents
          /\ type.base = "struct" /\ type.mods = <<>> =>
                ~u.structs[type.struct].complete
  BY <1>1, ReopenedTable DEF Layout
<1>3. Names \cap Tags = {} => t.idents[index].isTag
  BY <1>1 DEF Layout, Tagged
<1> HIDE DEF u
<1>4. identHead' = u.idents /\ identHeadOffset' = u.offset /\ structs' = u.structs
  BY <1>1 DEF SetTable
<1>5. Layout(Table)'
  BY <1>1, <1>4 DEF Layout, Tagged, Placed, Current, TableOK, Table
<1>6. OpenIsIncomplete'
  BY <1>1, <1>2, <1>3, <1>4 DEF OpenIsIncomplete
<1> QED BY <1>5, <1>6 DEF SlotsInv

\* A member is recorded with its struct; no identifier moves.
LEMMA StructMemberSlots ==
    ASSUME SlotsInv, TypeOK',
           NEW name \in Members, NEW spec \in Specs, NEW mods \in Shapes,
           StructMember(name, spec, mods)
    PROVE  SlotsInv'
<1> DEFINE t == typeSpec(Table, "STRUCT_MEMBER", spec).table
<1>1. /\ Layout(Table) /\ TableOK(Table)
      /\ Table.structs = structs /\ Table.idents = identHead
      /\ block \in Nat
  BY BlockIsNat, TableType DEF SlotsInv, TypeOK, Table
<1>2. /\ Layout(t)
      /\ t.idents = identHead
      /\ \A s \in 1..Len(structs) : t.structs[s] = structs[s]
  BY <1>1, LayoutTypeSpec, ZenonT(30)
<1>3. /\ open # NoStruct
      /\ open'.tag = open.tag
      /\ structs' = t.structs /\ identHeadOffset' = t.offset
      /\ \E ms : identHead' = [t.idents EXCEPT ![open.tag].members = ms]
  <2>1. open \in [tag : 0..Len(identHead), struct_size : Nat,
                  members : Seq(MemberRecords(Len(structs)))]
    BY DEF SlotsInv, TypeOK
  <2> HIDE DEF t
  <2> QED BY <2>1 DEF StructMember, SetTable, t
<1> HIDE DEF t
<1>4. PICK ms : identHead' = [identHead EXCEPT ![open.tag].members = ms]
  BY <1>2, <1>3
<1>5. identHead \in Seq(Identifiers(Len(structs))) /\ open.tag \in 1..Len(identHead)
  <2>1. /\ identHead \in Seq(Identifiers(Len(structs)))
        /\ open.tag \in 0..Len(identHead)
        /\ open = NoStruct \/ open.tag # 0
    BY DEF SlotsInv, TypeOK
  <2>2. Len(identHead) \in Nat
    BY <2>1
  <2> QED BY <1>3, <2>1, <2>2
<1>6. /\ Len(identHead') = Len(identHead)
      /\ \A i \in 1..Len(identHead) :
            /\ identHead'[i].kind = identHead[i].kind
            /\ identHead'[i].name = identHead[i].name
            /\ identHead'[i].type = identHead[i].type
            /\ identHead'[i].offset = identHead[i].offset
            /\ identHead'[i].isTag = identHead[i].isTag
  <2>1. Len(identHead') = Len(identHead)
    BY <1>4, <1>5
  <2> SUFFICES ASSUME NEW i \in 1..Len(identHead)
               PROVE  /\ identHead'[i].kind = identHead[i].kind
                      /\ identHead'[i].name = identHead[i].name
                      /\ identHead'[i].type = identHead[i].type
                      /\ identHead'[i].offset = identHead[i].offset
                      /\ identHead'[i].isTag = identHead[i].isTag
    BY <2>1
  <2>2. CASE i # open.tag
    BY <1>4, <1>5, <2>2
  <2>3. CASE i = open.tag
    <3>1. identHead'[i] = [identHead[i] EXCEPT !.members = ms]
      BY <1>4, <1>5, <2>3
    <3>2. identHead[i] \in Identifiers(Len(structs))
      BY <1>5
    <3> QED BY <3>1, <3>2 DEF Identifiers
  <2> QED BY <2>2, <2>3
<1>7. Layout(Table')
  <2>1. Table'.idents = identHead' /\ Table'.offset = t.offset /\ Table'.structs = t.structs
    BY <1>3 DEF Table
  <2>2. TableOK(Table')
    BY <2>1, <1>3 DEF TypeOK, TableOK, Table
  <2> DEFINE u == Table'
  <2> HIDE DEF u
  <2>3. /\ u.offset = t.offset
        /\ Len(u.idents) = Len(t.idents)
        /\ \A i \in 1..Len(t.idents) :
               /\ u.idents[i].kind = t.idents[i].kind
               /\ u.idents[i].name = t.idents[i].name
               /\ u.idents[i].type = t.idents[i].type
               /\ u.idents[i].offset = t.idents[i].offset
               /\ u.idents[i].isTag = t.idents[i].isTag
        /\ \A s \in 1..Len(t.structs) :
               /\ s \in 1..Len(u.structs)
               /\ Succeeds(t.structs[s], u.structs[s], Len(t.idents))
    BY <1>2, <1>6, <2>1 DEF u, Succeeds
  <2>4. Layout(u)
    BY <1>2, <2>2, <2>3, LayoutKept DEF u
  <2> QED BY <2>4 DEF u
<1>8. OpenIsIncomplete'
  <2> DEFINE type == identHead[open.tag].type
  <2>1. /\ Names \cap Tags = {} => identHead[open.tag].isTag
        /\ type.base = "struct" /\ type.mods = <<>> => ~structs[type.struct].complete
    BY <1>3 DEF SlotsInv, OpenIsIncomplete
  <2>2. type.base = "struct" => type.struct \in 1..Len(structs)
    <3>1. identHead[open.tag] \in Identifiers(Len(structs))
      BY <1>5
    <3>2. type \in Types(Len(structs))
      BY <3>1 DEF Identifiers
    <3>3. Len(structs) \in Nat
      BY TableLengths DEF SlotsInv
    <3> QED BY <3>2, <3>3 DEF Types
  <2> QED BY <1>2, <1>3, <1>5, <1>6, <2>1, <2>2 DEF OpenIsIncomplete
<1>9. Layout(Table)'
  BY <1>7
<1> QED BY <1>8, <1>9 DEF SlotsInv

\* The struct that is closed was incomplete: no object that is not outdated has it.
LEMMA StructCloseSucceeds ==
    ASSUME SlotsInv, StructClose
    PROVE  /\ identHead' = identHead
           /\ \A i \in 1..Len(structs) :
                 /\ i \in 1..Len(structs')
                 /\ Succeeds(structs[i], structs'[i], Len(identHead))
<1> DEFINE type == identHead[open.tag].type
<1> DEFINE s == type.struct
<1>1. structs \in Seq(StructObjects) /\ identHead' = identHead
  BY DEF SlotsInv, TypeOK, StructClose
<1>2. CASE structs' = structs
  BY <1>1, <1>2 DEF Succeeds
<1>3. CASE structs' # structs
  <2> DEFINE new == [structs[s] EXCEPT !.size = open.struct_size, !.complete = TRUE]
  <2>1. open # NoStruct /\ type.base = "struct" /\ type.mods = <<>>
    BY <1>3 DEF StructClose
  <2>2. structs' = [structs EXCEPT ![s] = new]
    BY <1>3 DEF StructClose
  <2>3. ~structs[s].complete
    BY <2>1 DEF SlotsInv, OpenIsIncomplete
  <2>4. new.name = structs[s].name /\ new.redefined = structs[s].redefined
    OBVIOUS
  <2> HIDE DEF s, new
  <2>5. Succeeds(structs[s], new, Len(identHead))
    BY <2>3, <2>4 DEF Succeeds
  <2>6. ASSUME NEW i \in 1..Len(structs)
        PROVE  /\ i \in 1..Len(structs')
               /\ Succeeds(structs[i], structs'[i], Len(identHead))
    <3>1. CASE i = s
      <4>1. structs'[i] = new /\ Len(structs') = Len(structs)
        BY <1>1, <2>2, <3>1
      <4> QED BY <2>5, <3>1, <4>1
    <3>2. CASE i # s
      <4>1. structs'[i] = structs[i] /\ Len(structs') = Len(structs)
        BY <1>1, <2>2, <3>2
      <4> QED BY <4>1 DEF Succeeds
    <3> QED BY <3>1, <3>2
  <2> QED BY <1>1, <2>6
<1> QED BY <1>2, <1>3

LEMMA StructCloseSlots ==
    ASSUME SlotsInv, TypeOK', StructClose
    PROVE  SlotsInv'
<1>1. /\ Layout(Table)
      /\ Table.structs = structs /\ Table.idents = identHead
      /\ Table.offset = identHeadOffset
  BY DEF SlotsInv, Table
<1>2. open' = NoStruct /\ UNCHANGED <<identHead, identHeadOffset>>
  BY DEF StructClose
<1>3. \A i \in 1..Len(structs) :
          /\ i \in 1..Len(structs')
          /\ Succeeds(structs[i], structs'[i], Len(identHead))
  BY StructCloseSucceeds
<1>4. Layout(Table')
  <2> DEFINE u == Table'
  <2>1. u.idents = identHead /\ u.offset = identHeadOffset /\ u.structs = structs'
    BY <1>2 DEF Table
  <2>2. TableOK(u)
    BY <1>2, <2>1 DEF TypeOK, TableOK
  <2> HIDE DEF u
  <2>3. Layout(u)
    BY <1>1, <1>3, <2>1, <2>2, LayoutKept
  <2> QED BY <2>3 DEF u
<1>5. OpenIsIncomplete'
  BY <1>2 DEF OpenIsIncomplete, NoStruct
<1>6. Layout(Table)'
  BY <1>4
<1> QED BY <1>5, <1>6 DEF SlotsInv

LEMMA SlotsStep == SlotsInv /\ [Next]_vars => SlotsInv'
<1> SUFFICES ASSUME SlotsInv, [Next]_vars PROVE SlotsInv'
  OBVIOUS
<1>0. TypeOK'
  BY TypeStep DEF SlotsInv
<1>1. ASSUME NEW name \in Names, NEW spec \in Specs, NEW mods \in Shapes,
             \/ declaration(name, spec, mods)
             \/ funcPrototype(name, spec, mods)
             \/ funcDefine(name, spec, mods)
      PROVE  SlotsInv'
  <2>1. CASE declaration(name, spec, mods)
    BY <1>0, <2>1, declarationSlots
  <2>2. CASE funcPrototype(name, spec, mods) \/ funcDefine(name, spec, mods)
    <3>1. FunctionHead(name, spec, mods)
      BY <2>2 DEF funcPrototype, funcDefine
    <3> QED BY <1>0, <3>1, FunctionHeadSlots
  <2> QED BY <1>1, <2>1, <2>2
<1>2. ASSUME NEW name \in Members, NEW spec \in Specs, NEW mods \in Shapes,
             StructMember(name, spec, mods)
      PROVE  SlotsInv'
  BY <1>0, <1>2, StructMemberSlots
<1>3. ASSUME NEW tag \in Tags, StructOpen(tag)
      PROVE  SlotsInv'
  BY <1>0, <1>3, StructOpenSlots
<1>4. ASSUME NEW name \in Names, NEW called \in BOOLEAN, primary_expr(name, called)
      PROVE  SlotsInv'
  BY <1>0, <1>4, primary_exprSlots
<1>5. CASE StructClose
  BY <1>0, <1>5, StructCloseSlots
<1>6. CASE OtherStep \/ UNCHANGED vars
  <2>1. UNCHANGED <<table, open>>
    BY <1>6 DEF OtherStep, BlockBegin, BlockEnd, FunctionEnd, new_string_vector, gens, vars
  <2> QED BY <1>0, <2>1, SlotsUnchanged
<1> QED BY <1>1, <1>2, <1>3, <1>4, <1>5, <1>6 DEF Next, Stopped, OtherStep

LEMMA SlotsInit == Init => SlotsInv
<1> SUFFICES ASSUME Init PROVE SlotsInv
  OBVIOUS
<1>1. Len(Table.idents) = 0
  BY DEF Init, Table
<1>2. Layout(Table)
  BY <1>1, TypeInit, TableType DEF Layout, Tagged, Placed
<1>3. OpenIsIncomplete
  BY DEF Init, OpenIsIncomplete
<1> QED BY <1>2, <1>3, TypeInit DEF SlotsInv

LEMMA SlotsInvImplies == SlotsInv => SlotsDisjoint
<1> SUFFICES ASSUME SlotsInv, NEW j \in DOMAIN identHead, IsLocal(j), IsObject(j),
                    ~Outdated(identHead[j].type, j, structs)
             PROVE  /\ Written(j) <= identHead[j].offset
                    /\ identHead[j].offset <= identHeadOffset
                    /\ \A i \in 1..(j - 1) :
                          IsLocal(i) => identHead[i].offset + Written(j)
                                            <= identHead[j].offset
  BY DEF SlotsDisjoint
<1>1. /\ identHead \in Seq(Identifiers(Len(structs)))
      /\ structs \in Seq(StructObjects)
  BY DEF SlotsInv, TypeOK
<1>2. j \in 1..Len(identHead)
  BY <1>1
<1>3. /\ identHead[j].offset <= identHeadOffset
      /\ Room(identHead[j].type, structs) <= identHead[j].offset
      /\ \A i \in 1..(j - 1) : IsLocal(i) =>
            identHead[i].offset + Room(identHead[j].type, structs) <= identHead[j].offset
  BY <1>2 DEF SlotsInv, Layout, Placed, Current, Table, IsLocal, IsObject
<1>4. Written(j) = Room(identHead[j].type, structs)
  <2>1. identHead[j] \in Identifiers(Len(structs))
    BY <1>1, <1>2
  <2>2. identHead[j].type \in Types(Len(structs))
    BY <2>1 DEF Identifiers
  <2>3. SizeOf(j) \in Nat
    BY <1>1, <2>2, SizeIsNat DEF SizeOf
  <2> QED BY <2>3 DEF Written, Room, Slot, SizeOf
<1> QED BY <1>3, <1>4

\* What the code writes to a local overlaps neither the saved rbp nor any other
\* local, however many functions, blocks and struct definitions there are between
\* their declarations, and whatever names they share (new_identifier, typeSpec) -
\* unless the struct that the local was declared with has been defined again since:
\* the run symtab_redefinition shows that it then may.
THEOREM LocalsDisjoint == Spec => []SlotsDisjoint
<1>1. SlotsInv /\ [Next]_vars => SlotsInv'
  BY SlotsStep
<1> QED BY <1>1, SlotsInit, SlotsInvImplies, PTL DEF Spec

-----------------------------------------------------------------------------
(* What the AST points to. *)

\* The identifiers that are linked stay so, but for the members of a struct, and
\* structs change only until they are complete or when they are defined again.
Continued ==
    /\ \A i \in 1..Len(identHead) :
          /\ i \in 1..Len(identHead')
          /\ identHead'[i] = [identHead[i] EXCEPT !.members = identHead'[i].members]
    /\ \A s \in 1..Len(structs) :
          /\ s \in 1..Len(structs')
          /\ Succeeds(structs[s], structs'[s], Len(identHead))

\* A step that sets the table to one that continues the one before.
LEMMA TableContinues ==
    ASSUME TypeOK, NEW u, TableOK(u), SetTable(u),
           Len(u.idents) >= Len(identHead), Len(u.structs) >= Len(structs),
           \A i \in 1..Len(identHead) : u.idents[i] = identHead[i],
           \A s \in 1..Len(structs) : Succeeds(structs[s], u.structs[s], Len(identHead))
    PROVE  Continued
<1>1. /\ identHead \in Seq(Identifiers(Len(structs)))
      /\ structs \in Seq(StructObjects)
      /\ u.idents \in Seq(Identifiers(Len(u.structs)))
      /\ u.structs \in Seq(StructObjects)
      /\ identHead' = u.idents /\ structs' = u.structs
  BY DEF TypeOK, TableOK, SetTable
<1>2. ASSUME NEW i \in 1..Len(identHead)
      PROVE  /\ i \in 1..Len(identHead')
             /\ identHead'[i] = [identHead[i] EXCEPT !.members = identHead'[i].members]
  <2>1. i \in 1..Len(u.idents)
    BY <1>1
  <2>2. identHead[i] \in Identifiers(Len(structs)) /\ identHead'[i] = identHead[i]
    BY <1>1
  <2>3. [identHead[i] EXCEPT !.members = identHead[i].members] = identHead[i]
    BY <2>2 DEF Identifiers
  <2> QED BY <1>1, <2>1, <2>2, <2>3
<1>3. \A s \in 1..Len(structs) : s \in 1..Len(structs')
  BY <1>1
<1> QED BY <1>1, <1>2, <1>3 DEF Continued

LEMMA UnchangedContinues == TypeOK /\ UNCHANGED table => Continued
<1> SUFFICES ASSUME TypeOK, UNCHANGED table PROVE Continued
  OBVIOUS
<1>1. identHead \in Seq(Identifiers(Len(structs)))
  BY DEF TypeOK
<1>2. \A i \in 1..Len(identHead) :
          [identHead[i] EXCEPT !.members = identHead[i].members] = identHead[i]
  <2> TAKE i \in 1..Len(identHead)
  <2>1. identHead[i] \in Identifiers(Len(structs))
    BY <1>1
  <2> QED BY <2>1 DEF Identifiers
<1> QED BY <1>2 DEF table, Continued, Succeeds

\* new_identifier only adds, at the end of the list.
LEMMA NewIdentifierContinues ==
    ASSUME NEW t, TableOK(t), NEW kind \in {"LVAR", "GVAR", "FUNC", "STRUCT_MEMBER"},
           NEW name \in Names \cup Tags, NEW isTag \in BOOLEAN,
           NEW type \in Types(Len(t.structs))
    PROVE  LET u == new_identifier(t, kind, name, type, isTag)
           IN  /\ u.structs = t.structs
               /\ \A i \in 1..Len(t.idents) : u.idents[i] = t.idents[i]
<1> DEFINE u == new_identifier(t, kind, name, type, isTag)
<1>1. t.idents \in Seq(Identifiers(Len(t.structs)))
  BY DEF TableOK
<1>2. u.structs = t.structs
  BY DEF new_identifier
<1>3. u.idents = t.idents \/ \E new : u.idents = Append(t.idents, new)
  BY DEF new_identifier
<1> HIDE DEF u
<1>4. \A i \in 1..Len(t.idents) : u.idents[i] = t.idents[i]
  BY <1>1, <1>3
<1> QED BY <1>2, <1>4 DEF u

LEMMA declarationContinues ==
    ASSUME SlotsInv, NEW name \in Names, NEW spec \in Specs, NEW mods \in Shapes,
           NEW kind \in {"LVAR", "GVAR", "FUNC"}, NEW from \in {"LVAR", "GVAR", "NONE"},
           from = "NONE" => ~UnknownTag(spec),
           Len(derive(typeSpec(Table, from, spec).type, mods).mods) <= 2,
           SetTable(new_identifier(typeSpec(Table, from, spec).table, kind, name,
                                   derive(typeSpec(Table, from, spec).type, mods), FALSE))
    PROVE  Continued
<1> DEFINE typed == typeSpec(Table, from, spec)
<1> DEFINE type == derive(typed.type, mods)
<1> DEFINE u == new_identifier(typed.table, kind, name, type, FALSE)
<1>1. /\ TypeOK /\ Layout(Table) /\ TableOK(Table) /\ block \in Nat
      /\ Table.structs = structs /\ Table.idents = identHead
  BY BlockIsNat, TableType DEF SlotsInv, TypeOK, Table
<1>2. /\ from \in {"LVAR", "GVAR", "STRUCT_MEMBER", "NONE"}
      /\ from = "NONE" /\ spec.base = "struct" => find_identifier(spec.tag, Table.idents) # 0
  BY <1>1 DEF UnknownTag
<1>3. /\ TableOK(typed.table) /\ typed.type \in Types(Len(typed.table.structs))
      /\ Len(typed.table.structs) >= Len(structs)
      /\ Len(typed.table.idents) >= Len(identHead)
  BY <1>1, <1>2, TypeSpec
<1>4. /\ Layout(typed.table)
      /\ \A i \in 1..Len(Table.idents) : typed.table.idents[i] = Table.idents[i]
      /\ \A s \in 1..Len(Table.structs) : typed.table.structs[s] = Table.structs[s]
  <2>1. Layout(Table) /\ block \in Nat
    BY <1>1
  <2> DEFINE t == Table
  <2> HIDE DEF t
  <2>2. /\ Layout(typeSpec(t, from, spec).table)
        /\ \A i \in 1..Len(t.idents) :
              typeSpec(t, from, spec).table.idents[i] = t.idents[i]
        /\ \A s \in 1..Len(t.structs) :
              typeSpec(t, from, spec).table.structs[s] = t.structs[s]
    BY <1>2, <2>1, LayoutTypeSpec, ZenonT(30) DEF t
  <2> QED BY <2>2 DEF t
<1>5. Len(type.mods) <= 2 /\ SetTable(u)
  OBVIOUS
<1> HIDE DEF typed
<1>6. /\ Len(typed.table.structs) \in Nat /\ Len(typed.table.idents) \in Nat
      /\ Len(structs) \in Nat /\ Len(identHead) \in Nat
  BY <1>1, <1>3, TableLengths
<1>7. type \in Types(Len(typed.table.structs))
  BY <1>3, <1>5, <1>6, DeriveType
<1> HIDE DEF type
<1>8. /\ TableOK(u) /\ Len(u.idents) = Len(typed.table.idents) + 1
      /\ u.structs = typed.table.structs
      /\ \A i \in 1..Len(typed.table.idents) : u.idents[i] = typed.table.idents[i]
  <2>1. name \in Names \cup Tags /\ FALSE \in BOOLEAN
    OBVIOUS
  <2>2. kind \in {"LVAR", "GVAR", "FUNC", "STRUCT_MEMBER"} /\ kind # "STRUCT_MEMBER"
    OBVIOUS
  <2>3. block \in Nat /\ TableOK(typed.table)
    BY <1>1, <1>3
  <2>4. /\ TableOK(u)
        /\ u.structs = typed.table.structs
        /\ Len(u.idents) = Len(typed.table.idents) + 1
    BY <1>7, <2>1, <2>2, <2>3, NewIdentifier, ZenonT(30)
  <2>5. /\ u.structs = typed.table.structs
        /\ \A i \in 1..Len(typed.table.idents) : u.idents[i] = typed.table.idents[i]
    BY <1>7, <2>1, <2>2, <2>3, NewIdentifierContinues
  <2> QED BY <2>4, <2>5
<1> HIDE DEF u
<1>10. \A i \in 1..Len(identHead) : u.idents[i] = identHead[i]
  <2> TAKE i \in 1..Len(identHead)
  <2>1. i \in 1..Len(typed.table.idents)
    BY <1>3, <1>6
  <2> QED BY <1>1, <1>4, <1>8, <2>1
<1>11. \A s \in 1..Len(structs) : Succeeds(structs[s], u.structs[s], Len(identHead))
  BY <1>1, <1>4, <1>8 DEF Succeeds
<1>12. Len(u.idents) >= Len(identHead) /\ Len(u.structs) >= Len(structs)
  BY <1>3, <1>6, <1>8
<1> QED BY <1>1, <1>5, <1>8, <1>10, <1>11, <1>12, TableContinues

LEMMA primary_exprContinues ==
    ASSUME SlotsInv, NEW name \in Names, NEW called \in BOOLEAN,
           primary_expr(name, called)
    PROVE  Continued
<1> DEFINE u == new_identifier(Table, "FUNC", name, new_type("int"), FALSE)
<1>1. /\ TypeOK /\ TableOK(Table) /\ block \in Nat
      /\ Table.structs = structs /\ Table.idents = identHead
      /\ Len(structs) \in Nat /\ Len(identHead) \in Nat
  BY BlockIsNat, TableType, TableLengths DEF SlotsInv, TypeOK, Table
<1>2. CASE UNCHANGED table
  BY <1>1, <1>2, UnchangedContinues
<1>3. CASE SetTable(u)
  <2>1. /\ name \in Names \cup Tags /\ FALSE \in BOOLEAN
        /\ "FUNC" \in {"LVAR", "GVAR", "FUNC", "STRUCT_MEMBER"}
        /\ new_type("int") \in Types(Len(Table.structs))
    BY <1>1 DEF new_type, Types
  <2>2. TableOK(u) /\ Len(u.idents) = Len(identHead) + 1 /\ u.structs = structs
    BY <1>1, <2>1, NewIdentifier
  <2>3. \A i \in 1..Len(identHead) : u.idents[i] = identHead[i]
    BY <1>1, <2>1, NewIdentifierContinues, ZenonT(30)
  <2> HIDE DEF u
  <2>4. Len(u.idents) >= Len(identHead) /\ Len(u.structs) >= Len(structs)
    BY <1>1, <2>2
  <2>5. \A s \in 1..Len(structs) : Succeeds(structs[s], u.structs[s], Len(identHead))
    BY <2>2 DEF Succeeds
  <2> QED BY <1>1, <1>3, <2>2, <2>3, <2>4, <2>5, TableContinues
<1>4. UNCHANGED table \/ SetTable(u)
  BY DEF primary_expr
<1> QED BY <1>2, <1>3, <1>4

LEMMA StructOpenContinues ==
    ASSUME SlotsInv, NEW tag \in Tags, StructOpen(tag)
    PROVE  Continued
<1> DEFINE t == typeSpec(Table, kindHere, [base |-> "struct", tag |-> tag]).table
<1> DEFINE index == find_identifier(tag, t.idents)
<1> DEFINE u == Reopened(t, index)
<1>1. /\ TypeOK /\ block \in Nat
      /\ Layout(t) /\ SetTable(u) /\ IsTable(t)
      /\ index \in 1..Len(t.idents)
      /\ Len(t.idents) >= Len(identHead) /\ Len(t.structs) >= Len(structs)
      /\ \A i \in 1..Len(identHead) : t.idents[i] = identHead[i]
      /\ \A s \in 1..Len(structs) : t.structs[s] = structs[s]
  BY StructOpenTable, BlockIsNat DEF SlotsInv
<1> HIDE DEF t, index
<1>2. /\ TableOK(u) /\ u.idents = t.idents
      /\ Len(u.structs) = Len(t.structs)
      /\ \A s \in 1..Len(t.structs) :
            Succeeds(t.structs[s], u.structs[s], Len(t.idents))
  BY <1>1, ReopenedTable DEF Layout
<1> HIDE DEF u
<1>3. ASSUME NEW s \in 1..Len(structs)
      PROVE  Succeeds(structs[s], u.structs[s], Len(identHead))
  <2>1. /\ Len(structs) \in Nat /\ Len(identHead) \in Nat
        /\ Len(t.structs) \in Nat /\ Len(t.idents) \in Nat
    BY <1>1, TableLengths DEF Layout
  <2>2. s \in 1..Len(t.structs)
    BY <1>1, <2>1
  <2>3. Succeeds(structs[s], u.structs[s], Len(t.idents))
    BY <1>1, <1>2, <2>2
  <2>4. u.structs[s].redefined \in Nat
    <3>1. u.structs[s] \in StructObjects
      BY <1>2, <2>2 DEF TableOK
    <3> QED BY <3>1 DEF StructObjects
  <2> QED BY <1>1, <2>1, <2>3, <2>4 DEF Succeeds
<1> QED BY <1>1, <1>2, <1>3, TableContinues

LEMMA StructMemberContinues ==
    ASSUME SlotsInv, NEW name \in Members, NEW spec \in Specs, NEW mods \in Shapes,
           StructMember(name, spec, mods)
    PROVE  Continued
<1> DEFINE t == typeSpec(Table, "STRUCT_MEMBER", spec).table
<1>1. /\ TypeOK /\ Layout(Table) /\ TableOK(Table) /\ block \in Nat
      /\ Table.structs = structs /\ Table.idents = identHead
      /\ identHead \in Seq(Identifiers(Len(structs)))
      /\ structs \in Seq(StructObjects)
  BY BlockIsNat, TableType DEF SlotsInv, TypeOK, Table
<1>2. /\ TableOK(t)
      /\ Len(t.structs) >= Len(structs)
      /\ t.idents = identHead
      /\ \A s \in 1..Len(structs) : t.structs[s] = structs[s]
  BY <1>1, TypeSpec, LayoutTypeSpec
<1>3. /\ structs' = t.structs
      /\ \E ms : identHead' = [t.idents EXCEPT ![open.tag].members = ms]
  BY DEF StructMember, SetTable
<1> HIDE DEF t
<1>4. PICK ms : identHead' = [identHead EXCEPT ![open.tag].members = ms]
  BY <1>2, <1>3
<1>5. ASSUME NEW i \in 1..Len(identHead)
      PROVE  /\ i \in 1..Len(identHead')
             /\ identHead'[i] = [identHead[i] EXCEPT !.members = identHead'[i].members]
  <2>1. identHead[i] \in Identifiers(Len(structs))
    BY <1>1
  <2>2. i \in 1..Len(identHead')
    BY <1>1, <1>4
  <2>3. CASE i = open.tag
    <3>1. identHead'[i] = [identHead[i] EXCEPT !.members = ms]
      BY <1>1, <1>4, <2>3
    <3> QED BY <2>1, <2>2, <3>1 DEF Identifiers
  <2>4. CASE i # open.tag
    <3>1. identHead'[i] = identHead[i]
      BY <1>1, <1>4, <2>4
    <3> QED BY <2>1, <2>2, <3>1 DEF Identifiers
  <2> QED BY <2>3, <2>4
<1>6. ASSUME NEW s \in 1..Len(structs)
      PROVE  s \in 1..Len(structs') /\ Succeeds(structs[s], structs'[s], Len(identHead))
  <2>1. Len(structs) \in Nat /\ Len(t.structs) \in Nat
    BY <1>1, <1>2, TableLengths
  <2>2. s \in 1..Len(t.structs)
    BY <1>2, <2>1
  <2> QED BY <1>2, <1>3, <2>2 DEF Succeeds
<1> QED BY <1>5, <1>6 DEF Continued

\* Only the struct that is closed changes.
LEMMA StructCloseContinues ==
    ASSUME SlotsInv, StructClose
    PROVE  Continued
<1>1. identHead \in Seq(Identifiers(Len(structs))) /\ identHead' = identHead
  BY StructCloseSucceeds DEF SlotsInv, TypeOK
<1>2. \A i \in 1..Len(identHead) :
          [identHead[i] EXCEPT !.members = identHead[i].members] = identHead[i]
  <2> TAKE i \in 1..Len(identHead)
  <2>1. identHead[i] \in Identifiers(Len(structs))
    BY <1>1
  <2> QED BY <2>1 DEF Identifiers
<1> QED BY <1>1, <1>2, StructCloseSucceeds DEF Continued

LEMMA ContinuedStep == SlotsInv /\ [Next]_vars => Continued
<1> SUFFICES ASSUME SlotsInv, [Next]_vars PROVE Continued
  OBVIOUS
<1>0. TypeOK
  BY DEF SlotsInv
<1>1. ASSUME NEW name \in Names, NEW spec \in Specs, NEW mods \in Shapes,
             declaration(name, spec, mods)
      PROVE  Continued
  <2>1. kindHere \in {"LVAR", "GVAR", "FUNC"} /\ kindHere \in {"LVAR", "GVAR", "NONE"}
        /\ kindHere # "NONE"
    BY DEF kindHere
  <2>2. /\ Len(derive(typeSpec(Table, kindHere, spec).type, mods).mods) <= 2
        /\ SetTable(new_identifier(typeSpec(Table, kindHere, spec).table, kindHere, name,
                        derive(typeSpec(Table, kindHere, spec).type, mods), FALSE))
    BY <1>1 DEF declaration
  <2> QED BY <2>1, <2>2, declarationContinues
<1>2. ASSUME NEW name \in Names, NEW spec \in Specs, NEW mods \in Shapes,
             FunctionHead(name, spec, mods)
      PROVE  Continued
  <2>1. CASE UnknownTag(spec)
    BY <1>0, <1>2, <2>1, UnchangedContinues DEF FunctionHead
  <2>2. CASE ~UnknownTag(spec)
    <3>1. "FUNC" \in {"LVAR", "GVAR", "FUNC"} /\ "NONE" \in {"LVAR", "GVAR", "NONE"}
      OBVIOUS
    <3>2. /\ Len(derive(typeSpec(Table, "NONE", spec).type, mods).mods) <= 2
          /\ SetTable(new_identifier(typeSpec(Table, "NONE", spec).table, "FUNC", name,
                          derive(typeSpec(Table, "NONE", spec).type, mods), FALSE))
      BY <1>2, <2>2 DEF FunctionHead
    <3> QED BY <2>2, <3>1, <3>2, declarationContinues
  <2> QED BY <2>1, <2>2
<1>3. ASSUME NEW name \in Names, NEW spec \in Specs, NEW mods \in Shapes,
             \/ declaration(name, spec, mods)
             \/ funcPrototype(name, spec, mods)
             \/ funcDefine(name, spec, mods)
      PROVE  Continued
  BY <1>1, <1>2, <1>3 DEF funcPrototype, funcDefine
<1>4. ASSUME NEW name \in Members, NEW spec \in Specs, NEW mods \in Shapes,
             StructMember(name, spec, mods)
      PROVE  Continued
  BY <1>4, StructMemberContinues
<1>5. ASSUME NEW tag \in Tags, StructOpen(tag)
      PROVE  Continued
  BY <1>5, StructOpenContinues
<1>6. ASSUME NEW name \in Names, NEW called \in BOOLEAN, primary_expr(name, called)
      PROVE  Continued
  BY <1>6, primary_exprContinues
<1>7. CASE StructClose
  BY <1>7, StructCloseContinues
<1>8. CASE OtherStep \/ UNCHANGED vars
  <2>1. UNCHANGED table
    BY <1>8 DEF OtherStep, BlockBegin, BlockEnd, FunctionEnd, new_string_vector, gens, vars
  <2> QED BY <1>0, <2>1, UnchangedContinues
<1> QED BY <1>3, <1>4, <1>5, <1>6, <1>7, <1>8 DEF Next, Stopped, OtherStep

\* What BoundNamesKeepTheirPlace says of one step.
Kept ==
    \A i \in DOMAIN identHead :
        /\ i \in DOMAIN identHead'
        /\ identHead'[i] = [identHead[i] EXCEPT !.members = identHead'[i].members]
        /\ IsObject(i) /\ ~Outdated(identHead[i].type, i, structs') =>
              sizeofType(identHead[i].type, structs') = SizeOf(i)

LEMMA ContinuedIsKept == SlotsInv /\ TypeOK' /\ Continued => Kept
<1> SUFFICES ASSUME SlotsInv, TypeOK', Continued, NEW i \in DOMAIN identHead
             PROVE  /\ i \in DOMAIN identHead'
                    /\ identHead'[i] = [identHead[i] EXCEPT !.members = identHead'[i].members]
                    /\ IsObject(i) /\ ~Outdated(identHead[i].type, i, structs') =>
                          sizeofType(identHead[i].type, structs') = SizeOf(i)
  BY DEF Kept
<1>1. /\ identHead \in Seq(Identifiers(Len(structs))) /\ structs \in Seq(StructObjects)
      /\ structs' \in Seq(StructObjects) /\ identHead' \in Seq(Identifiers(Len(structs')))
      /\ Len(identHead) \in Nat
  BY TableLengths DEF SlotsInv, TypeOK
<1>2. i \in 1..Len(identHead)
  BY <1>1
<1>3. /\ i \in DOMAIN identHead'
      /\ identHead'[i] = [identHead[i] EXCEPT !.members = identHead'[i].members]
  BY <1>1, <1>2 DEF Continued
<1>4. ASSUME IsObject(i), ~Outdated(identHead[i].type, i, structs')
      PROVE  sizeofType(identHead[i].type, structs') = SizeOf(i)
  <2> DEFINE type == identHead[i].type
  <2>1. type \in Types(Len(structs))
    <3>1. identHead[i] \in Identifiers(Len(structs))
      BY <1>1, <1>2
    <3> QED BY <3>1 DEF Identifiers
  <2>2. ~Outdated(type, i, structs) => Complete(type, structs)
    BY <1>2, <1>4 DEF SlotsInv, Layout, Placed, Current, Table, IsObject
  <2>3. /\ ~Outdated(type, i, structs')
        /\ \A s \in 1..Len(structs) : /\ s \in 1..Len(structs')
                                      /\ Succeeds(structs[s], structs'[s], Len(identHead))
    BY <1>4 DEF Continued
  <2> HIDE DEF type
  <2>4. sizeofType(type, structs') = sizeofType(type, structs)
    BY <1>1, <1>2, <2>1, <2>2, <2>3, CompleteSize
  <2> QED BY <2>4 DEF SizeOf, type
<1> QED BY <1>3, <1>4

\* The pointers that the AST keeps into the table stay good until gen() follows
\* them: no step of the parser removes or moves an identifier, or resizes the type
\* that an object was declared with, whatever names and tags share a spelling -
\* except that a second definition of a struct resizes what was declared with the
\* first (new_identifier, typeSpec, declaration).
THEOREM PlacesKept == Spec => BoundNamesKeepTheirPlace
<1>1. SlotsInv /\ [Next]_vars => SlotsInv'
  BY SlotsStep
<1>2. BoundNamesKeepTheirPlace <=> [][Kept]_vars
  BY DEF BoundNamesKeepTheirPlace, Kept
<1>3. SlotsInv /\ [Next]_vars => Kept
  BY SlotsStep, ContinuedStep, ContinuedIsKept DEF SlotsInv
<1> QED BY <1>1, <1>2, <1>3, SlotsInit, PTL DEF Spec
=============================================================================
