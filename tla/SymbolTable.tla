------------------------------ MODULE SymbolTable ------------------------------
(***************************************************************************)
(* The symbol table of the parser (parse.c): identHead, the one list of    *)
(* identifiers of a translation unit, identHeadOffset, the running size of *)
(* the frame, the Types_t objects of the structs, the string literals, and *)
(* the .data section gens() (codegen.c) prints from them.                  *)
(*                                                                         *)
(* A step is one call of the parser that touches the table: a declaration, *)
(* a prototype, the head of a function, the ends of a block, a struct tag  *)
(* and each of its members, a use of a name.  The program being compiled   *)
(* is chosen step by step, among the C programs that declare a name before *)
(* they use it and define a struct tag at most once in a block; an input   *)
(* outside them is named where it is excluded.                             *)
(*                                                                         *)
(* The variables blocks and begun and the fields block, isTag, complete,   *)
(* definedIn and redefined are not in the code, which has no scopes: they  *)
(* record what the program text means, for the properties and for the      *)
(* choice of the next step.                                                *)
(*                                                                         *)
(* An operator whose name ends in _Bug is the operator after it with a     *)
(* plausible slip; nothing uses it but the runs that show that a property  *)
(* would notice.                                                           *)
(***************************************************************************)
EXTENDS Integers, Sequences

CONSTANTS
    Names,        \* spellings the program gives to variables and functions
    Tags,         \* spellings it gives to struct tags (the cfg may share them)
    Members,      \* spellings of struct members
    Bases,        \* the base types it uses, of "int", "char" and "void"
    Shapes,       \* the declarators it uses, of ModLists
    MaxIdents,    \* bound on Len(identHead)
    MaxStructs,   \* bound on the Types_t objects of dataType DT_STRUCT
    MaxMembers,   \* bound on the members of a struct
    MaxBlocks,    \* bound on the blocks begun, function bodies included
    MaxStrings    \* bound on the string literals

VARIABLES
    identHead,       \* the linked list, oldest first
    identHeadOffset, \* bytes of frame handed out so far
    structs,         \* the Types_t objects with dataType DT_STRUCT
    strings,         \* labelID of every string literal, oldest first
    open,            \* the struct whose member list is being parsed
    resolved,        \* what the last step bound a name to, if it was a use
    blocks,          \* the numbers of the blocks that are open, innermost last
    begun,           \* how many blocks have been begun
    status,          \* "parsing", "error" (parseError) or "done"
    data             \* the .data section, once printed

table == <<identHead, identHeadOffset, structs>>
text == <<blocks, begun>>
vars == <<table, strings, open, resolved, text, status, data>>

NoStruct == [tag |-> 0, struct_size |-> 0, members |-> <<>>]
Unbound == [name |-> "", index |-> 0]

\* The block being parsed: a function's body, with its parameters, a "{ }" or a
\* for statement in it; 0 at file scope.
block == IF blocks = <<>> THEN 0 ELSE blocks[Len(blocks)]

-----------------------------------------------------------------------------
(* Types: a chain of Types_t, outermost constructor first, ending in a     *)
(* base type.  The recursion of sizeofType is unrolled to two              *)
(* constructors, which the declarations below never exceed.                *)

Modifiers == [kind : {"ptr", "array"}, n : Nat]  \* n is array_size

\* What a declarator can add to a type: "*" binds tighter than "[ ]".
ModLists ==
    {m \in Seq(Modifiers) :
        Len(m) <= 2 /\ ~(Len(m) = 2 /\ m[1].kind = "ptr" /\ m[2].kind = "array")}

ASSUME SymbolTableAssumption ==
    /\ Bases \subseteq {"int", "char", "void"}
    /\ Shapes \subseteq ModLists

BaseSize(t, objs) ==
    IF t.base = "struct" THEN objs[t.struct].size
    ELSE IF t.base = "int" THEN 4 ELSE IF t.base = "char" THEN 1 ELSE 0

\* A pointer, and an array written without a size, take 8 bytes.
Derived(mod, inner) ==
    IF mod.kind = "array" /\ mod.n # 0 THEN mod.n * inner ELSE 8

sizeofType(t, objs) ==
    LET base  == BaseSize(t, objs)
        inner == IF Len(t.mods) = 2 THEN Derived(t.mods[2], base) ELSE base
    IN  IF t.mods = <<>> THEN base ELSE Derived(t.mods[1], inner)

Slot_Bug(size) == 8

\* A variable or a member takes at least one 8-byte slot.
Slot(size) == IF size >= 8 THEN size ELSE 8

-----------------------------------------------------------------------------
(* Looking a name up.  The lists are walked newest first: a lookup returns *)
(* the greatest index that matches, 0 for NULL.                            *)

Newest(hits) == IF hits = {} THEN 0 ELSE CHOOSE i \in hits : \A j \in hits : j <= i

Declared(name, kind, idents) ==
    {i \in DOMAIN idents : idents[i].name = name /\ idents[i].kind = kind}

find_identifier_Bug(name, idents) ==
    LET lvar == Newest(Declared(name, "LVAR", idents))
        gvar == Newest(Declared(name, "GVAR", idents))
        func == Newest(Declared(name, "FUNC", idents))
    IN  IF gvar # 0 THEN gvar ELSE IF lvar # 0 THEN lvar ELSE func

find_identifier(name, idents) ==
    LET lvar == Newest(Declared(name, "LVAR", idents))
        gvar == Newest(Declared(name, "GVAR", idents))
        func == Newest(Declared(name, "FUNC", idents))
    IN  IF lvar # 0 THEN lvar ELSE IF gvar # 0 THEN gvar ELSE func

find_struct_tag_Bug(t, idents, objs) ==
    Newest(Declared(objs[t.struct].name, "GVAR", idents))

\* The tag of a struct type is searched by its spelling alone, in all kinds.
find_struct_tag(t, idents, objs) ==
    Newest({i \in DOMAIN idents : idents[i].name = objs[t.struct].name})

-----------------------------------------------------------------------------
(* Adding to the table, on a record of its three parts.                    *)

Table == [idents |-> identHead, offset |-> identHeadOffset, structs |-> structs]

\* The table becomes t, if that is within the bounds.
SetTable(t) ==
    /\ Len(t.idents) <= MaxIdents
    /\ Len(t.structs) <= MaxStructs
    /\ identHead' = t.idents
    /\ identHeadOffset' = t.offset
    /\ structs' = t.structs

Identifier(kind, name, type, offset, isTag) ==
    [kind |-> kind, name |-> name, type |-> type, offset |-> offset,
     members |-> <<>>, isTag |-> isTag, block |-> IF kind = "LVAR" THEN block ELSE 0]

new_identifier_Bug(t, kind, name, type, isTag) ==
    LET offset == t.offset + Slot(sizeofType(type, t.structs))
    IN  [idents  |-> Append(t.idents, Identifier(kind, name, type,
                                          IF kind = "LVAR" THEN offset ELSE 0, isTag)),
         offset  |-> IF kind = "LVAR" THEN offset ELSE t.offset,
         structs |-> t.structs]

\* A member is returned unlinked; the other kinds are linked at the head.
new_identifier(t, kind, name, type, isTag) ==
    LET offset == t.offset + Slot(sizeofType(type, t.structs))
    IN  IF kind = "STRUCT_MEMBER" THEN t
        ELSE IF kind = "LVAR"
        THEN [idents  |-> Append(t.idents, Identifier(kind, name, type, offset, isTag)),
              offset  |-> offset,
              structs |-> t.structs]
        ELSE [idents  |-> Append(t.idents, Identifier(kind, name, type, 0, isTag)),
              offset  |-> t.offset,
              structs |-> t.structs]

new_type(base) == [base |-> base, struct |-> 0, mods |-> <<>>]

\* What a program may write as a type specifier.
Specs == [base : Bases, tag : {""}] \cup [base : {"struct"}, tag : Tags]

NewStruct(tag) ==
    [name |-> tag, size |-> 0, complete |-> FALSE, definedIn |-> {}, redefined |-> 0]

\* typeSpec without a member list.  A struct tag that is found gives the type
\* of the identifier found, whatever it is; one that is not becomes an
\* identifier of the kind that is being declared.
typeSpec(t, kind, spec) ==
    LET found == find_identifier(spec.tag, t.idents)
        fresh == [base |-> "struct", struct |-> Len(t.structs) + 1, mods |-> <<>>]
        empty == NewStruct(spec.tag)
        grown == [idents |-> t.idents, offset |-> t.offset,
                  structs |-> Append(t.structs, empty)]
    IN  IF spec.base # "struct" THEN [table |-> t, type |-> new_type(spec.base)]
        ELSE IF found # 0 THEN [table |-> t, type |-> t.idents[found].type]
        ELSE [table |-> new_identifier(grown, kind, spec.tag, fresh, TRUE),
              type  |-> fresh]

\* new_identifier has no case for the kind -1 of a function's return type.
UnknownTag(spec) == spec.base = "struct" /\ find_identifier(spec.tag, identHead) = 0

derive(type, mods) == [type EXCEPT !.mods = mods \o @]

\* Its size does not depend on the base type.
Pointing(t) == \E i \in DOMAIN t.mods : t.mods[i].kind = "ptr"

\* An object can be declared with the type: it is a pointer, or an array of
\* or a plain complete type.
Complete(t, objs) ==
    \/ Pointing(t)
    \/ t.base \in {"int", "char"}
    \/ t.base = "struct" /\ objs[t.struct].complete

-----------------------------------------------------------------------------
(* The parser's steps. *)

Init ==
    /\ identHead = <<>>
    /\ identHeadOffset = 0
    /\ structs = <<>>
    /\ strings = <<>>
    /\ open = NoStruct
    /\ resolved = Unbound
    /\ blocks = <<>>
    /\ begun = 0
    /\ status = "parsing"
    /\ data = <<>>

\* Between two declarations or expressions.
Parsing == status = "parsing" /\ open = NoStruct

kindHere == IF blocks = <<>> THEN "GVAR" ELSE "LVAR"

\* The program does not declare an object or a function of the file twice.
FreshAtFileScope(name, kinds) ==
    \A i \in DOMAIN identHead :
        identHead[i].name = name /\ identHead[i].kind \in kinds => identHead[i].isTag

\* declaration(kind): a variable at file scope, a parameter or a local.
declaration(name, spec, mods) ==
    LET typed == typeSpec(Table, kindHere, spec)
        type  == derive(typed.type, mods)
    IN  /\ Parsing
        /\ Len(type.mods) <= 2
        /\ Complete(type, typed.table.structs)
        /\ blocks = <<>> => FreshAtFileScope(name, {"GVAR", "FUNC"})
        /\ SetTable(new_identifier(typed.table, kindHere, name, type, FALSE))
        /\ resolved' = Unbound
        /\ UNCHANGED <<strings, open, text, status, data>>

\* funcPrototype and the head of funcDefine: the return type, then the name.
FunctionHead(name, spec, mods) ==
    LET typed == typeSpec(Table, "NONE", spec)
    IN  /\ blocks = <<>>
        /\ Parsing
        /\ \A i \in DOMAIN mods : mods[i].kind = "ptr"
        /\ FreshAtFileScope(name, {"GVAR"})
        /\ IF UnknownTag(spec)
           THEN status' = "error" /\ UNCHANGED table
           ELSE /\ Len(derive(typed.type, mods).mods) <= 2
                /\ SetTable(new_identifier(typed.table, "FUNC", name,
                                           derive(typed.type, mods), FALSE))
                /\ UNCHANGED status
        /\ resolved' = Unbound
        /\ UNCHANGED <<strings, open, data>>

funcPrototype(name, spec, mods) ==
    /\ FunctionHead(name, spec, mods)
    /\ UNCHANGED text

funcDefine(name, spec, mods) ==
    /\ begun < MaxBlocks
    /\ FunctionHead(name, spec, mods)
    /\ IF UnknownTag(spec)
       THEN UNCHANGED text
       ELSE blocks' = <<begun + 1>> /\ begun' = begun + 1

\* "{", or "for" "(" with a declaration behind it, which a comment explains as a
\* block of its own.
BlockBegin ==
    /\ blocks # <<>>
    /\ begun < MaxBlocks
    /\ Parsing
    /\ blocks' = Append(blocks, begun + 1)
    /\ begun' = begun + 1
    /\ resolved' = Unbound
    /\ UNCHANGED <<table, strings, open, status, data>>

\* "}", or the end of that for statement: what it declared stays in the table.
BlockEnd ==
    /\ Len(blocks) > 1
    /\ Parsing
    /\ blocks' = SubSeq(blocks, 1, Len(blocks) - 1)
    /\ resolved' = Unbound
    /\ UNCHANGED <<table, strings, open, begun, status, data>>

FunctionEnd_Bug ==
    /\ Len(blocks) = 1
    /\ Parsing
    /\ blocks' = <<>>
    /\ identHead' = <<>>
    /\ resolved' = Unbound
    /\ UNCHANGED <<identHeadOffset, structs, strings, open, begun, status, data>>

\* The "}" of a function body.  Neither the list nor the offset is reset.
FunctionEnd ==
    /\ Len(blocks) = 1
    /\ Parsing
    /\ blocks' = <<>>
    /\ resolved' = Unbound
    /\ UNCHANGED <<table, strings, open, begun, status, data>>

\* The list of members that is read for a struct: from here on it is incomplete,
\* and if it has been defined before, objs[s].redefined is the number of the
\* identifiers that may have been declared with the old definition.
DefineAgain(objs, s, idents) ==
    [objs EXCEPT ![s].complete = FALSE,
                 ![s].definedIn = @ \cup {block},
                 ![s].redefined = IF objs[s].complete THEN Len(idents) ELSE @]

\* "struct" tag "{": find or create the identifier of the tag, whatever has been
\* defined with it in other blocks.
StructOpen(tag) ==
    LET spec  == [base |-> "struct", tag |-> tag]
        typed == typeSpec(Table, kindHere, spec)
        t     == typed.table
        index == find_identifier(tag, t.idents)
        type  == t.idents[index].type
    IN  /\ Parsing
        /\ \A s \in DOMAIN structs : structs[s].name = tag => block \notin structs[s].definedIn
        /\ SetTable(IF type.base = "struct" /\ type.mods = <<>>
                    THEN [t EXCEPT !.structs = DefineAgain(@, type.struct, t.idents)]
                    ELSE t)
        /\ open' = [tag |-> index, struct_size |-> 0, members |-> <<>>]
        /\ resolved' = Unbound
        /\ UNCHANGED <<strings, text, status, data>>

\* One iteration of the member loop.
StructMember(name, spec, mods) ==
    LET typed  == typeSpec(Table, "STRUCT_MEMBER", spec)
        type   == derive(typed.type, mods)
        size   == sizeofType(type, typed.table.structs)
        member == [name |-> name, type |-> type, offset |-> open.struct_size]
    IN  /\ status = "parsing"
        /\ open # NoStruct
        /\ Len(open.members) < MaxMembers
        /\ Len(type.mods) <= 2
        /\ Complete(type, typed.table.structs)
        /\ \A i \in DOMAIN open.members : open.members[i].name # name
        /\ SetTable([idents  |-> [typed.table.idents EXCEPT ![open.tag].members =
                                            Append(open.members, member)],
                     offset  |-> typed.table.offset,
                     structs |-> typed.table.structs])
        /\ open' = [open EXCEPT !.struct_size = @ + Slot(size),
                                !.members = Append(@, member)]
        /\ resolved' = Unbound
        /\ UNCHANGED <<strings, text, status, data>>

\* "}" ";": the size is stored in the type of the identifier of the tag.
StructClose ==
    LET type == identHead[open.tag].type
    IN  /\ status = "parsing"
        /\ open # NoStruct
        /\ open.members # <<>>
        /\ structs' = IF type.base = "struct" /\ type.mods = <<>>
                      THEN [structs EXCEPT ![type.struct] =
                                [@ EXCEPT !.size = open.struct_size, !.complete = TRUE]]
                      ELSE structs
        /\ open' = NoStruct
        /\ resolved' = Unbound
        /\ UNCHANGED <<identHead, identHeadOffset, strings, text,
                       status, data>>

\* primary_expr on a name: bind it, declare an unknown function, or give up.
primary_expr(name, called) ==
    LET found == find_identifier(name, identHead)
    IN  /\ blocks # <<>>
        /\ Parsing
        /\ CASE found # 0 ->
                 /\ resolved' = [name |-> name, index |-> found]
                 /\ UNCHANGED <<table, status>>
             [] found = 0 /\ called ->
                 /\ SetTable(new_identifier(Table, "FUNC", name, new_type("int"), FALSE))
                 /\ resolved' = [name |-> name, index |-> Len(identHead) + 1]
                 /\ UNCHANGED status
             [] found = 0 /\ ~called ->
                 /\ status' = "error"
                 /\ resolved' = Unbound
                 /\ UNCHANGED table
        /\ UNCHANGED <<strings, open, text, data>>

\* A string literal: labelID is the number of literals before it.
new_string_vector ==
    /\ blocks # <<>>
    /\ Parsing
    /\ Len(strings) < MaxStrings
    /\ strings' = Append(strings, Len(strings))
    /\ resolved' = Unbound
    /\ UNCHANGED <<table, open, text, status, data>>

\* The .data section of gens(): the literals, then every GVAR identifier.
StringLabels(ids) == [i \in DOMAIN ids |-> [label |-> <<".LC", ids[i]>>, size |-> 0]]

GlobalLabel(d, objs) == [label |-> <<"", d.name>>, size |-> sizeofType(d.type, objs)]

\* The walk stops at the last identifier, as that over the literals does.
GlobalLabels_Bug(idents, objs) ==
    LET labels[i \in 0..Len(idents)] ==
            IF i = 0 THEN <<>>
            ELSE IF idents[i].kind = "GVAR" /\ i # 1
            THEN Append(labels[i - 1], GlobalLabel(idents[i], objs))
            ELSE labels[i - 1]
    IN  labels[Len(idents)]

GlobalLabels(idents, objs) ==
    LET labels[i \in 0..Len(idents)] ==
            IF i = 0 THEN <<>>
            ELSE IF idents[i].kind = "GVAR"
            THEN Append(labels[i - 1], GlobalLabel(idents[i], objs))
            ELSE labels[i - 1]
    IN  labels[Len(idents)]

gens ==
    /\ blocks = <<>>
    /\ Parsing
    /\ status' = "done"
    /\ data' = StringLabels(strings) \o GlobalLabels(identHead, structs)
    /\ resolved' = Unbound
    /\ UNCHANGED <<table, strings, open, text>>

\* The compiler has exited, or handed the .data section on.
Stopped == status # "parsing" /\ UNCHANGED vars

Next ==
    \/ \E name \in Names, spec \in Specs, mods \in Shapes :
          \/ declaration(name, spec, mods)
          \/ funcPrototype(name, spec, mods)
          \/ funcDefine(name, spec, mods)
    \/ \E name \in Members, spec \in Specs, mods \in Shapes :
          StructMember(name, spec, mods)
    \/ \E tag \in Tags : StructOpen(tag)
    \/ \E name \in Names, called \in BOOLEAN : primary_expr(name, called)
    \/ BlockBegin
    \/ BlockEnd
    \/ FunctionEnd
    \/ StructClose
    \/ new_string_vector
    \/ gens
    \/ Stopped

Spec == Init /\ [][Next]_vars

-----------------------------------------------------------------------------
(* Properties. *)

\* The types, members and identifiers that refer to the first k struct objects;
\* no type is longer than sizeofType is unrolled for.
Types(k) ==
    {t \in [base : {"int", "char", "void", "struct"}, struct : 0..k,
            mods : Seq(Modifiers)] :
        Len(t.mods) <= 2 /\ (t.base = "struct" <=> t.struct # 0)}

MemberRecords(k) == [name : Members, type : Types(k), offset : Nat]

Identifiers(k) ==
    [kind : {"LVAR", "GVAR", "FUNC"}, name : Names \cup Tags, type : Types(k),
     offset : Nat, members : Seq(MemberRecords(k)), isTag : BOOLEAN, block : Nat]

StructObjects ==
    [name : Tags, size : Nat, complete : BOOLEAN, definedIn : SUBSET Nat, redefined : Nat]

\* Identifiers and members only point to struct objects that exist, whatever
\* declared them (new_identifier, typeSpec), and a bound name is in the list.
TypeOK ==
    /\ structs \in Seq(StructObjects)
    /\ identHead \in Seq(Identifiers(Len(structs)))
    /\ identHeadOffset \in Nat
    /\ strings \in Seq(Nat)
    /\ open \in [tag : 0..Len(identHead), struct_size : Nat,
                 members : Seq(MemberRecords(Len(structs)))]
    /\ open = NoStruct \/ open.tag # 0
    /\ resolved \in [name : Names \cup {""}, index : 0..Len(identHead)]
    /\ blocks \in Seq(Nat)
    /\ begun \in Nat
    /\ status \in {"parsing", "error", "done"}

IsLocal(i) == identHead[i].kind = "LVAR"
IsObject(i) == identHead[i].kind \in {"LVAR", "GVAR"} /\ ~identHead[i].isTag
SizeOf(i) == sizeofType(identHead[i].type, structs)

\* The bytes from (rbp-offset) upwards that the code writes: the object's own,
\* and all eight of an argument register (codegen.c:409).
Written(i) == IF SizeOf(i) > 8 THEN SizeOf(i) ELSE 8

\* The i-th identifier has been declared with a definition of its struct that
\* another one has replaced since: its size is that of the new one.
Outdated(type, i, objs) ==
    type.base = "struct" /\ ~Pointing(type) /\ i <= objs[type.struct].redefined

\* What the code writes to a local overlaps neither the saved rbp nor the slot
\* of any local declared before it, and lies in the bytes that identHeadOffset
\* counts - with the sizes gen() will use, which are those at the end of the
\* parse, not those at the declaration (new_identifier, typeSpec).  Not so for
\* a local whose struct has been defined again: LocalsKeepTheirRoom.
SlotsDisjoint ==
    \A j \in DOMAIN identHead :
        IsLocal(j) /\ IsObject(j) /\ ~Outdated(identHead[j].type, j, structs) =>
            /\ Written(j) <= identHead[j].offset
            /\ identHead[j].offset <= identHeadOffset
            /\ \A i \in 1..(j - 1) :
                  IsLocal(i) => identHead[i].offset + Written(j) <= identHead[j].offset

\* Every local has room for its type between rbp and its offset, whatever has
\* been declared since (the picture of a struct's place, codegen.c:176-184).
LocalsKeepTheirRoom ==
    \A j \in DOMAIN identHead :
        IsLocal(j) /\ IsObject(j) => Written(j) <= identHead[j].offset

\* A tag that is defined again keeps the old list until the first new member.
LayoutSize(i) ==
    IF open.tag = i /\ open.members # <<>>
    THEN open.struct_size
    ELSE structs[identHead[i].type.struct].size

\* The members of a struct follow each other without overlapping, inside the
\* size that variables of the struct and copies of it are given - except the
\* members whose own type is a struct that has been defined more than once.
MembersDisjoint ==
    \A i \in DOMAIN identHead : identHead[i].isTag =>
        LET ms == identHead[i].members
            End(a) == ms[a].offset + sizeofType(ms[a].type, structs)
            Steady(a) == \/ ms[a].type.base # "struct"
                         \/ Pointing(ms[a].type)
                         \/ structs[ms[a].type.struct].redefined = 0
        IN  \A a \in DOMAIN ms : Steady(a) =>
                /\ End(a) <= LayoutSize(i)
                /\ \A b \in (a + 1)..Len(ms) : End(a) <= ms[b].offset

\* "." and "->" on a variable whose struct is complete find the tag of the
\* struct and its members (find_struct_tag): tags are a name space of their
\* own, parse.h:69-88.
TagLookupFindsTag ==
    \A i \in DOMAIN identHead :
        LET t   == identHead[i].type
            tag == find_struct_tag(t, identHead, structs)
        IN  t.base = "struct" /\ structs[t.struct].complete =>
                /\ tag # 0
                /\ identHead[tag].isTag
                /\ identHead[tag].type.struct = t.struct
                /\ identHead[tag].members # <<>>

\* Every global variable has exactly one place in .data, of the size that
\* accesses to it use, every literal has its own, and no label is defined
\* twice (gens).
DataMatchesGlobals ==
    status = "done" =>
        /\ \A a, b \in DOMAIN data : data[a].label = data[b].label => a = b
        /\ \A s \in DOMAIN strings :
              \E e \in DOMAIN data : data[e].label = <<".LC", strings[s]>>
        /\ \A i \in DOMAIN identHead :
              identHead[i].kind = "GVAR" /\ IsObject(i) =>
                  \E e \in DOMAIN data :
                      data[e] = [label |-> <<"", identHead[i].name>>, size |-> SizeOf(i)]

\* The locals of a name in the blocks that are open, and in the innermost of
\* the blocks that declare it.
Visible(name, idents) ==
    {i \in Declared(name, "LVAR", idents) : \E k \in DOMAIN blocks : blocks[k] = idents[i].block}

Innermost(name, idents) ==
    LET visible == Visible(name, idents)
    IN  {i \in visible : \A j \in visible : idents[j].block <= idents[i].block}

\* A use of a name is bound to its declaration in the innermost block that has
\* one, and a name that no function declares to the variable of the file, else
\* to the function (find_identifier) - unless the newest local of that name
\* belongs to a block that has ended: UseBindsVisible.
UseBindsInnermost ==
    [][resolved' # Unbound =>
        LET name == resolved'.name
            d == identHead'[resolved'.index]
            locals == Declared(name, "LVAR", identHead')
        IN  /\ d.name = name
            /\ Newest(locals) \in Visible(name, identHead') =>
                  resolved'.index = Newest(Innermost(name, identHead'))
            /\ locals = {} =>
                  (d.kind = "GVAR" <=> Declared(name, "GVAR", identHead') # {})]_vars

\* A use of a name is bound to a declaration whose block is open, if there is
\* one, and else to the variable of the file: a for statement that declares a
\* variable is a block, says the comment of parse.c:557-561.
UseBindsVisible ==
    [][resolved' # Unbound =>
        LET name == resolved'.name
        IN  IF Visible(name, identHead') # {}
            THEN resolved'.index = Newest(Innermost(name, identHead'))
            ELSE Declared(name, "GVAR", identHead') # {} =>
                    identHead'[resolved'.index].kind = "GVAR"]_vars

\* The AST keeps pointers into the table until gen() reads them: an identifier
\* that was linked stays linked, with its slot, and an object keeps its size
\* unless its struct is defined again (parse.c:1149, 1156).
BoundNamesKeepTheirPlace ==
    [][\A i \in DOMAIN identHead :
        /\ i \in DOMAIN identHead'
        /\ identHead'[i] = [identHead[i] EXCEPT !.members = identHead'[i].members]
        /\ IsObject(i) /\ ~Outdated(identHead[i].type, i, structs') =>
              sizeofType(identHead[i].type, structs') = SizeOf(i)]_vars
=============================================================================
