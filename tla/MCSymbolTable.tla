----------------------------- MODULE MCSymbolTable -----------------------------
(* Instances of SymbolTable for TLC. *)
EXTENDS SymbolTable, TLC

CONSTANTS x, f, A, B, m, n

Plain == <<>>
PointerArray == <<[kind |-> "array", n |-> 3], [kind |-> "ptr", n |-> 0]>>

MCShapes == {Plain, PointerArray}
MCPlain == {Plain}

\* The spellings are interchangeable as long as no tag is an object.
Spellings == Permutations(Names) \cup Permutations(Tags) \cup Permutations(Members)

\* No step depends on what the last one bound a name to: SymbolScopes explores the
\* table apart from it, and UseBindsInnermost is about the steps.
Unresolved == <<table, strings, open, text, status, data>>
=============================================================================
