# Verification of C_Compiler_for_C (9cc) in TLA+

9cc compiles a subset of C to x86-64 assembly in one process: it reads a file,
splits it into tokens, parses them into a list of syntax trees, and prints the
assembly of each tree to standard output. The specifications here follow it
from the characters to the processor: the tokenizer, the recursive descent of
the parser, its symbol table, the code generator, and the execution of the
generated code. TLC checks them on small instances; TLAPS proves the theorems
listed below for every value of the constants.

Paths of the form `parse.c:104` are relative to `src/src/` or `src/include/`.

## The system

| Component | State it keeps | Operations | Hard behaviour | What makes it correct |
|---|---|---|---|---|
| Driver (`main.c`) | `user_input`, the dummy ends of the lists | `read_file`, `main` | a file without a last newline | the passes see a text that ends in a newline |
| Tokenizer (`tokenize.c`) | the token list, `token` (cursor), `charPoint` | `tokenize`, `consume`, `peek`, `expect`, `back_token` | scans that stop only at a delimiter; a table of 2000 lines; escapes replaced in the text that is being read | the tokens are the longest lexemes in order, errors are reported at their place, reading ends |
| Parser (`parse.c`) | the cursor, `code[]` | one function per rule of the grammar, `new_node`, `initializer` | look-ahead by reading and going back; types of nodes | a program gets the tree that the grammar derives, what is refused is no program, what is read ahead leaves no trace, parsing ends |
| Symbol table (`parse.c`) | `identHead`, `identHeadOffset`, `stringHead`, the `Types_t` objects | `new_identifier`, `find_identifier`, `typeSpec`, `declaration`, `funcDefine`, `find_struct_tag`, ... | one list for all scopes and name spaces, never reset; types shared and completed later | slots do not overlap, a name means its innermost declaration, what the trees point to stays put; where scopes end or a struct is defined again it is not, and the runs say so |
| Code generator (`codegen.c`) | `labelIndex`, `alignmentCount`, the recursion of `gen()` | `gen`, `gen_address`, `gens`, `stack_pop`, `pushVarToStack`, `popVarFromStack` | the stack is counted in print order but used in execution order; argument lists relinked in place | labels unique, jumps have targets, every statement leaves the stack as it found it |
| Generated code | rsp, rbp, r12, memory | the printed instructions | branches, loops, nested calls, early returns | rsp is aligned at calls, r12 holds the result's place, a parameter gets its argument, a return finds what the prologue saved |

The passes run one after the other and share global variables: the parser reads
the token list, the code generator reads the trees, the identifier list and the
string list. There is no concurrency, no persistence and no I/O but reading the
source and printing. What is hard is the long-range bookkeeping: a sequence of
legal declarations or statements that drives the list, the frame offset, the
label numbers or the stack count to a state that a later step does not expect.

## Modules

**TokenStream** — what the tokenizer promises: the tokens are the lexemes of the
text from left to right, each the longest that the text allows. A lexeme is
described by the segment of the text that it covers; nothing is said of the
order in which kinds are tried, of inner loops or of buffers.

**Tokenizer** — `read_file`, both loops of `tokenize()`, `new_token` and
`error_at`, character by character. A round of the outer loop is an action
(`keyword`, `long_operator`, `identifier`, ...), and so is each round of the
loops for comments and strings, which walk on their own. The order of the `if`s
of the round is in the guards (`~Reserved`, `~Comment`, `~IsLongOp`). Addresses
are indexes of `user_input`; `charPoint` counts in a signed byte. A loop that
leaves the text ends in the mode `overrun`. `expect` is the parser reporting any
token afterwards. `Promise` is the refinement mapping to TokenStream: the text
of TokenStream is the file, not the `user_input` that is changed on the way.

**Parser** — the functions of the recursive descent. `agenda` is what the calls
on the C stack still have to do, `values` what calls have returned and their
callers have not used yet; a function that calls another before it looks at a
token is no step of its own (`assign_expr` is `unary_expr` and what waits behind
it). The next token is chosen when a call first looks at it, so a run covers
every sequence of tokens, legal or not. `Function`, `Prototype` and `typeName`
set the cursor back (`back_token`, `token = tok`). The types of nodes are kept
as far as they decide whether `new_node` follows a NULL pointer; `identifiers`
as far as it decides what a name becomes.

**CGrammar** — the grammar in the comment at parse.c:17-67, as the set of the
trees that derive a given sequence of tokens. It has no cursor and no order.
Where the comment leaves a choice it takes what C requires (`src/bnf.txt`):
binary operators associate to the left, a declaration ends with a semicolon, an
else belongs to the nearest if. A called expression is a name, and a global
variable has no initializer. The body of a function may be empty, as parse.c:20
and C have it.

**Parsing** — Parser and CGrammar together: the properties that compare them.
`RefusedRightly` leaves out, by name (`AtEmptyBody`), the empty body of a
function, which the parser refuses although the grammar has it.

**SymbolTable** — one action per call of the parser that touches the table. The
variables are the code's globals; `identHead` is the list, oldest first, so that
a walk from the head returns the greatest index that matches. A `Types_t` chain
is a record of its base type and the sequence of its constructors; structs are
shared objects, so that completing a struct changes the type of everything that
refers to it (`typeSpec`, parse.c:1156). `typeSpec` and `new_identifier` are
operators on a record of the three parts of the table, because the parser calls
both within one declaration. `gens` prints the .data section. The code has no
scopes, and what the program text means is recorded beside the table so that
the properties can say which declaration a use should find: `blocks` are the
blocks that are open, function bodies included, `begun` numbers them, and each
local has the `block` that it was declared in; `isTag` tells the identifiers
that `typeSpec` made; of a struct, `complete` says whether its members have been
read, `definedIn` in which blocks, and `redefined` how many identifiers are older
than its last definition. A tag may be defined again in every block: `StructOpen`
finds whatever has its spelling and `StructMember` and `StructClose` overwrite
it, as `typeSpec` does. The program being compiled is chosen step by step among
the C programs that declare before use and define a tag at most once in a block.

**CodeGen** — the recursion of `gen()` as `agenda`, the list of what the calls on
the C stack have left to do. A call of `gen` is a step that replaces the task
"generate this node" by the node's printing and its calls on the children; the
kind of each child is chosen only when its turn comes, so a run covers every
program of its `language` up to a bound; a language is a record of node kinds,
types and shapes of lists, and one run covers several. Only the instructions
that move rsp, use r12 or transfer control are kept. `alignmentCount` is the
code's count; `out[i].at` is the height at which instruction i is printed,
which the properties compare with the execution. The number that `gen` takes
for the block below a switch is left out; nothing depends on the gap.

**Machine** — the printed instructions executed: `pc`, `rsp` and `r12`, for one
activation of one of the functions. Conditional jumps go both ways, so every
path of every program is run. A call is a step that leaves rsp as it is, and
r12 too if the result has up to 8 bytes, which is what `ReturnFindsSavedR12` says
of the function that is run; behind a larger result the epilogue of the function
called pops a word of the value into r12 (codegen.c:599, 607), and the model
knows nothing of r12.
Of the memory, `held` says which word of which argument lies at an address
while a call is prepared, and `registers` the same of the six argument
registers: pushes, calls and `mov [r12]` overwrite them. `ParameterWord` is
where the prologue of the function called finds a parameter
(codegen.c:389-433): not in the first register behind a struct, which is copied
by way of rdi.

**MCTokenizer, MCParser, MCSymbolTable, MCCodeGen, MCMachine** give the constants
their values.

The proofs are beside the modules they are about, and extend them:

* **SymbolTable_proofs** has the type invariant of SymbolTable, the lemmas on
  its operators, and what is proved of the frame and of the pointers into the
  table, **SymbolTableLookups_proofs** what is proved of lookups, members and the
  data section;
* **Tokenizer_proofs** has the invariant of the scan and the table of lines,
  **TokenizerRefinement_proofs** that every step is one that TokenStream promises;
* **Parser_proofs** has the invariant of the stack of calls;
* **CodeGen_proofs** has the invariant of the count, the labels and the jumps;
* **Machine_proofs** has the listing of the code with the heights of the stack, and
  what follows for the code generator and for the processor;
* **RecursionLemmas** says when a function that is defined by its own smaller
  values exists: the sums over lines, the list of the labels of a section, the
  list of the items of a switch.

An operator whose name ends in `_Bug` is the operator after it with a plausible
slip. Nothing in the specifications uses it; it serves to see that a property
fails when the code is wrong.

## What the runs check

| Run | Instance | Properties |
|---|---|---|
| symtab_scopes | 4 identifiers, 2 spellings, 2 blocks, two functions or one in the other, a struct of one member that each block may define again, arrays of pointers, a string | `SlotsDisjoint`: what is written to a local stays in the bytes between it and the local before it, with the sizes types have at the end of the parse, unless its struct has been defined again; `BoundNamesKeepTheirPlace`: what the trees point to never moves, and changes its size only by such a definition; `DataMatchesGlobals`; `UseBindsInnermost`: a use is bound to the declaration in the innermost block that has one, if the newest local of the name is in an open block; a name that no function has declared, to the variable of the file |
| symtab_structs | 4 identifiers, 3 struct types, 2 tags, a function; members that are structs, or arrays of pointers to structs | `TypeOK`, `MembersDisjoint`, `TagLookupFindsTag`, with structs that contain each other, pointers to incomplete structs, and tags found from a function and defined again there |
| codegen | `Labels`: 2 functions, 2 compound nodes nested or in sequence, all kinds with labels, 4 switch bodies; `Calls`: 1 function with calls nested in each other | `LabelsUnique`; `JumpsHaveTargets`: at the end of each function every jump has its label in its function; `GenTypeOK` (labels are numbered by calls that were made); `CountAgreesModulo16`: the count from which the padding of a call is computed agrees, modulo 16, with the height at which the code is printed |
| machine | 1 function, 2 compound nodes: `Control`, blocks of 2 statements with all jumps; `Calls`, calls nested as arguments with arguments in registers or structs of 16 and 24 bytes in memory, none before the first argument in a register, struct results, assignments, members, addresses; `Branches`, calls below conditions, loops and short-circuit operators; `Registers`, calls with six arguments in each other | `StatementsStartBalanced` (by the compiler's count), `HeightIsStatic` (by the processor), `CallAligned`, `ResultSlotOnTop`, `TemporariesBelowFrame`, `ReturnFindsSavedR12`; `ArgumentsArrive`: a function called finds in each of its parameters the words of the argument evaluated for it |
| tokenizer | every text of up to 4 to 6 characters over four alphabets, and five with lines of 126 and 127 characters; `PROGRAM_LINE` is 4 | `TypeOK`, `TokensInOrder`, `SpellingKept`, `ReportIsTrue`, `ReadsAsPromised` (Tokenizer implements TokenStream), `ReadingEnds` |
| parser | every sequence of tokens of fifteen small languages (`MCTexts`): a given beginning, and 5 to 8 tokens of a chosen alphabet behind it | `TypeOK`; `TreesAreDerivations`: a program of the grammar has one derivation and `code[]` is that derivation; `RefusedRightly`: what is reported as an error starts no program; `DeclaredOnce`: what program() reads twice is declared once; `ParsingEnds` |

Why the bounds are enough: a label or a slot can only clash with another one, so
two functions, two nested nodes or two declarations of the same name are the
interesting case, and a third adds nothing new; a drift of the stack shows in
the first statement that leaves it off, in the second iteration of a loop, or in
a call inside the argument of a call. The bounds `MaxIdents`, `MaxStructs`,
`MaxMembers`, `MaxBlocks`, `MaxStrings`, `MaxNodes`, `maxStmts` and
`maxFunctions` are guards of the actions. An expression that is a leaf (a
number, a variable) is not counted against `MaxNodes`; the length of blocks is
bounded by `maxStmts`.
SymbolTable's spellings are symmetric, and SymbolScopes.cfg has the view `Unresolved`:
no step reads `resolved`, which is for the property of a use. What tokenize() does with a character
depends on the two behind it and on the loop it is in; texts of four to six
characters hold every lexeme with every neighbour, nested delimiters, and a
string or comment that is cut off anywhere. With `PROGRAM_LINE = 4` the table of
lines (2000 in the code) is full within the texts, and a line of 127 characters
is the longest that its entries count. For the parser each function of the
descent needs an operand, an operator and what may not follow; the alphabets put
operators of neighbouring and distant levels, dangling elses, and the places
where a token is optional next to each other. With `CodeSize = 3` (1000 in the
code) `code[]` is full within the texts. `Endings` in Parser.cfg are the
continuations with which a refused beginning is tried.

Deadlock is checked in every run: the specifications stutter explicitly when the
compiler has exited or the function has returned.

Fairness: `WF_vars(tokenize)` in Tokenizer and `WF_vars(Parse)` in Parser, and
nothing else. The compiler is one sequential program that waits for nobody, so a
step that it can take it takes. `ReadingEnds` and `ParsingEnds` then say that no
loop goes round on the spot: in tokenize() each round gets on or leaves a loop,
and in program(), which at a token that starts no declaration does not get on,
the assertion at parse.c:382 is what ends it. A text is finite, but neither
property follows from that: the mutants of both loop on a finite text. The runs
of SymbolTable, CodeGen and Machine need no fairness and state no liveness; a
generated loop may run for ever.

### Where the code departs from what it says

| Run | What it shows |
|---|---|
| symtab_namespace | `TagLookupFindsTag` fails when a variable has the spelling of a struct tag. `parse.h:69-88` gives tags a name space of their own; `find_struct_tag` searches all identifiers (parse.c:970). The instance of symtab_structs keeps the spellings apart. |
| symtab_scope | `UseBindsVisible` fails for a variable of the file behind a block that has declared a local of its name: `find_identifier` takes the local, and nothing has been taken out of the list at the end of the block (parse.c:106-111, 461). The same happens to a variable of a block around it, and in every later function. `UseBindsInnermost` is silent there. |
| symtab_redefinition | `LocalsKeepTheirRoom` fails for a local with a struct of the file when the function then defines the tag for itself: the size in the shared type is overwritten (parse.c:1136, 1156) and the local becomes larger than its slot. `SlotsDisjoint`, `BoundNamesKeepTheirPlace` and `MembersDisjoint` leave out what was declared before such a definition (`Outdated`, `Steady`). |
| machine_return | `CallAligned` fails behind an early return of a struct of 24 bytes: the return leaves them subtracted from `alignmentCount` (codegen.c:597-600). |
| machine_mixed | `ResultSlotOnTop` fails for a call with one memory argument and one register argument: the lists share their links (codegen.c:291-309). |
| machine_struct_first | `ArgumentsArrive` fails for a struct before the first argument in a register: the function called copies the struct by way of rdi before it stores the argument from there (codegen.c:134, 158, 409). |

The passing runs stay clear of these inputs, and say so in their constants:
arrays of 8 bytes (a string literal), structs of 16 and 24 bytes, argument lists
of one class or in an order that relinking leaves alone, no struct before the
first argument in a register, switch bodies that do not end in a case, clauses of a for that have a
value, sums of memory arguments that are multiples of 16.

Seen as well, and left out of the runs:

* `error_at` at the end of the file: no line reaches that address, `outputLine`
  is never set and is printed (tokenize.c:354-367). `ReportIsTrue` is about
  tokens before the end.
* A line of more than 127 characters, its new line included, makes its entry of
  `charPoint` negative (tokenize.c:43); `ReportIsTrue` assumes `LinesFit`.
* A switch whose last item is a case: the default appended to it gets the number of
  that case (codegen.c:497-504), and the label is printed twice. `LabelsUnique`
  fails for it; the bodies of the run codegen do not end in a case.
* A statement that is a local array of 40 bytes, declared or named: its address is
  pushed and 40 bytes are popped (codegen.c:256-264), the saved r12 and locals
  among them. `TemporariesBelowFrame` fails for it.
* `int f(){ }`, a function by parse.c:20, is refused: `funcDefine` reads a statement
  before it looks for the brace (parse.c:460). `RefusedRightly` fails for it without
  `AtEmptyBody`.
* One struct of 24 bytes as the only memory argument leaves rsp off by 8 at the
  call (codegen.c:316-319: the padding is computed before it is pushed).
* A seventh argument in registers passes the assertion at codegen.c:286.
* Escapes in the initializer of a char array move `offset` but not the bound
  (parse.c:689).
* `int x = 3;` at the top level makes no progress at `=`: the loop of program()
  fills `code[]` and ends at the assertion. The NULL behind the last tree is
  written behind `code[]` when it is full (parse.c:411): the status `undefined`.
* The semicolon of a declaration is optional (parse.c:756), so texts are accepted
  that are no programs; `TreesAreDerivations` is about programs.
* `f(1)(2)` loses the arguments of the first call (parse.c:1038).
* `new_node` follows the NULL type of an operand, as in `**x + 1` for `int *x`
  (parse.c:217): the status `crash`.

## What is proved

Every theorem is about the specification with its constants as parameters: any
spellings, files, programs and languages, and bounds of any size. A hypothesis
is named where a theorem has one.

### The symbol table

From `SymbolTableAssumption` (what the constants `Bases` and `Shapes` may
contain):

* `TypeCorrect`: `Spec => []TypeOK`. The identifiers, the members and the open
  struct refer only to struct objects that exist, a lookup that finds something
  finds an index of the list, and sizes and offsets are natural numbers.
  `TypeOK` is inductive. The argument goes through what an operation does to
  the three parts of the table: a lookup returns 0 or an index with the
  spelling (`FindIdentifier`, from `GreatestIndex`), sizes are natural numbers
  for every type of the table (`SizeIsNat`), records of a smaller table are
  records of a larger one (`TypesGrow`, `IndicesGrow`), adding an identifier
  or a struct keeps the table well formed (`NewIdentifier`, `TypeSpec`,
  `SetTableType`), and then each action is one lemma.
* `InnermostIsBound`: `Spec => UseBindsInnermost`. The invariant `ScopesInv` says
  that the open blocks are numbered from the outermost to the innermost
  (`Nested`), and that the locals of open blocks lie in the list in the order of
  their blocks (`InOrder`), so that the last match of a walk is the innermost one
  if its block is open (`NewestIsInnermost`).
* `LocalsDisjoint`: `Spec => []SlotsDisjoint`. `SlotsDisjoint` is not inductive:
  closing a struct resizes the type of everything declared with it, and nothing
  in `SlotsDisjoint` says which locals those are. The invariant `SlotsInv` adds
  that an object that is not outdated has a complete type (`Placed`, `Current`),
  and that the struct whose member list is open is incomplete
  (`OpenIsIncomplete`). Then every struct object of a later table succeeds the
  one of before (`Succeeds`): it is the same, or it was incomplete, or its
  definition has made outdated everything that was declared before. `CompleteSize`
  says that the size of a complete type depends on complete structs only
  (pointers stop the recursion of `sizeofType`), `LayoutKept` that the layout
  survives any such change, and `LayoutGrows` that `new_identifier` puts a local
  past all that are there. Names and tags may share spellings.
* `PlacesKept`: `Spec => BoundNamesKeepTheirPlace`, from the same invariant and
  `Succeeds` for each step.

The exceptions in these properties are what symtab_scope and symtab_redefinition
show to go wrong; the theorems say that nothing else does. From the same
assumption and the hypothesis `Names \cap Tags = {}`, which symtab_namespace
shows that the code needs:

* `TagsAreFound`: `Spec => []TagLookupFindsTag`, and `MembersApart`:
  `Spec => []MembersDisjoint`. `KnownInv` extends `SlotsInv` by
  `Described`: where the members of complete and of open structs lie, but for
  members whose own struct has been defined again, and that tags and globals have
  their names alone.
* `GlobalsArePlaced`: `Spec => []DataMatchesGlobals`. `Printed` says that the data
  section is that of the strings followed by that of the globals; no two globals
  have one name, so no label is there twice.

### The tokenizer

From the assumptions of Tokenizer (`CharactersAssumption`, `FilesAssumption`,
`WordsAssumption`, `OpsAssumption`, `ClassesAssumption`, `EscapesAssumption`,
`LineAssumption`: the classes of characters are disjoint, words are letters, the
slash is an operator, an escape replaces no new line), for any files:

* `TokenizerTypeCorrect`: `Spec => []TypeOK`. The scan and the tokens stay inside
  the text and `charPoint` inside its bounds, up to the step that ends in
  `overrun`.
* `TokensOrdered`: `Spec => []TokensInOrder`.
* `SpellingIsKept`: `Spec => []SpellingKept`.
* `ReportsAreTrue`: `Spec => []ReportIsTrue`. `LInv` adds to `Inv` that the entry
  of each finished line is its length and that the lines together are the text
  up to the line that is being read (`Table`). What `error_at` subtracts is then
  the length of the lines before (`SumsAre`, `SumsGrow`, `ReportTrue`). The
  hypothesis that no line is longer than a signed byte counts is in the property
  (`LinesFit`).
* `StepsAsPromised`: `Spec => Promise!Steps`, the safety part of the refinement
  `ReadsAsPromised`: the first state is one of TokenStream's, and each step reads
  the longest lexeme, ends the text, reports an error where no lexeme starts,
  loses what nothing is promised of, or changes nothing of TokenStream. The
  invariant `RInv` is `Inv` with where the lines that are counted end (`Measured`)
  and what the inner loops have passed (`Seen`): the loop for a string stands behind
  a quote and has seen no other that is not escaped.
  The fairness of TokenStream is the part that is left to TLC.

The first three share the inductive invariant `Inv`. `TokensInOrder` and
`SpellingKept` are not inductive: the next token must lie behind all of them and
the text from `p` on must not have been changed yet. `Inv` adds that every token
ends at `p` at the latest, that `user_input` and `source` agree from `p` on, and
where the inner loops stand relative to `p`. `Least` and `RunEndExists`
show that the CHOOSE of `RunEnd` has a witness in the text; `NewToken` is what a
new token keeps of `Inv`, and each action is an instance of it or of `LookInv`
or `ResumeInv`.

Two things were missing in the specification and were found by the proof of
`StepsAsPromised`: that the slash of a comment is one of the short operators (it
is in `ClassesAssumption` now), and that the last entry of the table of keywords,
the null string that ends it, is no keyword (the guard in TokenStream).

### The parser

* `ParserTypeCorrect`: `Spec => []TypeOK`, from `ParserAssumption`. The cursor
  stays within the tokens, also where it is set back, no tree is stored behind
  the end of `code[]`, and a function of the grammar finds the results that it
  uses. `TypeOK` is far from inductive: whether `new_node` finds two operands
  depends on what was put on the agenda many calls before. The invariant `PInv`
  is that of a stack machine. `Takes` and `Gives` are the numbers of results that
  a call uses and leaves; `Runs(calls, d, e, n)` says that the calls, begun with
  d results, never use more than there are and end with e; and the agenda is such
  a list in front of one call of program() (`Agenda`). A step replaces a call by
  calls that in sum take and give as much (`GoOn`), so the proof is one fact about
  each list of calls (`ExpressionLists`, `DeclarationLists`, `StatementLists`,
  `ForLists`, `FileLists`) and one case for each action.

### The code generator

From `CodeGenAssumption`, for any set of languages, which is to say for programs
of any size and shape:

* `GenTypeCorrect`: `GenSpec => []GenTypeOK`.
* `CountAgrees`: `GenSpec => []CountAgreesModulo16`.
* `JumpsFound`: `GenSpec => []JumpsHaveTargets`: whenever a function has been
  generated, every jump printed has its label between the same two entries, on
  either side of it.
* `LabelsAreUnique`: `GenSpec => []LabelsUnique` under `SwitchesEndWell`: no list of
  the items of a switch ends in a case (codegen.c:502).

One invariant `GenInv` carries all four. A label that is printed, or a jump to it,
may be far ahead of the label or the jump that belongs to it, with any number of
other calls in between; so the invariant speaks of what is printed and of what the
agenda has still to print as one sequence (`Program`): every jump in it has its
label in it (`Linkage`), and no label is in it twice. `Situation` says where the code
generator is: about to print the head of a function, where the count starts again,
or inside of one, where the count and the height agree modulo 16.

### The stack of the generated code

From the same assumption and two hypotheses on the programs, for functions of any
length, any nesting of statements and expressions, and every path through them:

* `StatementsBalanced`: `GenSpec /\ []LargeReturnsLast => []StatementsStartBalanced`;
* `HeightStatic`: `Spec /\ []LargeReturnsLast => []HeightIsStatic`;
* `TemporariesBelow`: the same for `TemporariesBelowFrame`;
* `ReturnFinds`: the same for `ReturnFindsSavedR12`;
* `CallsAreAligned`: the same for `CallAligned`, with `ArgumentsPadded`;
* `ResultOnTop`: the same for `ResultSlotOnTop`, with `SixRegistersSuffice`.

The hypotheses are definitions of Machine and are what the code asks of a program
without saying so:

| Hypothesis | What it excludes | Why it is there |
|---|---|---|
| `Orderly` | arrays of more than a word as the value of a statement; clauses of a for that leave nothing or a struct; void arguments; lists of arguments that relinking confuses; a switch without items | arrays violate `TemporariesBelowFrame` (codegen.c:263), and machine_mixed shows what the fourth part is for; the others make `gen()` pop what was not pushed, or read a list that is empty |
| `LargeReturnsLast` | code of a function behind its return of more than 8 bytes | machine_return |
| `ArgumentsPadded` | arguments on the stack whose sizes add up to no multiple of 16 | the padding is computed before they are pushed (codegen.c:316) |
| `SixRegistersSuffice` | a seventh argument in a register, which the assertion at codegen.c:286 lets through | codegen.c:356 adds one byte for it |

They are not vacuous: TLC evaluates `MachineOrderly`, an assumption of MCMachine that
says the first, third and fourth of the languages of the run machine: arguments in
memory and in registers, nested calls, structs, loops, switches and returns in the
middle of a function are all among them. `LargeReturnsLast` is about the program that
is being compiled; in the run machine a large return is the last statement of its
function.

The properties are far from inductive. What a pop takes was pushed by a step of
`gen()` any number of steps before, and what is on the agenda will be printed at a
height that no variable holds. The invariant therefore says that there is a
*listing*: one line for every instruction that has been printed and, behind them,
one for every task that is still on the agenda, each with what rsp,
`alignmentCount` and r12 are before it. In a `Listing` each line is right by itself
(`LineOK`: a statement starts at the bottom of the frame, a call is aligned, the
store of a result has its place in r12 and on top), each leads to the next
(`Follows`: the height changes by what the instruction moves or by what the task
leaves), and the lines with the same label have the same height. `Transcript(L)`
says that L is the listing of `out` and `agenda`.

* A step of `gen()` replaces the line of a task by a block of lines from the same
  height to the same height (`Runs`, and `ListingStep` for the replacement). Blocks
  are joined (`RunsCat`, `RunsFlatten`), so that the proof of each kind of node is to
  follow its heights from one task to the next: `Walk`. The longest is that of a
  call (`FuncCallListed`): the sums of the sizes along the relinked lists
  (`DescendingSums`, `ArgumentSums`), the padding (`CallNumbers`), the arguments, the
  registers, the call, and the place of the result.
* A step of the processor goes from the line at `pc` to the next one, or from a jump
  to the label of the same name. `Placed(L)` says that rsp is that of the line, and
  r12 where the line knows it. Both ends of a jump have the height of the statement
  or the operator that printed them; `JumpsFound` and `LabelsAreUnique` are not
  needed for it.

`MachineInv == GenInv /\ \E L : Transcript(L) /\ Placed(L)` is inductive under the
hypotheses, and the five properties of Machine are read off it.

One operator of Machine was changed for the proof: the pop into an argument register
moves rsp by what `Moved` says of it, like every other instruction, and no longer by a
number of its own.

### How recursion is treated

The provers know nothing of recursive operators and cannot use an induction
theorem with an operator as parameter. Where a proof needs recursion the
specifications use recursive functions, and a proof by induction is about the set
of the numbers that have the property (`UpTo`). RecursionLemmas proves both this and
that such functions exist (`RecursionExists`) from the well-foundedness of the
natural numbers.

### Only checked by TLC

* `ReadingEnds`, `ParsingEnds` and the fairness in `ReadsAsPromised`: liveness and
  `ENABLED` are out of the prover's reach.
* `TreesAreDerivations`, `RefusedRightly` and `DeclaredOnce`: CGrammar is
  recursive over trees.
* `ArgumentsArrive`: it needs which word of which argument lies at an address, next to
  the heights of the stack, and an order of the parameters in the callee that is
  the sum of their sizes from the other end.

## What is not modelled

* Values: arithmetic, the values of number and character tokens, and the
  contents of memory but the arguments of a call. A copy that is too short or an
  unscaled pointer difference is outside.
* A NUL in the source file, which would end the text early; the debug output.
* In Tokenizer, which byte an escape stands for (`'\t'` is 0xB in
  tokenize.c:212); in Parser, the lengths of arrays and of strings.
* In Parser, `int` stands for `char` and `void`, and there are no structs:
  `typeSpec` for a struct, members and tags are in SymbolTable. The two modules
  share no state; what a name is bound to is checked in SymbolTable. The branch of
  the look-ahead of program() for structs (parse.c:385-390) is in neither.
* In SymbolTable, programs that are not C: a tag defined twice in one block, a
  name of the file declared twice. Undeclared variables are an error of
  the parser and are modelled as such; calls of unknown functions are declared as
  in the code.
* Sizes at which the frame of 33808 bytes overflows.
* The three passes one behind the other (`main`): each module starts from what
  the pass before it may produce. `test.c`, `test.sh` and `testcase/` are inputs
  of the compiler, and `testcase/get-pip.py` belongs to another program.

## Plan

1. (done) SymbolTable, CodeGen, Machine, their runs; of SymbolTable type
   correctness, disjoint slots and stable pointers proved.
2. (done) Tokenizer with TokenStream and its proofs; Parser, CGrammar and
   Parsing; the arguments of calls in Machine.
3. (done) The lookups, members and the data section of SymbolTable; the table of
   lines and the refinement of the tokenizer; the stack of the parser; labels,
   jumps and the count of CodeGen.
4. (done) The stack and r12 of the generated code: balanced statements, the height
   at each instruction, the saved r12, aligned calls, the place of a result.
5. Next to prove: `ArgumentsArrive`, with the words of the arguments in the lines of
   the listing.
6. Next to model: the values of expressions, with Machine as a refinement of an
   evaluator of the syntax trees.
