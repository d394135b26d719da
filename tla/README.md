# A verification model of Numlang

Numlang is a stack language with C declarations.  The Python compiler
(`src/numlang/`) turns a `.num` file into one C file, which the host C compiler
builds.  This directory models the compiler's storage and type decisions and the
machine its output runs on, checks the models with TLC and proves the central
invariants with TLAPS.

## Inventory

| component | source | state it keeps | operations | what makes it correct |
|---|---|---|---|---|
| lexer | `numlang/lexer.py` | position, tokens | `tokenize` and one scanner per token class | every character consumed once; numbers and escapes mean what C's do |
| parser | `numlang/parser.py` | token position, `typedefs`, `tags`, `enum_consts` | one method per construct, recursive descent | blocks end where they should (`;`, `)`, `28`, `}`); a tag is defined once |
| type model | `numlang/ctypes_model.py` | `CType` objects, shared and mutated by `complete_struct` | `with_quals`, `complete_struct`, sizes | layouts right for the sizes members keep; no struct contains itself; qualified copies are the same type |
| semantic analysis | `numlang/sema.py` | error list, labels seen | walks over the operation trees | whatever it accepts the C compiler accepts |
| storage allocation | `numlang/codegen_c.py` 126-188, 414-433, 523-590 | `_file`, `_scopes`, `_limit`, `_static_top`, `_frame_top` | declare, look up, open and close blocks, three passes over the text | objects apart; addresses in storage that exists when they are used; C's visibility |
| initialisers | `codegen_c.py` 298-405 | the plan | `_plan`, `_init_lines`, `_check_pure` | every value stored once, in the object its braces belong to; static initialisers constant |
| assignment checks | `codegen_c.py` 99-120, 222-292 | none | `_check_assign`, `_compatible` | const objects never change |
| generated program | C text in `codegen_c.py` 592-1176 | `stack`, `sp`, `mem`, `ftop`, `arrays`, C frames | one C statement per operation | checks stop every bad access; frames private; objects typed |
| conversions | `num_cast`, `codegen_c.py` 658-673 | none | cast, typed store | C's conversion |
| array heap | `codegen_c.py` 639-656, 1085-1099 | `arrays`, `arr_len`, heap blocks | `ARR_NEW`, `ARR_SET`, `ARR_GET` | a length always belongs to the block it is tested for |
| command line | `numlang/main.py` | temporary directory, `-o` file, child processes | compile, run, dump | exit status, nothing left behind, nobody else's files |
| C++ compiler | `src/main.cpp` | tokens, temporary directory, `-o` file | lexer, one C line per token, driver | same operations for a documented subset; as above for the driver |
| capability script | `scripts/check_capabilities.py` | none | validation | matrix consistent |

Interaction.  The parser calls the lexer once and mutates the type model while it
reads declarations; the analysis and the generator walk the tree the parser
built; the generator asks the type model for sizes and writes them as constants
into the C text.  The compiler and the compiled program are sequential; the only
processes that meet are invocations of the two command lines, which share the
system's directory of temporary files.  The hard behaviour is in

* **order** - the generator passes three times over a text in which
  declarations, functions and main alternate; an assignment evaluates its target
  before a right-hand side that may call functions; a call reuses memory of
  frames that are gone; initialisers of statics in functions run in main;
* **protocol** - legal sequences that reach odd states: a tag defined inside its
  own body, a qualified copy of an incomplete type, braces left out, a `goto`
  into the middle of an assignment;
* **failing steps** - a driver is at any moment between a file, a directory and a
  child process that may each fail, be interrupted or be somebody else's;
* **limits** - operand stack, cell memory, static storage, array bounds, the
  C stack, the precision of doubles.

`PROJECT.json` lists these hazards at their lines.

## Plan

Order: what a compiled program does to memory comes first, then the decisions of
the compiler that memory safety rests on, then the front end.

1. `NumRuntime` with `ActivationStore` - done, proved.
2. `NumStorage` with `StorageLayout` - done, proved.
3. `NumCast` - done, proved for the types whose modulus a double counts exactly.
4. `CTypes`, `InitPlan` - done, proved.
5. `Parser`: terminators and separators - done, proved; `Blocks`: semantic analysis
   and the nesting of the emitted C - done, proved.
6. `ArrayHeap` with `ArrayStore`: the arrays of `ARR_*` - done, proved.
7. `ConstFlow`: pointers, loads and assignments against "assigning to a const
   object is a compile error" (`src/README.md`, line 351) - done, proved.
8. `Driver`: both command lines, temporary directory, failing steps, exit status -
   done, proved.
9. `StaticInit`: what `_check_pure` lets run before main against "may not read
   memory" (`src/README.md`, line 363).  That what it lets read has its value by then
   is `InitialisedFirst` of `NumStorage` - done, proved; the text of an initialiser
   itself is not modelled.
10. Integer operations: shifts, `&`, `|`, `%` on truncated doubles, beside the 32-bit
   helpers of the C++ compiler - done in `NumCast`, proved.
11. Lexer numbers and escapes.

Abstract specifications: activation records (`ActivationStore`), arrays without
addresses (`ArrayStore`), and "a const object keeps its value", which is simple
enough to be the invariant `ConstKept`.  Still worth stating: one-pass lexical
scoping for `NumStorage`, C's brace rules as a function for `InitPlan`.  Theorem to
come: the refinement of one-pass scoping.

## Modules

**StorageLayout** is the contract between compiler and compiled program: `Sound`
says that static objects lie between the `|n` variables and the first frame and
automatic objects inside their function's frame.  `NumRuntime` assumes it of its
constants, `NumStorage` shows it of what the generator hands out.

**NumRuntime** is the emitted C program over given storage.  `stack`, `mem`,
`ftop` are the C variables; `frames` is the C call stack with each activation's
`_fb` and the `_aN` variables in scope (`pend`: an address under computation, the
extent of the object it was computed for, and whether it came from a name, a
pointer or an undefined `_aN`); `copy` counts the cells a struct assignment has
left.  One action per emitted operation.  The model runs the *most general
program*: after each operation any other may follow, so control flow
(conditions, loops, switch, goto) needs no actions of its own: it only restricts
the orders, and leaving a right-hand side early is `Abandon`.  Numbers are
abstract (`Numbers`, and `Other` for every double that is not a natural number);
addresses, handles, checks and stack depths are exact.  What a C conversion to
`int` or `long` makes of a number outside its range is the choice `Truncations`;
what an uninitialised `_aN` holds is the choice `Leftovers`.  Every failed check
is the state "failed" (`exit(1)`); running out of C stack is "crashed".  `Start`
zeroes and lays out main's frame, `InitStatic` and constant operations run until
`EnterMain`.

**ActivationStore** is what `NumRuntime` promises about storage, without cells:
globals that live for ever, records that are fresh and zero at a call and gone
at the return, assignments that change one location.  `ImplementsActivations` is
the refinement (`INSTANCE ... WITH` in `NumRuntime`).

**NumStorage** is the generator's symbol handling: `_file`, `_scopes`, `_limit`,
`_static_top`, `_frame_top`, and what it has emitted (`frames`, `base`, `code`).
Phases are the three passes; `BeginLocal`/`EndLocal` are the two halves of an
automatic declaration, between which its initialiser is emitted;
`FileDecl` and `DeclareStatic` may start a constant initialiser, which runs until
`EndConstant` and whose uses of names (`Refer`) record the object they initialise
(`by`); `global_init` and `static_init` hold the objects whose initialisers main will
run, in order.  `BeginFunction`
takes each number once, because the C compiler refuses a second definition.  A
declaration at the top of main that is not an operation of its own has no open
block and stops the compiler with an IndexError ("crashed").  An initialiser of a
static is only modelled as far as names go: the address of a static object, the
name of a static array.

**NumCast** is `num_cast` and the two places that call it.  A double is an
integer number of units of size 1/Unit; `Doubles`, `Whole` and `Floats` are the
finite sets of representable numbers, and each C operation that rounds is rounded
to the nearest (`Nearest`).  `Integer` and `Complement` are the operations on ints:
`ToInt` the conversion `(int)pop()`, `Refuses` the tests the generated C makes, and
`Gives` relates operands and result as C does; what is undefined (`Overflows`,
`ShiftsOut`, values out of range) is a choice.  `Checked`, `OtherRefuses` and
`OtherGives` are the same operations in the C of numlangc, with its words and its
conversion back.

**CTypes** is the parser and type model on struct and union declarations:
`Declare` (member or object), `Forward` (`struct t;`), `OpenBody`, `CloseBody`
(`complete_struct`, then the declarator after the brace).  A type records its
base, whether it is a pointer, the product of its array dimensions, and whether
it is a qualified copy that was taken too early (`stale`).

**InitPlan** is `_plan` as a machine: `calls` is the Python call stack, each entry
with the loop variables of one call; one action per kind of iteration and
`Return`.  `Types` are the types of objects and parts; `WellFormed` is what the type
model guarantees about them, `LayoutsSound` of `CTypes`.  A list is the tree of its
items, a function from places (paths of item numbers) to items, of any length and
depth; a call of `_plan` has the place of its list in `at`.  `home` is what C says of
an item: its braces belong to one object, and a designator names a part of that
object.  `_plan` itself looks a designator up in the object of the innermost call,
which behind elided braces is a part of it; such values are marked `elided`.

**Parser** follows a program from tokens to operations.  Tokens are classes (`"op"` is
any operation without structure; `"goto L;"` three tokens in one, and `"]()"`, which
ends a subscript and calls through the element: a parenthesis directly behind a
subscripted name has no other meaning, see `Callable`).  `open` is the
recursion of the parser, one entry per construct; the actions are what the parser
does with the next token given the innermost construct (`PlainOp`, `Begin`,
`Semicolon`, `Else`, `EndConstruct`, ..., `Mismatch` for its errors), `CloseAtEnd` the
end of the text.  An operation is known by the position where its text starts: `ops`
maps the complete ones to their kind, case labels and nested lists.  What the parser
is measured against is `Around`, a recursive function of the text: the constructs
around a position, each with the part of it, by the rules of the language's README;
`CallsByRules` adds that a parenthesis behind a subscripted name never is a do-while.
Bound (`ValueInBraces`): the value of a declaration has no braces, which `InitPlan` has.

**Blocks** is what the semantic analysis and the code generator do with these
operations: both walk the nested lists of one body after the other, `calls` being the
recursion, `faulty` and `seen` the errors and labels of the analysis, `out` and `texts`
the C as far as statements, case labels and braces go.  `Allowed` says of a text
which jumps, calls and labels the rules permit, `Enclosing` what the braces of a C
text mean.

**ArrayHeap** is the three array operations over `arrays`, `arr_len` and the blocks of
the C heap: `live` are those in use, `heap` what every block holds, also after `free`,
so that `calloc` may hand a block out again with anything in it.  Operands are any
numbers; `(int)` of one out of range is the choice `Truncations`.  `Allocate` has two
outcomes, a block or none; without one the program ends.  The operand stack is that
of `NumRuntime`, with `Push` for whatever the rest of the program pushes.
**ArrayStore** promises the same operations over sequences of numbers, with no
blocks and no lengths; `ImplementsArrays` is the refinement.

**ConstFlow** is assignment as the checks on const see it.  A type is a chain of
pointers with the const of every level.  A statement names an object on the left
(`NameLeft`), walks members, elements and pointers (`WalkLeft`), does the same on the
right (`NameRight`, `WalkRight`), each step with the type `_step_type` gives it and the
object the program reaches, and ends in one of the assignments; one that the
compiler refuses is not enabled.  `mem` is what the program has stored: an address
is the object that has it.  A pointer is indexed inside the array it points into, as
C demands.  Two kinds of statements are accepted without a look at const:
assignments between pointers that differ below the first level, and struct
assignments that overwrite const elements of an array member; right-hand sides of
more than one operation are not checked at all (`codegen_c.py:228`).  They set
`laundered`, and the properties are about what happens before.

**Driver** is `main` of both compilers.  Each invocation in `Jobs` has its tool, its
options, a text that compiles or not, and its own `-o` file; `dirs` is the directory
of temporary files, which all share with the directories of other programs
(`Strangers`).  One action per step between which the system may intervene:
every step may fail, `Interrupt` is SIGINT (an exception in Python; in C++ the end,
except inside `std::system`), `Kill` ends a process that can do nothing about it.
Where the tools differ the model does: `--run` wins over `-o` in Python and
is refused together with it in C++; a signal is `256 - n` or `128 + n`; the C++ compiler
tests an output stream before its destructor flushes it, and looks for a free name
at most `MaxTries` times.  Removing the directory is assumed to work, and a C
compiler that reports success has either built the program it was asked for or
done nothing (`--cc` names any command).

MC modules give constants their values; a definition marked "defect" in a module
is a plausible bug the properties are measured against and is used by nothing.

## Runs

| run | question | bounds |
|---|---|---|
| `frames` | frames, pending addresses, callers' cells, members and elements, struct copies, refinement | 7 cells, 2-entry operand stack, two recursive functions beside main with frames of one and two cells, a static and an automatic object of two cells, three activations deep (three frames of one cell fill the memory, larger ones fail, a fourth activation runs out of C stack), two lvalues per activation; three, two or one things (operands, lvalues, non-zero cells) alive at once, fewer the deeper the calls |
| `storage` | addresses, names and the order of initialisers | two names, sizes 1 and 2, three objects, one use, two operations of main, blocks nested twice, 10 cells so that the limit of static storage is reached |
| `stores` | conversions, integer operations | 2-bit types, 3-bit ints (so that counts from 3 to 5 are accepted here and refused by numlangc), halves, doubles of 4 and floats of 2 binary digits |
| `wide_stores` (violated) | 64-bit conversions, scaled | modulus above the exact integers |
| `types` | declarations in any order | a struct and a union, two members each, two bodies open, three declarations, arrays of no and of two elements (a declarator without brackets is a factor as well, 1) |
| `qualified_types` (violated) | qualified copies | one struct |
| `initialisers` | placement of values | all lists of up to three items, designated or not, for six aggregates of up to three levels; an item is an expression or one of seven lists of up to two items each, with which braces nest five deep |
| `designators` (violated) | designators behind elided braces | lists of up to two of the same items |
| `structure` | where operations end up, what the analysis accepts, what break and continue bind to | all texts over four vocabularies (`MCBlocks`): 13 kinds of tokens up to length 5 for nesting, loops, switches and jumps up to 7, case labels up to 7, labels and calls in main and a function up to 6; most tokens occur once, separators twice |
| `arrays` | reused blocks, lengths, refinement | 2 ids, 3 blocks, stack of 3, numbers 0, 1 and one out of range |
| `const_objects` | what assignments reach | 12 names: const and plain numbers, structs nested and with const members, an array member with const elements, pointers of one and two levels, a function pointer |
| `invocations` | temporary directories, outputs, exit status, termination | two invocations, seven command lines each, three names of which one is taken, two tries, one signal |

The bounds leave room for what the properties are about: frames are created,
destroyed and re-created over the same cells with lvalues waiting below them;
objects have neighbours on both sides; lists are shorter than, equal to and
longer than the aggregate; an array is allocated again over its own old block
and over that of another id; two invocations want the same names and a third
program has one of them; texts are long enough to nest three constructs, or two
of them with a separator, a jump and their terminators.  `CHECK_DEADLOCK FALSE` everywhere: programs,
compilations and plans end.

Violated runs are disagreements with the repository's own words and are explained
in `PROJECT.json` under findings: the conversion of -1 to a 64-bit unsigned type
is 2^64; a `const` pointer to a struct that is completed later is incompatible
with the struct; a designator behind values that fill a sub-object without braces is
looked up in that sub-object, where C takes the object of the enclosing braces.
Others were met and are noted with their hazards: a `goto` into a
REPEAT body skips the initialisation of its counter; a label inside `sizeof` satisfies
the analysis and is never emitted; const is lost through the statements that set `laundered`.

Fairness: `InitPlan` has `WF_vars(Next)`, because `_plan` is a sequential loop that runs
until it returns.  `Driver` has weak fairness of `Step(j)` for every invocation: a
process that can take its next step is scheduled, and a C compiler ends.  A
compiled program may run for ever, so `ProgramEnds` has no fairness, and `Ends` has
it as its only exception.  Nothing else promises liveness.

## Proofs

`NumRuntimeProofs` proves, for every memory size, program and layout that meets
the named assumptions, `TypeOK`, `FramesTile`, `NullCellUntouched` and
`PendingAtHome`.  They are proved together as the inductive invariant `IInv`:
frames tile the memory because each prologue starts at `ftop` and each epilogue
restores it, but that a *named* store misses the callers needs that the address
was computed inside its own frame and that no later frame starts below
(`PendingAtHome`, entry by entry: `AtHome`), which needs the tiling again.
It also proves the action property `CallerFramesPrivate` and the
refinement `ImplementsActivations`: every step is one abstract step or a stutter.
`StructCopied` needs an invariant about the copy under way (`CopiedSoFar`): the cells
copied so far are equal in source and target, both of which lie in live storage and
either coincide or are disjoint, and no step but the copy's own runs until it ends.

`RuntimeHelperProofs` proves of `NumCast` `TypedCells` and `StoreConverts` under `Narrow`, that all
moduli are exact in doubles; the run `wide_stores` shows that the hypothesis is
needed.  `CompilersAgree` is proved without it (`IntegersAgree`), for every width of int, every set of
doubles and all types.  `Power` is a recursive function, whose values the prover can
relate one to the next, where `^` would be opaque.  The two compilers
write the same operations differently, one by bits and one by arithmetic, so the proof is that
bits determine an int (`BitsDetermine`) and that every set of positions is an int's
(`BitsExist`), both by least counterexample over the position; the invariant is
`Numeric`, that only numbers are on the stack and in cells.

`NumStorageProofs` proves, for every set of names, sizes, functions and limits that
meets `SizesAssumption`, all properties of the run `storage`: `TypeOK`, `ObjectsApart`,
`UsesHaveStorage`, `DeclaredBefore`, `InitialisedFirst` and `LayoutContract`.  None is inductive alone.
`IInv` adds `Own`: every object lies in front of the top of its storage (so that the
next one is apart from it); a frame keeps its size once its text is emitted and
starts at 0 for a unit that has no objects yet (`Passes`); every name in scope,
pending or at file scope has been allotted (`NamesAllotted`, from which uses have
storage); objects of file scope are in the order of their declarations and no
block holds one of them (`FileApart`), without which a symbol would not tell which
declaration it came from and `DeclaredBefore` could not be concluded from `_limit`.
`Starts` carries `InitialisedFirst`: the object being initialised is the last static
one allocated (`Initialising`), the initialisers stand in the order of their objects
(`Ordered`: file scope first, since the first pass has ended when a block is emitted),
and what one uses lies below its own object or is that object (`UsedInOrder`).
With `ContractHolds` the two halves meet: what `NumRuntime` assumes as
`StorageLayout!Sound` is what the generator establishes.

`RuntimeHelperProofs` proves of `ArrayHeap` `TypeOK`, `HeapSound` and the refinement `ImplementsArrays`.  The
invariant adds the shape of blocks to `HeapSound`: those of live ids have the
domain `0 .. n - 1` for some n of at least the length, so that a slot that passes the
check exists; the refinement needs that ids do not share blocks, since otherwise a
store to one array would show in another.

`TypesProofs` proves of `ConstFlow` `PointersTyped` and `ConstKept` for all types, struct definitions
and objects that meet the named assumptions (members of a const struct are const,
a struct's copy has the same cells).  `ConstKept` needs `PointersTyped` and
the same of the two lvalues under evaluation: the object reached is what its type
says, and its type is const at the first level if the object is.  The checks of
the compiler are what re-establishes this at each assignment.

It also proves the four properties of the run `types` for every set of tags,
scalars, sizes and every length of a body.  The invariant adds to them that members
of a complete struct have sizes (`MembersSized`), which is why a later definition
changes no size that an offset was computed from, and why whatever a struct contains
was complete before it.  Each action is shown to satisfy `Grows`, what a step may do
to the table of tags, and `Grows` to keep the invariant.  The layout of one body is
proved from the recursive function `Ends` by its least counterexample.
`AlignmentAssumption` (of two alignments one divides the other) is met by `SCALARS`
and `POINTER_BYTES`, whose alignments are 1, 2, 4 and 8; without it the padded
size would have to be a multiple of the alignments' least common multiple.

`DriverProofs` proves the five invariants of `invocations` for any number of
invocations and names.  The invariant relates `pc`, `dir` and `dirs`: an invocation has a
directory exactly between making and removing it, no two have the same, and
each file in it is absent, torn or the invocation's own.  `EveryStepDescends` is the
half of termination that needs no fairness: every step is one invocation's, and the
steps which that one can still take (`StepsLeft`, a natural number, at most
`11 * MaxTries`) become fewer, those of the others stay.  So an invocation cannot
loop, whatever names are taken, whatever fails and whatever the others do; that an
invocation that can take a step does take it is what `Ends` adds, with TLC.

`InitPlanProofs` proves `PlanStaysInside` for all well-formed types and all lists, of any
length and nesting and with any designators; what `ListsAssumption` asks of a list is
only that it is a finite tree.  The invariant is about the stack of calls: a
caller waits at a part that holds the object of its callee (`Waiting`), so that the
objects of the calls are nested (`Inside`) and one of them has the braces (`Owned`,
from which a value lies in its home); and without designators the parts any call
has still to fill lie above all cells that have a value (`Filling`), which is why
no cell is written twice.  A union is over after one member, and a caller's other
parts follow the one it waits at: those are the two uses of `WellFormed`.
`EveryValuePlaced` is about where in the list a value is written.  Its invariant `PInv`
names every expression by its place, the path of item numbers to it.  The expressions
with an assignment are those in front of the place where the innermost call reads
(`Placed`), each once (`Distinct`); that a call reads where its caller's list says
(`Chained`, `Located`) is what makes "in front of" grow by exactly the next
expression.  At the end the two counts agree because assignments and places
correspond one to one.

`PlanDescends` is the half of `PlanEnds` that needs no fairness.  That planning ends is
not obvious because a designator moves the part index backwards.  But it uses up an
item, and a step that uses none up leaves fewer parts to fill: every step but the last
lowers `ToDo`, two natural numbers compared lexicographically: the items of the whole tree
that do not lie in front of the place being read (`Unread`; a list in braces is in front of
its own items, so that depth needs no number of its own), and the parts the calls on
the stack have still to fill (`Work`).  The second is counted with `Measures`, by which a
part is less work than what it is a part of.  Such numbers exist whenever no type
contains itself, as an array or a complete struct cannot: they grow with the depth of
nesting (2 does for structs and arrays of scalars).

`ParserProofs` proves `ParsedByRules` (its second half, `CallsByRules`, from which
construct has ended last behind a closing bracket, `BehindIndex`), and `BlocksProofs` from
it `TypeOK`, `SemaExact`, `NestingKept` and `JumpsBind`, for every set of texts.

*The parser.*  The invariant `PInv` adds that kinds are those the text gives, up to
the two that change while a construct is read (`KindsKept`), and that case labels are
those of their groups (`LabelsKept`).  The proof has a half about texts and a half
about the parser.  Texts: a construct is around every position from its start to
its end and its parts only grow (`Nested`, by least counterexample over the
recursive function), so that operations in a part that lies behind are no longer
added to (`UnderFuture`) and one token more adds at most one operation (`Growth`).
Parser: every action is one of four things that happen to the innermost construct
(`Retops`, `PlainOp`, `Begin`, `Closes`), and each keeps `PInv`.  A list stays ascending
when a construct ends because whatever is complete in the list began before it.
`PartsKept` adds that no operation was ever in a part its construct does not have.

*The walks.*  What is parsed is a tree (`Tree`): every operation is in one list, its
own, and in one body (`Covered`).  A walk knows only its stack of activations; what it
has visited is defined from the innermost one alone (`Visited`): the operations that
lie in front of its next item or in the parts it has been through (`Past`).  Every
step of a walk then adds the operation it enters or passes and nothing else
(`VisitOver`, `VisitDown`, `VisitOn`, `VisitUp`), it starts with none
and ends with all operations of the body (`VisitStart`, `VisitAll`).  The invariant of
the analysis (`CheckAt`) is that the stack is a path of the tree, that its flags say
what is around each activation (`Flagged`), that `seen` has the labels and gotos
visited (`Marks`) and that an error was reported if and only if a body before is
`Wronged` or an operation visited is `Bad` or repeats a label.  At the end this is
`Before(Len(Program))`, which `RulesAre` shows to be what `SemaExact` says: that the labels
of a switch differ is about operations in one and about tokens in the other
(`CasesAre`), which `LabelsKept` and `LabelAlone` (two labels never share a group) bridge.
`EmitAt` is the corresponding path for the code generation.

*The text.*  Neither `NestingKept` nor `JumpsBind` is inductive: both are about finished texts.  `NestInv`
adds the text being written (`OutTold`).  The braces open in it are those of the
activations (`Stacked`, `Braced`), each deeper than its caller's; the statements and
case labels in it are those of the operations and groups the walk has passed and of no
others (`Faithful`), in their order, each statement inside what it was inside of in the
program (`Fit`).  When the walk returns from the body it has passed every operation, so the text tells the
whole program (`Told`, `BlocksTextsTold`), and `NestingKept` is read off it.  `JumpsBind` needs
the rules of `SemaExact` as well: a program with a text was not rejected (`Unsaid`), so around
every `<` and `>` there is what the analysis required, and the text has
the same one innermost.

Only model-checked: liveness, which is `PlanEnds` and `Ends`.  They rest on fairness
and so on ENABLED, which the prover does not treat.  `PlanDescends` and `EveryStepDescends`
prove that neither can go on for ever; that nothing stops short is what the runs show.

## Not modelled

I/O formatting, `RAND`/`TIME` values beyond "some number", the numeric results of
arithmetic (only bounds and failure), the lexer, the checks of the semantic
analysis that are about numbers (cast codes, variable and foreign function
numbers), what the purity check of static initialisers lets through, the C++
compiler's own lexer and its code emission except for ints, the capability script and the test runners; reasons and
plan are in `PROJECT.json`.
