------------------------------- MODULE NumStorage -------------------------------
(***************************************************************************)
(* How the code generator gives objects their storage and resolves names.    *)
(* The source is one text in which declarations, functions and operations of *)
(* main alternate, but generate() passes over it three times: first the       *)
(* declarations of file scope, then the functions, then main.  _limit makes   *)
(* up for the lost order.  The program generated is any program with names    *)
(* from Names; operations without names are left out.                        *)
(***************************************************************************)
EXTENDS Integers, Sequences, StorageLayout

CONSTANTS
    Names,        \* names of objects
    Cells,        \* sizes of objects
    Functions,    \* numbers of the functions /n ... ;
    NumVars,      \* the |n variables, cells 1 .. NumVars
    MemCells,     \* MEM_CELLS
    MaxOps,       \* bound: operations of main
    MaxScopes     \* bound: blocks open at the same time

Main == -1
Units == Functions \cup {Main}
FirstObject == NumVars + 1          \* FIRST_OBJECT_CELL
MaxStatic == MemCells \div 2
NoSymbol == [static |-> FALSE, first |-> 0, cells |-> -1]

ASSUME SizesAssumption ==
    /\ Cells \subseteq Nat /\ Functions \subseteq Nat
    /\ NumVars \in Nat /\ MemCells \in Nat /\ FirstObject <= MaxStatic
    /\ MaxOps \in Nat /\ MaxScopes \in Nat

VARIABLES
    phase,       \* "file", "functions", "function", "main", "done", "error", or
                 \* "crashed" when the generator itself stops on an IndexError
    unit,        \* the function being emitted
    pos,         \* operations of main in front of what is being emitted
    limit,       \* _limit: file-scope declarations visible
    file,        \* _file: [at, name, sym], in order
    scopes,      \* _scopes: per open block a map from names to symbols
    pending,     \* automatic declarations whose initialiser is being emitted:
                 \* [name, sym, depth], depth the open blocks
    constant,    \* a constant initialiser is being emitted
    statics,     \* static objects allocated
    locals,      \* automatic objects allocated, per unit
    static_top,  \* _static_top
    frame_top,   \* _frame_top
    frames,      \* frame size in the emitted text of each unit, -1 if none yet
    base,        \* where the emitted main puts its frame
    global_init, \* _global_init: objects of file scope with an initialiser
    static_init, \* _static_init: static objects of blocks with one
    code         \* uses of objects in the emitted text: [unit, init, pos, sym,
                 \* by], init for the initialisers main runs before its body
                 \* and by the object initialised

vars == <<phase, unit, pos, limit, file, scopes, pending, constant, statics,
          locals, static_top, frame_top, frames, base, global_init, static_init, code>>

\* What no handler of a declaration or a reference changes.
place == <<unit, pos, frames, base>>
names == <<file, scopes, pending>>
storage == <<statics, locals, static_top, frame_top>>
inits == <<global_init, static_init>>

Declares(p) == \E i \in 1 .. Len(file) : file[i].at = p
Emitting ==
    \/ phase = "function"
    \/ phase = "main" /\ pos < MaxOps /\ ~Declares(pos)
Depth == Len(scopes)
Outermost == IF phase = "function" THEN 1 ELSE 0

Stop(p) ==
    /\ phase' = p
    /\ UNCHANGED <<place, limit, names, constant, storage, inits, code>>

--------------------------------------------------------------------------------

\* (Definitions marked "defect" are variants the properties are checked
\* against.)
Region(sym) == [first |-> sym.first, cells |-> sym.cells]

\* _lookup: the innermost block that has the name, then file scope.
Holding(x) == {k \in 1 .. Depth : scopes[k][x] # NoSymbol}
Visible(x) == {i \in 1 .. Len(file) : file[i].at <= limit /\ file[i].name = x}
Last(S) == CHOOSE i \in S : \A j \in S : j <= i

Lookup(x) ==
    IF Holding(x) # {} THEN scopes[Last(Holding(x))][x]
    ELSE IF Visible(x) # {} THEN file[Last(Visible(x))].sym
    ELSE NoSymbol

StaticFitsAlways(n) == TRUE   \* defect: the limit is not tested
StaticFits(n) == static_top + n <= MaxStatic

StaticSym(n) == [static |-> TRUE, first |-> static_top, cells |-> n]
FrameSym(n) == [static |-> FALSE, first |-> frame_top, cells |-> n]

AllocStatic(n) ==
    /\ statics' = statics \cup {Region(StaticSym(n))}
    /\ static_top' = static_top + n
    /\ UNCHANGED <<locals, frame_top>>

AllocFrame(n) ==
    /\ locals' = [locals EXCEPT ![unit] = @ \cup {Region(FrameSym(n))}]
    /\ frame_top' = frame_top + n
    /\ UNCHANGED <<statics, static_top>>

\* The text of an initialiser goes to the end of its list.
Initialise(list, other, sym) ==
    /\ constant' \in BOOLEAN
    /\ list' = IF constant' THEN Append(list, sym) ELSE list
    /\ UNCHANGED other

\* A declarator of file scope in operation pos of main.  Its initialiser, a
\* constant, may follow and sees the name.
FileDecl(x, n) ==
    /\ phase = "file" /\ ~constant /\ pos < MaxOps
    /\ IF (\E i \in 1 .. Len(file) : file[i].name = x) \/ ~StaticFits(n)
       THEN Stop("error")
       ELSE /\ limit' = pos
            /\ file' = Append(file, [at |-> pos, name |-> x, sym |-> StaticSym(n)])
            /\ AllocStatic(n)
            /\ Initialise(global_init, static_init, StaticSym(n))
            /\ UNCHANGED <<phase, place, scopes, pending, code>>

\* The declaration of an automatic object: storage, then its initialiser, in
\* which the name still means what it meant before.
BeginLocal(x, n) ==
    /\ Emitting /\ ~constant
    /\ pending' = Append(pending, [name |-> x, sym |-> FrameSym(n), depth |-> Depth])
    /\ AllocFrame(n)
    /\ UNCHANGED <<phase, place, limit, file, scopes, constant, inits, code>>

\* _declare_local, which needs an open block: the right-hand side of an
\* assignment at the top of main has none.
Bind(x, sym) == scopes' = [scopes EXCEPT ![Depth] = [@ EXCEPT ![x] = sym]]

EndLocal ==
    /\ Emitting /\ ~constant
    /\ pending # <<>>
    /\ LET p == pending[Len(pending)] IN
       /\ p.depth = Depth
       /\ IF Depth = 0 THEN Stop("crashed")
          ELSE IF scopes[Depth][p.name] # NoSymbol THEN Stop("error")
          ELSE /\ Bind(p.name, p.sym)
               /\ pending' = SubSeq(pending, 1, Len(pending) - 1)
               /\ UNCHANGED <<phase, place, limit, file, constant, storage, inits, code>>

\* A static object in a block: its initialiser is a constant that main will
\* run, and the name is declared before it.
DeclareStatic(x, n) ==
    /\ Emitting /\ ~constant
    /\ IF ~StaticFits(n) THEN Stop("error")
       ELSE IF Depth = 0 THEN Stop("crashed")
       ELSE IF scopes[Depth][x] # NoSymbol THEN Stop("error")
       ELSE /\ Bind(x, StaticSym(n))
            /\ AllocStatic(n)
            /\ Initialise(static_init, global_init, StaticSym(n))
            /\ UNCHANGED <<phase, place, limit, file, pending, code>>

EndConstant ==
    /\ Emitting \/ phase = "file"
    /\ constant
    /\ constant' = FALSE
    /\ UNCHANGED <<phase, place, limit, names, storage, inits, code>>

\* An operation that names an object: _require finds it and its address goes
\* into the emitted text.  _check_pure lets constants take the address of
\* static objects only.
Initialised ==
    IF phase = "file" THEN global_init[Len(global_init)] ELSE static_init[Len(static_init)]
PureAlways(sym) == TRUE   \* defect: sym.static is not tested
Pure(sym) == sym.static

Refer(x) ==
    /\ Emitting \/ (phase = "file" /\ constant)
    /\ LET sym == Lookup(x) IN
       IF sym = NoSymbol \/ (constant /\ ~Pure(sym))
       THEN Stop("error")
       ELSE /\ code' = code \cup
                 {[unit |-> IF constant THEN Main ELSE unit, init |-> constant, pos |-> pos,
                   sym |-> sym, by |-> IF constant THEN Initialised ELSE NoSymbol]}
            /\ UNCHANGED <<phase, place, limit, names, constant, storage, inits>>

\* A condition, a loop, a switch: every block is a scope.
OpenBlock ==
    /\ Emitting /\ ~constant
    /\ Depth < MaxScopes
    /\ scopes' = Append(scopes, [x \in Names |-> NoSymbol])
    /\ UNCHANGED <<phase, place, limit, file, pending, constant, storage, inits, code>>

Closable == \A i \in 1 .. Len(pending) : pending[i].depth < Depth

StillOpen ==
    {sym \in {scopes[k][x] : k \in 1 .. Depth - 1, x \in Names} : ~sym.static} \ {NoSymbol}

CloseBlockReusing ==   \* defect: the storage of the block is given out again
    /\ Emitting /\ ~constant
    /\ Depth > Outermost /\ Closable
    /\ scopes' = SubSeq(scopes, 1, Depth - 1)
    /\ frame_top' = Last({0} \cup {sym.first + sym.cells : sym \in StillOpen})
    /\ UNCHANGED <<phase, place, limit, file, pending, constant, statics, locals,
                   static_top, inits, code>>

CloseBlock ==
    /\ Emitting /\ ~constant
    /\ Depth > Outermost /\ Closable
    /\ scopes' = SubSeq(scopes, 1, Depth - 1)
    /\ UNCHANGED <<phase, place, limit, file, pending, constant, storage, inits, code>>

--------------------------------------------------------------------------------
(* The three passes.                                                        *)

\* The next operation of main in the first pass.
NextFileOp ==
    /\ phase = "file" /\ ~constant /\ pos < MaxOps
    /\ pos' = pos + 1
    /\ UNCHANGED <<phase, unit, limit, names, constant, storage, frames, base, inits, code>>

EndFile ==
    /\ phase = "file" /\ ~constant
    /\ phase' = "functions"
    /\ pos' = 0
    /\ UNCHANGED <<unit, limit, names, constant, storage, frames, base, inits, code>>

\* Function f stands behind p operations of main.
LimitAt(p) == p   \* defect: no - 1
Limit(p) == p - 1

BeginFunction(f, p) ==
    /\ phase = "functions"
    /\ frames[f] = -1 /\ pos <= p
    /\ phase' = "function"
    /\ unit' = f
    /\ pos' = p
    /\ limit' = Limit(p)
    /\ scopes' = <<[x \in Names |-> NoSymbol]>>
    /\ frame_top' = 0
    /\ UNCHANGED <<file, pending, constant, statics, locals, static_top, frames,
                   base, inits, code>>

EndFunction ==
    /\ phase = "function" /\ ~constant
    /\ Depth = 1 /\ pending = <<>>
    /\ phase' = "functions"
    /\ scopes' = <<>>
    /\ frames' = [frames EXCEPT ![unit] = frame_top]
    /\ UNCHANGED <<unit, pos, limit, file, pending, constant, storage, base, inits, code>>

BeginMain ==
    /\ phase = "functions"
    /\ phase' = "main"
    /\ unit' = Main
    /\ pos' = 0
    /\ limit' = Limit(0)
    /\ frame_top' = 0
    /\ UNCHANGED <<names, constant, statics, locals, static_top, frames, base, inits, code>>

\* The next operation of main in the last pass; declarations are skipped.
NextMainOp ==
    /\ phase = "main" /\ ~constant /\ pos < MaxOps
    /\ Depth = 0 /\ pending = <<>>
    /\ pos' = pos + 1
    /\ limit' = Limit(pos')
    /\ UNCHANGED <<phase, unit, names, constant, storage, frames, base, inits, code>>

\* main is put together when all bodies are, so ftop starts above every static.
FileTop ==   \* defect: the statics of file scope only
    IF file = <<>> THEN FirstObject ELSE file[Len(file)].sym.first + file[Len(file)].sym.cells
MainBase == static_top

\* The initialisers main runs before its body, in their order in the text.
StartupReversed == static_init \o global_init   \* defect: the lists are swapped
Startup == global_init \o static_init

EndMain ==
    /\ phase = "main" /\ ~constant /\ pos = MaxOps
    /\ Depth = 0 /\ pending = <<>>
    /\ phase' = "done"
    /\ frames' = [frames EXCEPT ![Main] = frame_top]
    /\ base' = MainBase
    /\ UNCHANGED <<unit, pos, limit, names, constant, storage, inits, code>>

Init ==
    /\ phase = "file" /\ unit = Main
    /\ pos = 0 /\ limit = -1
    /\ file = <<>> /\ scopes = <<>> /\ pending = <<>>
    /\ constant = FALSE
    /\ statics = {} /\ locals = [u \in Units |-> {}]
    /\ static_top = FirstObject /\ frame_top = 0
    /\ frames = [u \in Units |-> -1]
    /\ base = 0
    /\ global_init = <<>> /\ static_init = <<>>
    /\ code = {}

Next ==
    \/ \E x \in Names :
         \/ \E n \in Cells : FileDecl(x, n) \/ BeginLocal(x, n) \/ DeclareStatic(x, n)
         \/ Refer(x)
    \/ EndLocal \/ EndConstant \/ OpenBlock \/ CloseBlock
    \/ NextFileOp \/ EndFile
    \/ \E f \in Functions, p \in 0 .. MaxOps : BeginFunction(f, p)
    \/ EndFunction \/ BeginMain \/ NextMainOp \/ EndMain

Spec == Init /\ [][Next]_vars

--------------------------------------------------------------------------------

Symbol == [static : BOOLEAN, first : Nat, cells : Nat]
Scope == [Names -> Symbol \cup {NoSymbol}]
FileEntry == [at : 0 .. MaxOps, name : Names, sym : Symbol]
PendingEntry == [name : Names, sym : Symbol, depth : Nat]
Use == [unit : Units, init : BOOLEAN, pos : 0 .. MaxOps, sym : Symbol,
        by : Symbol \cup {NoSymbol}]

\* Types, and the limit of _alloc_static: static storage never takes more than
\* half of the memory.
TypeOK ==
    /\ phase \in {"file", "functions", "function", "main", "done", "error", "crashed"}
    /\ unit \in Units
    /\ pos \in 0 .. MaxOps /\ limit \in -1 .. MaxOps
    /\ file \in Seq(FileEntry)
    /\ scopes \in Seq(Scope)
    /\ pending \in Seq(PendingEntry)
    /\ constant \in BOOLEAN
    /\ statics \subseteq Object /\ locals \in [Units -> SUBSET Object]
    /\ static_top \in FirstObject .. MaxStatic /\ frame_top \in Nat
    /\ frames \in [Units -> Nat \cup {-1}]
    /\ base \in Nat
    /\ global_init \in Seq(Symbol) /\ static_init \in Seq(Symbol)
    /\ code \subseteq Use

\* No two objects of a unit share a cell, in whatever blocks they are declared
\* and however initialisers nest declarations; nor do two static objects
\* (_alloc_static, _alloc_frame).
Apart(objects) ==
    \A o, q \in objects :
        o # q => o.first + o.cells <= q.first \/ q.first + q.cells <= o.first

ObjectsApart == Apart(statics) /\ \A u \in Units : Apart(locals[u])

\* Every address in the emitted text lies in storage that is there when the
\* text runs: a static object, or an offset in the frame of the very function
\* it is emitted in.  Initialisers of statics run in main, before the frame of
\* the function they are written in exists, and use no frame at all.
FrameSize(u) ==
    IF frames[u] # -1 THEN frames[u] ELSE IF u = unit THEN frame_top ELSE 0

UsesHaveStorage ==
    \A c \in code :
        IF c.sym.static
        THEN FirstObject <= c.sym.first /\ c.sym.first + c.sym.cells <= static_top
        ELSE ~c.init /\ c.sym.first + c.sym.cells <= FrameSize(c.unit)

\* Three passes see what one pass over the text would see: no function and no
\* operation of main uses an object of file scope declared behind it (_limit).
DeclaredBefore ==
    \A c \in code, i \in 1 .. Len(file) :
        ~c.init /\ c.sym = file[i].sym /\ c.sym.cells > 0 => file[i].at < c.pos

\* Initialisers run in an order in which none uses an object whose own
\* initialiser runs later, whether the two are of file scope or of blocks of
\* different functions: also where _check_pure lets one read a pointer, as in
\* &p[0], the pointer has its value (_global_init, then _static_init).
InitialisedFirst ==
    \A c \in code : c.init /\ c.sym.cells > 0 =>
        \A i, j \in 1 .. Len(Startup) :
            Startup[i] = c.by /\ Startup[j] = c.sym => j <= i

\* A program that is emitted keeps the contract its own run relies on: main's
\* frame starts above every static object, and frames hold their objects.
LayoutContract ==
    phase = "done" =>
        /\ NumVars < base /\ base <= MemCells
        /\ Sound(statics, locals,
                 [u \in {v \in Units : frames[v] # -1} |-> frames[u]], NumVars, base)
================================================================================
