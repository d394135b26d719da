---------------------------- MODULE NumStorageProofs ----------------------------
(***************************************************************************)
(* For every set of names, sizes and functions, and every program: objects    *)
(* never overlap, uses lie in storage that exists, names mean objects that    *)
(* are declared in front of them, initialisers run in the order of their      *)
(* objects, and the program that is emitted keeps the contract of             *)
(* StorageLayout.                                                            *)
(***************************************************************************)
EXTENDS NumStorage, WellFoundedInduction, TLAPS

\* What the allocations keep: objects lie in front of the tops, which only grow
\* while their unit is emitted.
StaticsInside ==
    \A o \in statics : FirstObject <= o.first /\ o.first + o.cells <= static_top
LocalsInside ==
    \A u \in Units : \A o \in locals[u] : o.first + o.cells <= FrameSize(u)

\* What the three passes keep.
Passes ==
    /\ phase \in {"file", "functions", "done"} => scopes = <<>> /\ pending = <<>>
    /\ phase \in {"functions", "done"} => ~constant
    /\ phase = "file" => static_init = <<>>
    /\ phase \in {"function", "main"} => frames[unit] = -1 /\ limit < pos
    /\ phase = "main" => unit = Main
    /\ phase = "function" => unit \in Functions
    /\ phase \in {"file", "functions"} /\ frames[unit] = -1 => frame_top = 0 /\ unit = Main
    /\ phase # "done" => frames[Main] = -1
    /\ phase = "done" => base = static_top
    /\ phase = "file" => \A c \in code : c.init

\* What names mean: objects of the unit or static ones, and those of file scope
\* lie in the order of their declarations in front of all other statics.
Allotted(sym) == Region(sym) \in IF sym.static THEN statics ELSE locals[unit]
Bound(k, x) == scopes[k][x] # NoSymbol
NamesAllotted ==
    /\ \A k \in 1 .. Len(scopes), x \in Names : Bound(k, x) => Allotted(scopes[k][x])
    /\ \A i \in 1 .. Len(pending) : ~pending[i].sym.static /\ Allotted(pending[i].sym)
    /\ \A i \in 1 .. Len(file) : file[i].sym.static /\ Allotted(file[i].sym)
FileApart ==
    /\ \A i, j \in 1 .. Len(file) :
         i < j => file[i].sym.first + file[i].sym.cells <= file[j].sym.first
    /\ \A k \in 1 .. Len(scopes), x \in Names, i \in 1 .. Len(file) :
         scopes[k][x] = file[i].sym => scopes[k][x].cells = 0

\* A static object whose initialiser is being emitted is the last one allocated.
Initialising ==
    phase \in {"file", "function", "main"} /\ constant =>
        /\ Initialised \in Symbol /\ Region(Initialised) \in statics
        /\ Initialised.first + Initialised.cells = static_top

\* Initialisers stand in the order of their objects, and an object they use
\* was allocated before theirs or is their own.
Ordered ==
    /\ \A i, j \in 1 .. Len(Startup) :
          i < j => Startup[i].first + Startup[i].cells <= Startup[j].first
    /\ \A i \in 1 .. Len(Startup) : Startup[i].first + Startup[i].cells <= static_top
UsedInOrder ==
    \A c \in code : c.init /\ c.sym.cells > 0 =>
        c.sym.first + c.sym.cells <= c.by.first \/ Region(c.sym) = Region(c.by)
Starts == Initialising /\ Ordered /\ UsedInOrder

Own == StaticsInside /\ LocalsInside /\ Passes /\ NamesAllotted /\ FileApart
IInv == TypeOK /\ Own /\ ObjectsApart /\ UsesHaveStorage /\ DeclaredBefore

--------------------------------------------------------------------------------
(* Allocation.                                                              *)

LEMMA FrameSizes == IInv => \A u \in Units : FrameSize(u) \in Nat
BY DEF IInv, TypeOK, FrameSize

\* Nothing is allocated and no frame changes its size.
LEMMA NothingAllocated ==
    ASSUME IInv, UNCHANGED storage, \A u \in Units : FrameSize(u)' = FrameSize(u)
    PROVE  StaticsInside' /\ LocalsInside' /\ ObjectsApart'
<1>1. StaticsInside'
  BY DEF IInv, Own, StaticsInside, storage
<1>2. LocalsInside'
  BY DEF IInv, Own, LocalsInside, storage
<1>3. ObjectsApart'
  BY DEF IInv, ObjectsApart, Apart, storage
<1> QED BY <1>1, <1>2, <1>3

LEMMA StaticAllocated ==
    ASSUME IInv, NEW n \in Cells, StaticFits(n), AllocStatic(n), UNCHANGED place
    PROVE  /\ statics' \subseteq Object /\ static_top' \in FirstObject .. MaxStatic
           /\ static_top <= static_top'
           /\ StaticsInside' /\ LocalsInside' /\ ObjectsApart'
           /\ \A u \in Units : FrameSize(u)' = FrameSize(u)
<1> DEFINE o == Region(StaticSym(n))
<1>0. n \in Nat /\ FirstObject \in Nat /\ static_top \in FirstObject .. MaxStatic /\ MaxStatic \in Nat
  BY SizesAssumption DEF IInv, TypeOK, FirstObject, MaxStatic
<1>1. o \in Object /\ o.first = static_top /\ o.cells = n
  BY <1>0 DEF Region, StaticSym, Object
<1> HIDE DEF o
<1>2. statics' = statics \cup {o} /\ static_top' = static_top + n
  BY DEF AllocStatic, o
<1>3. statics' \subseteq Object /\ static_top' \in FirstObject .. MaxStatic /\ static_top <= static_top'
  BY <1>0, <1>1, <1>2 DEF StaticFits, IInv, TypeOK
<1>4. \A u \in Units : FrameSize(u)' = FrameSize(u)
  BY DEF AllocStatic, FrameSize, place
<1>5. \A q \in statics : q \in Object /\ q.first \in Nat /\ q.cells \in Nat
                        /\ FirstObject <= q.first /\ q.first + q.cells <= static_top
  BY DEF IInv, TypeOK, Own, StaticsInside, Object
<1>6. StaticsInside'
  BY <1>0, <1>1, <1>2, <1>5 DEF StaticsInside
<1>7. LocalsInside'
  BY <1>4 DEF LocalsInside, IInv, Own, AllocStatic
<1>8. Apart(statics')
  BY <1>0, <1>1, <1>2, <1>5 DEF Apart, IInv, ObjectsApart
<1>9. ObjectsApart'
  BY <1>8 DEF ObjectsApart, IInv, AllocStatic, Apart
<1> QED BY <1>3, <1>4, <1>6, <1>7, <1>9

LEMMA FrameAllocated ==
    ASSUME IInv, NEW n \in Cells, AllocFrame(n), UNCHANGED place, frames[unit] = -1
    PROVE  /\ locals' \in [Units -> SUBSET Object] /\ frame_top' \in Nat
           /\ StaticsInside' /\ LocalsInside' /\ ObjectsApart'
           /\ \A u \in Units : FrameSize(u) <= FrameSize(u)'
<1> DEFINE o == Region(FrameSym(n))
<1>0. n \in Nat /\ frame_top \in Nat /\ unit \in Units /\ locals \in [Units -> SUBSET Object]
  BY SizesAssumption DEF IInv, TypeOK
<1>1. o \in Object /\ o.first = frame_top /\ o.cells = n
  BY <1>0 DEF Region, FrameSym, Object
<1> HIDE DEF o
<1>2. locals' = [locals EXCEPT ![unit] = @ \cup {o}] /\ frame_top' = frame_top + n
  BY DEF AllocFrame, o
<1>3. locals' \in [Units -> SUBSET Object] /\ frame_top' \in Nat
  BY <1>0, <1>1, <1>2
<1>4. \A u \in Units : FrameSize(u)' = IF u = unit THEN FrameSize(u) + n ELSE FrameSize(u)
  BY <1>2 DEF FrameSize, place
<1>a. \A u \in Units : u = unit => FrameSize(u) = frame_top
  BY DEF FrameSize
<1>5. \A u \in Units : FrameSize(u) <= FrameSize(u)' /\ FrameSize(u)' \in Nat
  <2> SUFFICES ASSUME NEW u \in Units PROVE FrameSize(u) <= FrameSize(u)' /\ FrameSize(u)' \in Nat
    OBVIOUS
  <2>1. FrameSize(u) \in Nat
    BY FrameSizes
  <2>2. FrameSize(u)' = FrameSize(u) + n \/ FrameSize(u)' = FrameSize(u)
    BY <1>4
  <2> QED BY <1>0, <2>1, <2>2
<1>6. \A u \in Units : \A q \in locals[u] :
         q \in Object /\ q.first \in Nat /\ q.cells \in Nat /\ q.first + q.cells <= FrameSize(u)
  BY <1>0 DEF IInv, Own, LocalsInside, Object
<1>7. LocalsInside'
  BY <1>0, <1>1, <1>2, <1>4, <1>5, <1>a, <1>6, FrameSizes DEF LocalsInside
<1>8. \A u \in Units : Apart(locals'[u])
  BY <1>0, <1>1, <1>2, <1>a, <1>6 DEF Apart, IInv, ObjectsApart
<1>9. StaticsInside' /\ ObjectsApart'
  BY <1>8 DEF StaticsInside, ObjectsApart, IInv, Own, AllocFrame, Apart
<1> QED BY <1>3, <1>5, <1>7, <1>9

\* What is in the emitted text keeps its storage, and its place in the program.
LEMMA TextKept ==
    ASSUME IInv, UNCHANGED code, static_top' \in Int, static_top <= static_top',
           \A u \in Units : FrameSize(u)' \in Nat /\ FrameSize(u) <= FrameSize(u)'
    PROVE  UsesHaveStorage'
<1> SUFFICES ASSUME NEW c \in code
             PROVE  IF c.sym.static
                    THEN FirstObject <= c.sym.first /\ c.sym.first + c.sym.cells <= static_top'
                    ELSE ~c.init /\ c.sym.first + c.sym.cells <= FrameSize(c.unit)'
  BY DEF UsesHaveStorage
<1>1. /\ c.unit \in Units /\ c.sym.first \in Nat /\ c.sym.cells \in Nat
      /\ static_top \in Int
  BY DEF IInv, TypeOK, Use, Symbol
<1>2. FrameSize(c.unit) \in Nat /\ FrameSize(c.unit)' \in Nat /\ FrameSize(c.unit) <= FrameSize(c.unit)'
  BY <1>1, FrameSizes
<1>3. IF c.sym.static
      THEN FirstObject <= c.sym.first /\ c.sym.first + c.sym.cells <= static_top
      ELSE ~c.init /\ c.sym.first + c.sym.cells <= FrameSize(c.unit)
  BY DEF IInv, UsesHaveStorage
<1> QED BY <1>1, <1>2, <1>3

LEMMA StopStep ==
    ASSUME IInv, phase \in {"file", "function", "main"},
           Stop("error") \/ Stop("crashed")
    PROVE  IInv'
<1>1. UNCHANGED <<place, limit, names, constant, storage, inits, code>> /\ phase' \in {"error", "crashed"}
  BY DEF Stop
<1>2. \A u \in Units : FrameSize(u)' = FrameSize(u)
  BY <1>1 DEF FrameSize, place, storage
<1>3. TypeOK'
  BY <1>1 DEF IInv, TypeOK, place, storage, names, inits
<1>4. StaticsInside' /\ LocalsInside' /\ ObjectsApart'
  BY <1>1, <1>2, NothingAllocated
<1>5. Passes'
  BY <1>1 DEF IInv, Own, Passes, place, names
<1>6. NamesAllotted' /\ FileApart'
  BY <1>1 DEF IInv, Own, NamesAllotted, FileApart, Bound, Allotted, Region, place, names, storage
<1>7. static_top \in Int /\ static_top' = static_top /\ code' = code
  BY <1>1 DEF IInv, TypeOK, storage
<1>8. UsesHaveStorage'
  BY <1>2, <1>7, FrameSizes, TextKept
<1>9. DeclaredBefore'
  BY <1>1 DEF IInv, DeclaredBefore, names
<1> QED BY <1>3, <1>4, <1>5, <1>6, <1>8, <1>9 DEF IInv, Own

--------------------------------------------------------------------------------
(* Names.                                                                   *)

LEMMA Greatest ==
    ASSUME NEW n \in Nat, NEW S \in SUBSET (1 .. n), S # {}
    PROVE  Last(S) \in S /\ \A j \in S : j <= Last(S)
<1> DEFINE R == OpToRel(<, Nat)
           D == {y \in 0 .. n : n - y \in S}
<1>1. IsWellFoundedOn(R, Nat)
  BY NatLessThanWellFounded
<1>2. \A x, y \in Nat : y < x => <<y, x>> \in R
  BY DEF OpToRel
<1> HIDE DEF R
<1>a. D \in SUBSET Nat /\ D # {}
  <2>1. PICK i \in S : TRUE
    OBVIOUS
  <2>2. n - i \in 0 .. n /\ n - (n - i) = i
    OBVIOUS
  <2>3. n - i \in D
    BY <2>1, <2>2
  <2>4. \A y \in D : y \in Nat
    OBVIOUS
  <2> HIDE DEF D
  <2> QED BY <2>3, <2>4
<1>3. PICK d \in D : \A y \in D : ~(<<y, d>> \in R)
  BY <1>1, <1>a, WFMin
<1>4. \A y \in D : ~(y < d)
  <2> HIDE DEF D
  <2> QED BY <1>a, <1>2, <1>3
<1>5. d \in 0 .. n /\ n - d \in S
  BY <1>3
<1>6. \A j \in S : j <= n - d
  <2> SUFFICES ASSUME NEW j \in S PROVE j <= n - d
    OBVIOUS
  <2>1. n - j \in 0 .. n /\ n - (n - j) = j
    OBVIOUS
  <2>2. ~(n - j < d)
    BY <1>4, <2>1
  <2> QED BY <1>5, <2>1, <2>2
<1> QED BY <1>5, <1>6 DEF Last

\* What a name that is found means.
LEMMA LookupFacts ==
    ASSUME IInv, NEW x \in Names, Lookup(x) # NoSymbol
    PROVE  /\ Lookup(x) \in Symbol /\ Allotted(Lookup(x))
           /\ limit < pos =>
                \A i \in 1 .. Len(file) :
                   Lookup(x) = file[i].sym /\ Lookup(x).cells > 0 => file[i].at < pos
<1>1. /\ scopes \in Seq(Scope) /\ Depth \in Nat
      /\ file \in Seq(FileEntry) /\ Len(file) \in Nat
      /\ limit \in Int /\ pos \in Nat /\ MaxOps \in Nat
  BY SizesAssumption DEF IInv, TypeOK, Depth
<1>2. CASE Holding(x) # {}
  <2>1. PICK k \in 1 .. Len(scopes) : Lookup(x) = scopes[k][x]
    BY <1>1, <1>2, Greatest DEF Lookup, Holding, Depth
  <2>2. scopes[k] \in Scope
    BY <1>1
  <2>3. scopes[k][x] \in Symbol /\ Allotted(scopes[k][x])
    BY <2>1, <2>2 DEF Scope, IInv, Own, NamesAllotted, Bound
  <2>4. \A i \in 1 .. Len(file) : scopes[k][x] = file[i].sym => scopes[k][x].cells = 0
    BY DEF IInv, Own, FileApart
  <2> QED BY <2>1, <2>3, <2>4
<1>3. CASE Holding(x) = {}
  <2>1. PICK k \in Visible(x) : Lookup(x) = file[k].sym
    BY <1>1, <1>3, Greatest DEF Lookup, Visible
  <2>2. k \in 1 .. Len(file) /\ file[k].at <= limit
    BY <2>1 DEF Visible
  <2>a. file[k] \in FileEntry
    BY <1>1, <2>2
  <2>3. file[k].sym \in Symbol /\ Allotted(file[k].sym)
    BY <2>2, <2>a DEF FileEntry, IInv, Own, NamesAllotted
  <2>4. ASSUME NEW i \in 1 .. Len(file), file[k].sym = file[i].sym, file[k].sym.cells > 0
        PROVE  i = k
    <3>1. /\ i < k => file[i].sym.first + file[i].sym.cells <= file[k].sym.first
          /\ k < i => file[k].sym.first + file[k].sym.cells <= file[i].sym.first
      BY <2>2 DEF IInv, Own, FileApart
    <3>2. file[k].sym.first \in Nat /\ file[k].sym.cells \in Nat
      BY <2>3 DEF Symbol
    <3> QED BY <1>1, <2>2, <2>4, <3>1, <3>2
  <2>5. file[k].at \in Nat
    BY <1>1, <2>a DEF FileEntry
  <2> QED BY <1>1, <2>1, <2>2, <2>3, <2>4, <2>5
<1> QED BY <1>2, <1>3

--------------------------------------------------------------------------------
(* Steps that allocate nothing.                                             *)

LEMMA QuietStep ==
    ASSUME IInv, UNCHANGED <<statics, locals, static_top, file, code>>,
           \A u \in Units : FrameSize(u)' = FrameSize(u)
    PROVE  StaticsInside' /\ LocalsInside' /\ ObjectsApart' /\ UsesHaveStorage' /\ DeclaredBefore'
<1>1. StaticsInside' /\ LocalsInside'
  BY DEF IInv, Own, StaticsInside, LocalsInside
<1>2. ObjectsApart'
  BY DEF IInv, ObjectsApart, Apart
<1>3. static_top \in Int /\ static_top' = static_top /\ code' = code
  BY DEF IInv, TypeOK
<1>4. UsesHaveStorage'
  BY <1>3, FrameSizes, TextKept
<1>5. DeclaredBefore'
  BY DEF IInv, DeclaredBefore
<1> QED BY <1>1, <1>2, <1>4, <1>5

\* What the scopes and pending declarations are made of.
LEMMA ScopeFacts ==
    ASSUME IInv
    PROVE  /\ scopes \in Seq(Scope) /\ Depth \in Nat
           /\ \A k \in 1 .. Depth : scopes[k] \in Scope
           /\ pending \in Seq(PendingEntry) /\ Len(pending) \in Nat
           /\ \A i \in 1 .. Len(pending) :
                pending[i].name \in Names /\ pending[i].sym \in Symbol /\ pending[i].depth \in Nat
<1>1. scopes \in Seq(Scope) /\ pending \in Seq(PendingEntry)
  BY DEF IInv, TypeOK
<1>2. \A i \in 1 .. Len(pending) : pending[i] \in PendingEntry
  BY <1>1
<1> QED BY <1>1, <1>2 DEF Depth, PendingEntry

\* A name is bound in the innermost block.
LEMMA BindStep ==
    ASSUME IInv, Depth # 0, NEW x \in Names, NEW sym \in Symbol, Bind(x, sym),
           Allotted(sym)', statics \subseteq statics', UNCHANGED <<unit, file, locals>>,
           \A i \in 1 .. Len(file) : sym = file[i].sym => sym.cells = 0
    PROVE  /\ scopes' \in Seq(Scope)
           /\ \A k \in 1 .. Len(scopes'), y \in Names : (Bound(k, y) => Allotted(scopes[k][y]))'
           /\ FileApart'
<1>1. Depth \in 1 .. Len(scopes) /\ scopes[Depth] \in Scope
  BY ScopeFacts DEF Depth
<1>2. [scopes[Depth] EXCEPT ![x] = sym] \in Scope
  BY <1>1 DEF Scope
<1>3. scopes' = [scopes EXCEPT ![Depth] = [scopes[Depth] EXCEPT ![x] = sym]]
  BY DEF Bind
<1>4. scopes' \in Seq(Scope) /\ Len(scopes') = Len(scopes)
  BY <1>1, <1>2, <1>3, ScopeFacts
<1>5. ASSUME NEW k \in 1 .. Len(scopes'), NEW y \in Names
      PROVE  scopes'[k][y] = sym \/ scopes'[k][y] = scopes[k][y]
  BY <1>1, <1>3, <1>4, <1>5 DEF Scope
<1>6. ASSUME NEW k \in 1 .. Len(scopes'), NEW y \in Names, Bound(k, y)'
      PROVE  Allotted(scopes[k][y])'
  <2>1. PICK s : s = scopes'[k][y]
    OBVIOUS
  <2>2. CASE s = sym
    BY <2>1, <2>2 DEF Allotted
  <2>3. CASE s = scopes[k][y]
    <3>1. Allotted(s)
      BY <1>4, <1>6, <2>1, <2>3 DEF IInv, Own, NamesAllotted, Bound
    <3>2. Region(s) \in IF s.static THEN statics' ELSE locals'[unit']
      BY <3>1 DEF Allotted
    <3> QED BY <2>1, <3>2 DEF Allotted, Region
  <2> QED BY <1>5, <2>1, <2>2, <2>3
<1>7. FileApart'
  BY <1>4, <1>5 DEF FileApart, IInv, Own
<1> QED BY <1>4, <1>6, <1>7

LEMMA NamesKept ==
    ASSUME IInv, UNCHANGED <<unit, names>>, statics \subseteq statics',
           locals[unit] \subseteq locals'[unit]
    PROVE  NamesAllotted' /\ FileApart'
<1>1. FileApart'
  BY DEF IInv, Own, FileApart, names
<1>2. ASSUME NEW s, Allotted(s) PROVE Region(s) \in IF s.static THEN statics' ELSE locals'[unit]
  BY <1>2 DEF Allotted
<1>3. \A k \in 1 .. Len(scopes), x \in Names : Bound(k, x)' => Allotted(scopes[k][x])'
  BY <1>2 DEF IInv, Own, NamesAllotted, Bound, Allotted, Region, names
<1>4. /\ \A i \in 1 .. Len(pending) : ~pending[i].sym.static /\ Allotted(pending[i].sym)'
      /\ \A i \in 1 .. Len(file) : file[i].sym.static /\ Allotted(file[i].sym)'
  BY <1>2 DEF IInv, Own, NamesAllotted, Allotted, Region, names
<1>5. NamesAllotted'
  BY <1>3, <1>4 DEF NamesAllotted, names
<1> QED BY <1>1, <1>5

LEMMA EmittingFacts ==
    ASSUME IInv, Emitting
    PROVE  phase \in {"function", "main"} /\ frames[unit] = -1 /\ limit < pos
BY DEF IInv, Own, Passes, Emitting

LEMMA NextFileOpSafe == IInv /\ NextFileOp => IInv'
<1> SUFFICES ASSUME IInv, NextFileOp PROVE IInv'
  OBVIOUS
<1>1. \A u \in Units : FrameSize(u)' = FrameSize(u)
  BY DEF NextFileOp, FrameSize, storage
<1>2. TypeOK'
  BY SizesAssumption DEF NextFileOp, IInv, TypeOK, storage, names, inits
<1>3. Passes'
  BY DEF NextFileOp, IInv, Own, Passes, storage, names, inits
<1>4. NamesAllotted' /\ FileApart'
  BY NamesKept DEF NextFileOp, storage
<1> QED BY <1>1, <1>2, <1>3, <1>4, QuietStep DEF IInv, Own, NextFileOp, storage, names

LEMMA EndFileSafe == IInv /\ EndFile => IInv'
<1> SUFFICES ASSUME IInv, EndFile PROVE IInv'
  OBVIOUS
<1>1. \A u \in Units : FrameSize(u)' = FrameSize(u)
  BY DEF EndFile, FrameSize, storage
<1>2. TypeOK'
  BY SizesAssumption DEF EndFile, IInv, TypeOK, storage, names, inits
<1>3. Passes'
  BY DEF EndFile, IInv, Own, Passes, storage, names
<1>4. NamesAllotted' /\ FileApart'
  BY NamesKept DEF EndFile, storage
<1> QED BY <1>1, <1>2, <1>3, <1>4, QuietStep DEF IInv, Own, EndFile, storage, names

LEMMA NextMainOpSafe == IInv /\ NextMainOp => IInv'
<1> SUFFICES ASSUME IInv, NextMainOp PROVE IInv'
  OBVIOUS
<1>1. \A u \in Units : FrameSize(u)' = FrameSize(u)
  BY DEF NextMainOp, FrameSize, storage
<1>2. TypeOK'
  BY SizesAssumption DEF NextMainOp, IInv, TypeOK, Limit, storage, names, inits
<1>3. Passes'
  BY SizesAssumption DEF NextMainOp, IInv, TypeOK, Own, Passes, Limit, storage, names
<1>4. NamesAllotted' /\ FileApart'
  BY NamesKept DEF NextMainOp, storage
<1> QED BY <1>1, <1>2, <1>3, <1>4, QuietStep DEF IInv, Own, NextMainOp, storage, names

\* A new frame begins at 0 for a unit that has no objects and no uses yet.
LEMMA BeginFunctionSafe ==
    ASSUME IInv, NEW f \in Functions, NEW p \in 0 .. MaxOps, BeginFunction(f, p)
    PROVE  IInv'
<1>0. f \in Units /\ f # Main /\ p \in Nat /\ MaxOps \in Nat
  BY SizesAssumption DEF Units, Main
<1>1. \A u \in Units : FrameSize(u)' = FrameSize(u)
  BY <1>0 DEF BeginFunction, FrameSize, IInv, Own, Passes
<1> DEFINE empty == [x \in Names |-> NoSymbol]
<1>2. empty \in Scope /\ <<empty>> \in Seq(Scope)
  BY DEF Scope
<1>3. TypeOK'
  BY <1>0, <1>2 DEF BeginFunction, IInv, TypeOK, Limit, inits
<1>4. Passes'
  BY <1>0 DEF BeginFunction, IInv, Own, Passes, Limit
<1>5. pending = <<>> /\ scopes' = <<empty>>
  BY DEF BeginFunction, IInv, Own, Passes
<1>6. \A k \in 1 .. Len(scopes'), x \in Names : scopes'[k][x] = NoSymbol
  BY <1>5
<1>7. \A i \in 1 .. Len(file) :
         file[i].sym \in Symbol /\ file[i].sym.static /\ Region(file[i].sym) \in statics
  <2>1. \A i \in 1 .. Len(file) : file[i] \in FileEntry
    BY DEF IInv, TypeOK
  <2> QED BY <2>1 DEF IInv, Own, NamesAllotted, Allotted, FileEntry
<1>8. NamesAllotted'
  BY <1>5, <1>6, <1>7 DEF NamesAllotted, Bound, Allotted, Region, BeginFunction
<1>9. FileApart'
  <2>1. \A i \in 1 .. Len(file) : file[i].sym # NoSymbol
    BY <1>7 DEF Symbol, NoSymbol
  <2> QED BY <1>6, <2>1 DEF FileApart, IInv, Own, BeginFunction
<1> QED BY <1>1, <1>3, <1>4, <1>8, <1>9, QuietStep DEF IInv, Own, BeginFunction

LEMMA BeginMainSafe == IInv /\ BeginMain => IInv'
<1> SUFFICES ASSUME IInv, BeginMain PROVE IInv'
  OBVIOUS
<1>0. Main \in Units /\ frames[Main] = -1 /\ scopes = <<>> /\ pending = <<>>
  BY DEF Units, IInv, Own, Passes, BeginMain
<1>1. \A u \in Units : FrameSize(u)' = FrameSize(u)
  BY <1>0 DEF BeginMain, FrameSize, IInv, Own, Passes
<1>2. TypeOK'
  BY <1>0, SizesAssumption DEF BeginMain, IInv, TypeOK, Limit, names, inits
<1>3. Passes'
  BY <1>0 DEF BeginMain, IInv, Own, Passes, Limit, names
<1>4. NamesAllotted' /\ FileApart'
  BY <1>0 DEF BeginMain, IInv, Own, NamesAllotted, FileApart, Bound, Allotted, Region, names
<1> QED BY <1>1, <1>2, <1>3, <1>4, QuietStep DEF IInv, Own, BeginMain, names

LEMMA EndFunctionSafe == IInv /\ EndFunction => IInv'
<1> SUFFICES ASSUME IInv, EndFunction PROVE IInv'
  OBVIOUS
<1>0. /\ unit \in Units /\ frames \in [Units -> Nat \cup {-1}] /\ frame_top \in Nat
      /\ frames[unit] = -1
  BY DEF IInv, TypeOK, Own, Passes, EndFunction
<1>1. \A u \in Units : FrameSize(u)' = FrameSize(u)
  BY <1>0 DEF EndFunction, FrameSize, storage
<1>2. TypeOK'
  BY <1>0 DEF EndFunction, IInv, TypeOK, storage, inits
<1>3. Passes'
  <2>1. unit # Main
    BY SizesAssumption DEF EndFunction, IInv, Own, Passes, Main
  <2>2. frames'[unit] = frame_top /\ frame_top # -1 /\ frames'[Main] = frames[Main]
    BY <1>0, <2>1 DEF EndFunction, Units
  <2> QED BY <1>0, <2>2 DEF EndFunction, IInv, Own, Passes, storage
<1>4. NamesAllotted' /\ FileApart'
  BY DEF EndFunction, IInv, Own, NamesAllotted, FileApart, Bound, Allotted, Region, storage
<1> QED BY <1>1, <1>2, <1>3, <1>4, QuietStep DEF IInv, Own, EndFunction, storage

LEMMA EndMainSafe == IInv /\ EndMain => IInv'
<1> SUFFICES ASSUME IInv, EndMain PROVE IInv'
  OBVIOUS
<1>0. /\ unit = Main /\ Main \in Units /\ frames \in [Units -> Nat \cup {-1}] /\ frame_top \in Nat
      /\ frames[Main] = -1 /\ scopes = <<>> /\ static_top \in Nat
  BY SizesAssumption DEF Units, IInv, TypeOK, Own, Passes, EndMain, Depth, FirstObject, MaxStatic
<1>1. \A u \in Units : FrameSize(u)' = FrameSize(u)
  BY <1>0 DEF EndMain, FrameSize, storage
<1>2. TypeOK'
  BY <1>0 DEF EndMain, IInv, TypeOK, MainBase, storage, names, inits
<1>3. Passes'
  BY <1>0 DEF EndMain, IInv, Own, Passes, MainBase, storage, names
<1>4. NamesAllotted' /\ FileApart'
  BY NamesKept DEF EndMain, storage
<1> QED BY <1>1, <1>2, <1>3, <1>4, QuietStep DEF IInv, Own, EndMain, storage, names

LEMMA EndConstantSafe == IInv /\ EndConstant => IInv'
<1> SUFFICES ASSUME IInv, EndConstant PROVE IInv'
  OBVIOUS
<1>1. \A u \in Units : FrameSize(u)' = FrameSize(u)
  BY DEF EndConstant, FrameSize, storage, place
<1>2. TypeOK'
  BY DEF EndConstant, IInv, TypeOK, storage, names, place, inits
<1>3. Passes'
  BY EmittingFacts DEF EndConstant, IInv, Own, Passes, storage, names, place, inits
<1>4. NamesAllotted' /\ FileApart'
  BY NamesKept DEF EndConstant, storage, place
<1> QED BY <1>1, <1>2, <1>3, <1>4, QuietStep DEF IInv, Own, EndConstant, storage, names

LEMMA OpenBlockSafe == IInv /\ OpenBlock => IInv'
<1> SUFFICES ASSUME IInv, OpenBlock PROVE IInv'
  OBVIOUS
<1> DEFINE empty == [x \in Names |-> NoSymbol]
<1>1. \A u \in Units : FrameSize(u)' = FrameSize(u)
  BY DEF OpenBlock, FrameSize, storage, place
<1>2. empty \in Scope /\ \A x \in Names : empty[x] = NoSymbol
  BY DEF Scope
<1>3. scopes' = Append(scopes, empty)
  BY DEF OpenBlock
<1> HIDE DEF empty
<1>4. scopes' \in Seq(Scope) /\ Len(scopes') = Depth + 1 /\ Depth \in Nat
  BY <1>2, <1>3, ScopeFacts DEF Depth
<1>5. \A k \in 1 .. Len(scopes') : scopes'[k] = IF k = Depth + 1 THEN empty ELSE scopes[k]
  BY <1>2, <1>3, <1>4, ScopeFacts DEF Depth
<1>6. TypeOK'
  BY <1>4 DEF OpenBlock, IInv, TypeOK, storage, place, inits
<1>7. Passes'
  BY EmittingFacts DEF OpenBlock, IInv, Own, Passes, storage, place
<1>8. \A i \in 1 .. Len(file) : file[i].sym # NoSymbol
  <2>1. \A i \in 1 .. Len(file) : file[i] \in FileEntry
    BY DEF IInv, TypeOK
  <2> QED BY <2>1 DEF FileEntry, Symbol, NoSymbol
<1>9. \A k \in 1 .. Len(scopes'), x \in Names :
         scopes'[k][x] = NoSymbol \/ (k \in 1 .. Len(scopes) /\ scopes'[k][x] = scopes[k][x])
  BY <1>2, <1>4, <1>5 DEF Depth
<1>10. NamesAllotted' /\ FileApart'
  BY <1>8, <1>9 DEF OpenBlock, IInv, Own, NamesAllotted, FileApart, Bound, Allotted, Region, storage, place
<1> QED BY <1>1, <1>6, <1>7, <1>10, QuietStep DEF IInv, Own, OpenBlock, storage

LEMMA CloseBlockSafe == IInv /\ CloseBlock => IInv'
<1> SUFFICES ASSUME IInv, CloseBlock PROVE IInv'
  OBVIOUS
<1>1. \A u \in Units : FrameSize(u)' = FrameSize(u)
  BY DEF CloseBlock, FrameSize, storage, place
<1>2. Depth \in Nat \ {0}
  BY ScopeFacts DEF CloseBlock, Outermost
<1>3. /\ scopes' \in Seq(Scope) /\ Len(scopes') = Depth - 1
      /\ \A k \in 1 .. Depth - 1 : scopes'[k] = scopes[k]
  <2>1. scopes' = SubSeq(scopes, 1, Depth - 1) /\ Depth - 1 \in 0 .. Len(scopes)
    BY <1>2 DEF CloseBlock, Depth
  <2> QED BY <1>2, <2>1, ScopeFacts
<1>4. TypeOK'
  BY <1>3 DEF CloseBlock, IInv, TypeOK, storage, place, inits
<1>5. Passes'
  BY EmittingFacts DEF CloseBlock, IInv, Own, Passes, storage, place
<1>6. \A k \in 1 .. Len(scopes') : k \in 1 .. Len(scopes) /\ scopes'[k] = scopes[k]
  BY <1>2, <1>3 DEF Depth
<1>7. NamesAllotted'
  <2>1. \A k \in 1 .. Len(scopes'), x \in Names : Bound(k, x)' => Allotted(scopes[k][x])'
    <3> SUFFICES ASSUME NEW k \in 1 .. Len(scopes'), NEW x \in Names, Bound(k, x)'
                 PROVE  Allotted(scopes[k][x])'
      OBVIOUS
    <3>1. scopes'[k] = scopes[k] /\ k \in 1 .. Len(scopes)
      BY <1>6
    <3>2. Allotted(scopes[k][x])
      BY <3>1 DEF Bound, IInv, Own, NamesAllotted
    <3> QED BY <3>1, <3>2 DEF Allotted, CloseBlock, Region, storage, place
  <2>2. /\ \A i \in 1 .. Len(pending) : ~pending[i].sym.static /\ Allotted(pending[i].sym)'
        /\ \A i \in 1 .. Len(file) : file[i].sym.static /\ Allotted(file[i].sym)'
    BY DEF CloseBlock, IInv, Own, NamesAllotted, Allotted, Region, storage, place
  <2> QED BY <2>1, <2>2 DEF NamesAllotted, CloseBlock
<1>8. FileApart'
  <2>1. file' = file
    BY DEF CloseBlock
  <2>2. ASSUME NEW k \in 1 .. Len(scopes'), NEW x \in Names, NEW i \in 1 .. Len(file),
               scopes'[k][x] = file[i].sym
        PROVE  scopes'[k][x].cells = 0
    <3>1. scopes'[k] = scopes[k] /\ k \in 1 .. Len(scopes)
      BY <1>6
    <3> QED BY <2>2, <3>1 DEF IInv, Own, FileApart
  <2> QED BY <2>1, <2>2 DEF FileApart, IInv, Own
<1> QED BY <1>1, <1>4, <1>5, <1>7, <1>8, QuietStep DEF IInv, Own, CloseBlock, storage

LEMMA EndLocalSafe == IInv /\ EndLocal => IInv'
<1> SUFFICES ASSUME IInv, EndLocal PROVE IInv'
  OBVIOUS
<1>0. phase \in {"function", "main"} /\ frames[unit] = -1 /\ limit < pos
  BY EmittingFacts DEF EndLocal
<1>1. CASE Stop("error") \/ Stop("crashed")
  BY <1>0, <1>1, StopStep
<1>2. CASE ~(Stop("error") \/ Stop("crashed"))
  <2>0. PICK p : p = pending[Len(pending)]
    OBVIOUS
  <2>1. /\ Len(pending) \in Nat \ {0} /\ Depth # 0
        /\ Bind(p.name, p.sym)
        /\ pending' = SubSeq(pending, 1, Len(pending) - 1)
        /\ UNCHANGED <<phase, place, limit, file, constant, storage, inits, code>>
    BY <1>2, <2>0, ScopeFacts DEF EndLocal
  <2>2. p.name \in Names /\ p.sym \in Symbol /\ ~p.sym.static /\ Allotted(p.sym)
    BY <2>0, <2>1, ScopeFacts DEF IInv, Own, NamesAllotted
  <2>3. \A i \in 1 .. Len(file) : file[i].sym # p.sym
    BY <2>2 DEF IInv, Own, NamesAllotted
  <2>4. Allotted(p.sym)'
    BY <2>1, <2>2 DEF Allotted, storage, place, Region
  <2>5. /\ scopes' \in Seq(Scope)
        /\ \A k \in 1 .. Len(scopes'), y \in Names : (Bound(k, y) => Allotted(scopes[k][y]))'
        /\ FileApart'
    BY <2>1, <2>2, <2>3, <2>4, BindStep DEF storage, place
  <2>6. /\ pending' \in Seq(PendingEntry)
        /\ \A i \in 1 .. Len(pending') : i \in 1 .. Len(pending) /\ pending'[i] = pending[i]
    BY <2>1, ScopeFacts
  <2>7. TypeOK'
    BY <2>1, <2>5, <2>6 DEF IInv, TypeOK, storage, place, inits
  <2>8. Passes'
    BY <1>0, <2>1 DEF IInv, Own, Passes, storage, place
  <2>9. NamesAllotted'
    <3>1. \A i \in 1 .. Len(pending') : ~pending'[i].sym.static /\ Allotted(pending[i].sym)'
      <4> SUFFICES ASSUME NEW i \in 1 .. Len(pending')
                   PROVE  ~pending'[i].sym.static /\ Allotted(pending[i].sym)'
        OBVIOUS
      <4>1. i \in 1 .. Len(pending) /\ pending'[i] = pending[i]
        BY <2>6
      <4>2. ~pending[i].sym.static /\ Allotted(pending[i].sym)
        BY <4>1 DEF IInv, Own, NamesAllotted
      <4> QED BY <2>1, <4>1, <4>2 DEF Allotted, Region, storage, place
    <3>2. \A i \in 1 .. Len(file) : file[i].sym.static /\ Allotted(file[i].sym)'
      BY <2>1 DEF IInv, Own, NamesAllotted, Allotted, Region, storage, place
    <3> QED BY <2>1, <2>5, <3>1, <3>2 DEF NamesAllotted
  <2>10. \A u \in Units : FrameSize(u)' = FrameSize(u)
    BY <2>1 DEF FrameSize, storage, place
  <2> QED BY <2>1, <2>5, <2>7, <2>8, <2>9, <2>10, QuietStep DEF IInv, Own, storage
<1> QED BY <1>1, <1>2

LEMMA BeginLocalSafe ==
    ASSUME IInv, NEW x \in Names, NEW n \in Cells, BeginLocal(x, n)
    PROVE  IInv'
<1> DEFINE e == [name |-> x, sym |-> FrameSym(n), depth |-> Depth]
<1>0. phase \in {"function", "main"} /\ frames[unit] = -1 /\ limit < pos
  BY EmittingFacts DEF BeginLocal
<1>1. /\ AllocFrame(n) /\ pending' = Append(pending, e)
      /\ UNCHANGED <<phase, place, limit, file, scopes, constant, inits, code>>
      /\ statics' = statics /\ static_top' = static_top
  BY DEF BeginLocal, AllocFrame
<1>2. n \in Nat /\ frame_top \in Nat /\ unit \in Units /\ static_top \in Int
      /\ locals \in [Units -> SUBSET Object]
  BY SizesAssumption DEF IInv, TypeOK
<1>3. FrameSym(n) \in Symbol /\ ~FrameSym(n).static
  BY <1>2 DEF FrameSym, Symbol
<1>4. e \in PendingEntry /\ e.sym = FrameSym(n)
  BY <1>3, ScopeFacts DEF PendingEntry
<1>5. locals' = [locals EXCEPT ![unit] = @ \cup {Region(FrameSym(n))}]
  BY <1>1 DEF AllocFrame
<1> HIDE DEF e
<1>6. /\ locals' \in [Units -> SUBSET Object] /\ frame_top' \in Nat
      /\ StaticsInside' /\ LocalsInside' /\ ObjectsApart'
      /\ \A u \in Units : FrameSize(u) <= FrameSize(u)'
  BY <1>0, <1>1, FrameAllocated
<1>7. /\ pending' \in Seq(PendingEntry) /\ Len(pending') = Len(pending) + 1
      /\ \A i \in 1 .. Len(pending') :
           pending'[i] = e \/ (i \in 1 .. Len(pending) /\ pending'[i] = pending[i])
  BY <1>1, <1>4, ScopeFacts
<1>8. TypeOK'
  BY <1>1, <1>6, <1>7 DEF IInv, TypeOK, place, inits
<1>9. Passes'
  BY <1>0, <1>1 DEF IInv, Own, Passes, place
<1>10. ASSUME NEW s, Allotted(s) PROVE Region(s) \in IF s.static THEN statics' ELSE locals'[unit']
  BY <1>1, <1>2, <1>5, <1>10 DEF Allotted, place
<1>11. NamesAllotted'
  <2>1. \A i \in 1 .. Len(pending') : ~pending'[i].sym.static /\ Allotted(pending[i].sym)'
    <3> SUFFICES ASSUME NEW i \in 1 .. Len(pending')
                 PROVE  ~pending'[i].sym.static /\ Allotted(pending[i].sym)'
      OBVIOUS
    <3>1. CASE pending'[i] = e
      BY <1>1, <1>2, <1>3, <1>4, <1>5, <3>1 DEF Allotted, Region, place
    <3>2. CASE i \in 1 .. Len(pending) /\ pending'[i] = pending[i]
      BY <1>10, <3>2 DEF IInv, Own, NamesAllotted, Allotted, Region
    <3> QED BY <1>7, <3>1, <3>2
  <2>2. \A k \in 1 .. Len(scopes), y \in Names : Bound(k, y)' => Allotted(scopes[k][y])'
    BY <1>1, <1>10 DEF IInv, Own, NamesAllotted, Bound, Allotted, Region
  <2>3. \A i \in 1 .. Len(file) : file[i].sym.static /\ Allotted(file[i].sym)'
    BY <1>1, <1>10 DEF IInv, Own, NamesAllotted, Allotted, Region
  <2> QED BY <1>1, <2>1, <2>2, <2>3 DEF NamesAllotted
<1>12. FileApart'
  BY <1>1 DEF FileApart, IInv, Own
<1>13. \A u \in Units : FrameSize(u)' \in Nat
  BY <1>6, <1>8 DEF TypeOK, FrameSize
<1>14. UsesHaveStorage'
  BY <1>1, <1>2, <1>6, <1>13, TextKept
<1>15. DeclaredBefore'
  BY <1>1 DEF DeclaredBefore, IInv
<1> QED BY <1>6, <1>8, <1>9, <1>11, <1>12, <1>14, <1>15 DEF IInv, Own

\* A new static object lies behind those of file scope, so it is none of them.
LEMMA NewStatic ==
    ASSUME IInv, NEW n \in Cells, NEW sym, sym = StaticSym(n)
    PROVE  /\ sym \in Symbol /\ sym.static /\ sym.cells = n /\ sym.first = static_top
           /\ \A i \in 1 .. Len(file) :
                /\ file[i].sym.first + file[i].sym.cells <= sym.first
                /\ sym = file[i].sym => sym.cells = 0
<1>1. n \in Nat /\ static_top \in Nat
  BY SizesAssumption DEF IInv, TypeOK, FirstObject, MaxStatic
<1>2. sym \in Symbol /\ sym.static /\ sym.cells = n /\ sym.first = static_top
  BY <1>1 DEF StaticSym, Symbol
<1>3. ASSUME NEW i \in 1 .. Len(file)
      PROVE  file[i].sym.first + file[i].sym.cells <= static_top
  BY DEF IInv, Own, NamesAllotted, StaticsInside, Allotted, Region
<1> QED BY <1>1, <1>2, <1>3

LEMMA DeclareStaticSafe ==
    ASSUME IInv, NEW x \in Names, NEW n \in Cells, DeclareStatic(x, n)
    PROVE  IInv'
<1>0. phase \in {"function", "main"} /\ frames[unit] = -1 /\ limit < pos
  BY EmittingFacts DEF DeclareStatic
<1>1. CASE Stop("error") \/ Stop("crashed")
  BY <1>0, <1>1, StopStep
<1>2. CASE ~(Stop("error") \/ Stop("crashed"))
  <2>0. PICK sym : sym = StaticSym(n)
    OBVIOUS
  <2>1. /\ Depth # 0 /\ StaticFits(n) /\ Bind(x, sym) /\ AllocStatic(n)
        /\ Initialise(static_init, global_init, sym)
        /\ UNCHANGED <<phase, place, limit, file, pending, code>>
    BY <1>2, <2>0 DEF DeclareStatic
  <2>2. /\ sym \in Symbol /\ sym.static
        /\ \A i \in 1 .. Len(file) : sym = file[i].sym => sym.cells = 0
    BY <2>0, NewStatic
  <2>3. /\ statics' = statics \cup {Region(sym)}
        /\ UNCHANGED <<locals, frame_top>>
    BY <2>0, <2>1 DEF AllocStatic
  <2>4. Allotted(sym)'
    BY <2>2, <2>3 DEF Allotted, Region
  <2>5. /\ scopes' \in Seq(Scope)
        /\ \A k \in 1 .. Len(scopes'), y \in Names : (Bound(k, y) => Allotted(scopes[k][y]))'
        /\ FileApart'
    BY <2>1, <2>2, <2>3, <2>4, BindStep DEF place
  <2>6. /\ statics' \subseteq Object /\ static_top' \in FirstObject .. MaxStatic
        /\ static_top <= static_top'
        /\ StaticsInside' /\ LocalsInside' /\ ObjectsApart'
        /\ \A u \in Units : FrameSize(u)' = FrameSize(u)
    BY <2>1, StaticAllocated
  <2>c. /\ constant' \in BOOLEAN
        /\ global_init' \in Seq(Symbol) /\ static_init' \in Seq(Symbol)
    BY <2>1, <2>2 DEF Initialise, IInv, TypeOK
  <2>7. TypeOK'
    BY <2>1, <2>3, <2>5, <2>6, <2>c DEF IInv, TypeOK, place
  <2>8. Passes'
    BY <1>0, <2>1 DEF IInv, Own, Passes, place
  <2>9. ASSUME NEW s, Allotted(s) PROVE Region(s) \in IF s.static THEN statics' ELSE locals'[unit']
    BY <2>1, <2>3, <2>9 DEF Allotted, place
  <2>10. /\ \A i \in 1 .. Len(pending) : ~pending[i].sym.static /\ Allotted(pending[i].sym)'
         /\ \A i \in 1 .. Len(file) : file[i].sym.static /\ Allotted(file[i].sym)'
    BY <2>1, <2>9 DEF IInv, Own, NamesAllotted, Allotted, Region
  <2>11. NamesAllotted'
    BY <2>1, <2>5, <2>10 DEF NamesAllotted
  <2>12. UsesHaveStorage'
    <3>1. FirstObject \in Int /\ static_top' \in Int
      BY <2>6, SizesAssumption DEF FirstObject
    <3> QED BY <2>1, <2>6, <3>1, FrameSizes, TextKept
  <2>13. DeclaredBefore'
    BY <2>1 DEF DeclaredBefore, IInv
  <2> QED BY <2>5, <2>6, <2>7, <2>8, <2>11, <2>12, <2>13 DEF IInv, Own
<1> QED BY <1>1, <1>2

LEMMA FileDeclSafe ==
    ASSUME IInv, NEW x \in Names, NEW n \in Cells, FileDecl(x, n)
    PROVE  IInv'
<1>1. CASE Stop("error")
  BY <1>1, StopStep DEF FileDecl
<1>2. CASE ~Stop("error")
  <2>0. PICK sym : sym = StaticSym(n)
    OBVIOUS
  <2> DEFINE e == [at |-> pos, name |-> x, sym |-> sym]
  <2>1. /\ phase = "file" /\ StaticFits(n) /\ AllocStatic(n)
        /\ limit' = pos /\ file' = Append(file, [at |-> pos, name |-> x, sym |-> sym])
        /\ Initialise(global_init, static_init, sym)
        /\ UNCHANGED <<phase, place, scopes, pending, code>>
    BY <1>2, <2>0 DEF FileDecl
  <2>2. /\ sym \in Symbol /\ sym.static /\ sym.cells = n /\ sym.first = static_top
        /\ \A i \in 1 .. Len(file) : file[i].sym.first + file[i].sym.cells <= sym.first
    BY <2>0, NewStatic
  <2>3. statics' = statics \cup {Region(sym)} /\ UNCHANGED <<locals, frame_top>>
    BY <2>0, <2>1 DEF AllocStatic
  <2>4. PICK d : d = [at |-> pos, name |-> x, sym |-> sym]
    OBVIOUS
  <2>5. d \in FileEntry /\ d.sym = sym /\ d.at = pos
    BY <2>2, <2>4 DEF FileEntry, IInv, TypeOK
  <2>a. file \in Seq(FileEntry) /\ Len(file) \in Nat
    BY DEF IInv, TypeOK
  <2>6. /\ file' \in Seq(FileEntry) /\ Len(file') = Len(file) + 1
        /\ \A i \in 1 .. Len(file') : file'[i] = IF i = Len(file) + 1 THEN d ELSE file[i]
    BY <2>1, <2>4, <2>5, <2>a
  <2>7. /\ statics' \subseteq Object /\ static_top' \in FirstObject .. MaxStatic
        /\ static_top <= static_top'
        /\ StaticsInside' /\ LocalsInside' /\ ObjectsApart'
        /\ \A u \in Units : FrameSize(u)' = FrameSize(u)
    BY <2>1, StaticAllocated
  <2>c. /\ constant' \in BOOLEAN
        /\ global_init' \in Seq(Symbol) /\ static_init' \in Seq(Symbol)
        /\ static_init' = static_init
    BY <2>1, <2>2 DEF Initialise, IInv, TypeOK
  <2>8. TypeOK'
    BY <2>1, <2>3, <2>6, <2>7, <2>c, SizesAssumption DEF IInv, TypeOK, place
  <2>9. Passes' /\ scopes = <<>> /\ pending = <<>>
    BY <2>1, <2>3, <2>c DEF IInv, Own, Passes, place
  <2>10. ASSUME NEW i \in 1 .. Len(file') PROVE file'[i].sym.static /\ Allotted(file[i].sym)'
    <3>1. CASE file'[i] = d
      BY <2>2, <2>3, <2>5, <3>1 DEF Allotted, Region
    <3>2. CASE i \in 1 .. Len(file) /\ file'[i] = file[i]
      <4>1. file[i].sym.static /\ Region(file[i].sym) \in statics
        BY <3>2 DEF IInv, Own, NamesAllotted, Allotted
      <4> QED BY <2>3, <3>2, <4>1 DEF Allotted, Region
    <3> QED BY <2>6, <2>a, <3>1, <3>2
  <2>11. NamesAllotted'
    BY <2>1, <2>9, <2>10 DEF NamesAllotted
  <2>12. \A i, j \in 1 .. Len(file') :
            i < j => file'[i].sym.first + file'[i].sym.cells <= file'[j].sym.first
    <3> SUFFICES ASSUME NEW i \in 1 .. Len(file'), NEW j \in 1 .. Len(file'), i < j
                 PROVE  file'[i].sym.first + file'[i].sym.cells <= file'[j].sym.first
      OBVIOUS
    <3>1. i \in 1 .. Len(file) /\ file'[i] = file[i]
      BY <2>6, <2>a
    <3>2. CASE j = Len(file) + 1
      BY <2>2, <2>5, <2>6, <3>1, <3>2
    <3>3. CASE j # Len(file) + 1
      <4>1. j \in 1 .. Len(file) /\ file'[j] = file[j]
        BY <2>6, <2>a, <3>3
      <4> QED BY <3>1, <4>1 DEF IInv, Own, FileApart
    <3> QED BY <3>2, <3>3
  <2>13. FileApart'
    <3>1. scopes' = <<>>
      BY <2>1, <2>9
    <3> QED BY <2>12, <3>1 DEF FileApart
  <2>14. UsesHaveStorage'
    <3>1. static_top' \in Int
      BY <2>7, SizesAssumption DEF FirstObject
    <3> QED BY <2>1, <2>7, <3>1, FrameSizes, TextKept
  <2>15. DeclaredBefore'
    BY <2>1 DEF DeclaredBefore, IInv, Own, Passes
  <2> QED BY <2>7, <2>8, <2>9, <2>11, <2>13, <2>14, <2>15 DEF IInv, Own
<1> QED BY <1>1, <1>2

LEMMA ReferSafe ==
    ASSUME IInv, Initialising, NEW x \in Names, Refer(x)
    PROVE  IInv'
<1>0. phase \in {"file", "function", "main"}
  BY DEF Refer, Emitting
<1>1. CASE Stop("error")
  BY <1>0, <1>1, StopStep
<1>2. CASE ~Stop("error")
  <2>0. PICK sym : sym = Lookup(x)
    OBVIOUS
  <2>b. PICK o : o = IF constant THEN Initialised ELSE NoSymbol
    OBVIOUS
  <2>1. PICK c : c = [unit |-> IF constant THEN Main ELSE unit,
                      init |-> constant, pos |-> pos, sym |-> sym, by |-> o]
    OBVIOUS
  <2>2. /\ sym # NoSymbol /\ (constant => sym.static)
        /\ code' = code \cup {c}
        /\ UNCHANGED <<phase, place, limit, names, constant, storage, inits>>
    BY <1>2, <2>0, <2>1, <2>b DEF Refer, Pure
  <2>3. /\ sym \in Symbol /\ Allotted(sym)
        /\ limit < pos =>
             \A i \in 1 .. Len(file) :
                sym = file[i].sym /\ sym.cells > 0 => file[i].at < pos
    BY <2>0, <2>2, LookupFacts
  <2>4. constant \in BOOLEAN /\ Main \in Units
    BY DEF IInv, TypeOK, Units
  <2>5. c.init = constant /\ c.pos = pos /\ c.sym = sym
    BY <2>1
  <2>a. c.unit = IF constant THEN Main ELSE unit
    BY <2>1
  <2>c. o \in Symbol \cup {NoSymbol}
    BY <1>0, <2>b DEF Initialising
  <2>6. c \in Use
    BY <2>1, <2>3, <2>4, <2>c DEF Use, IInv, TypeOK
  <2>7. TypeOK'
    BY <2>2, <2>6 DEF IInv, TypeOK, place, names, storage, inits
  <2>8. Passes'
    <3>1. phase = "file" => c.init
      BY <2>2, <2>5 DEF Refer, Emitting
    <3> QED BY <2>2, <3>1 DEF IInv, Own, Passes, place, names, storage, inits
  <2>9. NamesAllotted' /\ FileApart'
    BY <2>2, NamesKept DEF place, storage
  <2>10. \A u \in Units : FrameSize(u)' = FrameSize(u)
    BY <2>2 DEF FrameSize, place, storage
  <2>11. StaticsInside' /\ LocalsInside' /\ ObjectsApart'
    BY <2>2, <2>10, NothingAllocated
  <2>12. IF c.sym.static
         THEN FirstObject <= c.sym.first /\ c.sym.first + c.sym.cells <= static_top
         ELSE ~c.init /\ c.sym.first + c.sym.cells <= FrameSize(c.unit)
    <3>1. CASE sym.static
      BY <2>3, <2>5, <3>1 DEF Allotted, Region, IInv, Own, StaticsInside
    <3>2. CASE ~sym.static
      <4>1. ~c.init /\ c.unit = unit /\ unit \in Units
        BY <2>2, <2>5, <2>a, <3>2 DEF IInv, TypeOK
      <4>2. Region(sym) \in locals[unit]
        BY <2>3, <3>2 DEF Allotted
      <4>3. sym.first + sym.cells <= FrameSize(unit)
        BY <4>1, <4>2 DEF Region, IInv, Own, LocalsInside
      <4> QED BY <2>5, <3>2, <4>1, <4>3
    <3> QED BY <3>1, <3>2
  <2>13. UsesHaveStorage'
    <3> SUFFICES ASSUME NEW d \in code'
                 PROVE  IF d.sym.static
                        THEN FirstObject <= d.sym.first /\ d.sym.first + d.sym.cells <= static_top
                        ELSE ~d.init /\ d.sym.first + d.sym.cells <= FrameSize(d.unit)
      <4>1. \A d \in code' : d.unit \in Units
        BY <2>7 DEF TypeOK, Use
      <4>2. static_top' = static_top
        BY <2>2 DEF storage
      <4> QED BY <2>10, <4>1, <4>2 DEF UsesHaveStorage
    <3> QED BY <2>2, <2>12 DEF IInv, UsesHaveStorage
  <2>14. \A i \in 1 .. Len(file) :
            ~c.init /\ c.sym = file[i].sym /\ c.sym.cells > 0 => file[i].at < c.pos
    <3>1. ~c.init => limit < pos
      BY <2>5, EmittingFacts DEF Refer
    <3> QED BY <2>3, <2>5, <3>1
  <2>15. DeclaredBefore'
    BY <2>2, <2>14 DEF DeclaredBefore, IInv, names
  <2> QED BY <2>7, <2>8, <2>9, <2>11, <2>13, <2>15 DEF IInv, Own
<1> QED BY <1>1, <1>2

--------------------------------------------------------------------------------

LEMMA InitSafe == Init => IInv
<1> SUFFICES ASSUME Init PROVE IInv
  OBVIOUS
<1>1. TypeOK
  <2>1. /\ FirstObject \in FirstObject .. MaxStatic /\ 0 \in 0 .. MaxOps /\ -1 \in -1 .. MaxOps
        /\ Main \in Units
    BY SizesAssumption DEF FirstObject, MaxStatic, Units
  <2>2. [u \in Units |-> {}] \in [Units -> SUBSET Object]
    OBVIOUS
  <2>3. [u \in Units |-> -1] \in [Units -> Nat \cup {-1}]
    OBVIOUS
  <2>4. file \in Seq(FileEntry) /\ scopes \in Seq(Scope) /\ pending \in Seq(PendingEntry)
    BY DEF Init
  <2>5. statics \subseteq Object /\ code \subseteq Use /\ constant \in BOOLEAN
    BY DEF Init
  <2>6. phase = "file" /\ unit \in Units /\ base \in Nat /\ frame_top \in Nat
    BY <2>1 DEF Init
  <2> QED BY <2>1, <2>2, <2>3, <2>4, <2>5, <2>6 DEF Init, TypeOK
<1>2. StaticsInside /\ LocalsInside /\ ObjectsApart
  BY DEF Init, StaticsInside, LocalsInside, ObjectsApart, Apart
<1>3. Passes
  BY DEF Init, Passes, Units
<1>4. NamesAllotted /\ FileApart
  BY DEF Init, NamesAllotted, FileApart
<1>5. UsesHaveStorage /\ DeclaredBefore
  BY DEF Init, UsesHaveStorage, DeclaredBefore
<1> QED BY <1>1, <1>2, <1>3, <1>4, <1>5 DEF IInv, Own

LEMMA NextSafe == IInv /\ Starts /\ [Next]_vars => IInv'
<1> SUFFICES ASSUME IInv, Starts, [Next]_vars PROVE IInv'
  OBVIOUS
<1>1. ASSUME NEW x \in Names, NEW n \in Cells,
             FileDecl(x, n) \/ BeginLocal(x, n) \/ DeclareStatic(x, n)
      PROVE  IInv'
  BY <1>1, FileDeclSafe, BeginLocalSafe, DeclareStaticSafe
<1>2. ASSUME NEW x \in Names, Refer(x) PROVE IInv'
  BY <1>2, ReferSafe DEF Starts
<1>3. CASE EndLocal \/ EndConstant \/ OpenBlock \/ CloseBlock
  BY <1>3, EndLocalSafe, EndConstantSafe, OpenBlockSafe, CloseBlockSafe
<1>4. CASE NextFileOp \/ EndFile
  BY <1>4, NextFileOpSafe, EndFileSafe
<1>5. ASSUME NEW f \in Functions, NEW p \in 0 .. MaxOps, BeginFunction(f, p) PROVE IInv'
  BY <1>5, BeginFunctionSafe
<1>6. CASE EndFunction \/ BeginMain \/ NextMainOp \/ EndMain
  BY <1>6, EndFunctionSafe, BeginMainSafe, NextMainOpSafe, EndMainSafe
<1>7. CASE UNCHANGED vars
  <2>1. \A u \in Units : FrameSize(u)' = FrameSize(u)
    BY <1>7 DEF vars, FrameSize
  <2>2. TypeOK'
    BY <1>7 DEF vars, IInv, TypeOK, inits
  <2>3. Passes'
    BY <1>7 DEF vars, IInv, Own, Passes
  <2>4. NamesAllotted' /\ FileApart'
    BY <1>7, NamesKept DEF vars, names
  <2> QED BY <1>7, <2>1, <2>2, <2>3, <2>4, QuietStep DEF IInv, Own, vars
<1> QED BY <1>1, <1>2, <1>3, <1>4, <1>5, <1>6, <1>7 DEF Next

--------------------------------------------------------------------------------
(* The initialisers.                                                        *)

LEMMA StartsKept ==
    ASSUME Starts, UNCHANGED <<inits, code, statics, static_top>>,
           phase' \in {"file", "function", "main"} /\ constant' => constant /\ phase' = phase
    PROVE  Starts'
<1>1. Startup' = Startup /\ (phase' = phase => Initialised' = Initialised)
  BY DEF Startup, Initialised, inits
<1>2. Initialising'
  BY <1>1 DEF Starts, Initialising
<1>3. Ordered' /\ UsedInOrder'
  BY <1>1 DEF Starts, Ordered, UsedInOrder
<1> QED BY <1>2, <1>3 DEF Starts

LEMMA StartupFacts ==
    ASSUME IInv
    PROVE  /\ global_init \in Seq(Symbol) /\ static_init \in Seq(Symbol)
           /\ Startup \in Seq(Symbol) /\ Len(Startup) \in Nat
           /\ \A i \in 1 .. Len(Startup) :
                Startup[i] \in Symbol /\ Startup[i].first \in Nat /\ Startup[i].cells \in Nat
           /\ static_top \in Nat
<1>1. global_init \in Seq(Symbol) /\ static_init \in Seq(Symbol)
  BY DEF IInv, TypeOK
<1>2. Startup \in Seq(Symbol) /\ Len(Startup) \in Nat
  BY <1>1 DEF Startup
<1>3. \A i \in 1 .. Len(Startup) : Startup[i] \in Symbol
  BY <1>2
<1>4. static_top \in Nat
  BY SizesAssumption DEF IInv, TypeOK, FirstObject
<1> QED BY <1>1, <1>2, <1>3, <1>4 DEF Symbol

\* A static object is allocated, and its initialiser, if it has one, comes last.
LEMMA StaticStarts ==
    ASSUME IInv, Starts, NEW n \in Cells, AllocStatic(n),
           constant' => Startup' = Append(Startup, StaticSym(n)) /\ Initialised' = StaticSym(n),
           ~constant' => Startup' = Startup,
           UNCHANGED code
    PROVE  Starts'
<1>0. PICK sym : sym = StaticSym(n)
  OBVIOUS
<1>1. /\ sym \in Symbol /\ sym.first = static_top /\ sym.cells = n /\ n \in Nat
      /\ static_top \in Nat /\ static_top' = static_top + n
      /\ Region(sym) \in statics'
  BY <1>0, StartupFacts, SizesAssumption DEF StaticSym, Symbol, AllocStatic
<1>2. Initialising'
  BY <1>0, <1>1 DEF Initialising
<1>3. Ordered'
  <2>1. CASE ~constant'
    BY <2>1, <1>1, StartupFacts DEF Starts, Ordered
  <2>2. CASE constant'
    <3> DEFINE m == Len(Startup)
    <3>0. Startup \in Seq(Symbol) /\ m \in Nat
      BY StartupFacts
    <3>1. Startup' = Append(Startup, sym)
      BY <2>2, <1>0
    <3>2. /\ Len(Startup') = m + 1
          /\ \A i \in 1 .. m : Startup'[i] = Startup[i]
          /\ Startup'[m + 1] = sym
      BY <3>0, <3>1, <1>1
    <3>3. \A i \in 1 .. m : /\ Startup[i].first \in Nat /\ Startup[i].cells \in Nat
                            /\ Startup[i].first + Startup[i].cells <= static_top
      BY StartupFacts DEF Starts, Ordered
    <3>4. \A i, j \in 1 .. m :
             i < j => Startup[i].first + Startup[i].cells <= Startup[j].first
      BY DEF Starts, Ordered
    <3> HIDE DEF m
    <3>5. ASSUME NEW i \in 1 .. m + 1, NEW j \in 1 .. m + 1, i < j
          PROVE  Startup'[i].first + Startup'[i].cells <= Startup'[j].first
      <4>1. i \in 1 .. m /\ Startup'[i] = Startup[i]
        BY <3>0, <3>2, <3>5
      <4>2. CASE j = m + 1
        BY <1>1, <3>2, <3>3, <4>1, <4>2
      <4>3. CASE j # m + 1
        <5>1. j \in 1 .. m /\ Startup'[j] = Startup[j]
          BY <3>0, <3>2, <4>3
        <5> QED BY <3>4, <3>5, <4>1, <5>1
      <4> QED BY <4>2, <4>3
    <3>6. ASSUME NEW i \in 1 .. m + 1
          PROVE  Startup'[i].first + Startup'[i].cells <= static_top'
      <4>1. CASE i = m + 1
        BY <1>1, <3>2, <4>1
      <4>2. CASE i # m + 1
        <5>1. i \in 1 .. m /\ Startup'[i] = Startup[i]
          BY <3>0, <3>2, <4>2
        <5> QED BY <1>1, <3>3, <5>1
      <4> QED BY <4>1, <4>2
    <3> QED BY <3>2, <3>5, <3>6 DEF Ordered
  <2> QED BY <2>1, <2>2
<1>4. UsedInOrder'
  BY DEF Starts, UsedInOrder
<1> QED BY <1>2, <1>3, <1>4 DEF Starts

LEMMA FileDeclStarts ==
    ASSUME IInv, Starts, NEW x \in Names, NEW n \in Cells, FileDecl(x, n)
    PROVE  Starts'
<1>1. CASE Stop("error")
  BY <1>1, StartsKept DEF Stop, storage
<1>2. CASE ~Stop("error")
  <2>0. PICK sym : sym = StaticSym(n)
    OBVIOUS
  <2>1. /\ phase = "file" /\ AllocStatic(n) /\ Initialise(global_init, static_init, sym)
        /\ phase' = phase /\ UNCHANGED code
    BY <1>2, <2>0 DEF FileDecl
  <2>2. static_init = <<>> /\ static_init' = <<>>
    BY <2>1 DEF IInv, Own, Passes, Initialise
  <2>3. sym \in Symbol
    BY <2>0, NewStatic
  <2>4. global_init \in Seq(Symbol) /\ global_init' \in Seq(Symbol)
    BY <2>1, <2>3, StartupFacts DEF Initialise
  <2>5. Startup = global_init /\ Startup' = global_init'
    BY <2>2, <2>4 DEF Startup
  <2>6. constant' => Startup' = Append(Startup, sym) /\ Initialised' = sym
    <3> SUFFICES ASSUME constant' PROVE Startup' = Append(Startup, sym) /\ Initialised' = sym
      OBVIOUS
    <3>1. global_init' = Append(global_init, sym)
      BY <2>1 DEF Initialise
    <3>2. Initialised' = global_init'[Len(global_init')]
      BY <2>1 DEF Initialised
    <3> QED BY <2>3, <2>4, <2>5, <3>1, <3>2
  <2>7. ~constant' => Startup' = Startup
    BY <2>1, <2>5 DEF Initialise
  <2> QED BY <2>0, <2>1, <2>6, <2>7, StaticStarts
<1> QED BY <1>1, <1>2

LEMMA DeclareStaticStarts ==
    ASSUME IInv, Starts, NEW x \in Names, NEW n \in Cells, DeclareStatic(x, n)
    PROVE  Starts'
<1>1. CASE Stop("error") \/ Stop("crashed")
  BY <1>1, StartsKept DEF Stop, storage
<1>2. CASE ~(Stop("error") \/ Stop("crashed"))
  <2>0. PICK sym : sym = StaticSym(n)
    OBVIOUS
  <2>1. /\ phase # "file" /\ AllocStatic(n) /\ Initialise(static_init, global_init, sym)
        /\ phase' = phase /\ UNCHANGED code
    BY <1>2, <2>0 DEF DeclareStatic, Emitting
  <2>3. sym \in Symbol
    BY <2>0, NewStatic
  <2>4. /\ static_init \in Seq(Symbol) /\ global_init \in Seq(Symbol) /\ global_init' = global_init
    BY <2>1, StartupFacts DEF Initialise
  <2>6. constant' => Startup' = Append(Startup, sym) /\ Initialised' = sym
    <3> SUFFICES ASSUME constant' PROVE Startup' = Append(Startup, sym) /\ Initialised' = sym
      OBVIOUS
    <3>1. static_init' = Append(static_init, sym)
      BY <2>1 DEF Initialise
    <3>2. Initialised' = static_init'[Len(static_init')]
      BY <2>1 DEF Initialised
    <3>3. Initialised' = sym
      BY <2>3, <2>4, <3>1, <3>2
    <3>5. global_init \o Append(static_init, sym) = Append(global_init \o static_init, sym)
      BY <2>3, <2>4
    <3> QED BY <2>4, <3>1, <3>3, <3>5 DEF Startup
  <2>7. ~constant' => Startup' = Startup
    BY <2>1 DEF Initialise, Startup
  <2> QED BY <2>0, <2>1, <2>6, <2>7, StaticStarts
<1> QED BY <1>1, <1>2

LEMMA ReferStarts ==
    ASSUME IInv, Starts, NEW x \in Names, Refer(x)
    PROVE  Starts'
<1>1. CASE Stop("error")
  BY <1>1, StartsKept DEF Stop, storage
<1>2. CASE ~Stop("error")
  <2>0. PICK sym : sym = Lookup(x)
    OBVIOUS
  <2>1. PICK c : c = [unit |-> IF constant THEN Main ELSE unit, init |-> constant,
                      pos |-> pos, sym |-> sym,
                      by |-> IF constant THEN Initialised ELSE NoSymbol]
    OBVIOUS
  <2>2. /\ sym # NoSymbol /\ (constant => sym.static)
        /\ code' = code \cup {c}
        /\ UNCHANGED <<phase, constant, storage, inits>>
    BY <1>2, <2>0, <2>1 DEF Refer, Pure
  <2>3. sym \in Symbol /\ Allotted(sym)
    BY <2>0, <2>2, LookupFacts
  <2>4. Initialising' /\ Ordered'
    <3>1. Startup' = Startup /\ Initialised' = Initialised
      BY <2>2 DEF Startup, Initialised, inits
    <3> QED BY <2>2, <3>1 DEF Starts, Initialising, Ordered, storage
  <2>5. c.sym = sym /\ c.init = constant /\ (constant => c.by = Initialised)
    BY <2>1
  <2>6. ASSUME constant, sym.cells > 0
        PROVE  sym.first + sym.cells <= c.by.first \/ Region(sym) = Region(c.by)
    <3>0. PICK o : o = Region(sym)
      OBVIOUS
    <3>1. PICK q : q = Region(c.by)
      OBVIOUS
    <3>2. phase \in {"file", "function", "main"}
      BY DEF Refer, Emitting
    <3>3. /\ c.by \in Symbol /\ q \in statics /\ c.by.first + c.by.cells = static_top
      BY <2>5, <2>6, <3>1, <3>2 DEF Starts, Initialising
    <3>4. o \in statics /\ o.first = sym.first /\ o.cells = sym.cells
      BY <2>2, <2>3, <2>6, <3>0 DEF Allotted, Region
    <3>5. q.first = c.by.first /\ q.cells = c.by.cells
      BY <3>1 DEF Region
    <3>6. o.first + o.cells <= static_top
      BY <3>4 DEF IInv, Own, StaticsInside
    <3>7. o # q => o.first + o.cells <= q.first \/ q.first + q.cells <= o.first
      BY <3>3, <3>4 DEF IInv, ObjectsApart, Apart
    <3>8. /\ sym.first \in Nat /\ sym.cells \in Nat /\ c.by.first \in Nat /\ c.by.cells \in Nat
          /\ static_top \in Nat
      BY <2>3, <3>3, StartupFacts DEF Symbol
    <3> QED BY <2>6, <3>0, <3>1, <3>3, <3>4, <3>5, <3>6, <3>7, <3>8
  <2>7. UsedInOrder'
    BY <2>2, <2>5, <2>6 DEF Starts, UsedInOrder
  <2> QED BY <2>4, <2>7 DEF Starts
<1> QED BY <1>1, <1>2

LEMMA NextStarts == IInv /\ Starts /\ [Next]_vars => Starts'
<1> SUFFICES ASSUME IInv, Starts, [Next]_vars PROVE Starts'
  OBVIOUS
<1>1. ASSUME NEW x \in Names, NEW n \in Cells, FileDecl(x, n) \/ DeclareStatic(x, n)
      PROVE  Starts'
  BY <1>1, FileDeclStarts, DeclareStaticStarts
<1>2. ASSUME NEW x \in Names, NEW n \in Cells, BeginLocal(x, n) PROVE Starts'
  BY <1>2, StartsKept DEF BeginLocal, AllocFrame
<1>3. ASSUME NEW x \in Names, Refer(x) PROVE Starts'
  BY <1>3, ReferStarts
<1>4. CASE EndLocal
  <2>1. CASE Stop("error") \/ Stop("crashed")
    BY <2>1, StartsKept DEF Stop, storage
  <2>2. CASE ~(Stop("error") \/ Stop("crashed"))
    <3>1. UNCHANGED <<phase, constant, storage, inits, code>>
      BY <1>4, <2>2 DEF EndLocal
    <3> QED BY <3>1, StartsKept DEF storage
  <2> QED BY <2>1, <2>2
<1>5. CASE EndConstant \/ OpenBlock \/ CloseBlock
  <2>1. UNCHANGED <<phase, storage, inits, code>> /\ (constant' => constant)
    BY <1>5 DEF EndConstant, OpenBlock, CloseBlock
  <2> QED BY <2>1, StartsKept DEF storage
<1>6. CASE NextFileOp \/ EndFile \/ EndFunction \/ NextMainOp \/ EndMain
  <2>1. UNCHANGED <<storage, inits, code>> /\ ~constant'
    BY <1>6 DEF NextFileOp, EndFile, EndFunction, NextMainOp, EndMain
  <2> QED BY <2>1, StartsKept DEF storage
<1>7. ASSUME NEW f \in Functions, NEW p \in 0 .. MaxOps, BeginFunction(f, p) PROVE Starts'
  <2>1. UNCHANGED <<statics, static_top, inits, code>> /\ ~constant'
    BY <1>7 DEF BeginFunction, IInv, Own, Passes
  <2> QED BY <2>1, StartsKept
<1>8. CASE BeginMain
  <2>1. UNCHANGED <<statics, static_top, inits, code>> /\ ~constant'
    BY <1>8 DEF BeginMain, IInv, Own, Passes
  <2> QED BY <2>1, StartsKept
<1>9. CASE UNCHANGED vars
  BY <1>9, StartsKept DEF vars, inits
<1> QED BY <1>1, <1>2, <1>3, <1>4, <1>5, <1>6, <1>7, <1>8, <1>9 DEF Next

LEMMA InitStarts == Init => Starts
<1> SUFFICES ASSUME Init PROVE Starts
  OBVIOUS
<1>1. Startup = <<>>
  BY DEF Init, Startup
<1> QED BY <1>1 DEF Init, Starts, Initialising, Ordered, UsedInOrder

LEMMA InOrder == IInv /\ Starts => InitialisedFirst
<1> SUFFICES ASSUME IInv, Starts, NEW c \in code, c.init, c.sym.cells > 0,
                    NEW i \in 1 .. Len(Startup), NEW j \in 1 .. Len(Startup),
                    Startup[i] = c.by, Startup[j] = c.sym, ~(j <= i)
             PROVE  FALSE
  BY DEF InitialisedFirst
<1>1. Startup[i].first + Startup[i].cells <= Startup[j].first
  <2>1. i < j
    BY StartupFacts
  <2> QED BY <2>1 DEF Starts, Ordered
<1>2. \/ c.sym.first + c.sym.cells <= c.by.first
      \/ c.sym.first = c.by.first /\ c.sym.cells = c.by.cells
  BY DEF Starts, UsedInOrder, Region
<1>3. /\ c.sym.first \in Nat /\ c.sym.cells \in Nat /\ c.by.first \in Nat /\ c.by.cells \in Nat
  BY StartupFacts
<1>4. c.by.first + c.by.cells <= c.sym.first
  BY <1>1
<1> QED BY <1>2, <1>3, <1>4, SMTT(30)

\* The invariant that steps preserve (the generator of code as a whole).
THEOREM Invariance == Spec => [](IInv /\ Starts)
<1>1. Init => IInv /\ Starts
  BY InitSafe, InitStarts
<1>2. IInv /\ Starts /\ [Next]_vars => (IInv /\ Starts)'
  BY NextSafe, NextStarts
<1> QED BY <1>1, <1>2, PTL DEF Spec

\* The types, and the limit of _alloc_static: static storage takes at most half
\* of the memory.
THEOREM TypeSafety == Spec => []TypeOK
BY Invariance, PTL DEF IInv

\* _alloc_static and _alloc_frame never give out a cell twice, whatever the
\* program declares and in whatever order its declarations nest.
THEOREM NoObjectsOverlap == Spec => []ObjectsApart
BY Invariance, PTL DEF IInv

\* Every address in the emitted text lies in storage that is there when it
\* runs, those in constant initialisers (_check_pure) in static storage.
THEOREM UsesAreStored == Spec => []UsesHaveStorage
BY Invariance, PTL DEF IInv

\* Three passes see what one pass over the text would see (_limit).
THEOREM ScopeIsTextual == Spec => []DeclaredBefore
BY Invariance, PTL DEF IInv

\* No initialiser that main runs before its body uses an object whose own
\* initialiser runs later (_global_init, _static_init, _check_pure).
THEOREM InitialisersInOrder == Spec => []InitialisedFirst
BY Invariance, InOrder, PTL

(***************************************************************************)
(* The program that is emitted keeps the contract its own run relies on.      *)
(***************************************************************************)
LEMMA ContractKept == IInv => LayoutContract
<1> SUFFICES ASSUME IInv, phase = "done"
             PROVE  /\ NumVars < base /\ base <= MemCells
                    /\ Sound(statics, locals,
                             [u \in {v \in Units : frames[v] # -1} |-> frames[u]], NumVars, base)
  BY DEF LayoutContract
<1> DEFINE emitted == {v \in Units : frames[v] # -1}
           sizes == [u \in emitted |-> frames[u]]
<1>1. base = static_top /\ static_top \in FirstObject .. MaxStatic
  BY DEF IInv, Own, Passes, TypeOK
<1>2. NumVars < base /\ base <= MemCells
  BY <1>1, SizesAssumption DEF FirstObject, MaxStatic
<1>3. statics \subseteq Object
  BY DEF IInv, TypeOK
<1>4. \A o \in statics : NumVars < o.first /\ o.first + o.cells <= base
  <2>1. \A o \in statics : o.first \in Nat /\ FirstObject <= o.first /\ o.first + o.cells <= static_top
    BY <1>3 DEF Object, IInv, Own, StaticsInside
  <2> QED BY <1>1, <2>1, SizesAssumption DEF FirstObject
<1>5. ASSUME NEW f \in emitted
      PROVE  locals[f] \subseteq Object /\ \A o \in locals[f] : o.first + o.cells <= sizes[f]
  <2>1. f \in Units /\ frames[f] # -1 /\ sizes[f] = frames[f]
    OBVIOUS
  <2>2. FrameSize(f) = frames[f]
    BY <2>1 DEF FrameSize
  <2> HIDE DEF sizes
  <2> QED BY <2>1, <2>2 DEF IInv, TypeOK, Own, LocalsInside
<1>6. DOMAIN sizes = emitted
  OBVIOUS
<1> HIDE DEF sizes, emitted
<1>7. Sound(statics, locals, sizes, NumVars, base)
  BY <1>3, <1>4, <1>5, <1>6 DEF Sound
<1> QED BY <1>2, <1>7 DEF sizes, emitted

\* main's frame begins above every static object (MainBase), and the frame that
\* the text of a function takes holds all its objects: what NumRuntime assumes.
THEOREM ContractHolds == Spec => []LayoutContract
BY Invariance, ContractKept, PTL
================================================================================
