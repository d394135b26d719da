------------------------------- MODULE NumRuntime -------------------------------
(***************************************************************************)
(* The machine a compiled program runs on: the operand stack, the flat cell *)
(* memory and the frame stack of the C text that codegen_c.py emits.  The    *)
(* model runs the most general program over given storage: at every point    *)
(* any operation may come next, so what holds here holds of every program    *)
(* with that storage.  Numbers are abstract; addresses, function handles and *)
(* every run-time check are exact.                                           *)
(***************************************************************************)
EXTENDS Integers, Sequences, StorageLayout

CONSTANTS
    StackSize,   \* STACK_SIZE, the operand stack
    MemCells,    \* MEM_CELLS: cells 0 .. MemCells - 1, cell 0 is NULL
    NumVars,     \* the |n variables, cells 1 .. NumVars (100 in the code)
    StaticTop,   \* first cell after the static objects
    Functions,   \* the numbers of the functions /n ... ;
    FrameCells,  \* cells of the frame of each function and of main
    Statics,     \* static objects, [first |-> cell, cells |-> n]
    Locals,      \* per function its objects, first an offset in the frame
    Numbers,     \* what literals, arithmetic, input and C calls produce
    Truncations, \* what (int) or (long) may make of a number outside Nat
    TargetCells, \* sizes of the objects pointers point to
    Leftovers,   \* what an uninitialised _aN may hold
    MaxIndex,    \* bound: the |i| of a subscripted pointer, and the elements
                 \* of an array of objects without cells
    MaxCalls,    \* calls the C stack of the process has room for
    MaxPending   \* bound: lvalues under evaluation in one activation

Main == -1
Other == -1      \* every double that is not a natural number

Callers == Functions \cup {Main}
Cells == 0 .. MemCells - 1
Value == Nat \cup {Other}
Handle(n) == MemCells + n

ASSUME SizesAssumption ==
    /\ StackSize \in Nat /\ MemCells \in Nat /\ NumVars \in Nat
    /\ StaticTop \in Nat /\ MaxCalls \in Nat /\ MaxPending \in Nat
    /\ NumVars < StaticTop /\ StaticTop <= MemCells
ASSUME FunctionsAssumption ==
    /\ Functions \subseteq Nat
    /\ FrameCells \in [Callers -> Nat]
ASSUME ObjectsAssumption ==
    /\ DOMAIN FrameCells = Callers
    /\ Sound(Statics, Locals, FrameCells, NumVars, StaticTop)
ASSUME NumbersAssumption ==
    /\ Numbers \subseteq Value
    /\ Truncations \subseteq Int /\ Leftovers \subseteq Int /\ MaxIndex \in Nat
    /\ TargetCells \subseteq Nat

VARIABLES
    stack,   \* stack[0..sp-1]
    mem,     \* mem[]
    ftop,    \* first cell above the frames
    frames,  \* active calls, main first: [fn, base |-> _fb, pend]; pend holds
             \* the _aN variables in scope: address, extent, how it was reached
    copy,    \* cells a struct assignment has still to copy
    status   \* "boot", "init", "run", "done", "failed" or "crashed"

vars == <<stack, mem, ftop, frames, copy, status>>
memory == <<mem, ftop, frames, copy>>

Live == status \in {"init", "run"}
Ready == Live /\ copy = 0
Running == status = "run" /\ copy = 0
Depth == Len(frames)
Top == frames[Depth]
Bottom(k) == frames[k].base
End(k) == frames[k].base + FrameCells[frames[k].fn]

Operand(k) == stack[Len(stack) - k]
ToInts(v) == IF v = Other THEN Truncations ELSE {v}
AsValue(a) == IF a \in Nat THEN a ELSE Other

\* exit(1) after a message.
Fail == status' = "failed" /\ UNCHANGED <<stack, mem, ftop, frames, copy>>

\* Pop n operands, push out; push and pop stop the program at their bounds.
\* (OperateUnbounded, like every definition marked "defect", is a variant the
\* project checks its properties against.)
OperateUnbounded(n, out) ==  \* defect: push without its check
    IF Len(stack) >= n
    THEN /\ stack' = SubSeq(stack, 1, Len(stack) - n) \o out
         /\ UNCHANGED <<mem, ftop, frames, copy, status>>
    ELSE Fail

Operate(n, out) ==
    IF Len(stack) >= n /\ Len(stack) - n + Len(out) <= StackSize
    THEN /\ stack' = SubSeq(stack, 1, Len(stack) - n) \o out
         /\ UNCHANGED <<mem, ftop, frames, copy, status>>
    ELSE Fail

--------------------------------------------------------------------------------
(* Operand stack operations, allowed in static initialisers too.            *)

Literal == Ready /\ \E x \in Numbers : Operate(0, <<x>>)

FuncRef == Ready /\ \E f \in Functions : Operate(0, <<Handle(f)>>)

\* A conversion or function of one operand may give it back unchanged.
Unary ==
    /\ Ready
    /\ \/ Fail
       \/ \E x \in Numbers : Operate(1, <<x>>)
       \/ Operate(1, <<Operand(0)>>)

\* Division by zero and domain errors stop the program.
Binary ==
    /\ Ready
    /\ \/ Fail
       \/ \E x \in Numbers : Operate(2, <<x>>)
       \/ \E k \in {0, 1} : Operate(2, <<Operand(k)>>)

Dup == Ready /\ Operate(1, <<Operand(0), Operand(0)>>)
Swap == Ready /\ Operate(2, <<Operand(0), Operand(1)>>)
Drop == Ready /\ Operate(1, <<>>)   \* also |, ~ and the conditions

(* Operations that only run from main or a function.                        *)

DepthOp == Running /\ Operate(0, <<Len(stack)>>)

Pick ==
    /\ Running
    /\ IF Len(stack) = 0
       THEN Fail
       ELSE \E n \in ToInts(Operand(0)) :
              IF n \in 0 .. Len(stack) - 2
              THEN Operate(1, <<Operand(n + 1)>>)
              ELSE Fail

Read ==
    /\ Running
    /\ Fail \/ \E x \in Numbers : Operate(0, <<x>>)

Foreign ==
    /\ Running
    /\ \E arity \in 0 .. StackSize, x \in Numbers : Operate(arity, <<x>>)

PushVar == Running /\ \E n \in 0 .. NumVars - 1 : Operate(0, <<mem[n + 1]>>)

VarOkUnbounded(n) == n \in 0 .. MemCells - 2   \* defect: _idx > 99 passes
VarOk(n) == n \in 0 .. NumVars - 1

\* value index & : the index is truncated, then checked against 0 .. 99.
StoreVar ==
    /\ Running
    /\ IF Len(stack) < 2
       THEN Fail
       ELSE \E n \in ToInts(Operand(0)) :
              IF VarOk(n)
              THEN /\ mem' = [mem EXCEPT ![n + 1] = Operand(1)]
                   /\ stack' = SubSeq(stack, 1, Len(stack) - 2)
                   /\ UNCHANGED <<ftop, frames, copy, status>>
              ELSE Fail

--------------------------------------------------------------------------------
(* Lvalues: each accessor of a path is a step on the innermost _aN variable, *)
(* and operations of a subscript or a right-hand side run in between.        *)

Pend == Top.pend
Named == Pend[Len(Pend)]
SetPend(p) == frames' = [frames EXCEPT ![Depth].pend = p]
DropPend == SubSeq(Pend, 1, Len(Pend) - 1)
Retarget(a, n, via) ==
    SetPend(Append(DropPend, [addr |-> a, len |-> n, via |-> via]))

\* cell_chk and cell_at: what they let through.
CellOkNull(a) == a \in Cells   \* defect: a < 0 for a <= 0
CellOk(a) == a \in Cells \ {0}
PointerOk(a) == CellOk(a) /\ CellOk(mem[a])

LocalRegions(f) ==
    {[first |-> Top.base + o.first, cells |-> o.cells] : o \in Locals[f]}

\* The name at the root of a path; static initialisers may only name statics.
BeginLval ==
    /\ Ready
    /\ Len(Pend) < MaxPending
    /\ \E o \in Statics \cup (IF Running THEN LocalRegions(Top.fn) ELSE {}) :
         SetPend(Append(Pend, [addr |-> o.first, len |-> o.cells, via |-> "name"]))
    /\ UNCHANGED <<stack, mem, ftop, copy, status>>

\* A goto into the right-hand side of an assignment skips the initialisation
\* of _aN: its value is whatever the C stack holds.
JumpIntoAssignment ==
    /\ Running
    /\ Len(Pend) < MaxPending
    /\ \E a \in Leftovers, n \in TargetCells :
         SetPend(Append(Pend, [addr |-> a, len |-> n, via |-> "goto"]))
    /\ UNCHANGED <<stack, mem, ftop, copy, status>>

InArrayPastEnd(i, count) == i \in 0 .. count   \* defect: > for >=
InArray(i, count) == i \in 0 .. count - 1

\* a[i] of an array: count elements of n cells.
SubscriptArray ==
    /\ Ready
    /\ Pend # <<>>
    /\ IF Len(stack) = 0
       THEN Fail
       ELSE \E n \in 0 .. Named.len, count \in 0 .. Named.len + MaxIndex,
               i \in ToInts(Operand(0)) :
              /\ n * count = Named.len
              /\ IF InArray(i, count)
                 THEN /\ Retarget(Named.addr + i * n, n, Named.via)
                      /\ stack' = SubSeq(stack, 1, Len(stack) - 1)
                      /\ UNCHANGED <<mem, ftop, copy, status>>
                 ELSE Fail

\* .member of a struct: n cells at a fixed offset.
Member ==
    /\ Ready
    /\ Pend # <<>>
    /\ \E off \in 0 .. Named.len : \E n \in 0 .. Named.len - off :
         Retarget(Named.addr + off, n, Named.via)
    /\ UNCHANGED <<stack, mem, ftop, copy, status>>

\* p[i] of a pointer to objects of n cells; i is not checked.
SubscriptPointer ==
    /\ Ready
    /\ Pend # <<>> /\ Named.len = 1
    /\ IF Len(stack) = 0 \/ ~PointerOk(Named.addr)
       THEN Fail
       ELSE \E n \in TargetCells, i \in ToInts(Operand(0)) :
              /\ i \in -MaxIndex .. MaxIndex
              /\ Retarget(mem[Named.addr] + i * n, n, "pointer")
              /\ stack' = SubSeq(stack, 1, Len(stack) - 1)
              /\ UNCHANGED <<mem, ftop, copy, status>>

\* p->member: n cells at offset off of a struct of total cells.
Arrow ==
    /\ Ready
    /\ Pend # <<>> /\ Named.len = 1
    /\ IF ~PointerOk(Named.addr)
       THEN Fail
       ELSE \E total \in TargetCells : \E off \in 0 .. total :
              /\ \E n \in 0 .. total - off :
                   Retarget(mem[Named.addr] + off, n, "pointer")
              /\ UNCHANGED <<stack, mem, ftop, copy, status>>

\* Leave a finished lvalue and push v.
Finish(v) ==
    IF Len(stack) < StackSize
    THEN /\ stack' = Append(stack, v)
         /\ SetPend(DropPend)
         /\ UNCHANGED <<mem, ftop, copy, status>>
    ELSE Fail

Load ==
    /\ Running
    /\ Pend # <<>> /\ Named.len = 1
    /\ IF CellOk(Named.addr) THEN Finish(mem[Named.addr]) ELSE Fail

\* An array name is its address, which no check looks at.
Decay == Ready /\ Pend # <<>> /\ Finish(AsValue(Named.addr))

TakeAddress ==
    /\ Ready
    /\ Pend # <<>>
    /\ IF CellOk(Named.addr) THEN Finish(AsValue(Named.addr)) ELSE Fail

\* Storing converts to the type of the object: another number, or the value.
Stored == Numbers \cup {Operand(0)}

Put(c, pend) ==
    IF Len(stack) = 0 \/ ~CellOk(c)
    THEN Fail
    ELSE /\ \E x \in Stored : mem' = [mem EXCEPT ![c] = x]
         /\ stack' = SubSeq(stack, 1, Len(stack) - 1)
         /\ SetPend(pend)
         /\ UNCHANGED <<ftop, copy, status>>

\* The end of name = rhs; the address was taken before rhs ran.
Store ==
    /\ Running
    /\ Pend # <<>> /\ Named.len = 1
    /\ Fail \/ Put(Named.addr, DropPend)

\* Leaving a right-hand side or subscript by break, continue or goto.
Abandon ==
    /\ Running
    /\ \E n \in 0 .. Len(Pend) - 1 : SetPend(SubSeq(Pend, 1, n))
    /\ UNCHANGED <<stack, mem, ftop, copy, status>>

\* Struct assignment copies cell by cell; both sides have the same type.  A
\* struct of empty arrays has no cells, and then there is nothing to do.
Target == Pend[Len(Pend) - 1]
EndCopy == SetPend(SubSeq(Pend, 1, Len(Pend) - 2))

BeginCopy ==
    /\ Running
    /\ Len(Pend) > 1
    /\ Target.len = Named.len
    /\ copy' = Named.len
    /\ IF Named.len = 0 THEN EndCopy ELSE UNCHANGED frames
    /\ UNCHANGED <<stack, mem, ftop, status>>

CopyIndexFromOne == Named.len - copy + 1   \* defect: _k starts at 1
CopyIndex == Named.len - copy

CopyCell ==
    /\ status = "run"
    /\ copy > 0
    /\ LET k == CopyIndex IN
       IF CellOk(Target.addr + k) /\ CellOk(Named.addr + k)
       THEN /\ mem' = [mem EXCEPT ![Target.addr + k] = mem[Named.addr + k]]
            /\ copy' = copy - 1
            /\ IF copy = 1 THEN EndCopy ELSE UNCHANGED frames
            /\ UNCHANGED <<stack, ftop, status>>
       ELSE Fail

--------------------------------------------------------------------------------
(* Declarations and initialisers.                                           *)

ZeroedNot(first, n) == mem   \* defect: a new frame keeps old values

\* Memory with the cells first .. first + n - 1 zeroed.
Zeroed(first, n) ==
    [c \in Cells |-> IF c \in first .. first + n - 1 THEN 0 ELSE mem[c]]

\* Reaching the declaration of an automatic object zeroes it again.
DeclareLocal ==
    /\ Running
    /\ \E o \in LocalRegions(Top.fn) : mem' = Zeroed(o.first, o.cells)
    /\ UNCHANGED <<stack, ftop, frames, copy, status>>

\* One cell of an initialiser, its value computed by the operations before.
InitLocal ==
    /\ Running
    /\ \E o \in LocalRegions(Top.fn) : \E i \in 0 .. o.cells - 1 :
         Fail \/ Put(o.first + i, Pend)

\* The same for static objects, before the body of main.
InitStatic ==
    /\ Ready /\ status = "init"
    /\ \E o \in Statics : \E i \in 0 .. o.cells - 1 :
         Fail \/ Put(o.first + i, Pend)

--------------------------------------------------------------------------------
(* Calls.                                                                   *)

\* The prologue of func_f, called from an activation left with pend.
Enter(f, pend) ==
    IF Depth > MaxCalls
    THEN status' = "crashed" /\ UNCHANGED <<stack, mem, ftop, frames, copy>>
    ELSE IF ftop + FrameCells[f] > MemCells
    THEN Fail
    ELSE /\ ftop' = ftop + FrameCells[f]
         /\ mem' = Zeroed(ftop, FrameCells[f])
         /\ frames' = Append([frames EXCEPT ![Depth].pend = pend],
                             [fn |-> f, base |-> ftop, pend |-> <<>>])
         /\ UNCHANGED <<stack, copy, status>>

Call == Running /\ \E f \in Functions : Enter(f, Pend)

\* fp(): the cell must hold the handle of a function.
CallThrough ==
    /\ Running
    /\ Pend # <<>> /\ Named.len = 1
    /\ IF CellOk(Named.addr) /\ mem[Named.addr] \in {Handle(f) : f \in Functions}
       THEN Enter(mem[Named.addr] - MemCells, DropPend)
       ELSE Fail

ReturnKeepsTop ==   \* defect: ftop = _fb is missing
    /\ Running
    /\ Depth > 1
    /\ Pend = <<>>
    /\ frames' = SubSeq(frames, 1, Depth - 1)
    /\ UNCHANGED <<stack, mem, ftop, copy, status>>

Return ==
    /\ Running
    /\ Depth > 1
    /\ Pend = <<>>
    /\ ftop' = Top.base
    /\ frames' = SubSeq(frames, 1, Depth - 1)
    /\ UNCHANGED <<stack, mem, copy, status>>

\* The end of main, and $ anywhere.
Finished ==
    /\ Running
    /\ \/ Depth = 1 /\ Pend = <<>> /\ UNCHANGED stack /\ status' = "done"
       \/ /\ Len(stack) > 0
          /\ stack' = SubSeq(stack, 1, Len(stack) - 1)
          /\ status' = "done"
       \/ Len(stack) = 0 /\ UNCHANGED stack /\ status' = "failed"
    /\ UNCHANGED memory

\* The prologue of main: its frame starts where the static objects end.
Start ==
    /\ status = "boot"
    /\ IF StaticTop + FrameCells[Main] > MemCells
       THEN Fail
       ELSE /\ ftop' = StaticTop + FrameCells[Main]
            /\ mem' = Zeroed(StaticTop, FrameCells[Main])
            /\ frames' = <<[fn |-> Main, base |-> StaticTop, pend |-> <<>>]>>
            /\ status' = "init"
            /\ UNCHANGED <<stack, copy>>

EnterMain ==
    /\ status = "init"
    /\ Pend = <<>>
    /\ status' = "run"
    /\ UNCHANGED <<stack, mem, ftop, frames, copy>>

Init ==
    /\ stack = <<>>
    /\ mem = [c \in Cells |-> 0]
    /\ ftop = 0
    /\ frames = <<>>
    /\ copy = 0
    /\ status = "boot"

OperandStep ==
    \/ Literal \/ FuncRef \/ Unary \/ Binary \/ Dup \/ Swap \/ Drop
    \/ DepthOp \/ Pick \/ Read \/ Foreign \/ PushVar

LvalStep ==
    \/ BeginLval \/ JumpIntoAssignment
    \/ SubscriptArray \/ Member \/ SubscriptPointer \/ Arrow
    \/ Load \/ Decay \/ TakeAddress \/ Abandon

WriteStep ==
    \/ StoreVar \/ Store \/ BeginCopy \/ CopyCell
    \/ DeclareLocal \/ InitLocal \/ InitStatic

CallStep == Start \/ EnterMain \/ Call \/ CallThrough \/ Return \/ Finished

Next == OperandStep \/ LvalStep \/ WriteStep \/ CallStep

Spec == Init /\ [][Next]_vars

--------------------------------------------------------------------------------
(* Properties.                                                              *)

Pending == [addr : Int, len : Nat, via : {"name", "pointer", "goto"}]
Frame == [fn : Callers, base : Nat, pend : Seq(Pending)]

\* Every variable holds what its C counterpart can hold, sp stays within
\* STACK_SIZE (push, pop) and a running program has a frame.
TypeOK ==
    /\ stack \in Seq(Value) /\ Len(stack) <= StackSize
    /\ mem \in [Cells -> Value]
    /\ ftop \in Nat
    /\ frames \in Seq(Frame)
    /\ copy \in Nat
    /\ status \in {"boot", "init", "run", "done", "failed", "crashed"}
    /\ Live => frames # <<>>
    /\ status = "boot" => frames = <<>> /\ copy = 0
    /\ copy > 0 => Len(Pend) > 1 /\ copy <= Named.len /\ Target.len = Named.len

\* The frames of the active calls lie one after the other above the static
\* objects, never overlap, end at ftop and fit the memory, whatever was
\* called, returned from or abandoned (ftop += and = _fb in every function).
FramesTile ==
    frames # <<>> =>
        /\ ftop <= MemCells
        /\ End(Depth) = ftop
        /\ \A k \in 1 .. Depth : StaticTop <= Bottom(k) /\ End(k) <= ftop
        /\ \A k \in 1 .. Depth - 1 : End(k) = Bottom(k + 1)
        /\ \A j, k \in 1 .. Depth : j < k => End(j) <= Bottom(k)

\* Nothing is ever stored in cell 0, so reading through NULL cannot work by
\* accident: every store goes through cell_chk or a checked index.
NullCellUntouched == mem[0] = 0

\* An _aN variable computed from a name, array subscripts and members stays
\* inside static storage or the frame of its own activation until it is used,
\* however many calls and returns happen in between.
PendingAtHome ==
    \A k \in 1 .. Depth : \A i \in 1 .. Len(frames[k].pend) :
        LET p == frames[k].pend[i] IN
        p.via = "name" =>
            \/ NumVars < p.addr /\ p.addr + p.len <= StaticTop
            \/ Bottom(k) <= p.addr /\ p.addr + p.len <= End(k)

\* A callee changes an object of its callers only through a pointer (or an
\* address a goto left undefined): named stores, |n stores, declarations,
\* initialisers, calls and returns leave the frames below alone.
ThroughPointer ==
    /\ status = "run" /\ Pend # <<>>
    /\ IF copy > 0 THEN Target.via # "name" ELSE Named.via # "name"

CallerFramesPrivate ==
    [][ \/ ThroughPointer
        \/ \A k \in 1 .. Depth - 1 : \A c \in Bottom(k) .. End(k) - 1 :
             mem'[c] = mem[c] ]_vars

\* A struct assignment between objects that do not overlap ends with the two
\* equal in every cell, although it copies one cell at a time.
Apart(p, q) == p.addr + p.len <= q.addr \/ q.addr + q.len <= p.addr

StructCopied ==
    [][ copy = 1 /\ copy' = 0 /\ Apart(Target, Named) =>
          \A k \in 0 .. Named.len - 1 :
             mem'[Target.addr + k] = mem'[Named.addr + k] ]_vars

\* The flat memory implements activation records: a call gets zeroed storage
\* of its own, a return gives the caller its storage back as it was, and one
\* store changes one location.
Records ==
    [k \in 1 .. Depth |->
        [fn |-> frames[k].fn,
         cells |-> [i \in 0 .. FrameCells[frames[k].fn] - 1 |->
                       mem[Bottom(k) + i]]]]

Phase == IF Live THEN "live" ELSE IF status = "boot" THEN "boot" ELSE "stopped"

Activations == INSTANCE ActivationStore WITH
    Fns <- Callers, Entry <- Main, Size <- FrameCells,
    Globals <- 1 .. StaticTop - 1, Vals <- Value, phase <- Phase,
    globals <- [c \in 1 .. StaticTop - 1 |-> mem[c]], records <- Records

ImplementsActivations == Activations!Spec
================================================================================
