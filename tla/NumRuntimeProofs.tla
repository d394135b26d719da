---------------------------- MODULE NumRuntimeProofs ----------------------------
(***************************************************************************)
(* Proofs about NumRuntime for every stack size, memory size, set of         *)
(* functions and objects, and every bound.                                   *)
(***************************************************************************)
EXTENDS NumRuntime, SequenceTheorems, TLAPS

\* The inductive invariant: the frames, the objects under evaluation and the
\* types depend on each other, so they are proved together.
IInv == TypeOK /\ FramesTile /\ PendingAtHome /\ NullCellUntouched

AtHome(p, k) ==
    p.via = "name" =>
        \/ NumVars < p.addr /\ p.addr + p.len <= StaticTop
        \/ Bottom(k) <= p.addr /\ p.addr + p.len <= End(k)

Same == UNCHANGED <<mem, ftop, frames, copy>>
Stops == status' \in {status, "done", "failed", "crashed"}
StackOK == stack \in Seq(Value) /\ Len(stack) <= StackSize

--------------------------------------------------------------------------------
(* Sequences.                                                               *)

LEMMA OperandType ==
    ASSUME StackOK, NEW k \in Nat, k < Len(stack)
    PROVE  Operand(k) \in Value
BY DEF StackOK, Operand

LEMMA PopType ==
    ASSUME StackOK, NEW n \in Nat, n <= Len(stack)
    PROVE  /\ SubSeq(stack, 1, Len(stack) - n) \in Seq(Value)
           /\ Len(SubSeq(stack, 1, Len(stack) - n)) = Len(stack) - n
BY DEF StackOK

LEMMA OperateType ==
    ASSUME StackOK, SizesAssumption, NEW n \in Nat, NEW out,
           Len(stack) >= n => out \in Seq(Value),
           Operate(n, out)
    PROVE  StackOK' /\ Same /\ Stops
<1>1. CASE Len(stack) >= n /\ Len(stack) - n + Len(out) <= StackSize
  <2>1. /\ stack' = SubSeq(stack, 1, Len(stack) - n) \o out
        /\ Same /\ status' = status
    BY <1>1 DEF Operate, Same
  <2>2. out \in Seq(Value)
    BY <1>1
  <2>3. /\ SubSeq(stack, 1, Len(stack) - n) \in Seq(Value)
        /\ Len(SubSeq(stack, 1, Len(stack) - n)) = Len(stack) - n
    BY <1>1, PopType
  <2>4. stack' \in Seq(Value) /\ Len(stack') = Len(stack) - n + Len(out)
    BY <2>1, <2>2, <2>3, ConcatProperties
  <2> QED BY <1>1, <2>1, <2>4 DEF StackOK, Stops
<1>2. CASE ~(Len(stack) >= n /\ Len(stack) - n + Len(out) <= StackSize)
  BY <1>2 DEF Operate, Fail, StackOK, Same, Stops
<1> QED BY <1>1, <1>2

\* A step that leaves the memory and the frames alone.
LEMMA QuietStep ==
    ASSUME IInv, StackOK', Same, Stops
    PROVE  IInv'
<1>1. TypeOK'
  BY DEF IInv, TypeOK, StackOK, Same, Stops, Live, Pend, Top, Depth, Named, Target
<1>2. FramesTile'
  BY DEF IInv, FramesTile, Same, Depth, Bottom, End
<1>3. PendingAtHome'
  BY DEF IInv, PendingAtHome, Same, Depth, Bottom, End
<1>4. NullCellUntouched'
  BY DEF IInv, NullCellUntouched, Same
<1> QED BY <1>1, <1>2, <1>3, <1>4 DEF IInv

LEMMA StackIsOK == IInv => StackOK
BY DEF IInv, TypeOK, StackOK

LEMMA FailStep == IInv /\ Fail => IInv'
<1> SUFFICES ASSUME IInv, Fail PROVE IInv'
  OBVIOUS
<1>1. StackOK' /\ Same /\ Stops
  BY StackIsOK DEF Fail, StackOK, Same, Stops
<1> QED BY <1>1, QuietStep

--------------------------------------------------------------------------------
(* Operations on operands only.                                             *)

LEMMA ValueFacts ==
    /\ Nat \subseteq Value /\ Other \in Value /\ 0 \in Value
    /\ Numbers \subseteq Value
    /\ \A f \in Functions : Handle(f) \in Value
    /\ \A a : AsValue(a) \in Value
    /\ \A v \in Value : ToInts(v) \subseteq Int
BY SizesAssumption, FunctionsAssumption, NumbersAssumption
   DEF Value, Handle, AsValue, ToInts, Other

LEMMA OperateStep ==
    ASSUME IInv, NEW n \in Nat, NEW out,
           Len(stack) >= n => out \in Seq(Value),
           Operate(n, out)
    PROVE  IInv'
BY OperateType, QuietStep, StackIsOK, SizesAssumption

LEMMA OperandStepSafe == IInv /\ OperandStep => IInv'
<1> SUFFICES ASSUME IInv, OperandStep PROVE IInv'
  OBVIOUS
<1> USE StackIsOK, ValueFacts
<1>0. stack \in Seq(Value)
  BY DEF StackOK
<1>1. ASSUME NEW x \in Value, NEW n \in Nat, Operate(n, <<x>>) PROVE IInv'
  <2>1. <<x>> \in Seq(Value)
    OBVIOUS
  <2> QED BY <1>1, <2>1, OperateStep
<1>2. ASSUME NEW k \in Nat, NEW n \in Nat, k < n, Operate(n, <<Operand(k)>>)
      PROVE IInv'
  <2>1. Len(stack) >= n => <<Operand(k)>> \in Seq(Value)
    BY <1>0, <1>2, OperandType
  <2> QED BY <2>1, <1>2, OperateStep
<1>3. CASE Literal
  BY <1>1, <1>3 DEF Literal
<1>4. CASE FuncRef
  BY <1>1, <1>4 DEF FuncRef
<1>5. CASE Unary
  <2>1. CASE Fail
    BY <2>1, FailStep
  <2>2. CASE \E x \in Numbers : Operate(1, <<x>>)
    BY <2>2, <1>1
  <2>3. CASE Operate(1, <<Operand(0)>>)
    BY <2>3, <1>2
  <2> QED BY <1>5, <2>1, <2>2, <2>3 DEF Unary
<1>6. CASE Binary
  <2>1. CASE Fail
    BY <2>1, FailStep
  <2>2. CASE \E x \in Numbers : Operate(2, <<x>>)
    BY <2>2, <1>1
  <2>3. CASE \E k \in {0, 1} : Operate(2, <<Operand(k)>>)
    BY <2>3, <1>2
  <2> QED BY <1>6, <2>1, <2>2, <2>3 DEF Binary
<1>7. CASE Dup
  <2>1. Len(stack) >= 1 => <<Operand(0), Operand(0)>> \in Seq(Value)
    BY <1>0, OperandType
  <2> QED BY <1>7, <2>1, OperateStep DEF Dup
<1>8. CASE Swap
  <2>1. Len(stack) >= 2 => <<Operand(0), Operand(1)>> \in Seq(Value)
    BY <1>0, OperandType
  <2> QED BY <1>8, <2>1, OperateStep DEF Swap
<1>9. CASE Drop
  <2>1. << >> \in Seq(Value)
    OBVIOUS
  <2> QED BY <1>9, <2>1, OperateStep DEF Drop
<1>10. CASE DepthOp
  <2>1. Len(stack) \in Value
    BY <1>0
  <2> QED BY <1>10, <1>1, <2>1 DEF DepthOp
<1>11. CASE Pick
  <2>1. CASE Len(stack) = 0
    BY <1>11, <2>1, FailStep DEF Pick
  <2>2. CASE Len(stack) # 0
    <3>1. PICK n \in ToInts(Operand(0)) :
            IF n \in 0 .. Len(stack) - 2
            THEN Operate(1, <<Operand(n + 1)>>) ELSE Fail
      BY <1>11, <2>2 DEF Pick
    <3>2. CASE n \in 0 .. Len(stack) - 2
      <4>1. Operand(n + 1) \in Value
        BY <1>0, <3>2, OperandType
      <4> QED BY <3>1, <3>2, <4>1, <1>1
    <3> QED BY <3>1, <3>2, FailStep
  <2> QED BY <2>1, <2>2
<1>12. CASE Read
  BY <1>1, <1>12, FailStep DEF Read
<1>13. CASE Foreign
  BY <1>1, <1>13, SizesAssumption DEF Foreign
<1>14. CASE PushVar
  <2>1. PICK n \in 0 .. NumVars - 1 : Operate(0, <<mem[n + 1]>>)
    BY <1>14 DEF PushVar
  <2>2. mem[n + 1] \in Value
    BY SizesAssumption DEF IInv, TypeOK, Cells
  <2> QED BY <2>1, <2>2, <1>1
<1> QED BY <1>3, <1>4, <1>5, <1>6, <1>7, <1>8, <1>9, <1>10, <1>11, <1>12,
           <1>13, <1>14 DEF OperandStep

--------------------------------------------------------------------------------
(* Lvalues: steps that replace the pending list of the running activation.  *)

\* What may be pending in the running activation.
PendOK(p) == p \in Seq(Pending) /\ \A i \in 1 .. Len(p) : AtHome(p[i], Depth)

LEMMA TopFacts ==
    ASSUME IInv, frames # <<>>
    PROVE  /\ Depth \in Nat \ {0}
           /\ Top \in Frame
           /\ PendOK(Pend)
<1>1. Depth \in Nat \ {0} /\ Top \in Frame
  BY DEF IInv, TypeOK, Depth, Top
<1>2. Pend \in Seq(Pending)
  BY <1>1 DEF Pend, Frame
<1>3. \A i \in 1 .. Len(Pend) : AtHome(Pend[i], Depth)
  BY <1>1 DEF IInv, PendingAtHome, AtHome, Pend, Top, Depth
<1> QED BY <1>1, <1>2, <1>3 DEF PendOK

LEMMA PrefixOK ==
    ASSUME NEW p, PendOK(p), NEW n \in 0 .. Len(p)
    PROVE  PendOK(SubSeq(p, 1, n)) /\ Len(SubSeq(p, 1, n)) = n
<1>1. /\ SubSeq(p, 1, n) \in Seq(Pending)
      /\ Len(SubSeq(p, 1, n)) = n
      /\ \A i \in 1 .. n : SubSeq(p, 1, n)[i] = p[i]
  BY DEF PendOK
<1> QED BY <1>1 DEF PendOK

LEMMA AppendOK ==
    ASSUME NEW p, PendOK(p), NEW e \in Pending, AtHome(e, Depth)
    PROVE  PendOK(Append(p, e))
<1>1. /\ Append(p, e) \in Seq(Pending)
      /\ Len(Append(p, e)) = Len(p) + 1
      /\ \A i \in 1 .. Len(p) : Append(p, e)[i] = p[i]
      /\ Append(p, e)[Len(p) + 1] = e
  BY AppendProperties DEF PendOK
<1> QED BY <1>1 DEF PendOK

\* The frames after a step that only replaces Pend.
LEMMA SetPendFrames ==
    ASSUME IInv, frames # <<>>, NEW p \in Seq(Pending), SetPend(p)
    PROVE  /\ frames' \in Seq(Frame)
           /\ Len(frames') = Len(frames)
           /\ \A k \in 1 .. Len(frames) :
                /\ frames'[k].fn = frames[k].fn
                /\ frames'[k].base = frames[k].base
                /\ frames'[k].pend = IF k = Depth THEN p ELSE frames[k].pend
<1>1. frames \in Seq(Frame) /\ Depth \in 1 .. Len(frames)
  BY DEF IInv, TypeOK, Depth
<1>2. frames' = [frames EXCEPT ![Depth] = [frames[Depth] EXCEPT !.pend = p]]
  BY DEF SetPend
<1>3. frames[Depth] \in Frame
  BY <1>1
<1>4. [frames[Depth] EXCEPT !.pend = p] \in Frame
  BY <1>3 DEF Frame
<1>5. frames' \in Seq(Frame) /\ Len(frames') = Len(frames)
  BY <1>1, <1>2, <1>4
<1>6. ASSUME NEW k \in 1 .. Len(frames)
      PROVE  /\ frames'[k].fn = frames[k].fn
             /\ frames'[k].base = frames[k].base
             /\ frames'[k].pend = IF k = Depth THEN p ELSE frames[k].pend
  <2>1. frames[k] \in Frame
    BY <1>1
  <2>2. frames'[k] = IF k = Depth THEN [frames[Depth] EXCEPT !.pend = p]
                     ELSE frames[k]
    BY <1>1, <1>2
  <2> QED BY <2>1, <2>2 DEF Frame
<1> QED BY <1>5, <1>6

LEMMA SetPendStep ==
    ASSUME IInv, frames # <<>>, copy' = 0,
           NEW p, PendOK(p), SetPend(p),
           StackOK', mem' \in [Cells -> Value], mem'[0] = 0,
           UNCHANGED <<ftop, status>>
    PROVE  IInv'
<1> DEFINE D == Depth
<1>1. /\ frames' \in Seq(Frame)
      /\ Len(frames') = Len(frames)
      /\ \A k \in 1 .. Len(frames) :
           /\ frames'[k].fn = frames[k].fn
           /\ frames'[k].base = frames[k].base
           /\ frames'[k].pend = IF k = Depth THEN p ELSE frames[k].pend
  BY SetPendFrames DEF PendOK
<1>2. TypeOK'
  BY <1>1 DEF IInv, TypeOK, StackOK, Live
<1>3. /\ Depth' = Depth
      /\ \A k \in 1 .. Depth : Bottom(k)' = Bottom(k) /\ End(k)' = End(k)
  BY <1>1 DEF Depth, Bottom, End
<1>4. Depth \in 1 .. Depth
  BY TopFacts
<1>5. FramesTile'
  BY <1>1, <1>3, <1>4 DEF IInv, FramesTile
<1>6. PendingAtHome'
  <2> SUFFICES ASSUME NEW k \in 1 .. Depth, NEW i \in 1 .. Len(frames'[k].pend)
               PROVE  AtHome(frames[k].pend[i], k)'
    BY <1>3 DEF PendingAtHome, AtHome
  <2>1. AtHome(frames'[k].pend[i], k)
    <3>1. CASE k = Depth
      BY <1>1, <3>1 DEF PendOK, Depth
    <3>2. CASE k # Depth
      BY <1>1, <3>2 DEF IInv, PendingAtHome, AtHome, Depth
    <3> QED BY <3>1, <3>2
  <2> QED BY <2>1, <1>3 DEF AtHome
<1>7. NullCellUntouched'
  BY DEF NullCellUntouched
<1> QED BY <1>2, <1>5, <1>6, <1>7 DEF IInv

LEMMA NamedFacts ==
    ASSUME IInv, frames # <<>>, Pend # <<>>
    PROVE  /\ Named \in Pending
           /\ AtHome(Named, Depth)
           /\ PendOK(DropPend)
<1>1. PendOK(Pend) /\ Len(Pend) \in 1 .. Len(Pend)
  BY TopFacts DEF PendOK
<1>2. Named \in Pending /\ AtHome(Named, Depth)
  BY <1>1 DEF PendOK, Named
<1>3. PendOK(DropPend)
  <2>1. Len(Pend) - 1 \in 0 .. Len(Pend)
    BY <1>1 DEF PendOK
  <2> QED BY <1>1, <2>1, PrefixOK DEF DropPend
<1> QED BY <1>2, <1>3

\* An accessor moves the innermost lvalue to an entry that is at home.
LEMMA RetargetStep ==
    ASSUME IInv, frames # <<>>, Pend # <<>>, copy = 0,
           NEW a \in Int, NEW n \in Nat,
           NEW via \in {"name", "pointer", "goto"},
           AtHome([addr |-> a, len |-> n, via |-> via], Depth),
           Retarget(a, n, via), StackOK', UNCHANGED <<mem, ftop, copy, status>>
    PROVE  IInv'
<1> DEFINE e == [addr |-> a, len |-> n, via |-> via]
<1>1. e \in Pending
  BY DEF Pending
<1>2. PendOK(Append(DropPend, e))
  BY <1>1, NamedFacts, AppendOK
<1>3. SetPend(Append(DropPend, e))
  BY DEF Retarget
<1>4. mem' \in [Cells -> Value] /\ mem'[0] = 0
  BY DEF IInv, TypeOK, NullCellUntouched
<1> QED BY <1>2, <1>3, <1>4, SetPendStep

LEMMA ReadyFacts == IInv /\ Ready => frames # <<>> /\ copy = 0
BY DEF IInv, TypeOK, Ready

LEMMA PoppedOK ==
    ASSUME StackOK, SizesAssumption, Len(stack) > 0,
           stack' = SubSeq(stack, 1, Len(stack) - 1)
    PROVE  StackOK'
BY DEF StackOK

LEMMA RootSafe ==
    ASSUME IInv, Ready, NEW e \in Pending, AtHome(e, Depth),
           SetPend(Append(Pend, e)), UNCHANGED <<stack, mem, ftop, copy, status>>
    PROVE  IInv'
<1>1. frames # <<>> /\ copy = 0
  BY ReadyFacts
<1>2. PendOK(Append(Pend, e))
  BY <1>1, TopFacts, AppendOK
<1>3. StackOK' /\ mem' \in [Cells -> Value] /\ mem'[0] = 0
  BY DEF IInv, TypeOK, NullCellUntouched, StackOK
<1> QED BY <1>1, <1>2, <1>3, SetPendStep

\* The cells of an automatic object of the running activation.
LEMMA LocalRegion ==
    ASSUME IInv, frames # <<>>, NEW o \in LocalRegions(Top.fn)
    PROVE  /\ o.first \in Nat /\ o.cells \in Nat
           /\ Bottom(Depth) <= o.first /\ o.first + o.cells <= End(Depth)
           /\ 0 < o.first /\ o.first + o.cells <= MemCells
<1>1. PICK l \in Locals[Top.fn] :
        o = [first |-> Top.base + l.first, cells |-> l.cells]
  BY DEF LocalRegions
<1>2. Top.fn \in Callers /\ Top.base \in Nat /\ Depth \in 1 .. Depth
  BY TopFacts DEF Frame
<1>3. /\ l.first \in Nat /\ l.cells \in Nat
      /\ l.first + l.cells <= FrameCells[Top.fn] /\ FrameCells[Top.fn] \in Nat
  BY <1>2, ObjectsAssumption, FunctionsAssumption DEF Sound, Object
<1>4. Bottom(Depth) = Top.base /\ End(Depth) = Top.base + FrameCells[Top.fn]
  BY DEF Bottom, End, Top
<1>5. StaticTop <= Bottom(Depth) /\ End(Depth) <= MemCells
  BY <1>2 DEF IInv, FramesTile
<1>6. StaticTop > 0 /\ StaticTop \in Nat /\ MemCells \in Nat
  BY SizesAssumption
<1>7. o.first = Top.base + l.first /\ o.cells = l.cells
  BY <1>1
<1> QED BY <1>2, <1>3, <1>4, <1>5, <1>6, <1>7

LEMMA StaticRegion ==
    ASSUME NEW o \in Statics
    PROVE  /\ o.first \in Nat /\ o.cells \in Nat
           /\ NumVars < o.first /\ o.first + o.cells <= StaticTop
           /\ 0 < o.first /\ o.first + o.cells <= MemCells
BY SizesAssumption, ObjectsAssumption DEF Sound, Object

\* The multiplication an array subscript relies on.
LEMMA ElementFits ==
    ASSUME NEW n \in Nat, NEW count \in Nat, NEW i \in 0 .. count - 1
    PROVE  i * n \in Nat /\ i * n + n <= n * count
<1>1. count = i + 1 + (count - i - 1) /\ count - i - 1 \in Nat
  OBVIOUS
<1>2. PICK r \in Nat : count = i + 1 + r
  BY <1>1
<1>3. n * count = n * i + n + n * r /\ n * r \in Nat /\ n * i \in Nat
  BY <1>2
<1>4. n * i = i * n
  OBVIOUS
<1> QED BY <1>3, <1>4

LEMMA FinishStep ==
    ASSUME IInv, Ready, Pend # <<>>, NEW v \in Value, Finish(v)
    PROVE  IInv'
<1>1. CASE Len(stack) < StackSize
  <2>1. frames # <<>> /\ copy = 0
    BY ReadyFacts
  <2>2. PendOK(DropPend) /\ SetPend(DropPend)
    BY <1>1, <2>1, NamedFacts DEF Finish
  <2>3. StackOK'
    BY <1>1, StackIsOK, SizesAssumption, AppendProperties DEF Finish, StackOK
  <2>4. mem' \in [Cells -> Value] /\ mem'[0] = 0 /\ UNCHANGED <<ftop, copy, status>>
    BY <1>1 DEF Finish, IInv, TypeOK, NullCellUntouched
  <2> QED BY <2>1, <2>2, <2>3, <2>4, SetPendStep
<1>2. CASE ~(Len(stack) < StackSize)
  BY <1>2, FailStep DEF Finish
<1> QED BY <1>1, <1>2

LEMMA LvalStepSafe == IInv /\ LvalStep => IInv'
<1> SUFFICES ASSUME IInv, LvalStep PROVE IInv'
  OBVIOUS
<1> USE SizesAssumption
<1>a. Ready => frames # <<>> /\ copy = 0 /\ StackOK
  BY ReadyFacts, StackIsOK
<1>b. Running => Ready
  BY DEF Running, Ready, Live
<1>c. Ready /\ Pend # <<>> =>
        /\ Named.addr \in Int /\ Named.len \in Nat
        /\ Named.via \in {"name", "pointer", "goto"}
        /\ AtHome(Named, Depth)
  BY <1>a, NamedFacts DEF Pending
<1>1. CASE BeginLval
  <2>1. PICK o \in Statics \cup (IF Running THEN LocalRegions(Top.fn) ELSE {}) :
          SetPend(Append(Pend, [addr |-> o.first, len |-> o.cells, via |-> "name"]))
    BY <1>1 DEF BeginLval
  <2> DEFINE e == [addr |-> o.first, len |-> o.cells, via |-> "name"]
  <2>2. Ready /\ UNCHANGED <<stack, mem, ftop, copy, status>>
    BY <1>1 DEF BeginLval
  <2>3. e \in Pending /\ AtHome(e, Depth)
    <3>1. CASE o \in Statics
      BY <3>1, StaticRegion DEF Pending, AtHome
    <3>2. CASE o \in LocalRegions(Top.fn)
      BY <3>2, <2>2, <1>a, LocalRegion DEF Pending, AtHome
    <3> QED BY <3>1, <3>2
  <2> QED BY <2>1, <2>2, <2>3, RootSafe
<1>2. CASE JumpIntoAssignment
  <2>1. PICK a \in Leftovers, n \in TargetCells :
          SetPend(Append(Pend, [addr |-> a, len |-> n, via |-> "goto"]))
    BY <1>2 DEF JumpIntoAssignment
  <2>2. /\ [addr |-> a, len |-> n, via |-> "goto"] \in Pending
        /\ AtHome([addr |-> a, len |-> n, via |-> "goto"], Depth)
    BY NumbersAssumption DEF Pending, AtHome
  <2>3. Ready /\ UNCHANGED <<stack, mem, ftop, copy, status>>
    BY <1>2, <1>b DEF JumpIntoAssignment
  <2> QED BY <2>1, <2>2, <2>3, RootSafe
<1>3. CASE SubscriptArray
  <2>0. Ready /\ Pend # <<>>
    BY <1>3 DEF SubscriptArray
  <2>1. CASE Len(stack) = 0
    BY <1>3, <2>1, FailStep DEF SubscriptArray
  <2>2. CASE Len(stack) # 0
    <3>1. PICK n \in 0 .. Named.len, count \in 0 .. Named.len + MaxIndex,
               i \in ToInts(Operand(0)) :
            /\ n * count = Named.len
            /\ IF InArray(i, count)
               THEN /\ Retarget(Named.addr + i * n, n, Named.via)
                    /\ stack' = SubSeq(stack, 1, Len(stack) - 1)
                    /\ UNCHANGED <<mem, ftop, copy, status>>
               ELSE Fail
      BY <1>3, <2>2 DEF SubscriptArray
    <3>2. CASE InArray(i, count)
      <4>1. i * n \in Nat /\ i * n + n <= Named.len
        <5>1. n \in Nat /\ count \in Nat
          BY <2>0, <1>c
        <5>2. i * n \in Nat /\ i * n + n <= n * count
          BY <5>1, <3>2, ElementFits DEF InArray
        <5> QED BY <5>2, <3>1
      <4>2. AtHome([addr |-> Named.addr + i * n, len |-> n, via |-> Named.via],
                   Depth)
        <5>1. NumVars \in Nat /\ StaticTop \in Nat
          OBVIOUS
        <5>2. Bottom(Depth) \in Nat /\ End(Depth) \in Nat
          BY <2>0, <1>a, TopFacts, FunctionsAssumption DEF Bottom, End, Top, Frame
        <5> QED BY <4>1, <5>1, <5>2, <2>0, <1>c, SMTT(30) DEF AtHome
      <4>3. Retarget(Named.addr + i * n, n, Named.via) /\ StackOK'
            /\ UNCHANGED <<mem, ftop, copy, status>>
        BY <3>1, <3>2, <2>0, <2>2, <1>a, PoppedOK DEF StackOK
      <4>4. Named.addr + i * n \in Int /\ n \in Nat
        BY <4>1, <2>0, <1>c
      <4> QED BY <4>2, <4>3, <4>4, <2>0, <1>a, <1>c, RetargetStep
    <3> QED BY <3>1, <3>2, FailStep
  <2> QED BY <2>1, <2>2
<1>4. CASE Member
  <2>0. Ready /\ Pend # <<>> /\ UNCHANGED <<stack, mem, ftop, copy, status>>
    BY <1>4 DEF Member
  <2>1. PICK off \in 0 .. Named.len : \E n \in 0 .. Named.len - off :
          Retarget(Named.addr + off, n, Named.via)
    BY <1>4 DEF Member
  <2>2. PICK n \in 0 .. Named.len - off : Retarget(Named.addr + off, n, Named.via)
    BY <2>1
  <2>3. AtHome([addr |-> Named.addr + off, len |-> n, via |-> Named.via], Depth)
    <3>1. Bottom(Depth) \in Nat /\ End(Depth) \in Nat
      BY <2>0, <1>a, TopFacts, FunctionsAssumption DEF Bottom, End, Top, Frame
    <3> QED BY <3>1, <2>0, <1>c, SMTT(30) DEF AtHome
  <2>4. Named.addr + off \in Int /\ n \in Nat /\ StackOK'
    BY <2>0, <1>c, <1>a DEF StackOK
  <2> QED BY <2>0, <2>2, <2>3, <2>4, <1>a, <1>c, RetargetStep
<1>5. CASE SubscriptPointer
  <2>0. Ready /\ Pend # <<>>
    BY <1>5 DEF SubscriptPointer
  <2>1. CASE Len(stack) = 0 \/ ~PointerOk(Named.addr)
    BY <1>5, <2>1, FailStep DEF SubscriptPointer
  <2>2. CASE ~(Len(stack) = 0 \/ ~PointerOk(Named.addr))
    <3>1. PICK n \in TargetCells, i \in ToInts(Operand(0)) :
            /\ i \in -MaxIndex .. MaxIndex
            /\ Retarget(mem[Named.addr] + i * n, n, "pointer")
            /\ stack' = SubSeq(stack, 1, Len(stack) - 1)
            /\ UNCHANGED <<mem, ftop, copy, status>>
      BY <1>5, <2>2 DEF SubscriptPointer
    <3>2. n \in Nat /\ i \in Int
      BY <3>1, NumbersAssumption
    <3>3. mem[Named.addr] + i * n \in Int
      <4>1. mem[Named.addr] \in Int
        BY <2>2 DEF PointerOk, CellOk, Cells
      <4> QED BY <3>2, <4>1
    <3>4. AtHome([addr |-> mem[Named.addr] + i * n, len |-> n, via |-> "pointer"],
                 Depth)
      BY DEF AtHome
    <3>5. StackOK'
      BY <3>1, <2>0, <2>2, <1>a, PoppedOK DEF StackOK
    <3> QED BY <2>0, <3>1, <3>2, <3>3, <3>4, <3>5, <1>a, RetargetStep
  <2> QED BY <2>1, <2>2
<1>6. CASE Arrow
  <2>0. Ready /\ Pend # <<>>
    BY <1>6 DEF Arrow
  <2>1. CASE ~PointerOk(Named.addr)
    BY <1>6, <2>1, FailStep DEF Arrow
  <2>2. CASE PointerOk(Named.addr)
    <3>1. PICK total \in TargetCells : \E off \in 0 .. total :
            /\ \E n \in 0 .. total - off :
                 Retarget(mem[Named.addr] + off, n, "pointer")
            /\ UNCHANGED <<stack, mem, ftop, copy, status>>
      BY <1>6, <2>2 DEF Arrow
    <3>2. PICK off \in 0 .. total, n \in Nat :
            /\ Retarget(mem[Named.addr] + off, n, "pointer")
            /\ UNCHANGED <<stack, mem, ftop, copy, status>>
      BY <3>1
    <3>3. mem[Named.addr] + off \in Int /\ n \in Nat
      BY <2>2 DEF PointerOk, CellOk, Cells
    <3>4. AtHome([addr |-> mem[Named.addr] + off, len |-> n, via |-> "pointer"],
                 Depth)
      BY DEF AtHome
    <3>5. StackOK'
      BY <3>2, <2>0, <1>a DEF StackOK
    <3> QED BY <2>0, <3>2, <3>3, <3>4, <3>5, <1>a, RetargetStep
  <2> QED BY <2>1, <2>2
<1>7. CASE Load
  <2>1. CASE CellOk(Named.addr)
    <3>1. mem[Named.addr] \in Value
      BY <2>1 DEF IInv, TypeOK, CellOk
    <3> QED BY <1>7, <1>b, <2>1, <3>1, FinishStep DEF Load
  <2>2. CASE ~CellOk(Named.addr)
    BY <1>7, <2>2, FailStep DEF Load
  <2> QED BY <2>1, <2>2
<1>8. CASE Decay
  BY <1>8, ValueFacts, FinishStep DEF Decay
<1>9. CASE TakeAddress
  BY <1>9, ValueFacts, FinishStep, FailStep DEF TakeAddress
<1>10. CASE Abandon
  <2>1. PICK n \in 0 .. Len(Pend) - 1 : SetPend(SubSeq(Pend, 1, n))
    BY <1>10 DEF Abandon
  <2>2. Ready /\ UNCHANGED <<stack, mem, ftop, copy, status>>
    BY <1>10, <1>b DEF Abandon
  <2>3. frames # <<>> /\ copy = 0 /\ StackOK'
    BY <2>2, <1>a DEF StackOK
  <2>4. PendOK(SubSeq(Pend, 1, n))
    <3>1. PendOK(Pend) /\ n \in 0 .. Len(Pend)
      BY <2>3, TopFacts DEF PendOK
    <3> QED BY <3>1, PrefixOK
  <2>5. mem' \in [Cells -> Value] /\ mem'[0] = 0
    BY <2>2 DEF IInv, TypeOK, NullCellUntouched
  <2> QED BY <2>1, <2>2, <2>3, <2>4, <2>5, SetPendStep
<1> QED BY <1>1, <1>2, <1>3, <1>4, <1>5, <1>6, <1>7, <1>8, <1>9, <1>10
    DEF LvalStep

--------------------------------------------------------------------------------
(* Steps that write to memory.                                              *)

LEMMA PutStep ==
    ASSUME IInv, Ready, NEW c, NEW p, PendOK(p), Put(c, p)
    PROVE  IInv'
<1>0. frames # <<>> /\ copy = 0 /\ StackOK
  BY ReadyFacts, StackIsOK
<1>1. CASE Len(stack) = 0 \/ ~CellOk(c)
  BY <1>1, FailStep DEF Put
<1>2. CASE Len(stack) # 0 /\ CellOk(c)
  <2>1. /\ stack' = SubSeq(stack, 1, Len(stack) - 1)
        /\ SetPend(p)
        /\ UNCHANGED <<ftop, copy, status>>
    BY <1>2 DEF Put
  <2>2. PICK x \in Stored : mem' = [mem EXCEPT ![c] = x]
    BY <1>2 DEF Put
  <2>3. x \in Value
    BY <1>0, <1>2, <2>2, OperandType, ValueFacts DEF Stored, StackOK
  <2>4. mem' \in [Cells -> Value] /\ mem'[0] = 0
    BY <1>2, <2>2, <2>3, SizesAssumption
       DEF IInv, TypeOK, NullCellUntouched, CellOk, Cells
  <2>5. StackOK'
    BY <1>0, <1>2, <2>1, SizesAssumption, PoppedOK DEF StackOK
  <2> QED BY <1>0, <2>1, <2>4, <2>5, SetPendStep
<1> QED BY <1>0, <1>1, <1>2 DEF StackOK

\* Steps that write to memory and keep the frames and the lvalues.
LEMMA PokeStep ==
    ASSUME IInv, StackOK', mem' \in [Cells -> Value], mem'[0] = 0,
           UNCHANGED <<ftop, frames, copy, status>>
    PROVE  IInv'
<1>1. TypeOK'
  BY DEF IInv, TypeOK, StackOK, Live, Pend, Top, Depth, Named, Target
<1>2. FramesTile'
  BY DEF IInv, FramesTile, Depth, Bottom, End
<1>3. PendingAtHome'
  BY DEF IInv, PendingAtHome, Depth, Bottom, End
<1> QED BY <1>1, <1>2, <1>3 DEF IInv, NullCellUntouched

LEMMA ZeroedType ==
    ASSUME IInv, NEW first \in Nat, NEW n \in Nat
    PROVE  Zeroed(first, n) \in [Cells -> Value] /\ Zeroed(first, n)[0] = 0
BY SizesAssumption DEF Zeroed, IInv, TypeOK, NullCellUntouched, Cells, Value

\* The two lvalues of a struct assignment go when it ends.
LEMMA EndCopySafe ==
    ASSUME IInv, frames # <<>>, Len(Pend) > 1, EndCopy, StackOK', copy' = 0,
           mem' \in [Cells -> Value], mem'[0] = 0, UNCHANGED <<ftop, status>>
    PROVE  IInv'
<1>1. PendOK(Pend) /\ Len(Pend) - 2 \in 0 .. Len(Pend)
  BY TopFacts DEF PendOK
<1>2. PendOK(SubSeq(Pend, 1, Len(Pend) - 2))
  BY <1>1, PrefixOK
<1> QED BY <1>2, SetPendStep DEF EndCopy

LEMMA CopyCellSafe == IInv /\ CopyCell => IInv'
<1> SUFFICES ASSUME IInv, CopyCell PROVE IInv'
  OBVIOUS
<1> DEFINE k == CopyIndex
<1>1. /\ frames # <<>> /\ copy \in Nat \ {0} /\ Len(Pend) > 1
      /\ copy <= Named.len /\ Target.len = Named.len
  BY DEF CopyCell, IInv, TypeOK, Live
<1>2. CASE ~(CellOk(Target.addr + k) /\ CellOk(Named.addr + k))
  BY <1>2, FailStep DEF CopyCell
<1>3. CASE CellOk(Target.addr + k) /\ CellOk(Named.addr + k)
  <2>1. /\ mem' = [mem EXCEPT ![Target.addr + k] = mem[Named.addr + k]]
        /\ copy' = copy - 1
        /\ IF copy = 1 THEN EndCopy ELSE UNCHANGED frames
        /\ UNCHANGED <<stack, ftop, status>>
    BY <1>3 DEF CopyCell
  <2>2. mem' \in [Cells -> Value] /\ mem'[0] = 0
    BY <1>3, <2>1, SizesAssumption
       DEF IInv, TypeOK, NullCellUntouched, CellOk, Cells
  <2>3. StackOK'
    BY <2>1, StackIsOK DEF StackOK
  <2>4. CASE copy = 1
    BY <1>1, <2>1, <2>2, <2>3, <2>4, EndCopySafe
  <2>5. CASE copy # 1
    <3>1. UNCHANGED <<frames, ftop, status>> /\ copy' = copy - 1
      BY <2>1, <2>5
    <3>2. TypeOK'
      <4>1. Named.len \in Nat
        BY <1>1, NamedFacts DEF Pending
      <4> QED BY <4>1, <1>1, <2>2, <2>3, <2>5, <3>1
             DEF IInv, TypeOK, StackOK, Live, Pend, Top, Depth, Named, Target
    <3>3. FramesTile'
      BY <3>1 DEF IInv, FramesTile, Depth, Bottom, End
    <3>4. PendingAtHome'
      BY <3>1 DEF IInv, PendingAtHome, Depth, Bottom, End
    <3> QED BY <3>2, <3>3, <3>4, <2>2 DEF IInv, NullCellUntouched
  <2> QED BY <2>4, <2>5
<1> QED BY <1>2, <1>3

LEMMA WriteStepSafe == IInv /\ WriteStep => IInv'
<1> SUFFICES ASSUME IInv, WriteStep PROVE IInv'
  OBVIOUS
<1>a. Ready => frames # <<>> /\ copy = 0 /\ StackOK
  BY ReadyFacts, StackIsOK
<1>b. Running => Ready
  BY DEF Running, Ready, Live
<1>1. CASE StoreVar
  <2>1. CASE Len(stack) < 2
    BY <1>1, <2>1, FailStep DEF StoreVar
  <2>2. CASE ~(Len(stack) < 2)
    <3>1. PICK n \in ToInts(Operand(0)) :
            IF VarOk(n)
            THEN /\ mem' = [mem EXCEPT ![n + 1] = Operand(1)]
                 /\ stack' = SubSeq(stack, 1, Len(stack) - 2)
                 /\ UNCHANGED <<ftop, frames, copy, status>>
            ELSE Fail
      BY <1>1, <2>2 DEF StoreVar
    <3>2. CASE VarOk(n)
      <4>1. StackOK /\ Len(stack) \in Nat /\ 2 <= Len(stack)
        BY <2>2, StackIsOK DEF StackOK
      <4>2. Operand(1) \in Value
        BY <4>1, OperandType
      <4>3. mem' \in [Cells -> Value] /\ mem'[0] = 0
        BY <3>1, <3>2, <4>2, SizesAssumption
           DEF IInv, TypeOK, NullCellUntouched, Cells, VarOk
      <4>4. StackOK'
        BY <3>1, <3>2, <4>1, PopType, SizesAssumption DEF StackOK
      <4> QED BY <3>1, <3>2, <4>3, <4>4, PokeStep
    <3> QED BY <3>1, <3>2, FailStep
  <2> QED BY <2>1, <2>2
<1>2. CASE Store
  <2>1. Ready /\ Pend # <<>>
    BY <1>2, <1>b DEF Store
  <2>2. PendOK(DropPend)
    BY <2>1, <1>a, NamedFacts
  <2> QED BY <1>2, <2>1, <2>2, PutStep, FailStep DEF Store
<1>3. CASE BeginCopy
  <2>1. /\ frames # <<>> /\ Len(Pend) > 1 /\ copy' = Named.len
        /\ Target.len = Named.len /\ UNCHANGED <<stack, mem, ftop, status>>
        /\ IF Named.len = 0 THEN EndCopy ELSE UNCHANGED frames
    BY <1>3, <1>a, <1>b DEF BeginCopy
  <2>2. Named.len \in Nat
    BY <2>1, NamedFacts DEF Pending
  <2>3. CASE Named.len = 0
    <3>1. StackOK' /\ mem' \in [Cells -> Value] /\ mem'[0] = 0
      BY <2>1, <1>3, <1>a, <1>b DEF BeginCopy, StackOK, IInv, TypeOK, NullCellUntouched
    <3> QED BY <2>1, <2>3, <3>1, EndCopySafe
  <2>4. CASE Named.len # 0
    <3>1. UNCHANGED frames
      BY <2>1, <2>4
    <3>2. TypeOK'
      BY <2>1, <2>2, <3>1 DEF IInv, TypeOK, Live, Pend, Top, Depth, Named, Target
    <3>3. FramesTile'
      BY <2>1, <3>1 DEF IInv, FramesTile, Depth, Bottom, End
    <3>4. PendingAtHome'
      BY <2>1, <3>1 DEF IInv, PendingAtHome, Depth, Bottom, End
    <3> QED BY <2>1, <3>2, <3>3, <3>4 DEF IInv, NullCellUntouched
  <2> QED BY <2>3, <2>4
<1>4. CASE CopyCell
  BY <1>4, CopyCellSafe
<1>5. CASE DeclareLocal
  <2>1. PICK o \in LocalRegions(Top.fn) : mem' = Zeroed(o.first, o.cells)
    BY <1>5 DEF DeclareLocal
  <2>2. Ready /\ UNCHANGED <<stack, ftop, frames, copy, status>>
    BY <1>5, <1>b DEF DeclareLocal
  <2>3. mem' \in [Cells -> Value] /\ mem'[0] = 0
    BY <2>1, <2>2, <1>a, LocalRegion, ZeroedType
  <2>4. StackOK'
    BY <2>2, <1>a DEF StackOK
  <2> QED BY <2>2, <2>3, <2>4, PokeStep
<1>6. CASE InitLocal
  <2>1. Ready /\ PendOK(Pend)
    BY <1>6, <1>a, <1>b, TopFacts DEF InitLocal
  <2> QED BY <1>6, <2>1, PutStep, FailStep DEF InitLocal
<1>7. CASE InitStatic
  <2>1. Ready /\ PendOK(Pend)
    BY <1>7, <1>a, TopFacts DEF InitStatic
  <2> QED BY <1>7, <2>1, PutStep, FailStep DEF InitStatic
<1> QED BY <1>1, <1>2, <1>3, <1>4, <1>5, <1>6, <1>7 DEF WriteStep

--------------------------------------------------------------------------------
(* Calls.                                                                   *)

\* The frames after a call: the old ones, the caller's with another pending
\* list, and a new one.
LEMMA EnterFrames ==
    ASSUME IInv, frames # <<>>, NEW f \in Callers, NEW p, PendOK(p),
           frames' = Append([frames EXCEPT ![Depth].pend = p],
                            [fn |-> f, base |-> ftop, pend |-> <<>>])
    PROVE  /\ frames' \in Seq(Frame)
           /\ Len(frames') = Depth + 1
           /\ \A k \in 1 .. Depth :
                /\ frames'[k].fn = frames[k].fn
                /\ frames'[k].base = frames[k].base
                /\ frames'[k].pend = IF k = Depth THEN p ELSE frames[k].pend
           /\ frames'[Depth + 1].fn = f
           /\ frames'[Depth + 1].base = ftop
           /\ frames'[Depth + 1].pend = <<>>
<1> DEFINE top == [frames[Depth] EXCEPT !.pend = p]
           below == [frames EXCEPT ![Depth] = top]
           new == [fn |-> f, base |-> ftop, pend |-> <<>>]
<1>1. frames \in Seq(Frame) /\ Depth \in 1 .. Len(frames)
  BY DEF IInv, TypeOK, Depth
<1>2. top \in Frame /\ top.fn = frames[Depth].fn /\ top.base = frames[Depth].base
      /\ top.pend = p
  <2>1. frames[Depth] \in Frame /\ p \in Seq(Pending)
    BY <1>1 DEF PendOK
  <2> QED BY <2>1 DEF Frame
<1>3. new \in Frame /\ new.fn = f /\ new.base = ftop /\ new.pend = <<>>
  BY DEF Frame, IInv, TypeOK
<1>4. frames' = Append(below, new)
  OBVIOUS
<1> HIDE DEF top, new
<1>5. /\ below \in Seq(Frame) /\ Len(below) = Depth
      /\ \A k \in 1 .. Depth : below[k] = IF k = Depth THEN top ELSE frames[k]
  BY <1>1, <1>2 DEF Depth
<1> HIDE DEF below
<1>6. /\ frames' \in Seq(Frame)
      /\ Len(frames') = Depth + 1
      /\ \A k \in 1 .. Depth : frames'[k] = below[k]
      /\ frames'[Depth + 1] = new
  <2> DEFINE app == Append(below, new)
  <2>1. below \in Seq(Frame) /\ new \in Frame
    BY <1>3, <1>5
  <2>2. /\ app \in Seq(Frame) /\ Len(app) = Len(below) + 1
        /\ \A k \in 1 .. Len(below) : app[k] = below[k]
        /\ app[Len(below) + 1] = new
    BY <2>1, AppendProperties
  <2>3. frames' = app
    BY <1>4
  <2> HIDE DEF app
  <2> QED BY <2>2, <2>3, <1>5
<1> QED BY <1>2, <1>3, <1>5, <1>6

\* A frame of f on top of frames that are all below ftop.
LEMMA EnterStep ==
    ASSUME IInv, Ready, NEW f \in Functions, NEW p, PendOK(p), Enter(f, p)
    PROVE  IInv'
<1> USE SizesAssumption
<1>1. frames # <<>> /\ copy = 0 /\ StackOK /\ f \in Callers /\ FrameCells[f] \in Nat
  BY ReadyFacts, StackIsOK, FunctionsAssumption DEF Callers
<1>2. CASE Depth > MaxCalls
  <2>1. StackOK' /\ Same /\ Stops
    BY <1>1, <1>2 DEF Enter, StackOK, Same, Stops
  <2> QED BY <2>1, QuietStep
<1>3. CASE ~(Depth > MaxCalls) /\ ftop + FrameCells[f] > MemCells
  BY <1>3, FailStep DEF Enter
<1>4. CASE ~(Depth > MaxCalls) /\ ~(ftop + FrameCells[f] > MemCells)
  <2>1. /\ ftop' = ftop + FrameCells[f]
        /\ mem' = Zeroed(ftop, FrameCells[f])
        /\ frames' = Append([frames EXCEPT ![Depth].pend = p],
                            [fn |-> f, base |-> ftop, pend |-> <<>>])
        /\ UNCHANGED <<stack, copy, status>>
    BY <1>4 DEF Enter
  <2>2. ftop \in Nat /\ ftop' \in Nat /\ ftop' <= MemCells /\ ftop <= ftop'
    BY <1>1, <1>4, <2>1 DEF IInv, TypeOK
  <2>5. /\ frames' \in Seq(Frame)
        /\ Len(frames') = Depth + 1
        /\ \A k \in 1 .. Depth :
             /\ frames'[k].fn = frames[k].fn
             /\ frames'[k].base = frames[k].base
             /\ frames'[k].pend = IF k = Depth THEN p ELSE frames[k].pend
        /\ frames'[Depth + 1].fn = f
        /\ frames'[Depth + 1].base = ftop
        /\ frames'[Depth + 1].pend = <<>>
    BY <1>1, <2>1, EnterFrames
  <2>6. Depth \in Nat \ {0} /\ Depth' = Depth + 1
    BY <1>1, <2>5, TopFacts DEF Depth
  <2>d. PICK d \in Nat \ {0} : d = Depth
    BY <2>6
  <2>7. /\ \A k \in 1 .. d : Bottom(k)' = Bottom(k) /\ End(k)' = End(k)
        /\ Bottom(d + 1)' = ftop
        /\ End(d + 1)' = ftop'
    <3>1. ASSUME NEW k \in 1 .. d
          PROVE  frames'[k].base = frames[k].base /\ frames'[k].fn = frames[k].fn
      BY <2>5, <2>d
    <3>2. frames'[d + 1].base = ftop /\ frames'[d + 1].fn = f
      BY <2>5, <2>d
    <3>3. \A k \in 1 .. d : Bottom(k)' = Bottom(k) /\ End(k)' = End(k)
      BY <3>1 DEF Bottom, End
    <3> QED BY <3>2, <3>3, <2>1 DEF Bottom, End
  <2>8. TypeOK'
    <3>1. mem' \in [Cells -> Value]
      BY <2>1, <2>2, <1>1, ZeroedType
    <3>2. frames' # <<>>
      BY <2>5, <2>6
    <3> QED BY <1>1, <2>1, <2>2, <2>5, <3>1, <3>2 DEF IInv, TypeOK, Live
  <2>9. FramesTile'
    <3>1. \A k \in 1 .. Depth : StaticTop <= Bottom(k) /\ End(k) <= ftop
      BY <1>1 DEF IInv, FramesTile
    <3>2. \A j, k \in 1 .. Depth : j < k => End(j) <= Bottom(k)
      BY <1>1 DEF IInv, FramesTile
    <3>3. StaticTop <= ftop
      <4>1. /\ StaticTop <= Bottom(Depth) /\ End(Depth) <= ftop
            /\ Bottom(Depth) \in Nat /\ FrameCells[frames[Depth].fn] \in Nat
        BY <1>1, <2>6, <3>1, TopFacts, FunctionsAssumption, SMTT(30)
           DEF Bottom, Top, Frame
      <4> QED BY <4>1, <2>2 DEF Bottom, End
    <3>4. \A k \in 1 .. Depth :
            Bottom(k) \in Nat /\ FrameCells[frames[k].fn] \in Nat
      <4> TAKE k \in 1 .. Depth
      <4>1. frames[k] \in Frame
        BY DEF IInv, TypeOK, Depth
      <4> QED BY <4>1, FunctionsAssumption DEF Frame, Bottom
    <3>5. \A k \in 1 .. d + 1 :
            StaticTop <= Bottom(k)' /\ End(k)' <= ftop'
      <4> TAKE k \in 1 .. d + 1
      <4>1. CASE k = d + 1
        BY <4>1, <2>7, <2>2, <3>3
      <4>2. CASE k \in 1 .. d
        <5>1. End(k) \in Nat
          BY <4>2, <2>d, <3>4 DEF Bottom, End
        <5> QED BY <4>2, <2>7, <2>2, <2>d, <3>1, <5>1
      <4> QED BY <4>1, <4>2
    <3>6. \A j, k \in 1 .. d + 1 : j < k => End(j)' <= Bottom(k)'
      <4> TAKE j, k \in 1 .. d + 1
      <4> HAVE j < k
      <4>1. CASE k = d + 1
        BY <4>1, <2>7, <2>d, <3>1
      <4>2. CASE k \in 1 .. d
        BY <4>2, <2>7, <2>d, <3>2
      <4> QED BY <4>1, <4>2
    <3>7. Depth' = d + 1 /\ End(d + 1)' = ftop' /\ ftop' <= MemCells
      BY <2>2, <2>6, <2>7, <2>d
    <3>8. \A k \in 1 .. d : End(k)' = Bottom(k + 1)'
      <4> TAKE k \in 1 .. d
      <4>1. CASE k = d
        <5>1. End(d) = ftop
          BY <1>1, <2>d DEF IInv, FramesTile
        <5> QED BY <4>1, <5>1, <2>7
      <4>2. CASE k # d
        <5>1. End(k) = Bottom(k + 1)
          BY <1>1, <4>2, <2>d DEF IInv, FramesTile
        <5> QED BY <4>2, <5>1, <2>7
      <4> QED BY <4>1, <4>2
    <3> QED BY <3>5, <3>6, <3>7, <3>8 DEF FramesTile, End, Bottom
  <2>10. PendingAtHome'
    <3> SUFFICES ASSUME NEW k \in 1 .. d + 1,
                        NEW i \in 1 .. Len(frames'[k].pend)
                 PROVE  AtHome(frames[k].pend[i], k)'
      BY <2>6, <2>d DEF PendingAtHome, AtHome
    <3>1. k \in 1 .. d
      BY <2>5, <2>d
    <3>2. frames'[k].pend = IF k = d THEN p ELSE frames[k].pend
      BY <3>1, <2>5, <2>d
    <3>3. AtHome(frames'[k].pend[i], k)
      <4>1. CASE k = d
        BY <3>2, <4>1, <2>d DEF PendOK
      <4>2. CASE k # d
        BY <3>1, <3>2, <4>2, <2>d DEF IInv, PendingAtHome, AtHome
      <4> QED BY <4>1, <4>2
    <3> QED BY <3>1, <3>3, <2>7 DEF AtHome
  <2>11. NullCellUntouched'
    BY <2>1, <2>2, <1>1, ZeroedType DEF NullCellUntouched
  <2> QED BY <2>8, <2>9, <2>10, <2>11 DEF IInv
<1> QED BY <1>2, <1>3, <1>4

\* Popping a frame leaves the frames below it as they were.
LEMMA ReturnSafe == IInv /\ Return => IInv'
<1> SUFFICES ASSUME IInv, Return PROVE IInv'
  OBVIOUS
<1>1. /\ frames # <<>> /\ copy = 0 /\ Depth > 1
      /\ ftop' = Top.base /\ frames' = SubSeq(frames, 1, Depth - 1)
      /\ UNCHANGED <<stack, mem, copy, status>>
  BY ReadyFacts DEF Return, Running, Ready, Live
<1>2. PICK d \in Nat \ {0} : d = Depth - 1
  BY <1>1, TopFacts
<1>3. /\ frames' \in Seq(Frame)
      /\ Len(frames') = d
      /\ \A k \in 1 .. d : frames'[k] = frames[k]
  BY <1>1, <1>2 DEF IInv, TypeOK, Depth
<1>4. \A k \in 1 .. d : Bottom(k)' = Bottom(k) /\ End(k)' = End(k)
  BY <1>3 DEF Bottom, End
<1>5. Depth' = d /\ Depth = d + 1
  BY <1>2, <1>3 DEF Depth
<1>6. /\ ftop' = Bottom(d + 1) /\ ftop' \in Nat /\ ftop' <= MemCells
  <2>1. Top \in Frame /\ FrameCells[Top.fn] \in Nat
    BY <1>1, TopFacts, FunctionsAssumption DEF Frame
  <2>2. End(d + 1) <= ftop /\ ftop <= MemCells /\ ftop \in Nat
    BY <1>1, <1>5 DEF IInv, TypeOK, FramesTile
  <2>3. ftop' = Bottom(d + 1) /\ ftop' \in Nat
    BY <1>1, <1>5, <2>1 DEF Bottom, Top, Frame
  <2>4. End(d + 1) = ftop' + FrameCells[Top.fn]
    BY <1>1, <1>5, <2>3 DEF End, Bottom, Top
  <2> QED BY <2>1, <2>2, <2>3, <2>4, SizesAssumption
<1>7. TypeOK'
  <2>1. frames' # <<>> /\ status # "boot"
    BY <1>1, <1>2, <1>3 DEF IInv, TypeOK
  <2> QED BY <1>1, <1>3, <1>6, <2>1 DEF IInv, TypeOK, Live
<1>8. FramesTile'
  <2>1. \A k \in 1 .. d : StaticTop <= Bottom(k)' /\ End(k)' <= ftop'
    BY <1>1, <1>4, <1>5, <1>6 DEF IInv, FramesTile
  <2>2. \A j, k \in 1 .. d : j < k => End(j)' <= Bottom(k)'
    BY <1>1, <1>4, <1>5 DEF IInv, FramesTile
  <2>3. End(d)' = ftop'
    BY <1>1, <1>4, <1>5, <1>6 DEF IInv, FramesTile
  <2>4. \A k \in 1 .. d - 1 : End(k)' = Bottom(k + 1)'
    BY <1>1, <1>4, <1>5 DEF IInv, FramesTile
  <2> QED BY <1>5, <1>6, <2>1, <2>2, <2>3, <2>4 DEF FramesTile, End, Bottom
<1>9. PendingAtHome'
  <2> SUFFICES ASSUME NEW k \in 1 .. d, NEW i \in 1 .. Len(frames'[k].pend)
               PROVE  AtHome(frames[k].pend[i], k)'
    BY <1>5 DEF PendingAtHome, AtHome
  <2>1. AtHome(frames'[k].pend[i], k)
    BY <1>3, <1>5 DEF IInv, PendingAtHome, AtHome
  <2> QED BY <2>1, <1>4 DEF AtHome
<1>10. NullCellUntouched'
  BY <1>1 DEF IInv, NullCellUntouched
<1> QED BY <1>7, <1>8, <1>9, <1>10 DEF IInv

LEMMA StartSafe == IInv /\ Start => IInv'
<1> SUFFICES ASSUME IInv, Start PROVE IInv'
  OBVIOUS
<1> USE SizesAssumption
<1>1. CASE StaticTop + FrameCells[Main] > MemCells
  BY <1>1, FailStep DEF Start
<1>2. CASE ~(StaticTop + FrameCells[Main] > MemCells)
  <2>1. /\ ftop' = StaticTop + FrameCells[Main]
        /\ mem' = Zeroed(StaticTop, FrameCells[Main])
        /\ frames' = <<[fn |-> Main, base |-> StaticTop, pend |-> <<>>]>>
        /\ status' = "init" /\ UNCHANGED <<stack, copy>>
    BY <1>2 DEF Start
  <2>2. Main \in Callers /\ FrameCells[Main] \in Nat
    BY FunctionsAssumption DEF Callers
  <2>3. mem' \in [Cells -> Value] /\ mem'[0] = 0
    BY <2>1, <2>2, ZeroedType
  <2>4. copy = 0
    BY DEF Start, IInv, TypeOK
  <2>5. TypeOK'
    <3>1. [fn |-> Main, base |-> StaticTop, pend |-> <<>>] \in Frame
      BY <2>2 DEF Frame
    <3>2. frames' \in Seq(Frame) /\ frames' # <<>>
      BY <3>1, <2>1
    <3> QED BY <2>1, <2>2, <2>3, <2>4, <3>2 DEF IInv, TypeOK
  <2>6. Depth' = 1 /\ Bottom(1)' = StaticTop /\ End(1)' = ftop'
    BY <2>1 DEF Depth, Bottom, End
  <2>7. FramesTile'
    <3>1. ftop' <= MemCells /\ StaticTop <= StaticTop /\ ftop' <= ftop'
      BY <1>2, <2>1, <2>2
    <3> QED BY <2>6, <3>1 DEF FramesTile, End, Bottom
  <2>8. PendingAtHome'
    BY <2>1, <2>6 DEF PendingAtHome
  <2> QED BY <2>3, <2>5, <2>7, <2>8 DEF IInv, NullCellUntouched
<1> QED BY <1>1, <1>2

LEMMA CallStepSafe == IInv /\ CallStep => IInv'
<1> SUFFICES ASSUME IInv, CallStep PROVE IInv'
  OBVIOUS
<1>a. Ready => frames # <<>> /\ copy = 0 /\ StackOK
  BY ReadyFacts, StackIsOK
<1>b. Running => Ready
  BY DEF Running, Ready, Live
<1>1. CASE Start
  BY <1>1, StartSafe
<1>2. CASE EnterMain
  <2>1. StackOK' /\ Same /\ status' = "run" /\ status = "init"
    BY <1>2, StackIsOK DEF EnterMain, StackOK, Same
  <2>2. TypeOK'
    BY <2>1 DEF IInv, TypeOK, StackOK, Same, Live, Pend, Top, Depth, Named, Target
  <2>3. FramesTile' /\ PendingAtHome' /\ NullCellUntouched'
    BY <2>1 DEF IInv, FramesTile, PendingAtHome, NullCellUntouched, Same,
               Depth, Bottom, End
  <2> QED BY <2>1, <2>2, <2>3 DEF IInv
<1>3. CASE Call
  <2>1. Ready /\ PendOK(Pend)
    BY <1>3, <1>a, <1>b, TopFacts DEF Call
  <2> QED BY <1>3, <2>1, EnterStep DEF Call
<1>4. CASE CallThrough
  <2>1. Ready /\ PendOK(DropPend)
    BY <1>4, <1>a, <1>b, NamedFacts DEF CallThrough
  <2>2. CASE CellOk(Named.addr) /\ mem[Named.addr] \in {Handle(f) : f \in Functions}
    <3>1. PICK f \in Functions : mem[Named.addr] = Handle(f)
      BY <2>2
    <3>2. mem[Named.addr] - MemCells = f
      BY <3>1, SizesAssumption, FunctionsAssumption DEF Handle
    <3> QED BY <1>4, <2>1, <2>2, <3>2, EnterStep DEF CallThrough
  <2>3. CASE ~(CellOk(Named.addr) /\ mem[Named.addr] \in {Handle(f) : f \in Functions})
    BY <1>4, <2>3, FailStep DEF CallThrough
  <2> QED BY <2>2, <2>3
<1>5. CASE Return
  BY <1>5, ReturnSafe
<1>6. CASE Finished
  <2>1. Same /\ Stops
    BY <1>6 DEF Finished, memory, Same, Stops
  <2>2. StackOK'
    BY <1>6, StackIsOK, SizesAssumption, PoppedOK DEF Finished, StackOK
  <2> QED BY <2>1, <2>2, QuietStep
<1> QED BY <1>1, <1>2, <1>3, <1>4, <1>5, <1>6 DEF CallStep

--------------------------------------------------------------------------------
(* The theorems.                                                            *)

LEMMA InitSafe == Init => IInv
BY SizesAssumption DEF Init, IInv, TypeOK, FramesTile, PendingAtHome,
   NullCellUntouched, Cells, Value, Live, Depth

LEMMA NextSafe == IInv /\ [Next]_vars => IInv'
<1>1. IInv /\ UNCHANGED vars => IInv'
  <2> SUFFICES ASSUME IInv, UNCHANGED vars PROVE IInv'
    OBVIOUS
  <2>1. StackOK' /\ Same /\ Stops
    BY StackIsOK DEF vars, StackOK, Same, Stops
  <2> QED BY <2>1, QuietStep
<1> QED BY <1>1, OperandStepSafe, LvalStepSafe, WriteStepSafe, CallStepSafe DEF Next

\* The inductive invariant holds in every reachable state.
THEOREM Invariance == Spec => []IInv
BY InitSafe, NextSafe, PTL DEF Spec

\* Every variable keeps its type: in particular sp never leaves the stack.
THEOREM TypeCorrect == Spec => []TypeOK
BY Invariance, PTL DEF IInv

\* The frames of the active calls never overlap and never outgrow the memory.
THEOREM FramesNeverOverlap == Spec => []FramesTile
BY Invariance, PTL DEF IInv

\* Nothing is ever stored through NULL.
THEOREM NullCellSafe == Spec => []NullCellUntouched
BY Invariance, PTL DEF IInv

\* An address computed from a name is still that object's when it is used.
THEOREM PendingStaysHome == Spec => []PendingAtHome
BY Invariance, PTL DEF IInv

--------------------------------------------------------------------------------
(* A callee leaves the frames of its callers alone, and the flat memory with *)
(* its moving ftop implements the activation records of ActivationStore.     *)

\* Cells no frame below the top contains.
Above(c) == \A k \in 1 .. Depth - 1 : c \notin Bottom(k) .. End(k) - 1

Untouched ==
    \A k \in 1 .. Depth - 1 : \A c \in Bottom(k) .. End(k) - 1 : mem'[c] = mem[c]

LEMMA FrameFacts ==
    ASSUME IInv, NEW k \in 1 .. Depth
    PROVE  /\ frames[k] \in Frame
           /\ frames[k].fn \in Callers /\ FrameCells[frames[k].fn] \in Nat
           /\ Bottom(k) \in Nat /\ End(k) \in Nat
           /\ End(k) = Bottom(k) + FrameCells[frames[k].fn]
           /\ StaticTop <= Bottom(k) /\ End(k) <= ftop /\ ftop <= MemCells
           /\ Bottom(k) .. End(k) - 1 \subseteq Cells
<1>1. frames[k] \in Frame /\ frames # <<>>
  BY DEF IInv, TypeOK, Depth
<1>2. frames[k].fn \in Callers /\ FrameCells[frames[k].fn] \in Nat /\ Bottom(k) \in Nat
  BY <1>1, FunctionsAssumption DEF Frame, Bottom
<1>3. StaticTop <= Bottom(k) /\ End(k) <= ftop /\ ftop <= MemCells /\ ftop \in Nat
  BY <1>1 DEF IInv, TypeOK, FramesTile
<1>4. End(k) = Bottom(k) + FrameCells[frames[k].fn]
  BY DEF End, Bottom
<1> QED BY <1>1, <1>2, <1>3, <1>4, SizesAssumption DEF Cells

LEMMA FramesApart ==
    ASSUME IInv, NEW j \in 1 .. Depth, NEW k \in 1 .. Depth, j < k
    PROVE  End(j) <= Bottom(k)
BY DEF IInv, FramesTile, Depth

LEMMA AboveLow ==
    ASSUME IInv, NEW c \in Nat, c < StaticTop
    PROVE  Above(c)
<1> SUFFICES ASSUME NEW k \in 1 .. Depth - 1, c \in Bottom(k) .. End(k) - 1
             PROVE  FALSE
  BY DEF Above
<1>1. k \in 1 .. Depth
  BY DEF IInv, TypeOK, Depth
<1>2. StaticTop <= Bottom(k) /\ Bottom(k) \in Nat
  BY <1>1, FrameFacts
<1> QED BY <1>2, SizesAssumption

LEMMA AboveTop ==
    ASSUME IInv, frames # <<>>, NEW c \in Nat, Bottom(Depth) <= c
    PROVE  Above(c)
<1> SUFFICES ASSUME NEW k \in 1 .. Depth - 1, c \in Bottom(k) .. End(k) - 1
             PROVE  FALSE
  BY DEF Above
<1>1. Depth \in 1 .. Depth /\ k \in 1 .. Depth /\ k < Depth
  BY TopFacts
<1>2. End(k) <= Bottom(Depth) /\ End(k) \in Nat /\ Bottom(Depth) \in Nat
  BY <1>1, FramesApart, FrameFacts
<1> QED BY <1>2

LEMMA AboveHome ==
    ASSUME IInv, frames # <<>>, NEW p \in Pending, p.via = "name", AtHome(p, Depth),
           NEW i \in 0 .. p.len - 1, CellOk(p.addr + i)
    PROVE  Above(p.addr + i)
<1>1. p.addr \in Int /\ p.len \in Nat /\ p.addr + i \in Nat
  BY DEF Pending, CellOk, Cells
<1>2. CASE NumVars < p.addr /\ p.addr + p.len <= StaticTop
  BY <1>1, <1>2, AboveLow, SizesAssumption
<1>3. CASE Bottom(Depth) <= p.addr /\ p.addr + p.len <= End(Depth)
  <2>1. Bottom(Depth) \in Nat
    BY TopFacts DEF Bottom, Top, Frame
  <2> QED BY <1>1, <1>3, <2>1, AboveTop
<1> QED BY <1>2, <1>3 DEF AtHome

LEMMA WriteAbove ==
    ASSUME IInv, NEW c, Above(c), NEW v, mem' = [mem EXCEPT ![c] = v]
    PROVE  Untouched
BY FrameFacts DEF Untouched, Above, IInv, TypeOK, Depth

LEMMA PutAbove ==
    ASSUME IInv, NEW c, CellOk(c) => Above(c), NEW p, Put(c, p)
    PROVE  Untouched
<1>1. CASE Len(stack) = 0 \/ ~CellOk(c)
  BY <1>1 DEF Put, Fail, Untouched
<1>2. CASE ~(Len(stack) = 0 \/ ~CellOk(c))
  BY <1>2, WriteAbove DEF Put
<1> QED BY <1>1, <1>2

LEMMA ZeroAbove ==
    ASSUME IInv, NEW first \in Nat, NEW n \in Nat,
           \A c \in first .. first + n - 1 : Above(c), mem' = Zeroed(first, n)
    PROVE  Untouched
<1> SUFFICES ASSUME NEW k \in 1 .. Depth - 1, NEW c \in Bottom(k) .. End(k) - 1
             PROVE  mem'[c] = mem[c]
  BY DEF Untouched
<1>1. k \in 1 .. Depth
  BY DEF IInv, TypeOK, Depth
<1>2. c \in Cells
  BY <1>1, FrameFacts
<1>3. c \notin first .. first + n - 1
  BY DEF Above
<1> QED BY <1>2, <1>3 DEF Zeroed

LEMMA EnterAbove ==
    ASSUME IInv, frames # <<>>, NEW f \in Functions, NEW p, Enter(f, p)
    PROVE  Untouched
<1>1. CASE mem' = mem
  BY <1>1 DEF Untouched
<1>2. CASE mem' = Zeroed(ftop, FrameCells[f])
  <2>1. /\ ftop \in Nat /\ FrameCells[f] \in Nat /\ Depth \in 1 .. Depth
        /\ Bottom(Depth) <= ftop
    <3>1. ftop \in Nat /\ FrameCells[f] \in Nat /\ Depth \in 1 .. Depth
      BY TopFacts, FunctionsAssumption DEF IInv, TypeOK, Callers
    <3>2. Bottom(Depth) <= End(Depth) /\ End(Depth) <= ftop
      BY <3>1, FrameFacts
    <3>3. Bottom(Depth) \in Nat /\ End(Depth) \in Nat
      BY <3>1, FrameFacts
    <3> QED BY <3>1, <3>2, <3>3
  <2>2. Bottom(Depth) \in Nat
    BY <2>1, FrameFacts
  <2>3. \A c \in ftop .. ftop + FrameCells[f] - 1 : Above(c)
    BY <2>1, <2>2, AboveTop
  <2> QED BY <1>2, <2>1, <2>3, ZeroAbove
<1> QED BY <1>1, <1>2 DEF Enter, Fail

LEMMA PrivateStep ==
    ASSUME IInv, Next
    PROVE  ThroughPointer \/ Untouched
<1>a. Running => status = "run" /\ copy = 0 /\ frames # <<>>
  BY DEF Running, IInv, TypeOK, Live
<1>b. UNCHANGED mem => Untouched
  BY DEF Untouched
<1>1. CASE OperandStep
  BY <1>1, <1>b
     DEF OperandStep, Operate, Fail, Literal, FuncRef, Unary, Binary, Dup, Swap,
         Drop, DepthOp, Pick, Read, Foreign, PushVar
<1>2. CASE LvalStep
  <2>1. UNCHANGED mem
    BY <1>2 DEF LvalStep, BeginLval, JumpIntoAssignment, SubscriptArray, Member,
                SubscriptPointer, Arrow, Load, Decay, TakeAddress, Abandon,
                Finish, Fail
  <2> QED BY <2>1, <1>b
<1>3. CASE StoreVar
  <2>1. CASE UNCHANGED mem
    BY <2>1, <1>b
  <2>2. CASE ~UNCHANGED mem
    <3>1. PICK n \in 0 .. NumVars - 1 : mem' = [mem EXCEPT ![n + 1] = Operand(1)]
      BY <1>3, <2>2 DEF StoreVar, Fail, VarOk
    <3>2. n + 1 \in Nat /\ n + 1 < StaticTop
      BY SizesAssumption
    <3> QED BY <3>1, <3>2, AboveLow, WriteAbove
  <2> QED BY <2>1, <2>2
<1>4. CASE Store
  <2>1. CASE Fail
    BY <2>1, <1>b DEF Fail
  <2>2. CASE Put(Named.addr, DropPend)
    <3>1. /\ status = "run" /\ copy = 0 /\ frames # <<>>
          /\ Pend # <<>> /\ Named.len = 1
      BY <1>4, <1>a DEF Store
    <3>2. CASE Named.via # "name"
      BY <3>1, <3>2 DEF ThroughPointer
    <3>3. CASE Named.via = "name"
      <4>1. Named \in Pending /\ AtHome(Named, Depth) /\ Named.addr + 0 = Named.addr
        BY <3>1, NamedFacts DEF Pending
      <4>2. CellOk(Named.addr) => Above(Named.addr)
        BY <3>1, <3>3, <4>1, AboveHome
      <4> QED BY <2>2, <4>2, PutAbove
    <3> QED BY <3>2, <3>3
  <2> QED BY <1>4, <2>1, <2>2 DEF Store
<1>5. CASE BeginCopy
  BY <1>5, <1>b DEF BeginCopy
<1>6. CASE CopyCell
  <2> DEFINE k == CopyIndex
  <2>1. /\ status = "run" /\ frames # <<>> /\ copy \in Nat \ {0}
        /\ Len(Pend) > 1 /\ copy <= Named.len /\ Target.len = Named.len
    BY <1>6 DEF CopyCell, IInv, TypeOK, Live
  <2>2. CASE UNCHANGED mem
    BY <2>2, <1>b
  <2>3. CASE Target.via # "name"
    BY <2>1, <2>3 DEF ThroughPointer
  <2>4. CASE ~UNCHANGED mem /\ Target.via = "name"
    <3>1. /\ CellOk(Target.addr + k)
          /\ mem' = [mem EXCEPT ![Target.addr + k] = mem[Named.addr + k]]
      BY <1>6, <2>4 DEF CopyCell, Fail
    <3>2. PendOK(Pend) /\ Len(Pend) - 1 \in 1 .. Len(Pend)
      BY <2>1, TopFacts DEF PendOK
    <3>3. Target \in Pending /\ AtHome(Target, Depth)
      BY <3>2 DEF PendOK, Target
    <3>4. k \in 0 .. Target.len - 1
      BY <2>1, <3>3 DEF Pending, CopyIndex
    <3>5. Above(Target.addr + k)
      BY <2>1, <2>4, <3>1, <3>3, <3>4, AboveHome
    <3> QED BY <3>1, <3>5, WriteAbove
  <2> QED BY <2>2, <2>3, <2>4
<1>7. CASE DeclareLocal
  <2>1. PICK o \in LocalRegions(Top.fn) : mem' = Zeroed(o.first, o.cells)
    BY <1>7 DEF DeclareLocal
  <2>2. frames # <<>>
    BY <1>7, <1>a DEF DeclareLocal
  <2>3. Bottom(Depth) \in Nat
    BY <2>2, TopFacts DEF Bottom, Top, Frame
  <2>4. o.first \in Nat /\ o.cells \in Nat /\ Bottom(Depth) <= o.first
    BY <2>2, LocalRegion
  <2>5. \A c \in o.first .. o.first + o.cells - 1 : Above(c)
    BY <2>2, <2>3, <2>4, AboveTop
  <2> QED BY <2>1, <2>4, <2>5, ZeroAbove
<1>8. CASE InitLocal
  <2>1. PICK o \in LocalRegions(Top.fn), i \in Nat :
          Fail \/ Put(o.first + i, Pend)
    BY <1>8, <1>a, LocalRegion DEF InitLocal
  <2>2. frames # <<>>
    BY <1>8, <1>a DEF InitLocal
  <2>3. Bottom(Depth) \in Nat /\ o.first \in Nat /\ Bottom(Depth) <= o.first
    BY <2>2, TopFacts, LocalRegion DEF Bottom, Top, Frame
  <2>4. Above(o.first + i)
    BY <2>2, <2>3, AboveTop
  <2> QED BY <2>1, <2>4, PutAbove, <1>b DEF Fail
<1>9. CASE InitStatic
  <2>1. PICK o \in Statics : \E j \in 0 .. o.cells - 1 :
          Fail \/ Put(o.first + j, Pend)
    BY <1>9 DEF InitStatic
  <2>2. PICK i \in 0 .. o.cells - 1 : Fail \/ Put(o.first + i, Pend)
    BY <2>1
  <2>3. o.first + i \in Nat /\ o.first + i < StaticTop
    BY StaticRegion, SizesAssumption
  <2>4. Above(o.first + i)
    BY <2>3, AboveLow
  <2> QED BY <2>2, <2>4, PutAbove, <1>b DEF Fail
<1>10. CASE Call
  BY <1>10, <1>a, EnterAbove DEF Call
<1>11. CASE CallThrough
  <2>1. CASE Fail
    BY <2>1, <1>b DEF Fail
  <2>2. CASE ~Fail
    <3>1. PICK f \in Functions : mem[Named.addr] = Handle(f)
      BY <1>11, <2>2 DEF CallThrough
    <3>2. mem[Named.addr] - MemCells = f
      BY <3>1, SizesAssumption, FunctionsAssumption DEF Handle
    <3>3. Enter(f, DropPend) /\ frames # <<>>
      BY <1>11, <1>a, <2>2, <3>2 DEF CallThrough
    <3> QED BY <3>3, EnterAbove
  <2> QED BY <2>1, <2>2
<1>12. CASE EnterMain \/ Return \/ Finished
  BY <1>12, <1>b DEF EnterMain, Return, Finished, memory
<1>13. CASE Start
  <2>1. frames = <<>>
    BY <1>13 DEF Start, IInv, TypeOK
  <2> QED BY <2>1 DEF Untouched, Depth
<1> QED BY <1>1, <1>2, <1>3, <1>4, <1>5, <1>6, <1>7, <1>8, <1>9, <1>10, <1>11,
           <1>12, <1>13 DEF Next, WriteStep, CallStep

\* A callee changes its callers' objects only through a pointer.
THEOREM CalleesLeaveCallersAlone == Spec => CallerFramesPrivate
<1>1. IInv /\ [Next]_vars =>
        [\/ ThroughPointer
         \/ \A k \in 1 .. Depth - 1 : \A c \in Bottom(k) .. End(k) - 1 :
              mem'[c] = mem[c]]_vars
  BY PrivateStep DEF Untouched
<1> QED BY <1>1, Invariance, PTL DEF Spec, CallerFramesPrivate

--------------------------------------------------------------------------------
(* The refinement.                                                          *)

GlobalMap == [c \in 1 .. StaticTop - 1 |-> mem[c]]
AbstractStep == [Activations!Next]_(Activations!vars)

\* What a step does to the frames when it does not call or return.
SameFrames ==
    /\ frames' \in Seq(Frame) /\ Len(frames') = Len(frames)
    /\ \A k \in 1 .. Len(frames) :
         frames'[k].fn = frames[k].fn /\ frames'[k].base = frames[k].base

LEMMA RecordsAt ==
    ASSUME NEW k \in 1 .. Depth
    PROVE  Records[k] = [fn |-> frames[k].fn,
                         cells |-> [i \in 0 .. FrameCells[frames[k].fn] - 1 |->
                                      mem[frames[k].base + i]]]
BY DEF Records, Bottom

LEMMA FunctionIsSeq ==
    ASSUME NEW n \in Nat, NEW S, NEW f \in [1 .. n -> S]
    PROVE  f \in Seq(S) /\ Len(f) = n
OBVIOUS

LEMMA RecordUpdate ==
    ASSUME NEW F, NEW C, NEW X
    PROVE  [[fn |-> F, cells |-> C] EXCEPT !.cells = X] = [fn |-> F, cells |-> X]
OBVIOUS

LEMMA RecordsSame ==
    ASSUME IInv, SameFrames,
           \A k \in 1 .. Depth : \A c \in Bottom(k) .. End(k) - 1 : mem'[c] = mem[c]
    PROVE  UNCHANGED Records
<1>1. Depth' = Depth /\ Depth \in Nat
  BY DEF SameFrames, Depth, IInv, TypeOK
<1>2. ASSUME NEW k \in 1 .. Depth
      PROVE  [fn |-> frames'[k].fn,
              cells |-> [i \in 0 .. FrameCells[frames'[k].fn] - 1 |->
                           mem'[frames'[k].base + i]]]
             = [fn |-> frames[k].fn,
                cells |-> [i \in 0 .. FrameCells[frames[k].fn] - 1 |->
                             mem[frames[k].base + i]]]
  <2>1. frames'[k].fn = frames[k].fn /\ frames'[k].base = frames[k].base
    BY DEF SameFrames, Depth
  <2>2. ASSUME NEW i \in 0 .. FrameCells[frames[k].fn] - 1
        PROVE  mem'[frames[k].base + i] = mem[frames[k].base + i]
    BY FrameFacts DEF Bottom, End
  <2> QED BY <2>1, <2>2
<1> QED BY <1>1, <1>2 DEF Records, Bottom

\* Nothing changes in memory: the program goes on or stops.
LEMMA AbsQuiet ==
    ASSUME IInv, SameFrames, UNCHANGED mem,
           \/ Phase' = Phase
           \/ Phase' = "stopped"
    PROVE  AbstractStep
<1>1. UNCHANGED Records
  BY RecordsSame
<1>2. UNCHANGED GlobalMap
  BY DEF GlobalMap
<1> QED BY <1>1, <1>2 DEF AbstractStep, Activations!Next, Activations!Stop,
        Activations!vars, GlobalMap

LEMMA PhaseCases ==
    ASSUME status' \in {status, "done", "failed", "crashed"}
    PROVE  Phase' = Phase \/ Phase' = "stopped"
BY DEF Phase, Live

LEMMA KeepFrames ==
    ASSUME IInv, UNCHANGED frames
    PROVE  SameFrames
BY DEF SameFrames, IInv, TypeOK

LEMMA SetPendKeeps ==
    ASSUME IInv, frames # <<>>, NEW p, PendOK(p), SetPend(p)
    PROVE  SameFrames
BY SetPendFrames DEF SameFrames, PendOK

\* One cell changes: a global, a slot of one record, or a cell nobody owns.
LEMMA AbsWrite ==
    ASSUME IInv, SameFrames, Live, UNCHANGED status,
           NEW c \in Cells, NEW v \in Value, mem' = [mem EXCEPT ![c] = v]
    PROVE  AbstractStep
<1> USE SizesAssumption
<1>1. Phase = "live" /\ Phase' = "live"
  BY DEF Phase, Live
<1>2. mem \in [Cells -> Value] /\ c \in Int /\ Depth \in Nat /\ Depth' = Depth
  BY DEF IInv, TypeOK, Cells, Depth, SameFrames
<1>3. CASE c \in 1 .. StaticTop - 1
  <2>1. UNCHANGED Records
    <3> SUFFICES ASSUME NEW k \in 1 .. Depth, NEW d \in Bottom(k) .. End(k) - 1
                 PROVE  mem'[d] = mem[d]
      BY RecordsSame
    <3>1. d # c
      BY <1>3, FrameFacts
    <3> QED BY <1>2, <3>1, FrameFacts
  <2>2. GlobalMap' = [GlobalMap EXCEPT ![c] = GlobalMap'[c]] /\ GlobalMap'[c] \in Value
    <3>1. \A d \in 1 .. StaticTop - 1 : mem'[d] = IF d = c THEN v ELSE mem[d]
      BY <1>2, <1>3 DEF Cells
    <3>2. GlobalMap' = [d \in 1 .. StaticTop - 1 |-> IF d = c THEN v ELSE mem[d]]
      BY <3>1 DEF GlobalMap
    <3>3. GlobalMap'[c] = v
      BY <1>3, <3>2
    <3> QED BY <3>2, <3>3 DEF GlobalMap
  <2> QED BY <1>1, <1>3, <2>1, <2>2
          DEF AbstractStep, Activations!Next, Activations!AssignGlobal, GlobalMap
<1>4. ASSUME NEW k \in 1 .. Depth, c \in Bottom(k) .. End(k) - 1
      PROVE  AbstractStep
  <2>1. UNCHANGED GlobalMap
    <3>1. c \notin 1 .. StaticTop - 1
      BY <1>4, FrameFacts
    <3> QED BY <1>2, <3>1 DEF GlobalMap, Cells
  <2> DEFINE i == c - Bottom(k)
  <2>2. i \in 0 .. FrameCells[frames[k].fn] - 1
    BY <1>4, FrameFacts
  <2> DEFINE Rec(j) == [fn |-> frames[j].fn,
                        cells |-> [s \in 0 .. FrameCells[frames[j].fn] - 1 |->
                                     mem[frames[j].base + s]]]
             RecN(j) == [fn |-> frames[j].fn,
                         cells |-> [s \in 0 .. FrameCells[frames[j].fn] - 1 |->
                                      mem'[frames[j].base + s]]]
  <2>3. /\ Records = [j \in 1 .. Depth |-> Rec(j)]
        /\ Records' = [j \in 1 .. Depth |-> RecN(j)]
    <3>1. Records = [j \in 1 .. Depth |-> Rec(j)]
      BY DEF Records, Bottom
    <3>2. Records' = [j \in 1 .. Depth |-> RecN(j)]
      <4>1. \A j \in 1 .. Depth :
              frames'[j].fn = frames[j].fn /\ frames'[j].base = frames[j].base
        BY DEF SameFrames, Depth
      <4>2. ASSUME NEW j \in 1 .. Depth
            PROVE  [fn |-> frames'[j].fn,
                    cells |-> [s \in 0 .. FrameCells[frames'[j].fn] - 1 |->
                                 mem'[frames'[j].base + s]]] = RecN(j)
        <5>1. frames'[j].fn = frames[j].fn /\ frames'[j].base = frames[j].base
          BY <4>1
        <5> QED BY <5>1
      <4> QED BY <1>2, <4>2 DEF Records, Bottom
    <3> QED BY <3>1, <3>2
  <2>4. ASSUME NEW j \in 1 .. Depth, j # k
        PROVE  RecN(j) = Rec(j)
    <3>1. ASSUME NEW s \in 0 .. FrameCells[frames[j].fn] - 1
          PROVE  mem'[frames[j].base + s] = mem[frames[j].base + s]
      <4>1. frames[j].base + s \in Bottom(j) .. End(j) - 1
        BY FrameFacts DEF Bottom
      <4>2. End(j) <= Bottom(k) \/ End(k) <= Bottom(j)
        BY <2>4, FramesApart
      <4>3. frames[j].base + s # c
        BY <1>4, <4>1, <4>2, FrameFacts
      <4> QED BY <1>2, <4>1, <4>3, FrameFacts
    <3> QED BY <3>1
  <2>5. RecN(k) = [fn |-> Rec(k).fn, cells |-> [Rec(k).cells EXCEPT ![i] = v]]
    <3>1. ASSUME NEW s \in 0 .. FrameCells[frames[k].fn] - 1
          PROVE  mem'[frames[k].base + s] =
                   IF s = i THEN v ELSE mem[frames[k].base + s]
      <4>1. frames[k].base + s \in Bottom(k) .. End(k) - 1
        BY FrameFacts DEF Bottom
      <4>2. s = i <=> frames[k].base + s = c
        BY <1>4, <2>2, FrameFacts DEF Bottom
      <4> QED BY <1>2, <4>1, <4>2, FrameFacts
    <3> QED BY <3>1, <2>2
  <2>6. Records'[k].cells[i] = v
    BY <2>2, <2>3, <2>5
  <2>7. Records' = [Records EXCEPT ![k].cells[i] = Records'[k].cells[i]]
    <3> DEFINE new == [Records[k].cells EXCEPT ![i] = v]
    <3>1. [Records[k] EXCEPT !.cells = new] = RecN(k)
      <4>1. Records[k] = Rec(k)
        BY <2>3
      <4>2. Rec(k) = [fn |-> Rec(k).fn, cells |-> Rec(k).cells]
        OBVIOUS
      <4> HIDE DEF Rec, RecN
      <4>3. [Rec(k) EXCEPT !.cells = new] = [fn |-> Rec(k).fn, cells |-> new]
        BY <4>2, RecordUpdate
      <4> QED BY <2>5, <4>1, <4>3
    <3> HIDE DEF Rec, RecN
    <3>2. Records' = [Records EXCEPT ![k] = [Records[k] EXCEPT !.cells = new]]
      BY <2>3, <2>4, <3>1
    <3> QED BY <2>6, <3>2
  <2>8. k \in DOMAIN Records /\ i \in DOMAIN Records[k].cells
    BY <2>2, <2>3
  <2> HIDE DEF i
  <2>9. Activations!AssignLocal(k, i)
    BY <1>1, <2>1, <2>6, <2>7 DEF Activations!AssignLocal, GlobalMap
  <2> QED BY <2>8, <2>9 DEF AbstractStep, Activations!Next
<1>5. CASE /\ c \notin 1 .. StaticTop - 1
           /\ \A k \in 1 .. Depth : c \notin Bottom(k) .. End(k) - 1
  <2>1. UNCHANGED Records
    <3> SUFFICES ASSUME NEW k \in 1 .. Depth, NEW d \in Bottom(k) .. End(k) - 1
                 PROVE  mem'[d] = mem[d]
      BY RecordsSame
    <3>1. d # c
      BY <1>5
    <3> QED BY <1>2, <3>1, FrameFacts
  <2>2. UNCHANGED GlobalMap
    BY <1>2, <1>5 DEF GlobalMap, Cells
  <2> QED BY <1>1, <2>1, <2>2 DEF AbstractStep, Activations!vars, GlobalMap
<1> QED BY <1>3, <1>4, <1>5

\* A store of a value through a checked cell.
LEMMA AbsPut ==
    ASSUME IInv, Ready, NEW c, NEW p, PendOK(p), Put(c, p)
    PROVE  AbstractStep
<1>0. frames # <<>> /\ StackOK
  BY ReadyFacts, StackIsOK
<1>1. CASE Len(stack) = 0 \/ ~CellOk(c)
  <2>1. Fail
    BY <1>1 DEF Put
  <2>2. SameFrames /\ UNCHANGED mem
    BY <2>1, KeepFrames DEF Fail
  <2> QED BY <2>1, <2>2, PhaseCases, AbsQuiet DEF Fail
<1>2. CASE ~(Len(stack) = 0 \/ ~CellOk(c))
  <2>1. PICK x \in Stored : mem' = [mem EXCEPT ![c] = x]
    BY <1>2 DEF Put
  <2>2. x \in Value
    BY <1>0, <1>2, <2>1, OperandType, ValueFacts DEF Stored, StackOK
  <2>3. SetPend(p) /\ UNCHANGED status /\ c \in Cells
    BY <1>2 DEF Put, CellOk
  <2>4. SameFrames
    BY <1>0, <2>3, SetPendKeeps
  <2> QED BY <2>1, <2>2, <2>3, <2>4, AbsWrite DEF Ready
<1> QED BY <1>1, <1>2

LEMMA AbsFail ==
    ASSUME IInv, Fail
    PROVE  AbstractStep
<1>1. SameFrames /\ UNCHANGED mem
  BY KeepFrames DEF Fail
<1> QED BY <1>1, PhaseCases, AbsQuiet DEF Fail

\* A declaration clears slots of the running record.
LEMMA AbsDeclare ==
    ASSUME IInv, DeclareLocal
    PROVE  AbstractStep
<1> USE SizesAssumption
<1>1. /\ Live /\ UNCHANGED <<stack, ftop, frames, copy, status>>
      /\ frames # <<>>
  BY DEF DeclareLocal, Running, Live, IInv, TypeOK
<1>2. PICK o \in LocalRegions(Top.fn) : mem' = Zeroed(o.first, o.cells)
  BY DEF DeclareLocal
<1>3. PICK d \in Nat \ {0} : d = Depth
  BY <1>1, TopFacts
<1>4. /\ o.first \in Nat /\ o.cells \in Nat
      /\ Bottom(d) <= o.first /\ o.first + o.cells <= End(d)
  BY <1>1, <1>3, LocalRegion
<1>5. /\ \A k \in 1 .. d : FrameCells[frames[k].fn] \in Nat /\ Bottom(k) \in Nat
      /\ \A k \in 1 .. d : Bottom(k) .. End(k) - 1 \subseteq Cells
      /\ \A k \in 1 .. d : StaticTop <= Bottom(k)
      /\ \A k \in 1 .. d : End(k) = Bottom(k) + FrameCells[frames[k].fn]
  BY <1>3, FrameFacts
<1>6. UNCHANGED GlobalMap
  <2>1. ASSUME NEW c \in 1 .. StaticTop - 1 PROVE mem'[c] = mem[c]
    <3>1. c \in Cells /\ c \notin o.first .. o.first + o.cells - 1
      BY <1>3, <1>4, <1>5 DEF Cells
    <3> QED BY <1>2, <3>1 DEF Zeroed
  <2> QED BY <2>1 DEF GlobalMap
<1> DEFINE S == {i \in 0 .. FrameCells[frames[d].fn] - 1 :
                   Bottom(d) + i \in o.first .. o.first + o.cells - 1}
           Rec(j) == [fn |-> frames[j].fn,
                      cells |-> [s \in 0 .. FrameCells[frames[j].fn] - 1 |->
                                   mem[frames[j].base + s]]]
           RecN(j) == [fn |-> frames[j].fn,
                       cells |-> [s \in 0 .. FrameCells[frames[j].fn] - 1 |->
                                    mem'[frames[j].base + s]]]
           new == [s \in 0 .. FrameCells[frames[d].fn] - 1 |->
                     IF s \in S THEN 0 ELSE Rec(d).cells[s]]
<1>7. /\ Records = [j \in 1 .. d |-> Rec(j)]
      /\ Records' = [j \in 1 .. d |-> RecN(j)]
  <2>1. Records = [j \in 1 .. d |-> Rec(j)]
    BY <1>3 DEF Records, Bottom
  <2>2. Records' = [j \in 1 .. d |-> RecN(j)]
    BY <1>1, <1>3 DEF Records, Bottom, Depth
  <2> QED BY <2>1, <2>2
<1>8. ASSUME NEW j \in 1 .. d, j # d PROVE RecN(j) = Rec(j)
  <2>1. ASSUME NEW s \in 0 .. FrameCells[frames[j].fn] - 1
        PROVE  mem'[frames[j].base + s] = mem[frames[j].base + s]
    <3>1. frames[j].base + s \in Bottom(j) .. End(j) - 1
      BY <1>5 DEF Bottom
    <3>2. End(j) <= Bottom(d)
      BY <1>3, <1>8, FramesApart
    <3>3. frames[j].base + s \notin o.first .. o.first + o.cells - 1
      BY <1>4, <1>5, <3>1, <3>2
    <3>4. frames[j].base + s \in Cells
      BY <1>5, <3>1
    <3> QED BY <1>2, <3>3, <3>4 DEF Zeroed
  <2> QED BY <2>1
<1>9. RecN(d) = [fn |-> Rec(d).fn, cells |-> new]
  <2>1. ASSUME NEW s \in 0 .. FrameCells[frames[d].fn] - 1
        PROVE  mem'[frames[d].base + s] = IF s \in S THEN 0 ELSE mem[frames[d].base + s]
    <3>1. frames[d].base + s \in Cells
      <4>1. frames[d].base + s \in Bottom(d) .. End(d) - 1
        BY <1>5 DEF Bottom
      <4> QED BY <1>5, <4>1
    <3>2. s \in S <=> frames[d].base + s \in o.first .. o.first + o.cells - 1
      BY DEF Bottom
    <3> QED BY <1>2, <3>1, <3>2 DEF Zeroed
  <2> QED BY <2>1
<1>10. Records' = [Records EXCEPT ![d] = [Records[d] EXCEPT !.cells = new]]
  <2>1. [Records[d] EXCEPT !.cells = new] = RecN(d)
    <3>1. Records[d] = Rec(d)
      BY <1>7
    <3>2. Rec(d) = [fn |-> Rec(d).fn, cells |-> Rec(d).cells]
      OBVIOUS
    <3> HIDE DEF Rec, RecN, new
    <3>3. [Rec(d) EXCEPT !.cells = new] = [fn |-> Rec(d).fn, cells |-> new]
      BY <3>2, RecordUpdate
    <3> QED BY <1>9, <3>1, <3>3
  <2> HIDE DEF Rec, RecN, new
  <2> QED BY <1>7, <1>8, <2>1
<1>11. /\ DOMAIN Records[d].cells = 0 .. FrameCells[frames[d].fn] - 1
       /\ Records[d].cells = Rec(d).cells
  BY <1>7
<1>12. new = [s \in DOMAIN Records[d].cells |-> IF s \in S THEN 0 ELSE Records[d].cells[s]]
  BY <1>11
<1>13. /\ Records \in Seq({Rec(j) : j \in 1 .. d}) /\ Len(Records) = d
       /\ Records # <<>>
  <2> HIDE DEF Rec
  <2>1. Records \in [1 .. d -> {Rec(j) : j \in 1 .. d}]
    BY <1>7
  <2>2. Records \in Seq({Rec(j) : j \in 1 .. d}) /\ Len(Records) = d
    BY <2>1, FunctionIsSeq
  <2> QED BY <2>2
<1>14. S \in SUBSET DOMAIN Records[d].cells
  BY <1>11
<1>15. Phase = "live" /\ Phase' = Phase
  BY <1>1 DEF Phase, Live
<1> HIDE DEF S, Rec, RecN, new
<1>16. Records' = [Records EXCEPT ![Len(Records)].cells =
                      [s \in DOMAIN @ |-> IF s \in S THEN 0 ELSE @[s]]]
  BY <1>10, <1>12, <1>13
<1>17. Activations!Declare(S)
  BY <1>6, <1>13, <1>15, <1>16 DEF Activations!Declare, GlobalMap
<1> QED BY <1>13, <1>14, <1>17 DEF AbstractStep, Activations!Next

\* A call appends a fresh record.
LEMMA AbsEnter ==
    ASSUME IInv, Ready, NEW f \in Functions, NEW p, PendOK(p), Enter(f, p)
    PROVE  AbstractStep
<1> USE SizesAssumption
<1>1. frames # <<>> /\ f \in Callers /\ FrameCells[f] \in Nat
  BY ReadyFacts, FunctionsAssumption DEF Callers
<1>2. CASE UNCHANGED <<stack, mem, ftop, frames, copy>> /\ Stops
  BY <1>2, KeepFrames, PhaseCases, AbsQuiet DEF Stops
<1>3. CASE /\ ftop' = ftop + FrameCells[f]
           /\ mem' = Zeroed(ftop, FrameCells[f])
           /\ frames' = Append([frames EXCEPT ![Depth].pend = p],
                               [fn |-> f, base |-> ftop, pend |-> <<>>])
           /\ UNCHANGED <<stack, copy, status>>
           /\ ftop + FrameCells[f] <= MemCells
  <2>1. PICK d \in Nat \ {0} : d = Depth
    BY <1>1, TopFacts
  <2>2. /\ Len(frames') = d + 1
        /\ \A k \in 1 .. d :
             frames'[k].fn = frames[k].fn /\ frames'[k].base = frames[k].base
        /\ frames'[d + 1].fn = f /\ frames'[d + 1].base = ftop
    BY <1>1, <1>3, <2>1, EnterFrames
  <2>3. /\ ftop \in Nat /\ StaticTop <= ftop
    <3>1. ftop \in Nat /\ d \in 1 .. Depth
      BY <2>1 DEF IInv, TypeOK
    <3>2. StaticTop <= Bottom(d) /\ End(d) <= ftop /\ Bottom(d) \in Nat
          /\ End(d) = Bottom(d) + FrameCells[frames[d].fn]
          /\ FrameCells[frames[d].fn] \in Nat
      BY <3>1, FrameFacts
    <3> QED BY <3>1, <3>2
  <2> DEFINE Rec(j) == [fn |-> frames[j].fn,
                        cells |-> [s \in 0 .. FrameCells[frames[j].fn] - 1 |->
                                     mem[frames[j].base + s]]]
             RecN(j) == [fn |-> frames'[j].fn,
                         cells |-> [s \in 0 .. FrameCells[frames'[j].fn] - 1 |->
                                      mem'[frames'[j].base + s]]]
             fresh == [fn |-> f, cells |-> [i \in 0 .. FrameCells[f] - 1 |-> 0]]
  <2>4. Records = [j \in 1 .. d |-> Rec(j)] /\ Records' = [j \in 1 .. d + 1 |-> RecN(j)]
    <3>1. Depth' = d + 1
      BY <2>2 DEF Depth
    <3> QED BY <2>1, <3>1 DEF Records, Bottom
  <2>5. ASSUME NEW j \in 1 .. d PROVE RecN(j) = Rec(j)
    <3>1. frames'[j].fn = frames[j].fn /\ frames'[j].base = frames[j].base
      BY <2>2
    <3>2. ASSUME NEW s \in 0 .. FrameCells[frames[j].fn] - 1
          PROVE  mem'[frames[j].base + s] = mem[frames[j].base + s]
      <4>1. frames[j].base + s \in Bottom(j) .. End(j) - 1 /\ End(j) <= ftop
        BY <2>1, FrameFacts DEF Bottom
      <4>2. frames[j].base + s \in Cells
        BY <2>1, <4>1, FrameFacts
      <4>3. frames[j].base + s \notin ftop .. ftop + FrameCells[f] - 1
        BY <2>1, <2>3, <4>1, FrameFacts
      <4> QED BY <1>3, <4>2, <4>3 DEF Zeroed
    <3> QED BY <3>1, <3>2
  <2>6. RecN(d + 1) = fresh
    <3>1. ASSUME NEW s \in 0 .. FrameCells[f] - 1 PROVE mem'[ftop + s] = 0
      <4>1. ftop + s \in Cells /\ ftop + s \in ftop .. ftop + FrameCells[f] - 1
        BY <1>1, <1>3, <2>3 DEF Cells
      <4> QED BY <1>3, <4>1 DEF Zeroed
    <3> QED BY <2>2, <3>1
  <2>7. UNCHANGED GlobalMap
    <3>1. ASSUME NEW c \in 1 .. StaticTop - 1 PROVE mem'[c] = mem[c]
      <4>1. c \in Cells /\ c \notin ftop .. ftop + FrameCells[f] - 1
        BY <1>1, <2>3 DEF Cells
      <4> QED BY <1>3, <4>1 DEF Zeroed
    <3> QED BY <3>1 DEF GlobalMap
  <2> HIDE DEF Rec, RecN, fresh
  <2>8. Records' = Append(Records, fresh)
    <3> DEFINE X == {Rec(j) : j \in 1 .. d} \cup {fresh}
    <3>1. Records \in [1 .. d -> X]
      BY <2>4
    <3> HIDE DEF X
    <3>2. Records \in Seq(X) /\ Len(Records) = d
      BY <3>1, FunctionIsSeq
    <3>3. fresh \in X
      BY DEF X
    <3> DEFINE app == Append(Records, fresh)
    <3>4. /\ app \in Seq(X) /\ Len(app) = d + 1
          /\ \A i \in 1 .. d : app[i] = Records[i]
          /\ app[d + 1] = fresh
      BY <3>2, <3>3, AppendProperties
    <3> HIDE DEF app
    <3>5. app = [j \in 1 .. d + 1 |-> app[j]]
      BY <3>4
    <3>6. \A j \in 1 .. d + 1 : app[j] = RecN(j)
      BY <2>4, <2>5, <2>6, <3>4
    <3>7. Records' = app
      BY <2>4, <3>5, <3>6
    <3> QED BY <3>7 DEF app
  <2>9. Phase = "live" /\ Phase' = Phase
    BY <1>3 DEF Phase, Live, Ready
  <2>10. Activations!Call(f)
    BY <2>7, <2>8, <2>9 DEF Activations!Call, Activations!Fresh, Activations!Slots,
       GlobalMap, fresh
  <2> QED BY <1>1, <2>10 DEF AbstractStep, Activations!Next
<1>4. ftop \in Nat /\ MemCells \in Nat
  BY DEF IInv, TypeOK
<1> QED BY <1>1, <1>2, <1>3, <1>4, SMTT(30) DEF Enter, Fail, Stops

\* A return drops the last record; the caller's is as the callee left it.
LEMMA AbsReturn ==
    ASSUME IInv, Return
    PROVE  AbstractStep
<1>1. /\ frames # <<>> /\ Depth > 1 /\ Live
      /\ frames' = SubSeq(frames, 1, Depth - 1)
      /\ UNCHANGED <<stack, mem, copy, status>>
  BY ReadyFacts DEF Return, Running, Ready, Live
<1>2. PICK d \in Nat \ {0} : d = Depth - 1 /\ Depth = d + 1
  BY <1>1, TopFacts
<1>3. /\ Len(frames') = d
      /\ \A k \in 1 .. d : frames'[k] = frames[k]
  BY <1>1, <1>2 DEF IInv, TypeOK, Depth
<1> DEFINE Rec(j) == [fn |-> frames[j].fn,
                      cells |-> [s \in 0 .. FrameCells[frames[j].fn] - 1 |->
                                   mem[frames[j].base + s]]]
<1>4. Records = [j \in 1 .. d + 1 |-> Rec(j)] /\ Records' = [j \in 1 .. d |-> Rec(j)]
  <2>1. Depth' = d
    BY <1>3 DEF Depth
  <2>2. Records = [j \in 1 .. d + 1 |-> Rec(j)]
    BY <1>2 DEF Records, Bottom
  <2>3. Records' = [j \in 1 .. d |-> Rec(j)]
    BY <1>1, <1>3, <2>1 DEF Records, Bottom
  <2> QED BY <2>2, <2>3
<1> HIDE DEF Rec
<1>5. Records' = SubSeq(Records, 1, Len(Records) - 1) /\ Len(Records) > 1
  <2> DEFINE X == {Rec(j) : j \in 1 .. d + 1}
  <2>1. Records \in [1 .. d + 1 -> X] /\ d + 1 \in Nat
    BY <1>4
  <2> HIDE DEF X
  <2>2. Records \in Seq(X) /\ Len(Records) = d + 1
    BY <2>1, FunctionIsSeq
  <2>3. SubSeq(Records, 1, d) = [j \in 1 .. d |-> Records[j]]
    BY <2>2
  <2>4. \A j \in 1 .. d : Records[j] = Rec(j)
    BY <1>4
  <2> QED BY <1>4, <2>2, <2>3, <2>4
<1>6. UNCHANGED GlobalMap /\ Phase = "live" /\ Phase' = Phase
  BY <1>1 DEF GlobalMap, Phase, Live
<1> QED BY <1>5, <1>6 DEF AbstractStep, Activations!Next, Activations!Return, GlobalMap

\* The prologue of main.
LEMMA AbsStart ==
    ASSUME IInv, Start
    PROVE  AbstractStep
<1> USE SizesAssumption
<1>1. CASE Fail
  BY <1>1, AbsFail
<1>2. CASE ~Fail
  <2>1. /\ mem' = Zeroed(StaticTop, FrameCells[Main])
        /\ frames' = <<[fn |-> Main, base |-> StaticTop, pend |-> <<>>]>>
        /\ status = "boot" /\ status' = "init"
        /\ StaticTop + FrameCells[Main] <= MemCells
        /\ FrameCells[Main] \in Nat
    BY <1>2, FunctionsAssumption DEF Start, Callers
  <2>2. UNCHANGED GlobalMap
    <3>1. ASSUME NEW c \in 1 .. StaticTop - 1 PROVE mem'[c] = mem[c]
      <4>1. c \in Cells /\ c \notin StaticTop .. StaticTop + FrameCells[Main] - 1
        BY DEF Cells
      <4> QED BY <2>1, <4>1 DEF Zeroed
    <3> QED BY <3>1 DEF GlobalMap
  <2> DEFINE fresh == [fn |-> Main, cells |-> [i \in 0 .. FrameCells[Main] - 1 |-> 0]]
  <2>3. Records' = <<fresh>>
    <3>1. ASSUME NEW s \in 0 .. FrameCells[Main] - 1 PROVE mem'[StaticTop + s] = 0
      <4>1. StaticTop + s \in Cells
            /\ StaticTop + s \in StaticTop .. StaticTop + FrameCells[Main] - 1
        BY <2>1 DEF Cells
      <4> QED BY <2>1, <4>1 DEF Zeroed
    <3>2. Depth' = 1 /\ frames'[1].fn = Main /\ frames'[1].base = StaticTop
      BY <2>1 DEF Depth
    <3>3. [fn |-> frames'[1].fn,
           cells |-> [i \in 0 .. FrameCells[frames'[1].fn] - 1 |->
                        mem'[frames'[1].base + i]]] = fresh
      BY <3>1, <3>2
    <3>4. Records' = [k \in 1 .. 1 |-> fresh]
      <4>1. Records' = [k \in 1 .. 1 |->
              [fn |-> frames'[k].fn,
               cells |-> [i \in 0 .. FrameCells[frames'[k].fn] - 1 |->
                            mem'[frames'[k].base + i]]]]
        BY <3>2 DEF Records, Bottom
      <4> HIDE DEF fresh
      <4> QED BY <3>3, <4>1
    <3> HIDE DEF fresh
    <3> QED BY <3>4
  <2>4. Phase = "boot" /\ Phase' = "live"
    BY <2>1 DEF Phase, Live
  <2> QED BY <2>2, <2>3, <2>4 DEF AbstractStep, Activations!Next, Activations!Start,
          Activations!Fresh, Activations!Slots, GlobalMap
<1> QED BY <1>1, <1>2

\* Replacing a pending list moves no frame.
LEMMA SetPendAny ==
    ASSUME IInv, IInv', frames # <<>>, NEW q, SetPend(q)
    PROVE  SameFrames
<1> DEFINE top == [frames[Depth] EXCEPT !.pend = q]
<1>1. frames \in Seq(Frame) /\ Depth \in 1 .. Len(frames) /\ frames' \in Seq(Frame)
  BY DEF IInv, TypeOK, Depth
<1>2. frames' = [frames EXCEPT ![Depth] = top]
  BY DEF SetPend
<1>3. top.fn = frames[Depth].fn /\ top.base = frames[Depth].base
  <2>1. frames[Depth] \in Frame
    BY <1>1
  <2> QED BY <2>1 DEF Frame
<1> HIDE DEF top
<1>4. Len(frames') = Len(frames)
  BY <1>1, <1>2
<1>5. \A k \in 1 .. Len(frames) : frames'[k] = IF k = Depth THEN top ELSE frames[k]
  BY <1>1, <1>2
<1> QED BY <1>1, <1>3, <1>4, <1>5 DEF SameFrames

LEMMA AbsStep ==
    ASSUME IInv, IInv', Next
    PROVE  AbstractStep
<1>a. Ready => frames # <<>> /\ copy = 0 /\ StackOK
  BY ReadyFacts, StackIsOK
<1>b. Running => Ready
  BY DEF Running, Ready, Live
<1>c. UNCHANGED <<mem, frames>> /\ Stops => AbstractStep
  BY KeepFrames, PhaseCases, AbsQuiet DEF Stops
<1>d. ASSUME Ready, NEW q, SetPend(q), UNCHANGED <<mem, status>> PROVE AbstractStep
  <2>1. SameFrames
    BY <1>a, <1>d, SetPendAny
  <2> QED BY <1>d, <2>1, PhaseCases, AbsQuiet
<1>e. Fail => AbstractStep
  BY AbsFail
<1>1. CASE OperandStep
  <2>1. UNCHANGED <<mem, frames>> /\ Stops
    BY <1>1
       DEF OperandStep, Operate, Fail, Stops, Literal, FuncRef, Unary, Binary, Dup,
           Swap, Drop, DepthOp, Pick, Read, Foreign, PushVar
  <2> QED BY <2>1, <1>c
<1>2. CASE LvalStep
  <2>1. Ready
    BY <1>2, <1>b DEF LvalStep, BeginLval, JumpIntoAssignment, SubscriptArray,
       Member, SubscriptPointer, Arrow, Load, Decay, TakeAddress, Abandon
  <2>2. CASE BeginLval
    BY <2>1, <2>2, <1>d DEF BeginLval
  <2>3. CASE JumpIntoAssignment
    BY <2>1, <2>3, <1>d DEF JumpIntoAssignment
  <2>4. CASE SubscriptArray
    BY <2>1, <2>4, <1>d, <1>e DEF SubscriptArray, Retarget
  <2>5. CASE Member
    BY <2>1, <2>5, <1>d DEF Member, Retarget
  <2>6. CASE SubscriptPointer
    BY <2>1, <2>6, <1>d, <1>e DEF SubscriptPointer, Retarget
  <2>7. CASE Arrow
    BY <2>1, <2>7, <1>d, <1>e DEF Arrow, Retarget
  <2>8. CASE Load \/ Decay \/ TakeAddress
    BY <2>1, <2>8, <1>d, <1>e DEF Load, Decay, TakeAddress, Finish
  <2>9. CASE Abandon
    BY <2>1, <2>9, <1>d DEF Abandon
  <2> QED BY <1>2, <2>2, <2>3, <2>4, <2>5, <2>6, <2>7, <2>8, <2>9 DEF LvalStep
<1>3. CASE StoreVar
  <2>1. CASE Fail
    BY <2>1, <1>e
  <2>2. CASE ~Fail
    <3>1. PICK n \in 0 .. NumVars - 1 : /\ mem' = [mem EXCEPT ![n + 1] = Operand(1)]
                                       /\ UNCHANGED <<frames, status>>
                                       /\ ~(Len(stack) < 2)
      BY <1>3, <2>2 DEF StoreVar, VarOk
    <3>2. n + 1 \in Cells
      BY SizesAssumption DEF Cells
    <3>3. Operand(1) \in Value
      <4>1. StackOK /\ 1 < Len(stack)
        BY <3>1, StackIsOK DEF StackOK
      <4> QED BY <4>1, OperandType
    <3>4. Live
      BY <1>3, <1>b DEF StoreVar, Ready
    <3> QED BY <3>1, <3>2, <3>3, <3>4, KeepFrames, AbsWrite
  <2> QED BY <2>1, <2>2
<1>4. CASE Store
  <2>1. Ready /\ PendOK(DropPend)
    BY <1>4, <1>a, <1>b, NamedFacts DEF Store
  <2> QED BY <1>4, <2>1, <1>e, AbsPut DEF Store
<1>5. CASE BeginCopy
  <2>1. Ready /\ UNCHANGED <<mem, status>> /\ (EndCopy \/ UNCHANGED frames)
    BY <1>5, <1>b DEF BeginCopy
  <2>2. CASE EndCopy
    BY <2>1, <2>2, <1>d DEF EndCopy
  <2>3. CASE UNCHANGED frames
    BY <2>1, <2>3, <1>c DEF Stops
  <2> QED BY <2>1, <2>2, <2>3
<1>6. CASE CopyCell
  <2> DEFINE k == CopyIndex
  <2>1. CASE Fail
    BY <2>1, <1>e
  <2>2. CASE ~Fail
    <3>1. /\ CellOk(Target.addr + k) /\ CellOk(Named.addr + k)
          /\ mem' = [mem EXCEPT ![Target.addr + k] = mem[Named.addr + k]]
          /\ UNCHANGED status
          /\ SetPend(SubSeq(Pend, 1, Len(Pend) - 2)) \/ UNCHANGED frames
      BY <1>6, <2>2 DEF CopyCell, EndCopy
    <3>2. Live /\ frames # <<>>
      BY <1>6 DEF CopyCell, Live, IInv, TypeOK
    <3>3. Target.addr + k \in Cells /\ mem[Named.addr + k] \in Value
      BY <3>1 DEF CellOk, IInv, TypeOK
    <3>4. SameFrames
      BY <3>1, <3>2, SetPendAny, KeepFrames
    <3> QED BY <3>1, <3>2, <3>3, <3>4, AbsWrite
  <2> QED BY <2>1, <2>2
<1>7. CASE DeclareLocal
  BY <1>7, AbsDeclare
<1>8. CASE InitLocal
  <2>1. Ready /\ PendOK(Pend)
    BY <1>8, <1>a, <1>b, TopFacts DEF InitLocal
  <2> QED BY <1>8, <2>1, <1>e, AbsPut DEF InitLocal
<1>9. CASE InitStatic
  <2>1. Ready /\ PendOK(Pend)
    BY <1>9, <1>a, TopFacts DEF InitStatic
  <2> QED BY <1>9, <2>1, <1>e, AbsPut DEF InitStatic
<1>10. CASE Call
  <2>1. Ready /\ PendOK(Pend)
    BY <1>10, <1>a, <1>b, TopFacts DEF Call
  <2> QED BY <1>10, <2>1, AbsEnter DEF Call
<1>11. CASE CallThrough
  <2>1. Ready /\ PendOK(DropPend)
    BY <1>11, <1>a, <1>b, NamedFacts DEF CallThrough
  <2>2. CASE Fail
    BY <2>2, <1>e
  <2>3. CASE ~Fail
    <3>1. PICK f \in Functions : mem[Named.addr] = Handle(f)
      BY <1>11, <2>3 DEF CallThrough
    <3>2. mem[Named.addr] - MemCells = f
      BY <3>1, SizesAssumption, FunctionsAssumption DEF Handle
    <3>3. Enter(f, DropPend)
      BY <1>11, <2>3, <3>2 DEF CallThrough
    <3> QED BY <2>1, <3>3, AbsEnter
  <2> QED BY <2>2, <2>3
<1>12. CASE Return
  BY <1>12, AbsReturn
<1>13. CASE EnterMain
  <2>1. SameFrames /\ UNCHANGED mem /\ Phase' = Phase
    BY <1>13, KeepFrames DEF EnterMain, Phase, Live
  <2> QED BY <2>1, AbsQuiet
<1>14. CASE Finished
  <2>1. UNCHANGED <<mem, frames>> /\ Stops
    BY <1>14 DEF Finished, memory, Stops
  <2> QED BY <2>1, <1>c
<1>15. CASE Start
  BY <1>15, AbsStart
<1> QED BY <1>1, <1>2, <1>3, <1>4, <1>5, <1>6, <1>7, <1>8, <1>9, <1>10, <1>11,
           <1>12, <1>13, <1>14, <1>15 DEF Next, WriteStep, CallStep

LEMMA AbsInit == Init => Activations!Init
BY SizesAssumption DEF Init, Activations!Init, Phase, Live, Records, Depth, Cells

\* The flat cell memory implements activation records.
THEOREM MemoryImplementsActivations == Spec => ImplementsActivations
<1>1. IInv /\ IInv' /\ [Next]_vars => [Activations!Next]_(Activations!vars)
  <2>1. UNCHANGED vars => UNCHANGED Activations!vars
    BY DEF vars, Activations!vars, Phase, Live, Records, Depth, Bottom
  <2> QED BY <2>1, AbsStep DEF AbstractStep
<1> QED BY <1>1, AbsInit, Invariance, PTL
        DEF Spec, ImplementsActivations, Activations!Spec

--------------------------------------------------------------------------------
(* A struct assignment copies one cell at a time, but nothing else runs until *)
(* it is over.                                                              *)

\* What is copied so far, of objects that do not overlap.
CopiedSoFar ==
    copy > 0 =>
        \A k \in 0 .. Named.len - copy - 1 :
            /\ Target.addr + k \in Cells /\ Named.addr + k \in Cells
            /\ Apart(Target, Named) => mem[Target.addr + k] = mem[Named.addr + k]

LEMMA CopyFacts ==
    ASSUME IInv, CopyCell
    PROVE  /\ Named.addr \in Int /\ Named.len \in Nat
           /\ Target.addr \in Int /\ Target.len = Named.len
           /\ copy \in Nat /\ copy <= Named.len /\ Len(Pend) > 1
           /\ frames # <<>> /\ Depth \in 1 .. Depth
<1>1. frames \in Seq(Frame) /\ copy \in Nat /\ Len(Pend) > 1 /\ copy <= Named.len
      /\ Target.len = Named.len
  BY DEF IInv, TypeOK, CopyCell
<1>2. frames # <<>> /\ Depth \in 1 .. Depth
  BY <1>1 DEF IInv, TypeOK, CopyCell, Live, Depth
<1>3. Pend \in Seq(Pending)
  <2>1. frames[Depth] \in Frame
    BY <1>1, <1>2 DEF Depth
  <2> QED BY <2>1 DEF Frame, Top, Pend
<1>4. Named \in Pending /\ Target \in Pending
  BY <1>1, <1>3 DEF Named, Target
<1> QED BY <1>1, <1>2, <1>4 DEF Pending

\* While a copy is under way nothing else touches memory or the lvalues.
LEMMA OnlyTheCopy ==
    ASSUME IInv, copy > 0, Next
    PROVE  CopyCell \/ UNCHANGED <<mem, frames, copy>>
<1>1. copy # 0 /\ ~Ready /\ ~Running /\ status # "boot"
  BY DEF IInv, TypeOK, Ready, Running
<1>2. OperandStep => FALSE
  BY <1>1 DEF OperandStep, Literal, FuncRef, Unary, Binary, Dup, Swap, Drop, DepthOp, Pick, Read,
              Foreign, PushVar
<1>3. LvalStep => FALSE
  BY <1>1 DEF LvalStep, BeginLval, JumpIntoAssignment, SubscriptArray, Member, SubscriptPointer,
              Arrow, Load, Decay, TakeAddress, Abandon
<1>4. WriteStep => CopyCell
  BY <1>1 DEF WriteStep, StoreVar, Store, BeginCopy, DeclareLocal, InitLocal, InitStatic
<1>5. CallStep => UNCHANGED <<mem, frames, copy>>
  BY <1>1 DEF CallStep, Start, EnterMain, Call, CallThrough, Return, Finished
<1> QED BY <1>2, <1>3, <1>4, <1>5 DEF Next

\* Any other step leaves no copy under way, unless it begins one.
LEMMA NoCopyYet ==
    ASSUME IInv, copy = 0, Next
    PROVE  copy' = 0 \/ BeginCopy
<1>1. CASE OperandStep
  BY <1>1 DEF OperandStep, Literal, FuncRef, Unary, Binary, Dup, Swap, Drop, DepthOp, Pick, Read,
              Foreign, PushVar, Operate, Fail
<1>2. CASE LvalStep
  BY <1>2 DEF LvalStep, BeginLval, JumpIntoAssignment, SubscriptArray, Member, SubscriptPointer,
              Arrow, Load, Decay, TakeAddress, Abandon, Finish, Fail
<1>3. CASE WriteStep
  BY <1>3 DEF WriteStep, StoreVar, Store, CopyCell, DeclareLocal, InitLocal, InitStatic, Put, Fail
<1>4. CASE CallStep
  BY <1>4 DEF CallStep, Start, EnterMain, Call, CallThrough, Return, Finished, Enter, Fail, memory
<1> QED BY <1>1, <1>2, <1>3, <1>4 DEF Next

\* One cell more.
LEMMA CopyOne ==
    ASSUME IInv, CopiedSoFar, CopyCell, copy' # copy, NEW k \in 0 .. Named.len - copy
    PROVE  /\ Target.addr + k \in Cells /\ Named.addr + k \in Cells
           /\ Apart(Target, Named) => mem'[Target.addr + k] = mem'[Named.addr + k]
<1> DEFINE a == Target.addr
           b == Named.addr
           n == Named.len
           last == n - copy
<1>1. copy > 0 /\ copy' = copy - 1 /\ a + last \in Cells /\ b + last \in Cells
      /\ mem' = [mem EXCEPT ![a + last] = mem[b + last]]
  BY DEF CopyCell, CopyIndex, CellOk, Fail
<1>2. a \in Int /\ b \in Int /\ n \in Nat /\ Target.len = n /\ copy \in Nat /\ copy <= n
  BY <1>1, CopyFacts
<1>3. mem \in [Cells -> Value]
  BY DEF IInv, TypeOK
<1>4. Apart(Target, Named) => a + n <= b \/ b + n <= a
  BY <1>2 DEF Apart
<1>5. k < last =>
        /\ a + k \in Cells /\ b + k \in Cells
        /\ Apart(Target, Named) => mem[a + k] = mem[b + k]
  BY <1>1, <1>2 DEF CopiedSoFar
<1> HIDE DEF a, b, n
<1>6. CASE k = last
  <2>1. Apart(Target, Named) => b + last # a + last
    BY <1>1, <1>2, <1>4
  <2> QED BY <1>1, <1>3, <1>6, <2>1 DEF a, b
<1>7. CASE k # last
  <2>1. k \in Int /\ k < last /\ k < n
    BY <1>1, <1>2, <1>7 DEF n
  <2>2. a + k # a + last /\ (Apart(Target, Named) => b + k # a + last)
    BY <1>1, <1>2, <1>4, <2>1
  <2> QED BY <1>1, <1>3, <1>5, <2>1, <2>2 DEF a, b
<1> QED BY <1>6, <1>7

LEMMA CopyStep ==
    ASSUME IInv, CopiedSoFar, [Next]_vars
    PROVE  CopiedSoFar'
<1>1. CASE UNCHANGED <<mem, frames, copy>>
  BY <1>1 DEF CopiedSoFar, Named, Target, Pend, Top, Depth, Apart
<1>2. CASE copy > 0 /\ Next /\ CopyCell /\ copy' # copy
  <2>1. copy' = copy - 1 /\ (copy # 1 => UNCHANGED frames)
    BY <1>2 DEF CopyCell, Fail
  <2>2. CASE copy = 1
    BY <2>1, <2>2 DEF CopiedSoFar
  <2>3. CASE copy # 1
    <3>1. Named' = Named /\ Target' = Target
      BY <2>1, <2>3 DEF Named, Target, Pend, Top, Depth
    <3>2. \A k \in 0 .. Named.len - copy' - 1 : k \in 0 .. Named.len - copy
      BY <1>2, <2>1, CopyFacts
    <3> QED BY <1>2, <3>1, <3>2, CopyOne DEF CopiedSoFar, Apart
  <2> QED BY <2>2, <2>3
<1>3. CASE copy > 0 /\ Next /\ CopyCell /\ copy' = copy
  <2>1. copy \in Nat
    BY DEF IInv, TypeOK
  <2> QED BY <1>1, <1>3, <2>1 DEF CopyCell, Fail
<1>4. CASE copy = 0 /\ Next
  <2>1. CASE BeginCopy /\ copy' # 0
    <3>1. copy' = Named.len /\ UNCHANGED frames
      BY <2>1 DEF BeginCopy
    <3>2. Named' = Named
      BY <3>1 DEF Named, Pend, Top, Depth
    <3>3. copy' \in Nat
      BY NextSafe DEF IInv, TypeOK
    <3>4. 0 .. Named.len' - copy' - 1 = {}
      BY <3>1, <3>2, <3>3
    <3> QED BY <3>4 DEF CopiedSoFar
  <2>2. CASE copy' = 0
    BY <2>2 DEF CopiedSoFar
  <2> QED BY <1>4, <2>1, <2>2, NoCopyYet
<1>5. copy \in Nat
  BY DEF IInv, TypeOK
<1> QED BY <1>1, <1>2, <1>3, <1>4, <1>5, OnlyTheCopy DEF vars

\* A struct assignment between objects that do not overlap ends with the two
\* equal in every cell (CopyCell until copy is 0), for all sizes and addresses.
THEOREM StructAssignmentCopies == Spec => StructCopied
<1>1. Init => CopiedSoFar
  BY DEF Init, CopiedSoFar
<1>2. IInv /\ CopiedSoFar /\ [Next]_vars =>
        (copy = 1 /\ copy' = 0 /\ Apart(Target, Named) =>
            \A k \in 0 .. Named.len - 1 : mem'[Target.addr + k] = mem'[Named.addr + k])
  <2> SUFFICES ASSUME IInv, CopiedSoFar, Next, copy = 1, copy' = 0, Apart(Target, Named),
                      NEW k \in 0 .. Named.len - 1
               PROVE  mem'[Target.addr + k] = mem'[Named.addr + k]
    BY DEF vars
  <2>1. CopyCell
    BY OnlyTheCopy
  <2> QED BY <2>1, CopyOne
<1>3. IInv /\ CopiedSoFar /\ [Next]_vars => CopiedSoFar'
  BY CopyStep
<1> QED BY <1>1, <1>2, <1>3, Invariance, PTL DEF Spec, StructCopied

================================================================================
