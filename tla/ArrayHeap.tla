------------------------------- MODULE ArrayHeap -------------------------------
(***************************************************************************)
(* The arrays of the generated program: arrays[] and arr_len[], the blocks    *)
(* that calloc and free hand out and take back, and the three operations      *)
(* that use them (arr_new, arr_slot and the code of ARR_NEW, ARR_SET and       *)
(* ARR_GET in codegen_c.py).                                                   *)
(***************************************************************************)
EXTENDS Integers, Sequences

CONSTANTS
    StackSize,   \* STACK_SIZE
    ArrCount,    \* ARR_COUNT (16)
    Numbers,     \* what the rest of the program pushes: integers and Other
    Truncations, \* what (int) may make of a double outside its range
    Blocks       \* addresses calloc may return

Other == -2      \* every double that no int is a truncation of
Null == "NULL"
Value == Int
Ids == 0 .. ArrCount - 1

ASSUME ArrayAssumption ==
    /\ StackSize \in Nat /\ ArrCount \in Nat
    /\ Numbers \subseteq Value /\ Truncations \subseteq Int
    /\ Null \notin Blocks

VARIABLES
    stack,   \* stack[0 .. sp - 1]
    arrays,  \* arrays[]: the block of each id, or Null
    arr_len, \* arr_len[]
    live,    \* blocks in use
    heap,    \* what each block holds; its domain is its size
    failed   \* exit(1)

heapVars == <<stack, arrays, arr_len, live, heap, failed>>
storage == <<arrays, arr_len, live, heap>>

\* (int) of an operand.
Truncated(v) == IF v = Other THEN Truncations ELSE {v}
Item(k) == stack[Len(stack) - k]
Popped(n) == SubSeq(stack, 1, Len(stack) - n)

ArrFail == failed' = TRUE /\ UNCHANGED <<stack, storage>>

RoomAndOne == Len(stack) <= StackSize  \* defect: sp may reach STACK_SIZE + 1
Room == Len(stack) < StackSize

Push ==
    /\ ~failed
    /\ IF Room
       THEN /\ \E x \in Numbers : stack' = Append(stack, x)
            /\ UNCHANGED <<storage, failed>>
       ELSE ArrFail

Pop ==
    /\ ~failed
    /\ IF stack # <<>>
       THEN stack' = Popped(1) /\ UNCHANGED <<storage, failed>>
       ELSE ArrFail

\* free(p): nothing for NULL, and the contents stay where they are.
KeepOld(b) == live             \* defect: the old block is never freed
Freed(b) == live \ {b}

\* The sizes arr_new asks for; calloc clears what it returns.
Size(n) == IF n > 0 THEN n ELSE 1
Leftover(b, n) ==              \* defect: malloc instead of calloc
    [i \in 0 .. n - 1 |-> IF i \in DOMAIN heap[b] THEN heap[b][i] ELSE 0]
Cleared(b, n) == [i \in 0 .. n - 1 |-> 0]

(* arr_new.  The old block may come back from calloc; without memory the      *)
(* program ends with arrays[id] NULL and the old length.                       *)
Allocate(id, n) ==
    LET rest == Freed(arrays[id])
    IN  \/ \E b \in Blocks \ rest :
             /\ arrays' = [arrays EXCEPT ![id] = b]
             /\ arr_len' = [arr_len EXCEPT ![id] = n]
             /\ live' = rest \cup {b}
             /\ heap' = [heap EXCEPT ![b] = Cleared(b, Size(n))]
             /\ stack' = Popped(2)
             /\ UNCHANGED failed
        \/ /\ arrays' = [arrays EXCEPT ![id] = Null]
           /\ live' = rest /\ failed' = TRUE
           /\ UNCHANGED <<stack, arr_len, heap>>

ArrNew ==
    /\ ~failed
    /\ IF Len(stack) < 2
       THEN ArrFail
       ELSE \E id \in Truncated(Item(1)), n \in Truncated(Item(0)) :
              IF id \in Ids /\ n >= 0 THEN Allocate(id, n) ELSE ArrFail

\* arr_slot.
InSlot(id, i) == id \in Ids /\ i >= 0 /\ i < arr_len[id]

ArrSet ==
    /\ ~failed
    /\ IF Len(stack) < 3
       THEN ArrFail
       ELSE \E id \in Truncated(Item(2)), i \in Truncated(Item(1)) :
              IF InSlot(id, i)
              THEN /\ heap' = [heap EXCEPT ![arrays[id]] = [@ EXCEPT ![i] = Item(0)]]
                   /\ stack' = Popped(3)
                   /\ UNCHANGED <<arrays, arr_len, live, failed>>
              ELSE ArrFail

ArrGet ==
    /\ ~failed
    /\ IF Len(stack) < 2
       THEN ArrFail
       ELSE \E id \in Truncated(Item(1)), i \in Truncated(Item(0)) :
              IF InSlot(id, i)
              THEN /\ stack' = Append(Popped(2), heap[arrays[id]][i])
                   /\ UNCHANGED <<storage, failed>>
              ELSE ArrFail

HeapInit ==
    /\ stack = <<>>
    /\ arrays = [id \in Ids |-> Null]
    /\ arr_len = [id \in Ids |-> 0]
    /\ live = {}
    /\ heap = [b \in Blocks |-> [i \in 0 .. 0 |-> 0]]
    /\ failed = FALSE

HeapNext == Push \/ Pop \/ ArrNew \/ ArrSet \/ ArrGet

HeapSpec == HeapInit /\ [][HeapNext]_heapVars
--------------------------------------------------------------------------------

\* The variables keep their types: the stack stays within its bounds.
TypeOK ==
    /\ stack \in Seq(Value) /\ Len(stack) <= StackSize
    /\ arrays \in [Ids -> Blocks \cup {Null}]
    /\ arr_len \in [Ids -> Nat]
    /\ live \subseteq Blocks
    /\ heap = [b \in Blocks |-> heap[b]]
    /\ \A b \in Blocks : heap[b] \in [DOMAIN heap[b] -> Value]
    /\ failed \in BOOLEAN

\* While the program runs, each length is that of the id's own block, which is
\* in use and belongs to no other id, however often ids are allocated again:
\* an index that passes arr_slot never reaches freed memory or another array,
\* and no block is lost (arr_new, codegen_c.py:643).
HeapSound ==
    ~failed =>
       /\ live = {arrays[id] : id \in Ids} \ {Null}
       /\ \A id \in Ids :
             /\ 0 .. arr_len[id] - 1 \subseteq
                   IF arrays[id] = Null THEN {} ELSE DOMAIN heap[arrays[id]]
             /\ \A other \in Ids \ {id} :
                   arrays[id] = arrays[other] => arrays[id] = Null

\* The blocks and lengths implement arrays that are zero when new and keep
\* what was stored last, per id (README.md:191-198).
Element(id, i) == heap[arrays[id]][i]
Elements ==
    [id \in Ids |-> [i \in 0 .. (IF failed THEN 0 ELSE arr_len[id]) - 1 |-> Element(id, i)]]

Abstract == INSTANCE ArrayStore WITH elems <- Elements
ImplementsArrays == Abstract!SSpec
================================================================================
