------------------------------- MODULE ArrayStore -------------------------------
(***************************************************************************)
(* What the array operations promise (ARR_NEW, ARR_SET and ARR_GET): each id  *)
(* is a sequence of numbers, fresh and zero after ARR_NEW, whose elements      *)
(* keep what was stored last.  There are no addresses, blocks or lengths.      *)
(***************************************************************************)
EXTENDS Integers, Sequences

CONSTANTS
    StackSize,   \* STACK_SIZE
    ArrCount,    \* ARR_COUNT
    Numbers,     \* what the rest of the program pushes
    Truncations  \* what (int) may make of a double outside its range

Other == -2      \* every double that no int is a truncation of

VARIABLES
    stack,   \* the operand stack
    elems,   \* the elements of each array
    failed   \* the program has ended with a message

svars == <<stack, elems, failed>>

Ids == 0 .. ArrCount - 1
ToInt(v) == IF v = Other THEN Truncations ELSE {v}
Item(k) == stack[Len(stack) - k]
Popped(n) == SubSeq(stack, 1, Len(stack) - n)

Zeroes(n) == [i \in 0 .. n - 1 |-> 0]
NoArrays == [id \in Ids |-> Zeroes(0)]

Stop == failed' = TRUE /\ elems' = NoArrays /\ UNCHANGED stack

Push ==
    \E x \in Numbers :
       /\ Len(stack) < StackSize
       /\ stack' = Append(stack, x)
       /\ UNCHANGED <<elems, failed>>

Pop ==
    /\ stack # <<>>
    /\ stack' = Popped(1)
    /\ UNCHANGED <<elems, failed>>

New ==
    /\ Len(stack) >= 2
    /\ \E id \in ToInt(Item(1)), n \in ToInt(Item(0)) :
          /\ id \in Ids /\ n >= 0
          /\ elems' = [elems EXCEPT ![id] = Zeroes(n)]
    /\ stack' = Popped(2)
    /\ UNCHANGED failed

Set ==
    /\ Len(stack) >= 3
    /\ \E id \in ToInt(Item(2)), i \in ToInt(Item(1)) :
          /\ id \in Ids /\ i \in DOMAIN elems[id]
          /\ elems' = [elems EXCEPT ![id] = [@ EXCEPT ![i] = Item(0)]]
    /\ stack' = Popped(3)
    /\ UNCHANGED failed

Get ==
    /\ Len(stack) >= 2
    /\ \E id \in ToInt(Item(1)), i \in ToInt(Item(0)) :
          /\ id \in Ids /\ i \in DOMAIN elems[id]
          /\ stack' = Append(Popped(2), elems[id][i])
    /\ UNCHANGED <<elems, failed>>

SInit == stack = <<>> /\ elems = NoArrays /\ failed = FALSE
SNext == ~failed /\ (Stop \/ Push \/ Pop \/ New \/ Set \/ Get)
SSpec == SInit /\ [][SNext]_svars
================================================================================
