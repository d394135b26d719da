------------------------------ MODULE MCNumRuntime ------------------------------
EXTENDS NumRuntime, FiniteSets, FiniteSetsExt, TLC

\* A static object of two cells; main and function 0 have one automatic cell,
\* function 1 has an object of two.  Two activations of function 0 beside main's
\* fill the memory.
MCFrameCells == (-1 :> 1) @@ (0 :> 1) @@ (1 :> 2)
MCStatics == {[first |-> 2, cells |-> 2]}
MCLocals == [f \in DOMAIN MCFrameCells |-> {[first |-> 0, cells |-> MCFrameCells[f]]}]

MCNumbers == {Other}
MCTruncations == {-1, 0, 9}

\* Bound on the states TLC expands: operands, lvalues under evaluation (twice
\* if no cells are left of the object) and cells that are not zero, together;
\* fewer the deeper the calls.
Weight(pend) == Len(pend) + Cardinality({i \in DOMAIN pend : pend[i].len = 0})
Pended == MapThenSumSet(LAMBDA k : Weight(frames[k].pend), 1 .. Depth)
Burden == Len(stack) + Pended + Cardinality({c \in Cells : mem[c] # 0})
Light == Depth > 0 => Burden <= <<3, 2, 1>>[Depth]
================================================================================
