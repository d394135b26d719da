----------------------------- MODULE StorageLayout -----------------------------
(***************************************************************************)
(* The contract between the code generator, which gives every object its     *)
(* storage (NumStorage), and the program it emits, which runs in that        *)
(* storage (NumRuntime): static objects lie between the |n variables and      *)
(* the first frame, automatic objects inside the frame of their function.     *)
(***************************************************************************)
EXTENDS Naturals

\* first is a cell for a static object and an offset in the frame for an
\* automatic one; an array may have no elements, and then no cells.
Object == [first : Nat, cells : Nat]

Sound(statics, locals, frameCells, numVars, staticTop) ==
    /\ statics \subseteq Object
    /\ \A o \in statics : numVars < o.first /\ o.first + o.cells <= staticTop
    /\ \A f \in DOMAIN frameCells :
         /\ locals[f] \subseteq Object
         /\ \A o \in locals[f] : o.first + o.cells <= frameCells[f]
================================================================================
