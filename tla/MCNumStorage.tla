------------------------------ MODULE MCNumStorage ------------------------------
EXTENDS NumStorage, FiniteSets, FiniteSetsExt

CONSTANTS MaxObjects,   \* bound: objects allocated
          MaxUses       \* bound: uses of objects emitted

Allocated == Cardinality(statics) + MapThenSumSet(LAMBDA u : Cardinality(locals[u]), Units)
Small == Allocated <= MaxObjects /\ Cardinality(code) <= MaxUses
================================================================================
