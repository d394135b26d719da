-------------------------------- MODULE MCCTypes --------------------------------
\* A struct tag and a union tag; char and pointers give the alignments.
EXTENDS CTypes, FiniteSetsExt

CONSTANTS MaxOpen,      \* bound: bodies open at the same time
          MaxDeclared   \* bound: members and objects in all

MCSize == [s \in Scalars |-> IF s = "char" THEN 1 ELSE 4]

Declarations ==
    /\ Len(open) <= MaxOpen
    /\ Len(objects) + MapThenSumSet(LAMBDA t : Len(defs[t].members), Tags)
         + MapThenSumSet(LAMBDA k : Len(open[k].fields), DOMAIN open) <= MaxDeclared
================================================================================
