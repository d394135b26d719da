------------------------------ MODULE MCArrayHeap ------------------------------
EXTENDS ArrayHeap

\* Ids 0 and 1, sizes and indices 0 and 1, and a double that is no int, which
\* (int) makes negative on one machine and 0 on another.
MCNumbers == {0, 1, Other}
MCTruncations == {-1, 0}
================================================================================
