----------------------------- MODULE MCTransparency -----------------------------
EXTENDS Transparency
MCCells   == {StackTop - 8 * k : k \in 1 .. 3}
MCBootMem == {[c \in MCCells |-> 0]}
===============================================================================
