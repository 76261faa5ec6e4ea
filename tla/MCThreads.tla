------------------------------- MODULE MCThreads -------------------------------
(* Threads with the image it defines as the code of the hart.                 *)
EXTENDS Threads
MCCells == {Counter, Scratch}
===============================================================================
