-------------------------------- MODULE MCMemory --------------------------------
(* MemorySystem on five addresses, with up to two regions.                   *)
EXTENDS MemorySystem

(* request and reply record the last call: no call reads them, so states that *)
(* differ in nothing else have the same steps, and the one kept stands for    *)
(* all of them.  The step into each of them is checked against the store.     *)
MCView == <<regions, handlers, device>>
===============================================================================
