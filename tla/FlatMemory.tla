-------------------------------- MODULE FlatMemory --------------------------------
(***************************************************************************)
(* FlatMemory (src/src/hvm_sim_mem/memory.cpp): one array of bytes with    *)
(* bounds, the memory of the simulator's tests.  The array is a function   *)
(* from 0 .. size - 1; its operations are operators on it.                 *)
(***************************************************************************)
EXTENDS Words, Sequences, FiniteSets

CONSTANT ByteBits     (* bits of a byte: 8 in the code *)
ASSUME ByteAssumption == ByteBits \in Nat \ {0}

Zeroed(size) == [a \in 0 .. size - 1 |-> 0]

(* The first comparison also keeps addr + n from wrapping.                     *)
CheckBounds(data, addr, n) == addr \in DOMAIN data /\ addr + n <= Cardinality(DOMAIN data)

(* read_byte .. read_dword and write_byte .. write_dword, of n bytes.          *)
Read(data, addr, n) ==
  LET low[k \in 0 .. n] ==
        IF k = 0 THEN 0 ELSE low[k - 1] + data[addr + (k - 1)] * TwoTo[ByteBits * (k - 1)]
  IN  low[n]

Write(data, addr, n, v) ==
  [a \in DOMAIN data |-> IF a \in addr .. addr + n - 1
                         THEN (v \div TwoTo[ByteBits * (a - addr)]) % TwoTo[ByteBits] ELSE data[a]]

Load(data, addr, bytes) ==
  [a \in DOMAIN data |-> IF a \in addr .. addr + Len(bytes) - 1
                         THEN bytes[a - addr + 1] ELSE data[a]]
Dump(data, addr, n) == [i \in 1 .. n |-> data[addr + i - 1]]
===============================================================================
