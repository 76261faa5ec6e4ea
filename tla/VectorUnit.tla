------------------------------- MODULE VectorUnit -------------------------------
(***************************************************************************)
(* The vector instructions of the hart                                     *)
(* (src/src/hvm_sim_core/executor.cpp, kVSETVL to kVSRL_VX).               *)
(*                                                                         *)
(* A vector load or store touches memory lane after lane, and any lane may *)
(* throw: step() then traps, a handler makes the doubleword accessible and *)
(* returns, and the instruction starts again from its first lane.  retried *)
(* is a history variable: while an instruction is being run again it holds *)
(* the instruction and the result its first run would have had if nothing  *)
(* had thrown, as a sequence of at most one record.                        *)
(*                                                                         *)
(* Loop runs the loops over the lanes in their order, each iteration       *)
(* reading what the earlier ones wrote, because the destination may be a   *)
(* source too.  The model follows executions whose accesses are aligned.   *)
(* An operator whose name has an underscore is the one it precedes with a  *)
(* plausible mistake in it; no action uses it.                             *)
(***************************************************************************)
EXTENDS Integers, Sequences, FiniteSets

CONSTANTS
  Bits,        (* width of a doubleword: 64 in the code                      *)
  Lanes,       (* lanes of a vector register: kVecLanes, 4 in the code       *)
  VecRegs,     (* the vector registers the run uses, 0 among them            *)
  Regs,        (* the general registers the run uses                         *)
  Cells,       (* addresses of the doublewords there are                     *)
  Program,     (* the instructions that may be issued                        *)
  BootVectors, BootRegs, BootMem,
  MaxIssued    (* bound: instructions completed in a behaviour               *)

WordSize == 2 ^ Bits
Word == 0 .. WordSize - 1
Lane == 1 .. Lanes
NoFault == -1    (* where an address is expected *)

LoadOps   == {"VLD_V", "VLDS_V", "VLDX_V"}
StoreOps  == {"VST_V", "VSTS_V", "VSTX_V"}
LaneOps   == {"VADD", "VSUB", "VMUL", "VDIV", "VCOMP", "VSLL", "VSRL"}
ReduceOps == {"VREDADD", "VREDMIN", "VREDMAX"}

(* form: "VV" when the second operand is a vector, "VX" when it is a scalar. *)
Instruction ==
  [op : LoadOps \cup StoreOps \cup LaneOps \cup ReduceOps \cup {"VSETVL", "VMERGE", "VFIRST"},
   form : {"VV", "VX"}, rd : VecRegs \cup Regs, rs1 : VecRegs \cup Regs, rs2 : VecRegs \cup Regs]

(* Which of the operands name a vector register; the others that are used    *)
(* name a general one.                                                       *)
VectorOperands(di) ==
  CASE di.op \in {"VLD_V", "VLDS_V", "VST_V", "VSTS_V"} -> {"rd"}
    [] di.op \in {"VLDX_V", "VSTX_V"}                   -> {"rd", "rs1"}
    [] di.op \in LaneOps /\ di.form = "VX"              -> {"rd", "rs1"}
    [] di.op = "VSETVL"                                 -> {}
    [] di.op = "VFIRST"                                 -> {"rs1"}
    [] OTHER                                            -> {"rd", "rs1", "rs2"}

ASSUME SizesAssumption   == Bits \in Nat \ {0} /\ Lanes \in Nat \ {0} /\ Lanes <= 2 ^ Bits
(* A fact of arithmetic, stated because no prover used here knows powers.    *)
ASSUME PowersAssumption  == \A n \in 0 .. Bits : 2 ^ n \in Nat \ {0}
ASSUME CellsAssumption   == Cells \subseteq Word
ASSUME ProgramAssumption ==
  /\ Program \subseteq Instruction /\ 0 \in VecRegs \cap Regs
  /\ \A di \in Program : \A x \in {"rd", "rs1", "rs2"} :
       di[x] \in IF x \in VectorOperands(di) THEN VecRegs ELSE Regs
ASSUME BootAssumption ==
  /\ BootVectors \subseteq [VecRegs -> [Lane -> Word]]
  /\ BootMem \subseteq [Cells -> Word]
  /\ \A r \in BootRegs : r \in [Regs -> Word] /\ r[0] = 0

VARIABLES
  vec,      (* state.vec_regs                                              *)
  regs,     (* the general registers                                       *)
  vl,       (* state.vl                                                    *)
  mem,      (* the doublewords                                             *)
  present,  (* those an access does not throw on                           *)
  missing,  (* the one an instruction threw on, or NoFault                 *)
  retried,  (* history: the instruction that threw, and what it owes       *)
  issued    (* instructions completed                                      *)

vars == <<vec, regs, vl, mem, present, missing, retried, issued>>

Wrap(n)  == n % WordSize
AllOnes  == WordSize - 1
WriteReg(r, i, val) == IF i = 0 THEN r ELSE [r EXCEPT ![i] = val]

(* for (i = 1; i <= n; ++i), over a state that starts as first.              *)
Loop(n, first, Body(_, _)) ==
  LET s[i \in 0 .. n] == IF i = 0 THEN first ELSE Body(s[i - 1], i)
  IN  s[n]

-------------------------------------------------------------------------------
(* Loads and stores.                                                         *)

(* vec_elems is 4 for every vtype, as kVecLanes is.                          *)
Active == IF vl > Lanes THEN Lanes ELSE vl

(* The address of lane i, when the vector registers are v.                   *)
Address(di, v, i) ==
  Wrap(regs[di.rs2] + CASE di.op \in {"VLD_V", "VST_V"}   -> 8 * (i - 1)
                        [] di.op \in {"VLDS_V", "VSTS_V"} -> regs[di.rs1] * (i - 1)
                        [] di.op \in {"VLDX_V", "VSTX_V"} -> v[di.rs1][i])

(* One iteration of the loop, on the registers, the memory and the address   *)
(* that an earlier iteration threw on.                                       *)
LoadLane(di, there, s, i) ==
  LET a == Address(di, s.vec, i)
  IN IF s.missing # NoFault THEN s
     ELSE IF a \notin there THEN [s EXCEPT !.missing = a]
     ELSE [s EXCEPT !.vec[di.rd][i] = s.mem[a]]

StoreLane(di, there, s, i) ==
  LET a == Address(di, s.vec, i)
  IN IF s.missing # NoFault THEN s
     ELSE IF a \notin there THEN [s EXCEPT !.missing = a]
     ELSE [s EXCEPT !.mem[a] = s.vec[di.rd][i]]

(* The loop, when the doublewords of there do not throw.                     *)
Transfer_AllLanes(di, v, m, there) ==
  Loop(Lanes, [vec |-> v, mem |-> m, missing |-> NoFault],
       LAMBDA s, i : IF di.op \in LoadOps THEN LoadLane(di, there, s, i)
                     ELSE StoreLane(di, there, s, i))

Transfer(di, v, m, there) ==
  Loop(Active, [vec |-> v, mem |-> m, missing |-> NoFault],
       LAMBDA s, i : IF di.op \in LoadOps THEN LoadLane(di, there, s, i)
                     ELSE StoreLane(di, there, s, i))

Aligned(di, v) == \A i \in 1 .. Active : Address(di, v, i) % 8 = 0

(* An instruction can start, and the one that threw starts again.            *)
Starts(di, ops) ==
  /\ di.op \in ops
  /\ missing = NoFault
  /\ issued < MaxIssued
  /\ retried # <<>> => di = retried[1].di

Completes == issued' = issued + 1 /\ retried' = <<>>

Access_TrimsVl(di) ==
  /\ Starts(di, LoadOps \cup StoreOps)
  /\ Aligned(di, vec)
  /\ LET done == Transfer(di, vec, mem, present)
     IN /\ vec' = done.vec /\ mem' = done.mem /\ missing' = done.missing
        /\ IF done.missing = NoFault THEN Completes
           ELSE /\ retried' = IF retried # <<>> THEN retried
                              ELSE <<[di |-> di, goal |-> Transfer(di, vec, mem, Cells)]>>
                /\ UNCHANGED issued
        /\ vl' = IF done.missing = NoFault THEN vl
                 ELSE Cardinality({k \in 1 .. Active : \A i \in 1 .. k : Address(di, vec, i) \in present})
  /\ UNCHANGED <<regs, present>>

Access(di) ==
  /\ Starts(di, LoadOps \cup StoreOps)
  /\ Aligned(di, vec)
  /\ LET done == Transfer(di, vec, mem, present)
     IN /\ vec' = done.vec /\ mem' = done.mem /\ missing' = done.missing
        /\ IF done.missing = NoFault THEN Completes
           ELSE /\ retried' = IF retried # <<>> THEN retried
                              ELSE <<[di |-> di, goal |-> Transfer(di, vec, mem, Cells)]>>
                /\ UNCHANGED issued
  /\ UNCHANGED <<regs, vl, present>>

(* The trap handler makes the doubleword accessible and returns.             *)
Repair == /\ missing \in Cells
          /\ present' = present \cup {missing}
          /\ missing' = NoFault
          /\ UNCHANGED <<vec, regs, vl, mem, retried, issued>>

-------------------------------------------------------------------------------
(* Instructions that do not touch memory.                                    *)

SetVl_Unclamped(di) ==
  /\ Starts(di, {"VSETVL"})
  /\ vl' = regs[di.rs1] /\ regs' = WriteReg(regs, di.rd, regs[di.rs1])
  /\ Completes
  /\ UNCHANGED <<vec, mem, present, missing>>

SetVl(di) ==
  /\ Starts(di, {"VSETVL"})
  /\ LET n == IF regs[di.rs1] < Lanes THEN regs[di.rs1] ELSE Lanes
     IN vl' = n /\ regs' = WriteReg(regs, di.rd, n)
  /\ Completes
  /\ UNCHANGED <<vec, mem, present, missing>>

Compute(op, a, b) ==
  CASE op = "VADD"  -> Wrap(a + b)
    [] op = "VSUB"  -> Wrap(a - b)
    [] op = "VMUL"  -> Wrap(a * b)
    [] op = "VDIV"  -> IF b = 0 THEN AllOnes ELSE a \div b
    [] op = "VCOMP" -> IF a = b THEN AllOnes ELSE 0
    [] op = "VSLL"  -> Wrap(a * 2 ^ (b % Bits))
    [] op = "VSRL"  -> a \div 2 ^ (b % Bits)

(* Every lane, whatever vl is.                                               *)
LaneOp(di) ==
  /\ Starts(di, LaneOps)
  /\ vec' = Loop(Lanes, vec, LAMBDA v, i : [v EXCEPT ![di.rd][i] =
                   Compute(di.op, v[di.rs1][i],
                           IF di.form = "VV" THEN v[di.rs2][i] ELSE regs[di.rs2])])
  /\ Completes
  /\ UNCHANGED <<regs, vl, mem, present, missing>>

(* The mask is vector register 0, whose lowest bit in a lane selects rs1.    *)
Merge(di) ==
  /\ Starts(di, {"VMERGE"})
  /\ vec' = Loop(Lanes, vec, LAMBDA v, i : [v EXCEPT ![di.rd][i] =
                   IF v[0][i] % 2 = 1 THEN v[di.rs1][i] ELSE v[di.rs2][i]])
  /\ Completes
  /\ UNCHANGED <<regs, vl, mem, present, missing>>

First(di) ==
  /\ Starts(di, {"VFIRST"})
  /\ LET set == {i \in Lane : vec[di.rs1][i] % 2 = 1}
     IN regs' = WriteReg(regs, di.rd,
                  IF set = {} THEN AllOnes
                  ELSE (CHOOSE i \in set : \A j \in set : i <= j) - 1)
  /\ Completes
  /\ UNCHANGED <<vec, vl, mem, present, missing>>

Combine(op, a, b) ==
  CASE op = "VREDADD" -> Wrap(a + b)
    [] op = "VREDMIN" -> IF b < a THEN b ELSE a
    [] op = "VREDMAX" -> IF b > a THEN b ELSE a

(* Lane 1 of the destination is the accumulator: it is written before the    *)
(* lanes of rs1 are read.  The other lanes are cleared at the end.           *)
Reduce_ClearsFirst(di) ==
  /\ Starts(di, ReduceOps)
  /\ vec' =
       LET cleared == [vec EXCEPT ![di.rd] = [i \in Lane |-> 0]]
           start   == [cleared EXCEPT ![di.rd][1] = cleared[di.rs2][1]]
       IN Loop(Lanes, start,
               LAMBDA v, i : [v EXCEPT ![di.rd][1] = Combine(di.op, @, v[di.rs1][i])])
  /\ Completes
  /\ UNCHANGED <<regs, vl, mem, present, missing>>

Reduce(di) ==
  /\ Starts(di, ReduceOps)
  /\ vec' =
       LET start == [vec EXCEPT ![di.rd][1] = vec[di.rs2][1]]
           total == Loop(Lanes, start,
                         LAMBDA v, i : [v EXCEPT ![di.rd][1] = Combine(di.op, @, v[di.rs1][i])])
       IN [total EXCEPT ![di.rd] = [i \in Lane |-> IF i = 1 THEN @[1] ELSE 0]]
  /\ Completes
  /\ UNCHANGED <<regs, vl, mem, present, missing>>

-------------------------------------------------------------------------------
Execute(di) == Access(di) \/ SetVl(di) \/ LaneOp(di) \/ Merge(di) \/ First(di) \/ Reduce(di)

Init ==
  /\ vec \in BootVectors /\ regs \in BootRegs /\ mem \in BootMem
  /\ vl = 0
  /\ present \in SUBSET Cells
  /\ missing = NoFault /\ retried = <<>> /\ issued = 0

Next == Repair \/ \E di \in Program : Execute(di)

Spec == Init /\ [][Next]_vars

===============================================================================
