------------------------------- MODULE VectorSpec -------------------------------
(* What the vector instructions owe the program that uses them.               *)
EXTENDS VectorUnit

TypeOK ==
  /\ vec \in [VecRegs -> [Lane -> Word]] /\ regs \in [Regs -> Word] /\ regs[0] = 0
  /\ mem \in [Cells -> Word] /\ vl \in 0 .. Lanes
  /\ present \subseteq Cells /\ missing \in Word \cup {NoFault}
  /\ missing # NoFault => retried # <<>>

SelfIndexed(di) == di.op = "VLDX_V" /\ di.rd = di.rs1

(* However often a load or a store throws on its way, on whatever lanes, its  *)
(* completion leaves registers and memory as one undisturbed run would have   *)
(* left them, also when its lanes overlap in memory.                          *)
RestartIsExact ==
  [][retried # <<>> /\ retried' = <<>> /\ ~SelfIndexed(retried[1].di) =>
       vec' = retried[1].goal.vec /\ mem' = retried[1].goal.mem]_vars

(* The first n elements of v combined into a.                                *)
Reduction(op, n, a, v) == Loop(n, a, LAMBDA acc, i : Combine(op, acc, v[i]))

(* docs/hvm_instruction_set.csv: vd[0] = reduce(vs1, vs2[0]) over the active  *)
(* elements of vs1, both sources read before the destination is written.      *)
Reduces(di) ==
  Reduce(di) => vec'[di.rd][1] = Reduction(di.op, vl, vec[di.rs2][1], vec[di.rs1])

(* A reduction accumulates in its destination; where the destination is not   *)
(* the vector it reduces, also where it is the start value's register, that   *)
(* does not show.  It goes over all lanes whatever the vector length, so this *)
(* is claimed only while every lane is active.                                *)
ReductionExact ==
  [][vl = Lanes =>
       \A di \in Program : di.op \in ReduceOps /\ di.rd # di.rs1 => Reduces(di)]_vars

(* Lanes past the vector length.                                              *)
Inactive == {i \in Lane : i > vl}

(* In none of its runs does a load change those lanes, nor a store a          *)
(* doubleword that no active lane addresses.                                  *)
AccessKeepsInactive ==
  [][\A di \in Program : Access(di) =>
       /\ \A i \in Inactive, r \in VecRegs : vec'[r][i] = vec[r][i]
       /\ \A a \in Cells : mem'[a] # mem[a] =>
            \E i \in Lane \ Inactive : a = Address(di, vec, i)]_vars

===============================================================================
