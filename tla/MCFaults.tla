------------------------------- MODULE MCFaults -------------------------------
(* Every memory instruction, at one address, against three mapped doublewords *)
(* of which the last is read-only; the handler moves r1, the frame or the     *)
(* stack pointer to another doubleword and returns to the instruction.        *)
EXTENDS HartFaults

MCRegs     == {0, 1, 2, 29, 30, 31}
MCCells    == {128, 136, 144}
MCReadOnly == {144}

I(op, rd, rs1, rs2, imm) ==
  [op |-> op, rd |-> rd, rs1 |-> rs1, rs2 |-> rs2, imm |-> imm, len |-> 4]

Accesses ==
  {I("LD_D", 2, 1, 0, 0), I("ST_D", 1, 1, 0, 0),
   I("LD_P", 2, 30, 1, 0), I("LD_P", 1, 2, 1, 0), I("ST_P", 2, 1, 1, 0),
   I("PUSH", 2, 0, 0, 0), I("POP", 2, 0, 0, 0),
   I("ENTER", 0, 0, 0, 0), I("LEAVE", 0, 0, 0, 0),
   I("LR_D", 2, 1, 0, 0), I("SC_D", 2, 1, 1, 0)}

(* 0: an access, then back to 0 with r2 cleared.  64: the handler gives one   *)
(* of r1, r30 and r31 a new value and returns.  Both ways back to 0 take an   *)
(* even number of ticks, so a stime of two values tells a tick from none at   *)
(* no cost in states.                                                         *)
MCCode(a) ==
  CASE a = 0  -> Accesses
    [] a = 4  -> {I("RELEASE", 2, 0, 0, 0)}
    [] a = 8  -> {I("NOP", 0, 0, 0, 0)}
    [] a = 12 -> {I("JMP", 0, 0, 0, -3)}
    [] a = 64 -> {I("ADDI", 1, 0, 0, k) : k \in {0, 136, 144}}
                 \cup {I("ADDI", 31, 0, 0, k) : k \in {152}}
                 \cup {I("ADDI", 30, 0, 0, k) : k \in {136}}
    [] a = 68 -> {I("TRAPRET", 0, 0, 0, 0)}
    [] OTHER  -> {}

MCBootRegs == {[r \in MCRegs |-> IF r = 1 THEN 128 ELSE IF r = 31 THEN 144 ELSE 0]}
MCBootCtl  == {[pc |-> 0, privilege |-> 0, trap_pending |-> FALSE,
                sie |-> 0, spie |-> 0, spp |-> 0,
                stvec |-> 64, sepc |-> 0, scause |-> 0, stval |-> 0, satp |-> 0,
                stime |-> 0, stimecmp |-> 0]}
MCBootMem  == {[c \in MCCells |-> 0]}

===============================================================================
