-------------------------------- MODULE MCTraps --------------------------------
(* A small image for HartTraps: user code that may do anything the contract  *)
(* allows at three addresses, and a handler that may fault before it returns. *)
EXTENDS HartTraps

MCRegs  == {0, 1, 29, 30, 31}
MCCells == {128}

I(op, rd, rs1, rs2, imm) ==
  [op |-> op, rd |-> rd, rs1 |-> rs1, rs2 |-> rs2, imm |-> imm, len |-> 4]
Esc(i) == [i EXCEPT !.len = 8]

(* Addresses 0, 4 and 8 for the user, 64, 68 and 72 for the handler.  r1 is  *)
(* 0, 128 (mapped, writable) or 256 (unmapped).                               *)
MCUserCode    == {0, 4, 8}
MCHandlerCode == {64, 68, 72}

Anywhere == {Esc(I("ECALL", 0, 0, 0, 0)), Esc(I("BREAK", 0, 0, 0, 0)),
             I("INVALID", 0, 0, 0, 0)}
Straight == {I("NOP", 0, 0, 0, 0), I("LD_D", 1, 1, 0, 0), I("PUSH", 1, 0, 0, 0),
             I("LD_D_NZ", 1, 1, 0, 0)}

MCCode(a) ==
  CASE a = 0  -> Anywhere \cup Straight \cup {Esc(I("LR_D", 1, 1, 0, 0))}
    [] a = 4  -> Anywhere \cup Straight \cup {I("BEQ", 0, 1, 0, -1)}
    [] a = 8  -> {I("JMP", 0, 0, 0, -2), I("BREAK", 0, 0, 0, 0)}
    [] a = 64 -> {I("ADDI", 0, 1, 0, 4), I("LD_D", 1, 1, 0, 0)}
    [] a = 68 -> {I("TRAPRET", 0, 0, 0, 0), I("CSRRW", 29, 0, 0, 2),
                  I("INVALID", 0, 0, 0, 0), I("ECALL", 0, 0, 0, 0)}
    [] a = 72 -> {I("TRAPRET", 0, 0, 0, 0)}
    [] OTHER  -> {}

MCBootRegs == {[r \in MCRegs |-> IF r = 1 THEN v ELSE IF r = 31 THEN 136 ELSE 0] :
                 v \in {0, 128, 256}}
MCBootCtl  == {[pc |-> 0, privilege |-> 0, trap_pending |-> FALSE,
                sie |-> UserSie, spie |-> 0, spp |-> 0,
                stvec |-> 64, sepc |-> 0, scause |-> 0, stval |-> 0, satp |-> 0,
                stime |-> 0, stimecmp |-> t] : t \in 0 .. TimeSize}
MCBootMem  == {[c \in MCCells |-> 0]}

===============================================================================
