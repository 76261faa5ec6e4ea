-------------------------------- MODULE Threads --------------------------------
(***************************************************************************)
(* Two threads on one hart increment a shared doubleword with the retry    *)
(* loop of docs/hvm-spec.md 9.6 (LR.D, SC.D, branch back), and the timer   *)
(* interrupt switches between them at any instruction.  The handler keeps  *)
(* the pc of the thread that is not running in r28 and exchanges it with   *)
(* sepc; the threads use disjoint registers.                               *)
(*                                                                         *)
(* Breaks is whether the handler breaks the reservation on a switch by     *)
(* reserving a doubleword of its own (LR.D of Scratch).  Periods are the   *)
(* distances the handler may program the timer at, in ticks from now.      *)
(***************************************************************************)
EXTENDS Hart

CONSTANTS Counter,    (* address of the shared doubleword          *)
          Scratch,    (* address of the handler's doubleword       *)
          RoundsA,    (* how often each thread increments          *)
          RoundsB,
          Breaks,
          Periods

ThreadRegs == {0, 1, 2, 3, 11, 12, 13, 26, 27, 28, 29, 30, 31}

I(op, rd, rs1, rs2, imm) ==
  [op |-> op, rd |-> rd, rs1 |-> rs1, rs2 |-> rs2, imm |-> imm, len |-> 4]
Esc(i) == [i EXCEPT !.len = 8]

(* A thread at address base: rounds left in rn, value in rv, outcome in rs.   *)
ThreadInst(base, rn, rv, rs, a) ==
  CASE a = base      -> Esc(I("LR_D", rv, 30, 0, 0))
    [] a = base + 8  -> I("ADDI", rv, rv, 0, 1)
    [] a = base + 12 -> Esc(I("SC_D", rs, 30, rv, 0))
    [] a = base + 20 -> I("BNE", 0, rs, 0, -5)
    [] a = base + 24 -> I("ADDI", rn, rn, 0, -1)
    [] a = base + 28 -> I("BNE", 0, rn, 0, -7)
    [] a = base + 32 -> I("JMP", 0, 0, 0, 0)
ThreadPcs(base) == {base, base + 8, base + 12, base + 20, base + 24, base + 28, base + 32}

BaseA == 0
BaseB == 64
Entry == IF Breaks THEN 128 ELSE 136

ThreadCode(a) ==
  IF a \in ThreadPcs(BaseA) THEN {ThreadInst(BaseA, 1, 2, 3, a)}
  ELSE IF a \in ThreadPcs(BaseB) THEN {ThreadInst(BaseB, 11, 12, 13, a)}
  ELSE CASE a = 128 -> {Esc(I("LR_D", 27, 26, 0, 0))}
         [] a = 136 -> {Esc(I("CSRRW", 28, 28, 0, 2))}
         [] a = 144 -> {Esc(I("CSRRW", 27, 0, 0, 6))}
         [] a = 152 -> {I("ADDI", 27, 27, 0, p) : p \in Periods}
         [] a = 156 -> {Esc(I("CSRRW", 0, 27, 0, 7))}
         [] a = 164 -> {Esc(I("TRAPRET", 0, 0, 0, 0))}
         [] OTHER   -> {}

ThreadBootRegs ==
  {[r \in ThreadRegs |->
      CASE r = 1  -> RoundsA [] r = 11 -> RoundsB [] r = 26 -> Scratch
        [] r = 28 -> BaseB   [] r = 30 -> Counter [] OTHER  -> 0]}
ThreadBootCtl ==
  {[pc |-> BaseA, privilege |-> 0, trap_pending |-> FALSE, sie |-> 1, spie |-> 0, spp |-> 0,
    stvec |-> Entry, sepc |-> 0, scause |-> 0, stval |-> 0, satp |-> 0,
    stime |-> 0, stimecmp |-> p] : p \in Periods}
ThreadBootMem == {[c \in {Counter, Scratch} |-> 0]}

(* The hart runs this image and starts it in this state. *)
ASSUME ThreadImageAssumption ==
  /\ Regs = ThreadRegs /\ Cells = {Counter, Scratch} /\ ReadOnly = {}
  /\ \A a \in Word : Code(a) = ThreadCode(a)
  /\ BootRegs = ThreadBootRegs /\ BootCtl = ThreadBootCtl /\ BootMem = ThreadBootMem

(* The two doublewords differ and are aligned, each thread increments at      *)
(* least once (its loop tests at the end), and the sum fits a register.       *)
ASSUME RoundsAssumption ==
  /\ Counter # Scratch /\ Aligned(Counter) /\ Aligned(Scratch)
  /\ RoundsA \in Nat \ {0} /\ RoundsB \in Nat \ {0} /\ RoundsA + RoundsB < WordSize

-------------------------------------------------------------------------------
Done == regs[1] = 0 /\ regs[11] = 0

(* No increment is lost or done twice: when both threads have finished, the   *)
(* doubleword holds the sum of their rounds, wherever the switches fell       *)
(* between LR.D and SC.D and whoever reserved what in between.                *)
NoLostUpdate == Done => mem[Counter] = RoundsA + RoundsB

(* At every moment the doubleword counts the increments the threads have      *)
(* accounted for, and at most one more for each thread that is between its    *)
(* successful SC.D and its bookkeeping.                                       *)
CounterTracksRounds ==
  LET finished == (RoundsA - regs[1]) + (RoundsB - regs[11])
  IN  mem[Counter] - finished \in 0 .. 2

(* Under a period that leaves a thread room to run, both threads finish: the  *)
(* retry loop is not starved by the reservation the handler breaks.           *)
BothFinish == <>(regs[1] = 0 /\ regs[11] = 0)

===============================================================================
