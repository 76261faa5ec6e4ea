------------------------------ MODULE Transparency ------------------------------
(***************************************************************************)
(* A user program that calls a function from a hardware loop, interrupted  *)
(* at every possible instruction by a timer whose handler programs the     *)
(* next interrupt and returns.  What the user program does is the          *)
(* behaviour of a hart whose timer is off: the abstract specification is   *)
(* Hart itself with a stime that never advances, and the refinement maps a *)
(* hart inside the handler to the user state it will return to.            *)
(***************************************************************************)
EXTENDS Hart

CONSTANTS StackTop,   (* initial stack pointer                      *)
          Counts,     (* how often the loop body may be asked to run *)
          Periods     (* distances the handler programs the timer at *)

ProgRegs == {0, 1, 2, 3, 28, 29, 30, 31}

I(op, rd, rs1, rs2, imm) ==
  [op |-> op, rd |-> rd, rs1 |-> rs1, rs2 |-> rs2, imm |-> imm, len |-> 4]
Esc(i) == [i EXCEPT !.len = 8]

(* r1: the count asked for; r2: calls made; r3: value carried through the stack. *)
ProgCode(a) ==
  CASE a = 0   -> {Esc(I("LOOP_SET", 0, 1, 0, -2))}
    [] a = 8   -> {Esc(I("CALL", 29, 0, 0, 6)), I("JALR", 29, 0, 0, 32)}   (* to 32 *)
    [] a = 12  -> {I("NOP", 0, 0, 0, 0)}
    [] a = 16  -> {Esc(I("LOOP_DECBR", 0, 0, 0, -2))}     (* back to 8    *)
    [] a = 24  -> {I("JMP", 0, 0, 0, 0)}                  (* done         *)
    [] a = 32  -> {Esc(I("ENTER", 0, 0, 0, 0))}
    [] a = 40  -> {I("ADDI", 2, 2, 0, 1)}
    [] a = 44  -> {I("PUSH", 2, 0, 0, 0)}
    [] a = 48  -> {Esc(I("FRAME", 3, 0, 0, -8))}
    [] a = 56  -> {I("LD_D", 3, 3, 0, 0)}
    [] a = 60  -> {Esc(I("ADJSP", 0, 0, 0, 8))}
    [] a = 68  -> {Esc(I("LEAVE", 0, 0, 0, 0))}
    [] a = 76  -> {I("RET", 0, 0, 0, 0)}
    [] a = 128 -> {Esc(I("CSRRW", 28, 0, 0, 6))}
    [] a = 136 -> {I("ADDI", 28, 28, 0, p) : p \in Periods}
    [] a = 140 -> {Esc(I("CSRRW", 0, 28, 0, 7))}
    [] a = 148 -> {Esc(I("TRAPRET", 0, 0, 0, 0))}
    [] OTHER   -> {}

ProgBootRegs == {[r \in ProgRegs |-> CASE r = 1 -> n [] r = 31 -> StackTop [] OTHER -> 0] :
                   n \in Counts}
ProgBootCtl  == {[pc |-> 0, privilege |-> 0, trap_pending |-> FALSE,
                  sie |-> 1, spie |-> 0, spp |-> 0,
                  stvec |-> 128, sepc |-> 0, scause |-> 0, stval |-> 0, satp |-> 0,
                  stime |-> 0, stimecmp |-> t] : t \in Periods}

(* The hart runs this image from its start, on a stack with room for the      *)
(* frame and the pushed value; the rest of memory may hold anything.          *)
ASSUME ProgAssumption ==
  /\ Regs = ProgRegs /\ ReadOnly = {}
  /\ \A a \in Word : Code(a) = ProgCode(a)
  /\ BootRegs = ProgBootRegs /\ BootCtl = ProgBootCtl
  /\ Counts \subseteq Word
  /\ StackTop \in Word /\ Aligned(StackTop)
  /\ {StackTop - 8, StackTop - 16, StackTop - 24} \subseteq Cells

-------------------------------------------------------------------------------
(* The user's view of the state: inside the handler the pc is where it will   *)
(* return to, and the CSRs and the handler's register are not seen.           *)
QuietCtl(a) == [pc |-> a, privilege |-> 0, trap_pending |-> FALSE,
                sie |-> 0, spie |-> 0, spp |-> 0,
                stvec |-> 0, sepc |-> 0, scause |-> 0, stval |-> 0, satp |-> 0,
                stime |-> 0, stimecmp |-> 0]
UserCtl  == QuietCtl(IF ctl.privilege = 0 THEN ctl.pc ELSE ctl.sepc)
UserRegs == [regs EXCEPT ![28] = 0]

Quiet == INSTANCE Hart WITH
           TimeSize <- 1,
           BootCtl  <- {QuietCtl(0)},
           ctl      <- UserCtl,
           regs     <- UserRegs

(* Timer interrupts are transparent: with the handler's steps taken as        *)
(* stuttering, each step of the interrupted program is the step the program   *)
(* takes on a hart without a timer, so no instruction is lost, repeated or    *)
(* run with another's registers, memory or loop counter.                      *)
InterruptsTransparent == Quiet!Spec

AtLoop == ctl.privilege = 0 /\ ctl.pc \in {0, 8, 12, 16, 24}

(* Outside the function the frame is balanced: ENTER, PUSH, ADJSP and LEAVE   *)
(* have given the stack and frame pointers back.                              *)
FrameBalanced == AtLoop => regs[31] = StackTop /\ regs[30] = 0

(* The hardware loop runs its body as often as it was asked to, whatever     *)
(* interrupts fall between the count and the branch; the value pushed is the *)
(* value found through the frame pointer.  A count of 0 is left open: the    *)
(* instruction set has it wrap, executor.cpp:605 has it run the body once.   *)
LoopRunsExactly ==
  ctl.privilege = 0 /\ ctl.pc = 24 =>
    /\ regs[1] # 0 => regs[2] = regs[1]
    /\ regs[3] = regs[2]

(* The program finishes although interrupts keep coming, as long as each      *)
(* period outlasts the handler.                                               *)
ProgramFinishes == <>(ctl.privilege = 0 /\ ctl.pc = 24)

===============================================================================
