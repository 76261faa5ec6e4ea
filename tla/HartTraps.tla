------------------------------- MODULE HartTraps -------------------------------
(***************************************************************************)
(* The hart under a software image made of user code and a trap handler.   *)
(* The image keeps a contract: user code does not touch the CSRs and does  *)
(* not run off its own addresses; the handler leaves only by TRAPRET and   *)
(* writes none of sstatus, stvec and sepc.  Under that contract the trap   *)
(* machinery of executor.cpp must keep user and handler apart, however     *)
(* exceptions, faults inside the handler and timer interrupts interleave.  *)
(***************************************************************************)
EXTENDS Hart

CONSTANTS UserCode,      (* the addresses of the user code's instructions *)
          HandlerCode,   (* the addresses of the handler's instructions   *)
          UserSie        (* the interrupt enable the user code runs with  *)

(* Where an instruction at address a may leave the pc when it traps nowhere. *)
Flow(a, di) ==
  CASE di.op \in BranchOps -> {Wrap(a + 4), Wrap(a + 4 * di.imm)}
    [] di.op = "LOOP_DECBR" -> {Wrap(a + di.len), Wrap(a + 4 * di.imm)}
    [] di.op \in {"JMP", "TAILCALL", "JAL", "CALL"} -> {Wrap(a + 4 * di.imm)}
    [] di.op \in TrapOps \cup {"INVALID", "TRAPRET"} -> {}
    [] di.op \in {"JALR", "RET"} -> Word
    [] OTHER -> {Wrap(a + di.len)}

ASSUME ImageAssumption ==
  /\ UserCode \subseteq Word /\ HandlerCode \subseteq Word
  /\ UserCode \cap HandlerCode = {}
  /\ \A a \in UserCode : \A di \in Code(a) :
       Flow(a, di) \subseteq UserCode /\ di.op \notin {"CSRRW", "TRAPRET"}
  /\ \A a \in HandlerCode : \A di \in Code(a) :
       /\ Flow(a, di) \subseteq HandlerCode
       /\ di.op = "CSRRW" => di.rs1 = 0 \/ di.imm \notin {0, 1, 2}

(* The host starts the image in user mode with stvec at the handler. *)
ASSUME UserBootAssumption ==
  /\ UserSie \in Bit
  /\ \A c \in BootCtl : /\ c.pc \in UserCode /\ c.stvec \in HandlerCode
                        /\ c.privilege = 0 /\ c.sie = UserSie

-------------------------------------------------------------------------------
InUser    == ctl.privilege = 0
InHandler == ctl.privilege = 1

(* The hart executes user code in user mode and the handler in supervisor    *)
(* mode, and nothing else: signal_trap and TRAPRET switch the pc and the     *)
(* privilege level together, whatever traps, nested faults and timer         *)
(* interrupts come between them.                                             *)
PrivilegeFollowsCode ==
  /\ InUser => ctl.pc \in UserCode
  /\ InHandler => ctl.pc \in HandlerCode

(* The handler is never interrupted by the timer: SIE stays clear from the   *)
(* trap to its TRAPRET, also when an exception inside the handler saves and  *)
(* restores it through SPIE.                                                 *)
HandlerMasked == InHandler => ctl.sie = 0

(* User code always runs with the interrupt enable it was started with: no   *)
(* sequence of traps and returns leaves the timer masked for good.           *)
UserKeepsSie == InUser => ctl.sie = UserSie

(* While the handler runs, sepc and sstatus describe one and the same        *)
(* interrupted context: a user instruction to return to in user mode with    *)
(* the user's interrupt enable, or, after a fault of the handler itself, a   *)
(* handler instruction to return to in supervisor mode, masked.              *)
SavedContext ==
  InHandler =>
    \/ ctl.spp = 0 /\ ctl.sepc \in UserCode /\ ctl.spie = UserSie
    \/ ctl.spp = 1 /\ ctl.sepc \in HandlerCode /\ ctl.spie = 0

(* The invariant the proofs carry. *)
TrapInv ==
  /\ TypeOK
  /\ ctl.stvec \in HandlerCode
  /\ PrivilegeFollowsCode /\ HandlerMasked /\ UserKeepsSie /\ SavedContext

(* An exception an instruction signals (ECALL, BREAK, LD.D.NZ of null) is    *)
(* what the handler sees: the timer tick at the end of the same step never   *)
(* replaces its cause or its sepc by those of an interrupt.                  *)
ExceptionSurvivesTick ==
  [][\A di \in Code(ctl.pc) :
       RaiseTrap(di) \/ LoadFromNull(di) =>
         /\ ctl'.sepc = ctl.pc
         /\ ctl'.scause \in {8, 9, 10}
         /\ ctl'.pc = ctl.stvec]_vars

(* The instructions that signal a trap themselves and return.                *)
Signals(di) == di.op \in TrapOps \/ (di.op = "LD_D_NZ" /\ regs[di.rs1] = 0)

Ticked == ctl'.stime = (ctl.stime + 1) % TimeSize

(* The three ways a step of user code enters the handler: the instruction    *)
(* completed and the tick interrupts its successor; it signalled a trap      *)
(* itself; its access threw, or the decoder rejected it.                     *)
InterruptedAfter(di) ==
  ctl'.scause = TimerCause /\ ctl'.sepc \in Flow(ctl.pc, di) /\ Ticked
Signalled(di) ==
  Signals(di) /\ ctl'.scause \in {8, 9, 10} /\ ctl'.sepc = ctl.pc /\ Ticked
Refused(di) ==
  /\ ~Signals(di)
  /\ ctl'.scause = (IF di.op = "INVALID" THEN 9 ELSE ThrownCause)
  /\ ctl'.sepc = ctl.pc /\ ctl'.stime = ctl.stime

(* Entering the handler from user code loses no instruction and repeats      *)
(* none: an interrupt resumes at a successor of the instruction that         *)
(* completed, anything else at the instruction itself.  An interrupt and a   *)
(* trap that the instruction signalled (executor.cpp:966) have ticked, once; *)
(* an access that threw and an instruction that was not decoded have not.    *)
EntryIsExact ==
  [][\A di \in Code(ctl.pc) : InUser /\ InHandler' /\ Execute(di) =>
       InterruptedAfter(di) \/ Signalled(di) \/ Refused(di)]_vars

===============================================================================
