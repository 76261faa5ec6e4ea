------------------------------- MODULE TrapProofs -------------------------------
(***************************************************************************)
(* Proofs about traps, for every software image that keeps the contract of *)
(* HartTraps: the separation of user and handler follows from one          *)
(* predicate on the control state that trap entry, the timer tick and trap *)
(* return each preserve.                                                   *)
(***************************************************************************)
EXTENDS HartTraps, HartProofs

-------------------------------------------------------------------------------
(* What a step can do to the control state.                                  *)

StraightOps == (RegisterOps \cup HintOps \cup OtherOps)
               \ {"LOOP_DECBR", "JMP", "TAILCALL", "JAL", "CALL", "JALR", "RET",
                  "INVALID", "TRAPRET"}

LEMMA FlowOf ==
  ASSUME ctl \in Ctl, NEW di \in Code(ctl.pc)
  PROVE  /\ di.op \in StraightOps => Advance(di) \in Flow(ctl.pc, di)
         /\ di.op \in BranchOps =>
              Wrap(ctl.pc + 4) \in Flow(ctl.pc, di) /\ Target(di) \in Flow(ctl.pc, di)
         /\ di.op = "LOOP_DECBR" =>
              Advance(di) \in Flow(ctl.pc, di) /\ Target(di) \in Flow(ctl.pc, di)
         /\ di.op \in {"JMP", "TAILCALL", "JAL", "CALL"} => Target(di) \in Flow(ctl.pc, di)
         /\ di.op \in {"JALR", "RET"} => Flow(ctl.pc, di) = Word
<1> USE DEF Flow, Advance, Target
<1>1. CASE di.op \in StraightOps
  BY <1>1 DEF StraightOps, RegisterOps, HintOps, BranchOps, TrapOps, OtherOps
<1>2. CASE di.op \in BranchOps
  BY <1>2 DEF BranchOps, TrapOps, StraightOps, RegisterOps, HintOps, OtherOps
<1>3. CASE di.op = "LOOP_DECBR"
  BY <1>3 DEF BranchOps, TrapOps, StraightOps
<1>4. CASE di.op \in {"JMP", "TAILCALL", "JAL", "CALL"}
  BY <1>4 DEF BranchOps, TrapOps, StraightOps
<1>5. CASE di.op \in {"JALR", "RET"}
  BY <1>5 DEF BranchOps, TrapOps, StraightOps
<1> QED
  BY <1>1, <1>2, <1>3, <1>4, <1>5

LEMMA Outcome ==
  ASSUME TypeOK, NEW di \in Code(ctl.pc), Execute(di)
  PROVE  \/ \E next \in Flow(ctl.pc, di) : Retire(next)
         \/ Signals(di) /\ (Raise(8) \/ Raise(9) \/ Raise(10))
         \/ ~Signals(di) /\ di.op # "INVALID" /\ Thrown
         \/ TrapReturn(di) \/ CsrRw(di) \/ Undecodable(di)
<1>1. ctl \in Ctl /\ regs \in [Regs -> Word]
  BY DEF TypeOK
<1>2. /\ di.op \in StraightOps => Advance(di) \in Flow(ctl.pc, di)
      /\ di.op \in BranchOps =>
           Wrap(ctl.pc + 4) \in Flow(ctl.pc, di) /\ Target(di) \in Flow(ctl.pc, di)
      /\ di.op = "LOOP_DECBR" =>
           Advance(di) \in Flow(ctl.pc, di) /\ Target(di) \in Flow(ctl.pc, di)
      /\ di.op \in {"JMP", "TAILCALL", "JAL", "CALL"} => Target(di) \in Flow(ctl.pc, di)
      /\ di.op \in {"JALR", "RET"} => Flow(ctl.pc, di) = Word
  BY <1>1, FlowOf
<1>3. di \in Instruction /\ 29 \in Regs /\ Wrap(ctl.pc + 4) \in Word
  BY <1>1, DecodedType, RegsAssumption
<1>4. CASE Hint(di) \/ RegisterOp(di) \/ LoopSet(di)
  BY <1>4, <1>2 DEF Hint, RegisterOp, LoopSet, StraightOps, HintOps, RegisterOps, OtherOps
<1>5. CASE Branch(di) \/ LoopDecBr(di)
  BY <1>5, <1>2 DEF Branch, LoopDecBr
<1>6. CASE Jump(di) \/ JumpAndLink(di)
  BY <1>6, <1>2 DEF Jump, JumpAndLink
<1>7. CASE JumpRegister(di)
  <2> DEFINE linked == WriteReg(regs, di.rd, Wrap(ctl.pc + 4))
             next == WordAlign(Wrap(linked[di.rs1] + di.imm))
  <2>1. linked \in [Regs -> Word]
    BY <1>3, WriteRegType DEF TypeOK, Instruction
  <2>2. linked[di.rs1] \in Int /\ di.imm \in Int
    BY <2>1, <1>3, WordIsInt DEF Instruction
  <2>3. linked[di.rs1] + di.imm \in Int
    BY <2>2
  <2>4. next \in Word
    BY <2>3, WrapType, WordIsInt
  <2> QED
    BY <1>7, <2>4, <1>2 DEF JumpRegister
<1>8. CASE Return(di)
  <2>1. WordAlign(regs[29]) \in Word
    BY <1>1, <1>3, WordIsInt
  <2> QED
    BY <1>8, <2>1, <1>2 DEF Return
<1>9. CASE Load(di) \/ Store(di) \/ LoadPair(di) \/ StorePair(di)
  BY <1>9, <1>2 DEF Load, Store, LoadPair, StorePair, StraightOps, OtherOps, Signals, TrapOps
<1>10. CASE Push(di) \/ Pop(di) \/ Enter(di) \/ Leave(di)
  BY <1>10, <1>2 DEF Push, Pop, Enter, Leave, StraightOps, OtherOps, Signals, TrapOps
<1>11. CASE LoadReserve(di) \/ StoreConditional(di)
  BY <1>11, <1>2 DEF LoadReserve, StoreConditional, StraightOps, OtherOps, Signals, TrapOps
<1>12. CASE LoadFromNull(di) \/ RaiseTrap(di)
  BY <1>12 DEF LoadFromNull, RaiseTrap, Signals
<1> QED
  BY <1>4, <1>5, <1>6, <1>7, <1>8, <1>9, <1>10, <1>11, <1>12 DEF Execute

-------------------------------------------------------------------------------
(* User and handler are kept apart.                                          *)

ControlOK(c) ==
  /\ c \in Ctl
  /\ c.stvec \in HandlerCode
  /\ c.privilege = 0 => c.pc \in UserCode /\ c.sie = UserSie
  /\ c.privilege = 1 =>
       /\ c.pc \in HandlerCode /\ c.sie = 0
       /\ \/ c.spp = 0 /\ c.sepc \in UserCode /\ c.spie = UserSie
          \/ c.spp = 1 /\ c.sepc \in HandlerCode /\ c.spie = 0

LEMMA TrapInvIsControlOK == TrapInv <=> TypeOK /\ ControlOK(ctl)
  BY DEF TrapInv, ControlOK, TypeOK, PrivilegeFollowsCode, HandlerMasked, UserKeepsSie,
         SavedContext, InUser, InHandler

LEMMA SignalTrapControl ==
  ASSUME NEW c, ControlOK(c), NEW cause \in Word, NEW value \in Word
  PROVE  ControlOK(SignalTrap(c, cause, value))
<1> DEFINE d == SignalTrap(c, cause, value)
<1>1. c \in Ctl /\ d \in Ctl
  BY SignalTrapType DEF ControlOK
<1>2. /\ d.pc = c.stvec /\ d.stvec = c.stvec /\ d.privilege = 1 /\ d.sie = 0
      /\ d.spp = c.privilege /\ d.sepc = c.pc /\ d.spie = c.sie
  BY <1>1 DEF SignalTrap, Ctl
<1>3. c.privilege = 0 \/ c.privilege = 1
  BY <1>1 DEF Ctl, Bit
<1> HIDE DEF d
<1> QED
  BY <1>1, <1>2, <1>3 DEF ControlOK, d

LEMMA TickTimerControl ==
  ASSUME NEW c, ControlOK(c)
  PROVE  ControlOK(TickTimer(c))
<1> DEFINE t == [c EXCEPT !.stime = (c.stime + 1) % TimeSize]
<1>1. c \in Ctl
  BY DEF ControlOK
<1>2. (c.stime + 1) % TimeSize \in Time
  BY <1>1, SizesAssumption DEF Ctl, Time
<1>3. ControlOK(t)
  BY <1>1, <1>2 DEF ControlOK, Ctl
<1>4. ControlOK(SignalTrap(t, TimerCause, 0))
  BY <1>3, SignalTrapControl, WordIsInt
<1> QED
  BY <1>3, <1>4 DEF TickTimer

LEMMA FlowControl ==
  ASSUME ControlOK(ctl), NEW di \in Code(ctl.pc), NEW next \in Flow(ctl.pc, di)
  PROVE  ControlOK([ctl EXCEPT !.pc = next])
<1>1. ctl.privilege = 0 \/ ctl.privilege = 1
  BY DEF ControlOK, Ctl, Bit
<1>2. CASE ctl.privilege = 0
  <2>1. next \in UserCode /\ next \in Word
    BY <1>2, ImageAssumption DEF ControlOK
  <2> QED
    BY <1>2, <2>1 DEF ControlOK, Ctl
<1>3. CASE ctl.privilege = 1
  <2>1. next \in HandlerCode /\ next \in Word
    BY <1>3, ImageAssumption DEF ControlOK
  <2> QED
    BY <1>3, <2>1 DEF ControlOK, Ctl
<1> QED
  BY <1>1, <1>2, <1>3

LEMMA ControlStep ==
  ASSUME TypeOK, ControlOK(ctl), NEW di \in Code(ctl.pc), Execute(di)
  PROVE  ControlOK(ctl')
<1>1. ctl \in Ctl /\ ctl.pc \in Word /\ regs \in [Regs -> Word]
  BY DEF TypeOK, Ctl
<1>2. CASE \E next \in Flow(ctl.pc, di) : Retire(next)
  BY <1>2, FlowControl, TickTimerControl DEF Retire
<1>3. CASE Raise(8) \/ Raise(9) \/ Raise(10)
  BY <1>3, <1>1, WordIsInt, SignalTrapControl, TickTimerControl DEF Raise
<1>4. CASE Thrown
  BY <1>4, <1>1, WordIsInt, SignalTrapControl DEF Thrown, ThrownCause
<1>5. CASE TrapReturn(di)
  <2> DEFINE r == [ctl EXCEPT !.sie = ctl.spie, !.privilege = ctl.spp, !.pc = ctl.sepc]
  <2>1. ctl.privilege = 1
    BY <1>5, <1>1, ImageAssumption DEF TrapReturn, ControlOK, Ctl, Bit
  <2>2. /\ r \in Ctl /\ r.stvec = ctl.stvec /\ r.pc = ctl.sepc /\ r.sie = ctl.spie
        /\ r.privilege = ctl.spp /\ r.spp = ctl.spp /\ r.sepc = ctl.sepc
        /\ r.spie = ctl.spie
    BY <1>1 DEF Ctl
  <2> HIDE DEF r
  <2>3. ControlOK(r)
    BY <2>1, <2>2 DEF ControlOK
  <2> QED
    BY <1>5, <2>3, TickTimerControl DEF TrapReturn, r
<1>6. CASE CsrRw(di)
  <2> DEFINE written == IF di.rs1 = 0 THEN ctl ELSE WriteCsr(di.imm, regs[di.rs1])
  <2>1. ctl.privilege = 1
    BY <1>6, <1>1, ImageAssumption DEF CsrRw, ControlOK, Ctl, Bit
  <2>2. /\ di.rs1 = 0 \/ di.imm \notin {0, 1, 2}
        /\ Flow(ctl.pc, di) \subseteq HandlerCode
    BY <1>6, <2>1, ImageAssumption DEF CsrRw, ControlOK
  <2>3. Advance(di) \in HandlerCode /\ Advance(di) \in Word
    BY <1>6, <1>1, <2>2, FlowOf, ImageAssumption DEF CsrRw, StraightOps, OtherOps
  <2>4. di \in Instruction /\ di.imm \in 0 .. 7
    BY <1>6, <1>1, DecodedType DEF CsrRw
  <2>5. written \in Ctl
    BY <2>4, <1>1, CsrType DEF Instruction
  <2>6. /\ written.stvec = ctl.stvec /\ written.privilege = ctl.privilege
        /\ written.sie = ctl.sie /\ written.spie = ctl.spie /\ written.spp = ctl.spp
        /\ written.sepc = ctl.sepc
    <3>1. CASE di.rs1 = 0
      BY <3>1
    <3>2. CASE di.imm \in 3 .. 7
      <4> DEFINE v == regs[di.rs1]
      <4>1. CASE di.rs1 # 0
        <5>1. \/ written = [ctl EXCEPT !.scause = v] \/ written = [ctl EXCEPT !.stval = v]
              \/ written = [ctl EXCEPT !.satp = v] \/ written = [ctl EXCEPT !.stimecmp = v]
              \/ written = ctl
          BY <3>2, <4>1 DEF WriteCsr
        <5> HIDE DEF written, v
        <5> QED
          BY <5>1, <1>1 DEF Ctl
      <4> QED
        BY <3>1, <4>1
    <3> QED
      BY <2>2, <2>4, <3>1, <3>2
  <2> HIDE DEF written
  <2>7. ControlOK([written EXCEPT !.pc = Advance(di)])
    BY <2>1, <2>3, <2>5, <2>6 DEF ControlOK, Ctl
  <2> QED
    BY <1>6, <2>7, TickTimerControl DEF CsrRw, written
<1>7. CASE Undecodable(di)
  BY <1>7, <1>1, WordIsInt, SignalTrapControl DEF Undecodable
<1> QED
  BY <1>2, <1>3, <1>4, <1>5, <1>6, <1>7, Outcome

LEMMA TrapInvariant == Spec => []TrapInv
<1>1. Init => TrapInv
  <2> SUFFICES ASSUME Init PROVE TypeOK /\ ControlOK(ctl)
    BY TrapInvIsControlOK
  <2>1. TypeOK
    BY TypeInit
  <2> QED
    BY <2>1, UserBootAssumption DEF Init, ControlOK, TypeOK
<1>2. TrapInv /\ [Step]_vars => TrapInv'
  <2> SUFFICES ASSUME TypeOK, ControlOK(ctl), [Step]_vars PROVE TypeOK' /\ ControlOK(ctl')
    BY TrapInvIsControlOK DEF TrapInv, ControlOK, TypeOK, PrivilegeFollowsCode,
       HandlerMasked, UserKeepsSie, SavedContext, InUser, InHandler
  <2>1. CASE Step
    BY <2>1, TypeStep, ControlStep DEF Step
  <2>2. CASE UNCHANGED vars
    BY <2>2 DEF vars, TypeOK
  <2> QED
    BY <2>1, <2>2
<1> QED
  BY <1>1, <1>2, PTL DEF Spec

(* User code runs in user mode and the handler in supervisor mode, for every *)
(* image that keeps the contract.                                            *)
THEOREM Separation == Spec => []PrivilegeFollowsCode
<1>1. TrapInv => PrivilegeFollowsCode
  BY DEF TrapInv
<1> QED
  BY <1>1, TrapInvariant, PTL

(* The handler is never interrupted by the timer, whatever faults nest in it. *)
THEOREM Masking == Spec => []HandlerMasked
<1>1. TrapInv => HandlerMasked
  BY DEF TrapInv
<1> QED
  BY <1>1, TrapInvariant, PTL

(* While the handler runs, sepc, SPP and SPIE describe one context.          *)
THEOREM ContextSaved == Spec => []SavedContext
<1>1. TrapInv => SavedContext
  BY DEF TrapInv
<1> QED
  BY <1>1, TrapInvariant, PTL

(* Back in user mode the timer interrupt is as enabled as it was at boot.    *)
THEOREM EnableKept == Spec => []UserKeepsSie
<1>1. TrapInv => UserKeepsSie
  BY DEF TrapInv
<1> QED
  BY <1>1, TrapInvariant, PTL

-------------------------------------------------------------------------------
(* What a step reports to the handler.                                       *)

LEMMA RaiseEffect ==
  ASSUME ctl \in Ctl, NEW cause \in {8, 9, 10}, Raise(cause)
  PROVE  /\ ctl'.sepc = ctl.pc /\ ctl'.scause = cause
         /\ ctl'.pc = ctl.stvec /\ ctl'.privilege = 1
         /\ Ticked
<1> DEFINE c == SignalTrap(ctl, cause, ctl.pc)
           t == [c EXCEPT !.stime = (c.stime + 1) % TimeSize]
<1>1. /\ c.sie = 0 /\ c.sepc = ctl.pc /\ c.scause = cause
      /\ c.pc = ctl.stvec /\ c.privilege = 1 /\ c.stime = ctl.stime
  BY DEF SignalTrap, Ctl
<1>2. c \in Ctl
  BY SignalTrapType, WordIsInt, SizesAssumption, ZenonT(60) DEF Ctl, Word
<1> HIDE DEF c
<1>3. t.sie = 0
  BY <1>1, <1>2 DEF Ctl
<1>4. ctl' = t
  BY <1>3 DEF Raise, TickTimer, c
<1> QED
  BY <1>1, <1>2, <1>4 DEF Ctl, Ticked

(* The tick of the step that raised an exception never interrupts it.        *)
THEOREM ExceptionsReported == Spec => ExceptionSurvivesTick
<1>1. TypeOK /\ [Step]_vars =>
        [\A di \in Code(ctl.pc) :
           RaiseTrap(di) \/ LoadFromNull(di) =>
             /\ ctl'.sepc = ctl.pc
             /\ ctl'.scause \in {8, 9, 10}
             /\ ctl'.pc = ctl.stvec]_vars
  <2> SUFFICES ASSUME TypeOK, NEW di \in Code(ctl.pc), RaiseTrap(di) \/ LoadFromNull(di)
               PROVE  ctl'.sepc = ctl.pc /\ ctl'.scause \in {8, 9, 10} /\ ctl'.pc = ctl.stvec
    OBVIOUS
  <2>1. PICK cause \in {8, 9, 10} : Raise(cause)
    BY DEF RaiseTrap, LoadFromNull
  <2> QED
    BY <2>1, RaiseEffect DEF TypeOK
<1> QED
  BY <1>1, TypeCorrect, PTL DEF Spec, ExceptionSurvivesTick

(* The handler is entered from user code with the context that lets it       *)
(* resume exactly there, and the step has ticked unless its access threw or  *)
(* it was not decoded.                                                       *)
THEOREM EntryExact == Spec => EntryIsExact
<1>1. TrapInv /\ [Step]_vars =>
        [\A di \in Code(ctl.pc) : InUser /\ InHandler' /\ Execute(di) =>
           InterruptedAfter(di) \/ Signalled(di) \/ Refused(di)]_vars
  <2> SUFFICES ASSUME TrapInv, InUser, InHandler', NEW di \in Code(ctl.pc), Execute(di)
               PROVE  InterruptedAfter(di) \/ Signalled(di) \/ Refused(di)
    OBVIOUS
  <2>1. TypeOK /\ ctl \in Ctl /\ ctl.privilege = 0 /\ ctl'.privilege = 1
    BY DEF TrapInv, TypeOK, InUser, InHandler
  <2>2. di.op \notin {"CSRRW", "TRAPRET"}
    BY <2>1, ImageAssumption DEF TrapInv, PrivilegeFollowsCode, InUser
  <2>3. CASE \E next \in Flow(ctl.pc, di) : Retire(next)
    <3> PICK next \in Flow(ctl.pc, di) : Retire(next)
      BY <2>3
    <3> DEFINE t == [[ctl EXCEPT !.pc = next] EXCEPT !.stime = (@ + 1) % TimeSize]
    <3>1. t.privilege = 0 /\ t.pc = next /\ t.stime = (ctl.stime + 1) % TimeSize
      BY <2>1 DEF Ctl
    <3>2. ctl' = SignalTrap(t, TimerCause, 0) \/ ctl' = t
      BY <2>1 DEF Retire, TickTimer, Ctl
    <3> HIDE DEF t
    <3>3. ctl' = SignalTrap(t, TimerCause, 0)
      BY <2>1, <3>1, <3>2
    <3>4. ctl'.scause = TimerCause /\ ctl'.sepc = t.pc /\ ctl'.stime = t.stime
      BY <2>1, <3>3 DEF SignalTrap, Ctl, t
    <3> QED
      BY <3>1, <3>4 DEF Ticked, InterruptedAfter
  <2>4. CASE Signals(di) /\ (Raise(8) \/ Raise(9) \/ Raise(10))
    BY <2>1, <2>4, RaiseEffect DEF Signalled
  <2>5. CASE ~Signals(di) /\ di.op # "INVALID" /\ Thrown
    BY <2>1, <2>5 DEF Refused, Thrown, SignalTrap, Ctl
  <2>6. CASE Undecodable(di)
    <3>1. di.op = "INVALID" /\ ~Signals(di)
      BY <2>6 DEF Undecodable, Signals, TrapOps
    <3> QED
      BY <2>1, <2>6, <3>1 DEF Refused, Undecodable, SignalTrap, Ctl
  <2> QED
    BY <2>1, <2>2, <2>3, <2>4, <2>5, <2>6, Outcome DEF TrapReturn, CsrRw
<1> QED
  BY <1>1, TrapInvariant, PTL DEF Spec, EntryIsExact

===============================================================================
