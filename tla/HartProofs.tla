------------------------------- MODULE HartProofs -------------------------------
(***************************************************************************)
(* Proofs about the hart, for every word size, every register file, every  *)
(* memory and every software image.  Type correctness comes first; from it *)
(* follows what an instruction whose memory access throws leaves behind.   *)
(***************************************************************************)
EXTENDS HartFaults, TLAPS

-------------------------------------------------------------------------------
(* Words, registers and the control state.                                   *)

LEMMA WrapType == \A n \in Int : Wrap(n) \in Word
  BY SizesAssumption DEF Wrap, Word

LEMMA WordIsInt == /\ Word \subseteq Int
                   /\ \A w \in Word : WordAlign(w) \in Word
                   /\ {0, 1, 2, 8, 9, 10, TimerCause} \subseteq Word
  BY SizesAssumption DEF Word, WordAlign, TimerCause

LEMMA WriteRegType ==
  ASSUME NEW r \in [Regs -> Word], r[0] = 0, NEW i \in Regs, NEW v \in Word
  PROVE  WriteReg(r, i, v) \in [Regs -> Word] /\ WriteReg(r, i, v)[0] = 0
  BY RegsAssumption DEF WriteReg

LEMMA GotoType ==
  ASSUME NEW c \in Ctl, NEW next \in Word
  PROVE  [c EXCEPT !.pc = next] \in Ctl
  BY DEF Ctl

LEMMA SignalTrapType ==
  ASSUME NEW c \in Ctl, NEW cause \in Word, NEW value \in Word
  PROVE  SignalTrap(c, cause, value) \in Ctl
  BY DEF SignalTrap, Ctl, Bit

LEMMA TickTimerType ==
  ASSUME NEW c \in Ctl
  PROVE  TickTimer(c) \in Ctl
<1> DEFINE t == [c EXCEPT !.stime = (c.stime + 1) % TimeSize]
<1>1. (c.stime + 1) % TimeSize \in Time
  BY SizesAssumption DEF Ctl, Time
<1>2. t \in Ctl
  BY <1>1 DEF Ctl
<1>3. SignalTrap(t, TimerCause, 0) \in Ctl
  BY <1>2, WordIsInt, SignalTrapType
<1> QED
  BY <1>2, <1>3 DEF TickTimer

LEMMA RetireType ==
  ASSUME ctl \in Ctl, NEW next \in Word, Retire(next)
  PROVE  ctl' \in Ctl
  BY GotoType, TickTimerType DEF Retire

LEMMA RaiseType ==
  ASSUME ctl \in Ctl, NEW cause \in Word, Raise(cause)
  PROVE  ctl' \in Ctl
<1>1. SignalTrap(ctl, cause, ctl.pc) \in Ctl
  BY SignalTrapType DEF Ctl
<1> QED
  BY <1>1, TickTimerType DEF Raise

LEMMA ThrownType ==
  ASSUME ctl \in Ctl, Thrown
  PROVE  ctl' \in Ctl
  BY SignalTrapType, WordIsInt DEF Thrown, ThrownCause, Ctl

LEMMA CsrType ==
  ASSUME ctl \in Ctl, NEW n \in 0 .. 7, NEW v \in Word
  PROVE  ReadCsr(n) \in Word /\ WriteCsr(n, v) \in Ctl
<1>1. ctl.sie + 2 * ctl.spie + 256 * ctl.spp \in Word
  <2>1. ctl.sie \in 0 .. 1 /\ ctl.spie \in 0 .. 1 /\ ctl.spp \in 0 .. 1
    BY DEF Ctl, Bit
  <2>2. \A a, b, c \in 0 .. 1 : a + 2 * b + 256 * c \in 0 .. 511
    OBVIOUS
  <2> QED
    BY <2>1, <2>2, SizesAssumption DEF Word
<1>2. Time \subseteq Word
  BY SizesAssumption DEF Time, Word
<1>3. ReadCsr(n) \in Word
  BY <1>1, <1>2 DEF ReadCsr, Ctl
<1>4. v % 2 \in Bit /\ (v \div 2) % 2 \in Bit /\ (v \div 256) % 2 \in Bit
  BY DEF Word, Bit
<1>5. WriteCsr(n, v) \in Ctl
  <2>1. [ctl EXCEPT !.sie = v % 2, !.spie = (v \div 2) % 2, !.spp = (v \div 256) % 2] \in Ctl
    <3>1. \A a, b, c \in Bit : [ctl EXCEPT !.sie = a, !.spie = b, !.spp = c] \in Ctl
      BY DEF Ctl
    <3> QED
      BY <1>4, <3>1, Zenon
  <2>2. /\ [ctl EXCEPT !.stvec = v] \in Ctl /\ [ctl EXCEPT !.sepc = v] \in Ctl
        /\ [ctl EXCEPT !.scause = v] \in Ctl /\ [ctl EXCEPT !.stval = v] \in Ctl
        /\ [ctl EXCEPT !.satp = v] \in Ctl /\ [ctl EXCEPT !.stimecmp = v] \in Ctl
    BY DEF Ctl
  <2> QED
    BY <2>1, <2>2 DEF WriteCsr
<1> QED
  BY <1>3, <1>5

LEMMA DecodedType ==
  ASSUME ctl \in Ctl, NEW di \in Code(ctl.pc)
  PROVE  /\ di \in Instruction
         /\ di.op = "CSRRW" => di.imm \in 0 .. 7
         /\ Advance(di) \in Word /\ Target(di) \in Word
         /\ Wrap(ctl.pc + 4) \in Word
<1>1. di \in Instruction /\ (di.op = "CSRRW" => di.imm \in 0 .. 7) /\ ctl.pc \in Word
  BY CodeAssumption DEF Ctl
<1>2. ctl.pc \in Int /\ di.len \in Int /\ di.imm \in Int
  <2>1. ctl.pc \in Int
    BY <1>1, WordIsInt
  <2>2. di.len \in {4, 8} /\ di.imm \in Int
    BY <1>1 DEF Instruction
  <2> QED
    BY <2>1, <2>2
<1>3. ctl.pc + di.len \in Int /\ ctl.pc + 4 * di.imm \in Int /\ ctl.pc + 4 \in Int
  BY <1>2
<1> QED
  BY <1>1, <1>3, WrapType DEF Advance, Target

LEMMA ResultType ==
  ASSUME TypeOK, NEW di \in Instruction, di.op \in RegisterOps
  PROVE  Result(di) \in Word /\ Dest(di) \in Regs
<1>1. Dest(di) \in Regs
  BY RegsAssumption DEF Dest, Instruction
<1>2. regs[di.rs1] \in Word /\ regs[di.rs2] \in Word /\ regs[30] \in Word /\ regs[31] \in Word
  BY RegsAssumption DEF Instruction, TypeOK
<1>3. di.imm \in Int /\ \A a, b \in Word : a \in Int /\ b \in Int
  BY WordIsInt DEF Instruction
<1>4. /\ regs[di.rs1] + di.imm \in Int /\ regs[30] + di.imm \in Int
      /\ regs[31] + di.imm \in Int /\ regs[di.rs1] + regs[di.rs2] \in Int
      /\ regs[di.rs1] - regs[di.rs2] \in Int /\ regs[di.rs1] * regs[di.rs2] \in Int
  BY <1>2, <1>3
<1>5. Result(di) \in Word
  <2>1. CASE di.op \in {"MOV", "RETAIN", "CHK_B", "RELEASE", "ALLOC_BUMP", "RDPROF"}
    BY <2>1, <1>2, WordIsInt DEF Result
  <2>2. CASE di.op \in {"ADDI", "LDA", "FRAME", "ADJSP"}
    BY <2>2, <1>4, WrapType DEF Result
  <2>3. CASE di.op \in {"ADD", "SUB", "MUL"}
    BY <2>3, <1>4, WrapType DEF Result
  <2>4. CASE di.op \in {"CMPEQ", "CMPNE", "CMPLT", "CMPLE"}
    BY <2>4, WordIsInt DEF Result, Truth
  <2> QED
    BY <2>1, <2>2, <2>3, <2>4 DEF RegisterOps
<1> QED
  BY <1>1, <1>5

-------------------------------------------------------------------------------
(* Type correctness, one step per action.                                    *)

LEMMA TypeInit == Init => TypeOK
<1> SUFFICES ASSUME Init PROVE TypeOK
  OBVIOUS
<1>1. 0 \in Word
  BY WordIsInt
<1> QED
  BY <1>1, BootAssumption DEF Init, TypeOK

LEMMA TypeStep ==
  ASSUME TypeOK, NEW di \in Code(ctl.pc), Execute(di)
  PROVE  TypeOK'
<1> USE DEF TypeOK
<1>1. /\ di \in Instruction /\ (di.op = "CSRRW" => di.imm \in 0 .. 7)
      /\ Advance(di) \in Word /\ Target(di) \in Word /\ Wrap(ctl.pc + 4) \in Word
  BY DecodedType
<1>2. /\ di.rd \in Regs /\ di.rs1 \in Regs /\ di.rs2 \in Regs /\ di.imm \in Int
      /\ {0, 29, 30, 31} \subseteq Regs
  BY <1>1, RegsAssumption DEF Instruction
<1>3. /\ \A r \in Regs : regs[r] \in Word /\ regs[r] \in Int
      /\ \A a \in Cells : mem[a] \in Word /\ a \in Word
  BY WordIsInt, CellsAssumption
<1>4. /\ \A a \in Word : Wrap(a + 8) \in Word /\ Wrap(a + 16) \in Word
                        /\ Wrap(a - 8) \in Word /\ Wrap(a - 16) \in Word
                        /\ \A n \in Int : Wrap(a + n) \in Word /\ Wrap(a - n) \in Word
  <2>1. \A a \in Word : a \in Int
    BY WordIsInt
  <2>2. \A a, n \in Int : a + n \in Int /\ a - n \in Int
    OBVIOUS
  <2> QED
    BY <2>1, <2>2, WrapType
<1>5. EffectiveAddress(di) \in Word
  BY <1>2, <1>3, <1>4 DEF EffectiveAddress
<1>6. CASE Hint(di)
  BY <1>6, <1>1, RetireType DEF Hint
<1>7. CASE RegisterOp(di)
  BY <1>7, <1>1, ResultType, WriteRegType, RetireType DEF RegisterOp
<1>8. CASE Branch(di)
  BY <1>8, <1>1, RetireType DEF Branch
<1>9. CASE Jump(di)
  BY <1>9, <1>1, RetireType DEF Jump
<1>10. CASE JumpAndLink(di)
  BY <1>10, <1>1, <1>2, WriteRegType, RetireType DEF JumpAndLink
<1>11. CASE JumpRegister(di)
  <2> DEFINE linked == WriteReg(regs, di.rd, Wrap(ctl.pc + 4))
  <2>1. linked \in [Regs -> Word] /\ linked[0] = 0
    BY <1>1, <1>2, WriteRegType
  <2>2. WordAlign(Wrap(linked[di.rs1] + di.imm)) \in Word
    BY <2>1, <1>2, <1>4, WordIsInt
  <2> QED
    BY <1>11, <2>1, <2>2, RetireType DEF JumpRegister
<1>12. CASE Return(di)
  BY <1>12, <1>2, <1>3, WordIsInt, RetireType DEF Return
<1>13. CASE LoopSet(di)
  BY <1>13, <1>1, <1>2, <1>3, WrapType, RetireType DEF LoopSet
<1>14. CASE LoopDecBr(di)
  <2>1. loop.count \in Word /\ (loop.count # 0 => loop.count - 1 \in Word)
    BY SizesAssumption DEF Word
  <2>2. loop' \in [count : Word, backedge : Word]
    BY <1>14, <2>1 DEF LoopDecBr
  <2> QED
    BY <1>14, <2>2, <1>1, RetireType DEF LoopDecBr
<1>15. CASE Load(di)
  <2>1. Readable(EffectiveAddress(di)) => mem[EffectiveAddress(di)] \in Word
    BY <1>3 DEF Readable
  <2>2. Readable(EffectiveAddress(di)) =>
          WriteReg(regs, di.rd, mem[EffectiveAddress(di)]) \in [Regs -> Word]
          /\ WriteReg(regs, di.rd, mem[EffectiveAddress(di)])[0] = 0
    BY <2>1, <1>2, WriteRegType
  <2>3. regs' \in [Regs -> Word] /\ regs'[0] = 0
    BY <1>15, <2>2 DEF Load
  <2>4. ctl' \in Ctl
    BY <1>15, <1>1, RetireType, ThrownType DEF Load
  <2> QED
    BY <1>15, <2>3, <2>4 DEF Load
<1>16. CASE LoadFromNull(di)
  BY <1>16, WordIsInt, RaiseType DEF LoadFromNull
<1>17. CASE Store(di)
  BY <1>17, <1>1, <1>2, <1>3, RetireType, ThrownType DEF Store
<1>18. CASE LoadPair(di)
  <2> DEFINE lo == regs[di.rs2]
             hi == Wrap(lo + 8)
             first == WriteReg(regs, di.rd, mem[lo])
  <2>1. Readable(lo) => first \in [Regs -> Word] /\ first[0] = 0
    BY <1>2, <1>3, WriteRegType DEF Readable
  <2>2. Readable(lo) /\ Readable(hi) =>
          WriteReg(first, di.rs1, mem[hi]) \in [Regs -> Word]
          /\ WriteReg(first, di.rs1, mem[hi])[0] = 0
    <3>1. Readable(hi) => mem[hi] \in Word
      BY <1>3 DEF Readable
    <3> HIDE DEF first, hi
    <3> QED
      BY <2>1, <3>1, <1>2, WriteRegType
  <2>3. regs' \in [Regs -> Word] /\ regs'[0] = 0
    BY <1>18, <2>1, <2>2 DEF LoadPair
  <2>4. ctl' \in Ctl
    BY <1>18, <1>1, RetireType, ThrownType DEF LoadPair
  <2> QED
    BY <1>18, <2>3, <2>4 DEF LoadPair
<1>19. CASE StorePair(di)
  <2>1. ctl' \in Ctl
    BY <1>19, <1>1, RetireType, ThrownType DEF StorePair
  <2>2. mem' \in [Cells -> Word]
    BY <1>19, <1>2, <1>3 DEF StorePair
  <2> QED
    BY <1>19, <2>1, <2>2 DEF StorePair
<1>20. CASE Push(di)
  <2> DEFINE sp == Wrap(regs[31] - 8)
             moved == WriteReg(regs, 31, sp)
  <2>1. moved \in [Regs -> Word] /\ moved[0] = 0
    BY <1>2, <1>3, <1>4, WriteRegType
  <2>2. mem' \in [Cells -> Word]
    BY <1>20, <2>1, <1>2 DEF Push
  <2>3. ctl' \in Ctl
    BY <1>20, <1>1, RetireType, ThrownType DEF Push
  <2> QED
    BY <1>20, <2>1, <2>2, <2>3 DEF Push
<1>21. CASE Pop(di)
  <2> DEFINE loaded == WriteReg(regs, di.rd, mem[regs[31]])
  <2>1. Readable(regs[31]) => loaded \in [Regs -> Word] /\ loaded[0] = 0
    BY <1>2, <1>3, WriteRegType DEF Readable
  <2>2. Readable(regs[31]) => Wrap(loaded[31] + 8) \in Word
    BY <2>1, <1>2, <1>4
  <2>3. Readable(regs[31]) =>
          WriteReg(loaded, 31, Wrap(loaded[31] + 8)) \in [Regs -> Word]
          /\ WriteReg(loaded, 31, Wrap(loaded[31] + 8))[0] = 0
    <3> SUFFICES ASSUME Readable(regs[31])
                 PROVE  WriteReg(loaded, 31, Wrap(loaded[31] + 8)) \in [Regs -> Word]
                        /\ WriteReg(loaded, 31, Wrap(loaded[31] + 8))[0] = 0
      OBVIOUS
    <3> DEFINE top == Wrap(loaded[31] + 8)
    <3>1. loaded \in [Regs -> Word] /\ loaded[0] = 0 /\ top \in Word
      BY <2>1, <2>2
    <3> HIDE DEF loaded, top
    <3>2. WriteReg(loaded, 31, top) \in [Regs -> Word] /\ WriteReg(loaded, 31, top)[0] = 0
      BY <3>1, <1>2, WriteRegType
    <3> QED
      BY <3>2 DEF top
  <2>4. regs' \in [Regs -> Word] /\ regs'[0] = 0
    BY <1>21, <2>3 DEF Pop
  <2>5. ctl' \in Ctl
    BY <1>21, <1>1, RetireType, ThrownType DEF Pop
  <2> QED
    BY <1>21, <2>4, <2>5 DEF Pop
<1>22. CASE Enter(di)
  <2> DEFINE fp == Wrap(regs[31] - 16)
             framed == WriteReg(regs, 30, fp)
  <2>1. fp \in Word /\ Wrap(fp - di.imm) \in Word
    BY <1>2, <1>3, <1>4
  <2>2. framed \in [Regs -> Word] /\ framed[0] = 0
    BY <2>1, <1>2, WriteRegType
  <2>3. WriteReg(framed, 31, Wrap(fp - di.imm)) \in [Regs -> Word]
        /\ WriteReg(framed, 31, Wrap(fp - di.imm))[0] = 0
    BY <2>1, <2>2, <1>2, WriteRegType
  <2>4. mem' \in [Cells -> Word]
    BY <1>22, <1>2, <1>3 DEF Enter
  <2>5. ctl' \in Ctl
    BY <1>22, <1>1, RetireType, ThrownType DEF Enter
  <2> QED
    BY <1>22, <2>3, <2>4, <2>5 DEF Enter
<1>23. CASE Leave(di)
  <2> DEFINE fp == regs[30]
             hi == Wrap(fp + 8)
             returned == WriteReg(regs, 29, mem[fp])
             framed == WriteReg(returned, 30, mem[hi])
  <2>1. Readable(fp) => returned \in [Regs -> Word] /\ returned[0] = 0
    BY <1>2, <1>3, WriteRegType DEF Readable
  <2>2. Readable(fp) /\ Readable(hi) => framed \in [Regs -> Word] /\ framed[0] = 0
    BY <2>1, <1>2, <1>3, WriteRegType DEF Readable
  <2>3. Wrap(fp + 16) \in Word
    BY <1>2, <1>3, <1>4
  <2>4. Readable(fp) /\ Readable(hi) =>
          WriteReg(framed, 31, Wrap(fp + 16)) \in [Regs -> Word]
          /\ WriteReg(framed, 31, Wrap(fp + 16))[0] = 0
    BY <2>2, <2>3, <1>2, WriteRegType, ZenonT(60)
  <2>5. regs' \in [Regs -> Word] /\ regs'[0] = 0
    BY <1>23, <2>1, <2>4 DEF Leave
  <2>6. ctl' \in Ctl
    BY <1>23, <1>1, RetireType, ThrownType DEF Leave
  <2> QED
    BY <1>23, <2>5, <2>6 DEF Leave
<1>24. CASE LoadReserve(di)
  <2> DEFINE addr == regs[di.rs1]
  <2>1. addr \in Word /\ (Readable(addr) => mem[addr] \in Word)
    BY <1>2, <1>3 DEF Readable
  <2>2. Readable(addr) => WriteReg(regs, di.rd, mem[addr]) \in [Regs -> Word]
                          /\ WriteReg(regs, di.rd, mem[addr])[0] = 0
    BY <2>1, <1>2, WriteRegType
  <2>3. CASE Readable(addr)
    <3>1. /\ regs' = WriteReg(regs, di.rd, mem[addr]) /\ Retire(Advance(di))
          /\ resv' = [valid |-> TRUE, addr |-> addr] /\ loop' = loop /\ mem' = mem
      BY <1>24, <2>3 DEF LoadReserve
    <3> QED
      BY <3>1, <2>1, <2>2, <2>3, <1>1, RetireType
  <2>4. CASE ~Readable(addr)
    BY <1>24, <2>4, ThrownType DEF LoadReserve
  <2> QED
    BY <2>3, <2>4
<1>25. CASE StoreConditional(di)
  <2>1. /\ WriteReg(regs, di.rd, 0) \in [Regs -> Word] /\ WriteReg(regs, di.rd, 0)[0] = 0
        /\ WriteReg(regs, di.rd, 1) \in [Regs -> Word] /\ WriteReg(regs, di.rd, 1)[0] = 0
    BY <1>2, WordIsInt, WriteRegType
  <2>2. regs' \in [Regs -> Word] /\ regs'[0] = 0
    BY <1>25, <2>1 DEF StoreConditional
  <2>3. ctl' \in Ctl
    BY <1>25, <1>1, RetireType, ThrownType DEF StoreConditional
  <2>4. mem' \in [Cells -> Word] /\ resv' \in [valid : BOOLEAN, addr : Word]
    BY <1>25, <1>2, <1>3 DEF StoreConditional
  <2> QED
    BY <1>25, <2>2, <2>3, <2>4 DEF StoreConditional
<1>26. CASE RaiseTrap(di)
  BY <1>26, WordIsInt, RaiseType DEF RaiseTrap
<1>27. CASE TrapReturn(di)
  <2>1. [ctl EXCEPT !.sie = ctl.spie, !.privilege = ctl.spp, !.pc = ctl.sepc] \in Ctl
    BY DEF Ctl
  <2> QED
    BY <1>27, <2>1, TickTimerType DEF TrapReturn
<1>28. CASE CsrRw(di)
  <2> DEFINE written == IF di.rs1 = 0 THEN ctl ELSE WriteCsr(di.imm, regs[di.rs1])
  <2>1. ReadCsr(di.imm) \in Word /\ written \in Ctl
    BY <1>28, <1>1, <1>2, <1>3, CsrType DEF CsrRw
  <2>2. ctl' \in Ctl
    BY <1>28, <2>1, <1>1, GotoType, TickTimerType DEF CsrRw
  <2>3. WriteReg(regs, di.rd, ReadCsr(di.imm)) \in [Regs -> Word]
        /\ WriteReg(regs, di.rd, ReadCsr(di.imm))[0] = 0
    BY <2>1, <1>2, WriteRegType
  <2>4. /\ regs' = WriteReg(regs, di.rd, ReadCsr(di.imm))
        /\ resv' = resv /\ loop' = loop /\ mem' = mem
    BY <1>28 DEF CsrRw
  <2> QED
    BY <2>2, <2>3, <2>4, <1>2
<1>29. CASE Undecodable(di)
  BY <1>29, WordIsInt, SignalTrapType DEF Undecodable, Ctl
<1> QED
  BY <1>6, <1>7, <1>8, <1>9, <1>10, <1>11, <1>12, <1>13, <1>14, <1>15, <1>16, <1>17,
     <1>18, <1>19, <1>20, <1>21, <1>22, <1>23, <1>24, <1>25, <1>26, <1>27, <1>28, <1>29
     DEF Execute

(* Every reachable state of the hart is well typed and keeps r0 at zero.     *)
THEOREM TypeCorrect == Spec => []TypeOK
<1>1. TypeOK /\ [Step]_vars => TypeOK'
  <2> SUFFICES ASSUME TypeOK, [Step]_vars PROVE TypeOK'
    OBVIOUS
  <2>1. CASE Step
    BY <2>1, TypeStep DEF Step
  <2>2. CASE UNCHANGED vars
    BY <2>2 DEF vars, TypeOK
  <2> QED
    BY <2>1, <2>2
<1> QED
  BY <1>1, TypeInit, PTL DEF Spec

-------------------------------------------------------------------------------
(* Instructions whose memory access throws.                                  *)

(* A step that ticks did not throw: stime has moved.                         *)
LEMMA TickedIsNotThrown ==
  ASSUME ctl \in Ctl, NEW c \in Ctl, c.stime = ctl.stime, ctl' = TickTimer(c)
  PROVE  ~Thrown
<1> DEFINE t == [c EXCEPT !.stime = (c.stime + 1) % TimeSize]
<1>1. t.stime = (c.stime + 1) % TimeSize /\ SignalTrap(t, TimerCause, 0).stime = t.stime
  BY DEF SignalTrap, Ctl
<1>2. ctl'.stime = (ctl.stime + 1) % TimeSize
  BY <1>1 DEF TickTimer
<1>3. ctl.stime \in 0 .. TimeSize - 1 /\ TimeSize \in Nat /\ TimeSize >= 2
  BY SizesAssumption, ClockAssumption DEF Ctl, Time
<1>4. \A n \in Nat : n >= 2 => \A s \in 0 .. n - 1 : (s + 1) % n # s
  OBVIOUS
<1>5. ctl'.stime # ctl.stime
  BY <1>2, <1>3, <1>4
<1>6. Thrown => ctl'.stime = ctl.stime
  BY DEF Thrown, SignalTrap, Ctl
<1> QED
  BY <1>5, <1>6

LEMMA RetiredIsNotThrown ==
  ASSUME ctl \in Ctl, NEW next \in Word, Retire(next)
  PROVE  ~Thrown
<1>1. [ctl EXCEPT !.pc = next] \in Ctl /\ [ctl EXCEPT !.pc = next].stime = ctl.stime
  BY GotoType DEF Ctl
<1> QED
  BY <1>1, TickedIsNotThrown DEF Retire

(* Only a memory access throws.                                              *)
LEMMA ThrowingOps ==
  ASSUME TypeOK, NEW di \in Code(ctl.pc), Throws(di)
  PROVE  \/ Load(di) \/ Store(di) \/ LoadPair(di) \/ StorePair(di)
         \/ Push(di) \/ Pop(di) \/ Enter(di) \/ Leave(di)
         \/ LoadReserve(di) \/ StoreConditional(di)
<1>1. ctl \in Ctl /\ Thrown /\ Execute(di)
  BY DEF TypeOK, Throws
<1>2. Advance(di) \in Word
  BY <1>1, DecodedType
<1>3. ~\E next \in Word : Retire(next)
  BY <1>1, RetiredIsNotThrown
<1>4. \A cause \in Word : ~Raise(cause)
  <2> SUFFICES ASSUME NEW cause \in Word PROVE ~Raise(cause)
    OBVIOUS
  <2> DEFINE c == SignalTrap(ctl, cause, ctl.pc)
  <2>1. c \in Ctl /\ c.stime = ctl.stime
    BY <1>1, SignalTrapType DEF SignalTrap, Ctl
  <2> QED
    BY <1>1, <2>1, TickedIsNotThrown DEF Raise
<1>5. /\ di \in Instruction /\ di.imm \in Int /\ (di.op = "CSRRW" => di.imm \in 0 .. 7)
      /\ di.rd \in Regs /\ di.rs1 \in Regs /\ 29 \in Regs
      /\ Target(di) \in Word /\ Wrap(ctl.pc + 4) \in Word
  BY <1>1, DecodedType, RegsAssumption DEF Instruction
<1>6. ~(Hint(di) \/ RegisterOp(di) \/ LoopSet(di) \/ LoopDecBr(di) \/ Branch(di))
  BY <1>2, <1>3, <1>5 DEF Hint, RegisterOp, LoopSet, LoopDecBr, Branch
<1>7. ~(Jump(di) \/ JumpAndLink(di))
  BY <1>3, <1>5 DEF Jump, JumpAndLink
<1>8. ~JumpRegister(di)
  <2> DEFINE linked == WriteReg(regs, di.rd, Wrap(ctl.pc + 4))
  <2>1. linked \in [Regs -> Word]
    BY <1>5, WriteRegType DEF TypeOK
  <2>2. linked[di.rs1] \in Int
    BY <2>1, <1>5, WordIsInt
  <2>3. linked[di.rs1] + di.imm \in Int
    BY <2>2, <1>5
  <2>4. WordAlign(Wrap(linked[di.rs1] + di.imm)) \in Word
    BY <2>3, WrapType, WordIsInt
  <2> QED
    BY <2>4, <1>3 DEF JumpRegister
<1>9. ~Return(di)
  <2>1. WordAlign(regs[29]) \in Word
    BY <1>5, WordIsInt DEF TypeOK
  <2> QED
    BY <2>1, <1>3 DEF Return
<1>10. ~(LoadFromNull(di) \/ RaiseTrap(di))
  BY <1>4, WordIsInt DEF LoadFromNull, RaiseTrap
<1>11. ~TrapReturn(di)
  <2> DEFINE c == [ctl EXCEPT !.sie = ctl.spie, !.privilege = ctl.spp, !.pc = ctl.sepc]
  <2>1. c \in Ctl /\ c.stime = ctl.stime
    BY <1>1 DEF Ctl
  <2> QED
    BY <2>1, <1>1, TickedIsNotThrown DEF TrapReturn
<1>12. ~CsrRw(di)
  <2> SUFFICES ASSUME CsrRw(di) PROVE FALSE
    OBVIOUS
  <2> DEFINE v == regs[di.rs1]
             written == IF di.rs1 = 0 THEN ctl ELSE WriteCsr(di.imm, v)
             c == [written EXCEPT !.pc = Advance(di)]
  <2>1. di.imm \in 0 .. 7 /\ v \in Word
    BY <1>5 DEF CsrRw, TypeOK
  <2>2. written \in Ctl
    BY <1>1, <2>1, CsrType
  <2>3. written.stime = ctl.stime
    <3>1. WriteCsr(di.imm, v).stime = ctl.stime
      BY <1>1, <2>1 DEF WriteCsr, Ctl
    <3> QED
      BY <3>1
  <2> HIDE DEF written
  <2>4. c \in Ctl /\ c.stime = ctl.stime
    BY <1>2, <2>2, <2>3, GotoType DEF Ctl
  <2>5. ctl' = TickTimer(c)
    BY DEF CsrRw, written
  <2> QED
    BY <2>4, <2>5, <1>1, TickedIsNotThrown
<1>13. ~Undecodable(di)
  <2>1. \A cause : SignalTrap(ctl, cause, ctl.pc).scause = cause
    BY <1>1 DEF SignalTrap, Ctl
  <2>2. Undecodable(di) => ctl'.scause = 9
    BY <2>1 DEF Undecodable
  <2>3. ctl'.scause = 2
    BY <1>1, <2>1 DEF Thrown, ThrownCause
  <2> QED
    BY <2>2, <2>3
<1> QED
  BY <1>1, <1>6, <1>7, <1>8, <1>9, <1>10, <1>11, <1>12, <1>13 DEF Execute

(* Running a throwing instruction again reads the registers it read, for     *)
(* every instruction but PUSH and the pair load that overwrites its base.    *)
THEOREM FaultsRepeat == Spec => FaultsRepeatable
<1>1. TypeOK /\ [Step]_vars =>
        [\A di \in Code(ctl.pc) : Throws(di) /\ Repeats(di) =>
           \A r \in Sources(di) : regs'[r] = regs[r]]_vars
  <2> SUFFICES ASSUME TypeOK, NEW di \in Code(ctl.pc), Throws(di), Repeats(di),
                      NEW r \in Sources(di)
               PROVE  regs'[r] = regs[r]
    OBVIOUS
  <2>1. /\ ctl \in Ctl /\ regs \in [Regs -> Word] /\ Thrown
        /\ di \in Instruction /\ {0, 29, 30, 31} \subseteq Regs /\ Advance(di) \in Word
    BY DecodedType, RegsAssumption DEF TypeOK, Throws
  <2>2. ~Retire(Advance(di))
    BY <2>1, RetiredIsNotThrown
  <2>3. CASE Load(di) \/ Store(di) \/ StorePair(di) \/ Pop(di) \/ Enter(di)
             \/ LoadReserve(di) \/ StoreConditional(di)
    BY <2>2, <2>3 DEF Load, Store, StorePair, Pop, Enter, LoadReserve, StoreConditional
  <2>4. CASE LoadPair(di)
    <3>1. di.op = "LD_P" /\ r = di.rs2 /\ (di.rd # di.rs2 \/ di.rd = 0) /\ di.rs2 \in Regs
      BY <2>1, <2>4 DEF LoadPair, Sources, Repeats, Instruction
    <3>2. regs' = regs \/ regs' = WriteReg(regs, di.rd, mem[regs[di.rs2]])
      BY <2>2, <2>4 DEF LoadPair
    <3> QED
      BY <2>1, <3>1, <3>2 DEF WriteReg
  <2>5. CASE Leave(di)
    <3>1. di.op = "LEAVE" /\ r = 30
      BY <2>5 DEF Leave, Sources
    <3>2. regs' = regs \/ regs' = WriteReg(regs, 29, mem[regs[30]])
      BY <2>2, <2>5 DEF Leave
    <3> QED
      BY <2>1, <3>1, <3>2 DEF WriteReg
  <2>6. CASE Push(di)
    BY <2>6 DEF Push, Repeats
  <2> QED
    BY <2>3, <2>4, <2>5, <2>6, ThrowingOps
<1> QED
  BY <1>1, TypeCorrect, PTL DEF Spec, FaultsRepeatable

(* Read-only memory never changes, and a throwing instruction leaves at most *)
(* the first doubleword of a pair behind.                                    *)
THEOREM PartialStores == Spec => PartialStoreConfined
<1> DEFINE Confined == /\ \A a \in ReadOnly : mem'[a] = mem[a]
                       /\ \A di \in Code(ctl.pc) : Throws(di) =>
                            \A a \in Cells : mem'[a] # mem[a] =>
                              di.op \in {"ST_P", "ENTER"} /\ ~Writable(Wrap(a + 8))
<1>1. TypeOK /\ [Step]_vars => [Confined]_vars
  <2> SUFFICES ASSUME TypeOK, Step PROVE Confined
    OBVIOUS
  <2>1. mem \in [Cells -> Word] /\ ReadOnly \subseteq Cells
    BY CellsAssumption DEF TypeOK
  <2>2. \A a \in ReadOnly : mem'[a] = mem[a]
    <3> PICK di \in Code(ctl.pc) : Execute(di)
      BY DEF Step
    <3>1. CASE Store(di)
      BY <2>1, <3>1 DEF Store, Writable
    <3>2. CASE StorePair(di)
      BY <2>1, <3>2 DEF StorePair, Writable
    <3>3. CASE Push(di)
      BY <2>1, <3>3 DEF Push, Writable
    <3>4. CASE Enter(di)
      BY <2>1, <3>4 DEF Enter, Writable
    <3>5. CASE StoreConditional(di)
      BY <2>1, <3>5 DEF StoreConditional, Writable
    <3>6. CASE mem' = mem
      BY <3>6
    <3> QED
      BY <3>1, <3>2, <3>3, <3>4, <3>5, <3>6
         DEF Execute, Hint, RegisterOp, Branch, Jump, JumpAndLink, JumpRegister, Return,
             LoopSet, LoopDecBr, Load, LoadFromNull, LoadPair, Pop, Leave, LoadReserve,
             RaiseTrap, TrapReturn, CsrRw, Undecodable
  <2>3. ASSUME NEW di \in Code(ctl.pc), Throws(di), NEW a \in Cells, mem'[a] # mem[a]
        PROVE  di.op \in {"ST_P", "ENTER"} /\ ~Writable(Wrap(a + 8))
    <3>1. ~Retire(Advance(di))
      BY <2>3, DecodedType, RetiredIsNotThrown DEF TypeOK, Throws
    <3>2. CASE StorePair(di)
      <4> DEFINE lo == regs[di.rs2]
      <4>1. /\ di.op = "ST_P" /\ ~(Writable(lo) /\ Writable(Wrap(lo + 8)))
            /\ mem' = IF Writable(lo) THEN [mem EXCEPT ![lo] = regs[di.rd]] ELSE mem
        BY <3>1, <3>2 DEF StorePair
      <4>2. a = lo /\ Writable(lo)
        BY <2>1, <2>3, <4>1
      <4> QED
        BY <4>1, <4>2
    <3>3. CASE Enter(di)
      <4> DEFINE fp == Wrap(regs[31] - 16)
      <4>1. /\ di.op = "ENTER" /\ ~(Writable(fp) /\ Writable(Wrap(fp + 8)))
            /\ mem' = IF Writable(fp) THEN [mem EXCEPT ![fp] = regs[29]] ELSE mem
        BY <3>1, <3>3 DEF Enter
      <4>2. a = fp /\ Writable(fp)
        BY <2>1, <2>3, <4>1
      <4> QED
        BY <4>1, <4>2
    <3>4. CASE mem' = mem
      BY <2>3, <3>4
    <3> QED
      BY <2>3, <3>1, <3>2, <3>3, <3>4, ThrowingOps
         DEF Load, Store, LoadPair, Push, Pop, Leave, LoadReserve, StoreConditional
  <2> QED
    BY <2>2, <2>3
<1> QED
  BY <1>1, TypeCorrect, PTL DEF Spec, PartialStoreConfined

(* The mnemonic tells the action.                                            *)
LEMMA ExecuteByOp ==
  ASSUME NEW di, Execute(di)
  PROVE  /\ di.op = "LR_D" => LoadReserve(di)
         /\ di.op = "SC_D" => StoreConditional(di)
         /\ di.op \in RegisterOps => RegisterOp(di)
         /\ di.op \in BranchOps => Branch(di)
         /\ di.op \in HintOps => Hint(di)
         /\ di.op = "JMP" => Jump(di)
         /\ di.op = "CALL" => JumpAndLink(di)
         /\ di.op = "JALR" => JumpRegister(di)
         /\ di.op = "RET" => Return(di)
         /\ di.op = "LOOP_SET" => LoopSet(di)
         /\ di.op = "LOOP_DECBR" => LoopDecBr(di)
         /\ di.op = "LD_D" => Load(di)
         /\ di.op = "PUSH" => Push(di)
         /\ di.op = "ENTER" => Enter(di)
         /\ di.op = "LEAVE" => Leave(di)
         /\ di.op = "CSRRW" => CsrRw(di)
         /\ di.op = "TRAPRET" => TrapReturn(di)
  BY DEF Execute, Hint, RegisterOp, Branch, Jump, JumpAndLink, JumpRegister, Return,
         LoopSet, LoopDecBr, Load, LoadFromNull, Store, LoadPair, StorePair, Push, Pop,
         Enter, Leave, LoadReserve, StoreConditional, RaiseTrap, TrapReturn, CsrRw,
         Undecodable, RegisterOps, HintOps, BranchOps, TrapOps

(* Only LR.D makes a reservation, an SC.D that stores uses it up, and one    *)
(* that does not store reports no success.                                   *)
THEOREM ReservationsEarned == Spec => ReservationEarned
<1>1. TypeOK /\ [Step]_vars =>
        [/\ resv'.valid /\ resv' # resv =>
              \E di \in Code(ctl.pc) :
                di.op = "LR_D" /\ regs[di.rs1] \in Cells /\ resv'.addr = regs[di.rs1]
         /\ \A di \in Code(ctl.pc) : di.op = "SC_D" /\ Execute(di) =>
              \/ Stored(di)
              \/ mem' = mem /\ Thrown /\ regs' = regs
              \/ mem' = mem /\ (di.rd # 0 => regs'[di.rd] # 0)]_vars
  <2>1. ASSUME TypeOK, NEW di \in Code(ctl.pc), Execute(di), resv'.valid, resv' # resv
        PROVE  di.op = "LR_D" /\ regs[di.rs1] \in Cells /\ resv'.addr = regs[di.rs1]
    <3>1. CASE LoadReserve(di)
      BY <2>1, <3>1 DEF LoadReserve, Readable
    <3>2. CASE StoreConditional(di)
      BY <2>1, <3>2 DEF StoreConditional, TypeOK
    <3> QED
      BY <2>1, <3>1, <3>2
         DEF Execute, Hint, RegisterOp, Branch, Jump, JumpAndLink, JumpRegister, Return,
             LoopSet, LoopDecBr, Load, LoadFromNull, Store, LoadPair, StorePair, Push,
             Pop, Enter, Leave, RaiseTrap, TrapReturn, CsrRw, Undecodable
  <2>2. ASSUME TypeOK, NEW di \in Code(ctl.pc), di.op = "SC_D", Execute(di)
        PROVE  \/ Stored(di)
               \/ mem' = mem /\ Thrown /\ regs' = regs
               \/ mem' = mem /\ (di.rd # 0 => regs'[di.rd] # 0)
    <3>1. /\ regs \in [Regs -> Word] /\ di.rd \in Regs
          /\ resv \in [valid : BOOLEAN, addr : Word]
      BY <2>2, DecodedType DEF TypeOK, Instruction, Ctl
    <3>2. StoreConditional(di)
      BY <2>2, ExecuteByOp
    <3>3. \A v : di.rd # 0 => WriteReg(regs, di.rd, v)[di.rd] = v
      BY <3>1 DEF WriteReg
    <3>4. CASE ~(resv.valid /\ resv.addr = regs[di.rs1])
      BY <3>2, <3>3, <3>4 DEF StoreConditional
    <3>5. CASE /\ resv.valid /\ resv.addr = regs[di.rs1]
               /\ ~Writable(regs[di.rs1])
      BY <3>2, <3>5 DEF StoreConditional
    <3>6. CASE /\ resv.valid /\ resv.addr = regs[di.rs1]
               /\ Writable(regs[di.rs1])
      <4>1. /\ mem' = [mem EXCEPT ![regs[di.rs1]] = regs[di.rs2]]
            /\ regs' = WriteReg(regs, di.rd, 0)
            /\ resv' = [resv EXCEPT !.valid = FALSE]
        BY <3>2, <3>6 DEF StoreConditional
      <4>2. ~resv'.valid
        BY <3>1, <4>1
      <4> QED
        BY <3>3, <3>6, <4>1, <4>2 DEF Stored
    <3> QED
      BY <3>4, <3>5, <3>6
  <2> QED
    BY <2>1, <2>2 DEF Step
<1> QED
  BY <1>1, TypeCorrect, PTL DEF Spec, ReservationEarned

-------------------------------------------------------------------------------
(* Software under a timer handler: a program runs at user level with the     *)
(* timer enabled, and a handler, entered at entry and made of the            *)
(* instructions at pcs, runs above it with the timer masked.                 *)

UnderHandler(c, entry, pcs) ==
  /\ c \in Ctl
  /\ c.stvec = entry
  /\ c.privilege = 0 => c.sie = 1
  /\ c.privilege = 1 => c.sie = 0 /\ c.spie = 1 /\ c.spp = 0 /\ c.pc \in pcs

(* Where the program is that runs, or that the handler will return to.       *)
Running(c) == IF c.privilege = 0 THEN c.pc ELSE c.sepc

LEMMA WrapSmall == \A n \in 0 .. 511 : Wrap(n) = n /\ n \in Word
<1>1. \A n, m \in Nat : m >= 512 /\ n <= 511 => n % m = n
  OBVIOUS
<1> QED
  BY <1>1, SizesAssumption DEF Wrap, Word

(* The tick leaves the program where it is, or hands over to the handler.    *)
LEMMA TickUnderHandler ==
  ASSUME NEW c, NEW entry, NEW pcs, entry \in pcs, UnderHandler(c, entry, pcs)
  PROVE  /\ UnderHandler(TickTimer(c), entry, pcs)
         /\ Running(TickTimer(c)) = Running(c)
         /\ \/ TickTimer(c).privilege = c.privilege /\ TickTimer(c).pc = c.pc
            \/ c.privilege = 0 /\ TickTimer(c).privilege = 1 /\ TickTimer(c).pc = entry
<1> DEFINE t == [c EXCEPT !.stime = (c.stime + 1) % TimeSize]
           s == SignalTrap(t, TimerCause, 0)
<1>1. c \in Ctl /\ TickTimer(c) \in Ctl
  BY TickTimerType DEF UnderHandler
<1>2. (c.stime + 1) % TimeSize \in Time
  BY <1>1, SizesAssumption DEF Ctl, Time
<1>3. /\ t \in Ctl /\ t.pc = c.pc /\ t.privilege = c.privilege /\ t.sie = c.sie
      /\ t.spie = c.spie /\ t.spp = c.spp /\ t.stvec = c.stvec /\ t.sepc = c.sepc
  BY <1>1, <1>2 DEF Ctl
<1> HIDE DEF t
<1>4. /\ s.pc = t.stvec /\ s.privilege = 1 /\ s.sie = 0 /\ s.spie = t.sie
      /\ s.spp = t.privilege /\ s.stvec = t.stvec /\ s.sepc = t.pc
  BY <1>3 DEF SignalTrap, Ctl
<1> HIDE DEF s
<1>5. TickTimer(c) = t \/ (TickTimer(c) = s /\ t.sie = 1)
  BY DEF TickTimer, s, t
<1>6. c.privilege = 0 \/ c.privilege = 1
  BY <1>1 DEF Ctl, Bit
<1> QED
  BY <1>1, <1>3, <1>4, <1>5, <1>6 DEF UnderHandler, Running

(* The program retires an instruction.                                       *)
LEMMA ProgramRetires ==
  ASSUME NEW entry, NEW pcs, entry \in pcs, UnderHandler(ctl, entry, pcs),
         ctl.privilege = 0, NEW next \in Word, Retire(next)
  PROVE  /\ UnderHandler(ctl', entry, pcs) /\ Running(ctl') = next
         /\ \/ ctl'.privilege = 0 /\ ctl'.pc = next
            \/ ctl'.privilege = 1 /\ ctl'.pc = entry
<1> DEFINE c == [ctl EXCEPT !.pc = next]
<1>1. /\ c \in Ctl /\ c.privilege = ctl.privilege /\ c.pc = next /\ c.stvec = ctl.stvec
      /\ c.sie = ctl.sie
  BY DEF UnderHandler, Ctl
<1> HIDE DEF c
<1>2. UnderHandler(c, entry, pcs) /\ Running(c) = next
  BY <1>1 DEF UnderHandler, Running
<1>3. ctl' = TickTimer(c)
  BY DEF Retire, c
<1> QED
  BY <1>1, <1>2, <1>3, TickUnderHandler

(* A CSRRW or ADDI of the handler that leaves sepc alone: the program is not *)
(* moved, and only the handler's register can change.                        *)
LEMMA HandlerKeeps ==
  ASSUME TypeOK, NEW entry, NEW pcs, entry \in pcs, UnderHandler(ctl, entry, pcs),
         ctl.privilege = 1, NEW di \in Code(ctl.pc), Execute(di),
         NEW w \in Regs, Advance(di) \in pcs,
         \/ di.op = "ADDI" /\ di.rd = w
         \/ di.op = "CSRRW" /\ di.imm = 6 /\ di.rd = w
         \/ di.op = "CSRRW" /\ di.imm = 7 /\ di.rd = 0
  PROVE  /\ UnderHandler(ctl', entry, pcs) /\ Running(ctl') = Running(ctl)
         /\ \A r \in Regs \ {w} : regs'[r] = regs[r]
         /\ mem' = mem /\ resv' = resv /\ loop' = loop
<1>1. /\ ctl \in Ctl /\ regs \in [Regs -> Word] /\ regs[0] = 0
      /\ Advance(di) \in Word /\ di.rs1 \in Regs
  BY DecodedType DEF TypeOK, Instruction
<1>2. ASSUME NEW d \in Ctl, d.sepc = ctl.sepc, d.privilege = 1, d.stvec = ctl.stvec,
             d.sie = ctl.sie, d.spie = ctl.spie, d.spp = ctl.spp,
             ctl' = TickTimer([d EXCEPT !.pc = Advance(di)])
      PROVE  UnderHandler(ctl', entry, pcs) /\ Running(ctl') = Running(ctl)
  <2> DEFINE c == [d EXCEPT !.pc = Advance(di)]
  <2>1. UnderHandler(c, entry, pcs) /\ c.privilege = 1 /\ c.sepc = ctl.sepc
    BY <1>1, <1>2 DEF UnderHandler, Ctl
  <2>2. ctl' = TickTimer(c)
    BY <1>2
  <2> HIDE DEF c
  <2> QED
    BY <2>1, <2>2, TickUnderHandler DEF Running
<1>3. CASE di.op = "ADDI" /\ di.rd = w
  <2>1. RegisterOp(di) /\ Dest(di) = w
    BY <1>3, ExecuteByOp DEF RegisterOps, Dest
  <2>2. /\ Retire(Advance(di)) /\ mem' = mem /\ resv' = resv /\ loop' = loop
        /\ \A r \in Regs \ {w} : regs'[r] = regs[r]
    BY <1>1, <2>1 DEF RegisterOp, WriteReg
  <2> QED
    BY <1>1, <1>2, <2>2 DEF Retire
<1>4. CASE /\ di.op = "CSRRW"
           /\ \/ di.imm = 6 /\ di.rd = w
              \/ di.imm = 7 /\ di.rd = 0
  <2> DEFINE v == regs[di.rs1]
             d == IF di.rs1 = 0 THEN ctl ELSE WriteCsr(di.imm, v)
  <2>1. CsrRw(di) /\ v \in Word
    BY <1>1, <1>4, ExecuteByOp
  <2>2. /\ d \in Ctl /\ d.sepc = ctl.sepc /\ d.privilege = 1 /\ d.stvec = ctl.stvec
        /\ d.sie = ctl.sie /\ d.spie = ctl.spie /\ d.spp = ctl.spp
    <3>1. /\ WriteCsr(6, v) = ctl
          /\ WriteCsr(7, v) = [ctl EXCEPT !.stimecmp = v]
      BY DEF WriteCsr
    <3>2. d = ctl \/ d = [ctl EXCEPT !.stimecmp = v]
      BY <1>4, <3>1
    <3> QED
      BY <1>1, <2>1, <3>2 DEF Ctl
  <2>3. ctl' = TickTimer([d EXCEPT !.pc = Advance(di)])
    BY <2>1 DEF CsrRw
  <2>4. /\ mem' = mem /\ resv' = resv /\ loop' = loop
        /\ \A r \in Regs \ {w} : regs'[r] = regs[r]
    BY <1>1, <1>4, <2>1 DEF CsrRw, WriteReg
  <2> HIDE DEF d
  <2> QED
    BY <1>2, <2>2, <2>3, <2>4
<1> QED
  BY <1>3, <1>4

(* The handler returns: the program goes on where it was interrupted.        *)
LEMMA HandlerReturns ==
  ASSUME NEW entry, NEW pcs, entry \in pcs, UnderHandler(ctl, entry, pcs),
         ctl.privilege = 1, NEW di, TrapReturn(di)
  PROVE  /\ UnderHandler(ctl', entry, pcs) /\ Running(ctl') = Running(ctl)
         /\ regs' = regs /\ mem' = mem /\ resv' = resv /\ loop' = loop
<1> DEFINE c == [ctl EXCEPT !.sie = ctl.spie, !.privilege = ctl.spp, !.pc = ctl.sepc]
<1>1. /\ c \in Ctl /\ c.stvec = entry /\ c.privilege = 0 /\ c.sie = 1 /\ c.pc = ctl.sepc
  BY DEF UnderHandler, Ctl
<1>2. ctl' = TickTimer(c) /\ regs' = regs /\ mem' = mem /\ resv' = resv /\ loop' = loop
  BY DEF TrapReturn
<1> HIDE DEF c
<1>3. UnderHandler(c, entry, pcs) /\ Running(c) = ctl.sepc
  BY <1>1 DEF UnderHandler, Running
<1> QED
  BY <1>2, <1>3, TickUnderHandler DEF Running

===============================================================================
