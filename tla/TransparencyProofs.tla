---------------------------- MODULE TransparencyProofs ----------------------------
(***************************************************************************)
(* Proofs about the interrupted program, for every count asked for, every  *)
(* timer period, every width of words and of the timer, and whatever else  *)
(* is in memory: its frames balance, its loop runs as often as asked, and  *)
(* what it does is what it does on a hart without a timer.  The inductive  *)
(* invariant says for each pc of the program what its registers, its frame *)
(* and the loop counter hold there.  For the refinement, any instruction   *)
(* that leaves the handler's register, traps and CSRs alone is shown to be *)
(* the same instruction on the quiet hart, not only those of the program.  *)
(***************************************************************************)
EXTENDS Transparency, HartProofs

HandlerPcs == {128, 136, 140, 148}
UserPcs    == {0, 8, 12, 16, 24, 32, 40, 44, 48, 56, 60, 68, 76}

Interrupted(c) == UnderHandler(c, 128, HandlerPcs)

(* The frame: given back, or the saved registers in it and the stack pointer *)
(* this far below the top.                                                   *)
Balanced    == regs[31] = StackTop /\ regs[30] = 0
Framed(low) == /\ regs[31] = StackTop - low /\ regs[30] = StackTop - 16
               /\ mem[StackTop - 16] \in {12, 16} /\ mem[StackTop - 8] = 0

(* The calls made and those the loop has left, before the count of calls     *)
(* moves, after it, and when the loop is over.                               *)
Before == \/ loop.count = 0 /\ regs[1] = 0 /\ regs[2] = 0
          \/ loop.count > 0 /\ loop.count + regs[2] = regs[1]
Called == \/ loop.count = 0 /\ regs[1] = 0 /\ regs[2] = 1
          \/ loop.count > 0 /\ regs[2] > 0 /\ loop.count + regs[2] = regs[1] + 1
Counted == regs[2] = IF regs[1] = 0 THEN 1 ELSE regs[1]

(* What holds when the program is at pc.                                     *)
At(pc) ==
  /\ pc \in UserPcs
  /\ pc = 0 => regs[2] = 0
  /\ pc \in {8, 32, 40} => Before
  /\ pc \in {44, 48, 56, 60, 68, 76, 12, 16} => Called
  /\ pc = 24 => Counted
  /\ pc \in {0, 8, 12, 16, 24, 32, 76} => Balanced
  /\ pc \in {40, 44, 68} => Framed(16)
  /\ pc \in {48, 56, 60} => Framed(24)
  /\ pc \in {32, 76} => regs[29] \in {12, 16}
  /\ pc \in {48, 56} => mem[StackTop - 24] = regs[2]
  /\ pc = 56 => regs[3] = StackTop - 24
  /\ pc \in {60, 68, 76, 12, 16, 24} => regs[3] = regs[2]

ProgInv == TypeOK /\ Interrupted(ctl) /\ At(Running(ctl))

-------------------------------------------------------------------------------
(* The quiet hart.                                                           *)

(* What the program sees of the state it leaves.                             *)
LEMMA Views ==
  /\ UserCtl = QuietCtl(Running(ctl)) /\ UserCtl' = QuietCtl(Running(ctl'))
  /\ UserRegs' = [regs' EXCEPT ![28] = 0]
  /\ UserRegs = [regs EXCEPT ![28] = 0]
  BY DEF UserCtl, UserRegs, Running, QuietCtl

LEMMA QuietFields ==
  ASSUME NEW a \in Word
  PROVE  /\ QuietCtl(a) \in Ctl
         /\ QuietCtl(a).pc = a /\ QuietCtl(a).sie = 0 /\ QuietCtl(a).stime = 0
         /\ \A b \in Word : [QuietCtl(a) EXCEPT !.pc = b] = QuietCtl(b)
<1>1. \A b \in Word : QuietCtl(b) \in Ctl /\ [QuietCtl(a) EXCEPT !.pc = b] \in Ctl
  <2>1. \A b \in Word : QuietCtl(b) \in Ctl
    BY WordIsInt, SizesAssumption DEF QuietCtl, Ctl, Bit, Time
  <2> QED
    BY <2>1, GotoType
<1>2. QuietCtl(a).pc = a /\ QuietCtl(a).sie = 0 /\ QuietCtl(a).stime = 0
  BY DEF QuietCtl
<1>3. ASSUME NEW b \in Word
      PROVE  [QuietCtl(a) EXCEPT !.pc = b] = QuietCtl(b)
  <2> DEFINE q == [QuietCtl(a) EXCEPT !.pc = b]
             r == QuietCtl(b)
  <2>1. /\ q.pc = r.pc /\ q.privilege = r.privilege /\ q.trap_pending = r.trap_pending
        /\ q.sie = r.sie /\ q.spie = r.spie /\ q.spp = r.spp /\ q.stvec = r.stvec
        /\ q.sepc = r.sepc /\ q.scause = r.scause /\ q.stval = r.stval
        /\ q.satp = r.satp /\ q.stime = r.stime /\ q.stimecmp = r.stimecmp
    BY DEF QuietCtl
  <2>2. q \in Ctl /\ r \in Ctl
    BY <1>1
  <2> HIDE DEF q, r
  <2>3. q = r
    BY <2>1, <2>2 DEF Ctl
  <2> QED
    BY <2>3 DEF q, r
<1> QED
  BY <1>1, <1>2, <1>3

LEMMA QuietTick ==
  ASSUME NEW a \in Word, NEW next \in Word
  PROVE  Quiet!TickTimer([QuietCtl(a) EXCEPT !.pc = next]) = QuietCtl(next)
<1> DEFINE c == QuietCtl(next)
           t == [c EXCEPT !.stime = (c.stime + 1) % 1]
<1>1. [QuietCtl(a) EXCEPT !.pc = next] = c /\ c.stime = 0 /\ c.sie = 0 /\ c \in Ctl
  BY QuietFields
<1> HIDE DEF c
<1>2. (c.stime + 1) % 1 = 0
  BY <1>1
<1>3. t = c
  BY <1>1, <1>2 DEF Ctl
<1>4. t.sie = 0
  BY <1>1, <1>3
<1>5. Quiet!TickTimer(c) = t
  BY <1>4 DEF Quiet!TickTimer
<1> QED
  BY <1>1, <1>3, <1>5 DEF c

LEMMA QuietRetire ==
  ASSUME Interrupted(ctl), ctl.privilege = 0, NEW next \in Word, Retire(next)
  PROVE  Quiet!Retire(next)
<1>1. Running(ctl') = next /\ ctl.pc \in Word /\ Running(ctl) = ctl.pc
  BY ProgramRetires DEF Interrupted, HandlerPcs, UnderHandler, Ctl, Running
<1>2. UserCtl' = QuietCtl(next) /\ UserCtl = QuietCtl(ctl.pc)
  BY <1>1, Views
<1> QED
  BY <1>1, <1>2, QuietTick DEF Quiet!Retire

(* The registers without the handler's.                                      *)
Hide(r) == [r EXCEPT ![28] = 0]

LEMMA HideWrites ==
  ASSUME NEW r \in [Regs -> Word], NEW i \in Regs \ {28}, NEW v \in Word
  PROVE  /\ WriteReg(r, i, v) \in [Regs -> Word]
         /\ Hide(WriteReg(r, i, v)) = Quiet!WriteReg(Hide(r), i, v)
  BY DEF WriteReg, Quiet!WriteReg, Hide

LEMMA HideReads ==
  ASSUME NEW r \in [Regs -> Word], NEW i \in Regs \ {28}
  PROVE  Hide(r)[i] = r[i] /\ r[i] \in Word
  BY DEF Hide

(* An instruction that does not touch the handler's register finds in the    *)
(* quiet state what it finds in the interrupted one.                         *)
Untouched(di) == di.rd # 28 /\ di.rs1 # 28 /\ di.rs2 # 28

LEMMA QuietOperators ==
  ASSUME TypeOK, ctl.privilege = 0, NEW di \in Code(ctl.pc), Untouched(di)
  PROVE  /\ UserRegs = Hide(regs) /\ UserRegs' = Hide(regs')
         /\ UserRegs[di.rd] = regs[di.rd] /\ UserRegs[di.rs1] = regs[di.rs1]
         /\ UserRegs[di.rs2] = regs[di.rs2] /\ UserRegs[29] = regs[29]
         /\ UserRegs[30] = regs[30] /\ UserRegs[31] = regs[31]
         /\ \A n : Quiet!Wrap(n) = Wrap(n)
         /\ Quiet!Advance(di) = Advance(di) /\ Quiet!Target(di) = Target(di)
         /\ UserCtl.pc = ctl.pc
<1>1. UserCtl.pc = ctl.pc
  BY DEF UserCtl, QuietCtl
<1>2. \A n : Quiet!Wrap(n) = Wrap(n)
  BY DEF Quiet!Wrap, Wrap
<1>3. UserRegs = Hide(regs) /\ UserRegs' = Hide(regs')
  BY Views DEF Hide
<1>4. /\ {di.rd, di.rs1, di.rs2, 29, 30, 31} \subseteq Regs \ {28}
      /\ regs \in [Regs -> Word]
  BY DecodedType, RegsAssumption DEF TypeOK, Instruction, Untouched
<1>5. \A i \in {di.rd, di.rs1, di.rs2, 29, 30, 31} : UserRegs[i] = regs[i]
  BY <1>3, <1>4, HideReads
<1> QED
  BY <1>1, <1>2, <1>3, <1>5 DEF Quiet!Advance, Quiet!Target, Advance, Target

LEMMA QuietFlow ==
  ASSUME TypeOK, Interrupted(ctl), ctl.privilege = 0,
         NEW di \in Code(ctl.pc), Untouched(di), Execute(di)
  PROVE  /\ Hint(di) => Quiet!Hint(di)
         /\ Branch(di) => Quiet!Branch(di)
         /\ Jump(di) => Quiet!Jump(di)
         /\ Return(di) => Quiet!Return(di)
         /\ LoopSet(di) => Quiet!LoopSet(di)
         /\ LoopDecBr(di) => Quiet!LoopDecBr(di)
<1>1. /\ Advance(di) \in Word /\ Target(di) \in Word /\ Wrap(ctl.pc + 4) \in Word
      /\ WordAlign(regs[29]) \in Word
  BY DecodedType, WordIsInt, RegsAssumption DEF TypeOK
<1>2. \A next \in Word : Retire(next) => Quiet!Retire(next)
  BY QuietRetire
<1>3. regs' = regs => UserRegs' = UserRegs
  BY QuietOperators
<1>4. Hint(di) => Quiet!Hint(di)
  BY <1>1, <1>2, <1>3, QuietOperators DEF Hint, Quiet!Hint, HintOps, Quiet!HintOps
<1>5. Branch(di) => Quiet!Branch(di)
  <2>1. Quiet!Taken(di) <=> Taken(di)
    BY QuietOperators DEF Taken, Quiet!Taken, Signed, Quiet!Signed
  <2> QED
    BY <1>1, <1>2, <1>3, <2>1, QuietOperators
       DEF Branch, Quiet!Branch, BranchOps, Quiet!BranchOps
<1>6. Jump(di) => Quiet!Jump(di)
  BY <1>1, <1>2, <1>3, QuietOperators DEF Jump, Quiet!Jump
<1>7. Return(di) => Quiet!Return(di)
  BY <1>1, <1>2, <1>3, QuietOperators DEF Return, Quiet!Return, WordAlign, Quiet!WordAlign
<1>8. LoopSet(di) => Quiet!LoopSet(di)
  BY <1>1, <1>2, <1>3, QuietOperators DEF LoopSet, Quiet!LoopSet
<1>9. LoopDecBr(di) => Quiet!LoopDecBr(di)
  BY <1>1, <1>2, <1>3, QuietOperators DEF LoopDecBr, Quiet!LoopDecBr
<1> QED
  BY <1>4, <1>5, <1>6, <1>7, <1>8, <1>9

LEMMA QuietRegister ==
  ASSUME TypeOK, Interrupted(ctl), ctl.privilege = 0,
         NEW di \in Code(ctl.pc), Untouched(di), Execute(di)
  PROVE  /\ RegisterOp(di) => Quiet!RegisterOp(di)
         /\ JumpAndLink(di) => Quiet!JumpAndLink(di)
         /\ JumpRegister(di) => Quiet!JumpRegister(di)
<1>1. /\ Advance(di) \in Word /\ Target(di) \in Word /\ Wrap(ctl.pc + 4) \in Word
      /\ di \in Instruction /\ regs \in [Regs -> Word]
      /\ di.rd \in Regs \ {28} /\ di.rs1 \in Regs \ {28} /\ di.imm \in Int
  BY DecodedType DEF TypeOK, Instruction, Untouched
<1>2. \A next \in Word : Retire(next) => Quiet!Retire(next)
  BY QuietRetire
<1>3. RegisterOp(di) => Quiet!RegisterOp(di)
  <2> SUFFICES ASSUME RegisterOp(di) PROVE Quiet!RegisterOp(di)
    OBVIOUS
  <2>1. Result(di) \in Word /\ Dest(di) \in Regs \ {28}
    BY <1>1, ResultType DEF RegisterOp, Dest
  <2>2. Quiet!Result(di) = Result(di) /\ Quiet!Dest(di) = Dest(di)
    BY QuietOperators, ZenonT(60)
       DEF Result, Quiet!Result, Dest, Quiet!Dest, Truth, Quiet!Truth, Signed, Quiet!Signed
  <2>3. UserRegs' = Quiet!WriteReg(UserRegs, Dest(di), Result(di))
    BY <1>1, <2>1, HideWrites, QuietOperators DEF RegisterOp
  <2> QED
    BY <1>1, <1>2, <2>2, <2>3, QuietOperators
       DEF RegisterOp, Quiet!RegisterOp, RegisterOps, Quiet!RegisterOps
<1>4. JumpAndLink(di) => Quiet!JumpAndLink(di)
  <2> DEFINE link == IF di.op = "JAL" THEN Wrap(ctl.pc + 4) ELSE Advance(di)
  <2>1. Hide(WriteReg(regs, di.rd, link)) = Quiet!WriteReg(Hide(regs), di.rd, link)
    BY <1>1, HideWrites
  <2> QED
    BY <1>1, <1>2, <2>1, QuietOperators DEF JumpAndLink, Quiet!JumpAndLink
<1>5. JumpRegister(di) => Quiet!JumpRegister(di)
  <2> SUFFICES ASSUME JumpRegister(di) PROVE Quiet!JumpRegister(di)
    OBVIOUS
  <2> DEFINE linked == WriteReg(regs, di.rd, Wrap(ctl.pc + 4))
             quiet  == Quiet!WriteReg(UserRegs, di.rd, Wrap(ctl.pc + 4))
  <2>1. linked \in [Regs -> Word] /\ quiet = Hide(linked)
    BY <1>1, HideWrites, QuietOperators
  <2> HIDE DEF linked, quiet
  <2>2. quiet[di.rs1] = linked[di.rs1] /\ linked[di.rs1] \in Word
    BY <1>1, <2>1, HideReads
  <2>3. WordAlign(Wrap(linked[di.rs1] + di.imm)) \in Word
    <3>1. linked[di.rs1] \in Int
      BY <2>2, WordIsInt
    <3>2. linked[di.rs1] + di.imm \in Int
      BY <1>1, <3>1
    <3> QED
      BY <3>2, WrapType, WordIsInt
  <2>4. /\ regs' = linked /\ Retire(WordAlign(Wrap(linked[di.rs1] + di.imm)))
        /\ di.op = "JALR" /\ UNCHANGED <<resv, loop, mem>>
    BY DEF JumpRegister, linked
  <2>5. /\ UserRegs' = quiet
        /\ Quiet!Retire(Quiet!WordAlign(Wrap(quiet[di.rs1] + di.imm)))
    BY <1>2, <2>1, <2>2, <2>3, <2>4, QuietOperators DEF WordAlign, Quiet!WordAlign
  <2> QED
    BY <2>4, <2>5, QuietOperators DEF Quiet!JumpRegister, quiet
<1> QED
  BY <1>3, <1>4, <1>5

(* The same for an access that does not throw.                               *)
LEMMA QuietMemory ==
  ASSUME TypeOK, Interrupted(ctl), ctl.privilege = 0,
         NEW di \in Code(ctl.pc), Untouched(di), Execute(di), ~Thrown
  PROVE  /\ Load(di) => Quiet!Load(di)
         /\ Store(di) => Quiet!Store(di)
         /\ LoadReserve(di) => Quiet!LoadReserve(di)
         /\ StoreConditional(di) => Quiet!StoreConditional(di)
         /\ StorePair(di) => Quiet!StorePair(di)
<1>1. /\ Advance(di) \in Word /\ regs \in [Regs -> Word] /\ mem \in [Cells -> Word]
      /\ di.rd \in Regs \ {28} /\ 0 \in Word /\ 1 \in Word
  BY DecodedType, WordIsInt DEF TypeOK, Instruction, Untouched
<1>2. Retire(Advance(di)) => Quiet!Retire(Advance(di))
  BY <1>1, QuietRetire
<1>3. regs' = regs => UserRegs' = UserRegs
  BY QuietOperators
<1>4. \A v \in Word :
        regs' = WriteReg(regs, di.rd, v) => UserRegs' = Quiet!WriteReg(UserRegs, di.rd, v)
  BY <1>1, HideWrites, QuietOperators
<1>5. \A x : /\ Quiet!Aligned(x) = Aligned(x) /\ Quiet!Readable(x) = Readable(x)
             /\ Quiet!Writable(x) = Writable(x)
             /\ Readable(x) => mem[x] \in Word
  BY <1>1 DEF Aligned, Quiet!Aligned, Readable, Quiet!Readable, Writable, Quiet!Writable
<1>6. Quiet!EffectiveAddress(di) = EffectiveAddress(di)
  BY QuietOperators DEF EffectiveAddress, Quiet!EffectiveAddress
<1>7. Load(di) => Quiet!Load(di)
  BY <1>1, <1>2, <1>4, <1>5, <1>6, QuietOperators DEF Load, Quiet!Load
<1>8. Store(di) => Quiet!Store(di)
  BY <1>2, <1>3, <1>5, <1>6, QuietOperators DEF Store, Quiet!Store
<1>9. LoadReserve(di) => Quiet!LoadReserve(di)
  BY <1>2, <1>4, <1>5, QuietOperators DEF LoadReserve, Quiet!LoadReserve
<1>10. StoreConditional(di) => Quiet!StoreConditional(di)
  BY <1>1, <1>2, <1>4, <1>5, QuietOperators DEF StoreConditional, Quiet!StoreConditional
<1>11. StorePair(di) => Quiet!StorePair(di)
  BY <1>2, <1>3, <1>5, QuietOperators DEF StorePair, Quiet!StorePair
<1> QED
  BY <1>7, <1>8, <1>9, <1>10, <1>11

LEMMA QuietStack ==
  ASSUME TypeOK, Interrupted(ctl), ctl.privilege = 0,
         NEW di \in Code(ctl.pc), Untouched(di), Execute(di), ~Thrown
  PROVE  /\ LoadPair(di) => Quiet!LoadPair(di)
         /\ Push(di) => Quiet!Push(di)
         /\ Pop(di) => Quiet!Pop(di)
         /\ Enter(di) => Quiet!Enter(di)
         /\ Leave(di) => Quiet!Leave(di)
<1>1. /\ Advance(di) \in Word /\ regs \in [Regs -> Word] /\ mem \in [Cells -> Word]
      /\ di.imm \in Int /\ {di.rd, di.rs1, di.rs2, 29, 30, 31} \subseteq Regs \ {28}
  BY DecodedType, RegsAssumption DEF TypeOK, Instruction, Untouched
<1>2. Retire(Advance(di)) => Quiet!Retire(Advance(di))
  BY <1>1, QuietRetire
<1>3. \A x : /\ Quiet!Aligned(x) = Aligned(x) /\ Quiet!Readable(x) = Readable(x)
             /\ Quiet!Writable(x) = Writable(x)
             /\ Readable(x) => mem[x] \in Word
  BY <1>1 DEF Aligned, Quiet!Aligned, Readable, Quiet!Readable, Writable, Quiet!Writable
<1>4. \A a \in Word, n \in Int : Wrap(a + n) \in Word /\ Wrap(a - n) \in Word
  <2>1. \A a \in Word, n \in Int : a + n \in Int /\ a - n \in Int
    BY DEF Word
  <2> QED
    BY <2>1, WrapType
<1>5. \A i \in {di.rd, di.rs1, di.rs2, 29, 30, 31} : UserRegs[i] = regs[i] /\ regs[i] \in Word
  BY <1>1, QuietOperators
<1>11. \A i \in {di.rd, di.rs1, di.rs2, 29, 30, 31}, v \in Word :
         /\ WriteReg(regs, i, v) \in [Regs -> Word]
         /\ Hide(WriteReg(regs, i, v)) = Quiet!WriteReg(UserRegs, i, v)
  <2>1. UserRegs = Hide(regs)
    BY QuietOperators
  <2>2. \A i \in Regs \ {28}, v \in Word :
          /\ WriteReg(regs, i, v) \in [Regs -> Word]
          /\ Hide(WriteReg(regs, i, v)) = Quiet!WriteReg(UserRegs, i, v)
    BY <1>1, <2>1, HideWrites
  <2> QED
    BY <1>1, <2>2
<1>6. LoadPair(di) => Quiet!LoadPair(di)
  <2> SUFFICES ASSUME LoadPair(di) PROVE Quiet!LoadPair(di)
    OBVIOUS
  <2> DEFINE lo == regs[di.rs2]
             hi == Wrap(lo + 8)
             first == WriteReg(regs, di.rd, mem[lo])
             second == WriteReg(first, di.rs1, mem[hi])
  <2>1. /\ di.op = "LD_P" /\ Aligned(lo) /\ Readable(lo) /\ Readable(hi)
        /\ regs' = second /\ Retire(Advance(di)) /\ UNCHANGED <<resv, loop, mem>>
    BY DEF LoadPair
  <2>2. /\ first \in [Regs -> Word]
        /\ Hide(first) = Quiet!WriteReg(UserRegs, di.rd, mem[lo])
    BY <1>1, <1>3, <2>1, <1>11 DEF Readable
  <2> HIDE DEF first, hi
  <2>3. Hide(second) = Quiet!WriteReg(Hide(first), di.rs1, mem[hi])
    BY <1>1, <1>3, <2>1, <2>2, HideWrites
  <2>4. UserRegs' = Quiet!WriteReg(Quiet!WriteReg(UserRegs, di.rd, mem[lo]), di.rs1, mem[hi])
    BY <2>1, <2>2, <2>3, QuietOperators
  <2> QED
    BY <1>2, <1>3, <1>5, <2>1, <2>4, QuietOperators DEF Quiet!LoadPair, hi
<1>7. Push(di) => Quiet!Push(di)
  <2> SUFFICES ASSUME Push(di) PROVE Quiet!Push(di)
    OBVIOUS
  <2> DEFINE sp == Wrap(regs[31] - 8)
             moved == WriteReg(regs, 31, sp)
  <2>1. /\ di.op = "PUSH" /\ Aligned(sp) /\ Writable(sp) /\ regs' = moved
        /\ mem' = [mem EXCEPT ![sp] = moved[di.rd]]
        /\ Retire(Advance(di)) /\ UNCHANGED <<resv, loop>>
    BY DEF Push
  <2>2. sp \in Word
    BY <1>4, <1>5
  <2>3. moved \in [Regs -> Word] /\ Hide(moved) = Quiet!WriteReg(UserRegs, 31, sp)
    BY <1>1, <2>2, <1>11
  <2>4. Hide(moved)[di.rd] = moved[di.rd]
    BY <1>1, <2>3, HideReads
  <2> HIDE DEF moved
  <2>5. UserRegs' = Hide(moved)
    BY <2>1, QuietOperators
  <2> QED
    BY <1>2, <1>3, <1>5, <2>1, <2>3, <2>4, <2>5, QuietOperators DEF Quiet!Push
<1>8. Pop(di) => Quiet!Pop(di)
  <2> SUFFICES ASSUME Pop(di) PROVE Quiet!Pop(di)
    OBVIOUS
  <2> DEFINE sp == regs[31]
             loaded == WriteReg(regs, di.rd, mem[sp])
  <2>1. /\ di.op = "POP" /\ Aligned(sp) /\ Readable(sp)
        /\ regs' = WriteReg(loaded, 31, Wrap(loaded[31] + 8))
        /\ Retire(Advance(di)) /\ UNCHANGED <<resv, loop, mem>>
    BY DEF Pop
  <2>2. loaded \in [Regs -> Word] /\ Hide(loaded) = Quiet!WriteReg(UserRegs, di.rd, mem[sp])
    BY <1>1, <1>3, <2>1, <1>11 DEF Readable
  <2> HIDE DEF loaded
  <2>3. Hide(loaded)[31] = loaded[31] /\ loaded[31] \in Word
    BY <1>1, <2>2, HideReads
  <2>4. Wrap(loaded[31] + 8) \in Word
    BY <1>4, <2>3
  <2>5. UserRegs' = Quiet!WriteReg(Hide(loaded), 31, Wrap(loaded[31] + 8))
    BY <1>1, <2>1, <2>2, <2>4, HideWrites, QuietOperators, ZenonT(60)
  <2> QED
    BY <1>2, <1>3, <1>5, <2>1, <2>2, <2>3, <2>5, QuietOperators DEF Quiet!Pop
<1>9. Enter(di) => Quiet!Enter(di)
  <2> SUFFICES ASSUME Enter(di) PROVE Quiet!Enter(di)
    OBVIOUS
  <2> DEFINE fp == Wrap(regs[31] - 16)
             low == Wrap(fp - di.imm)
             framed == WriteReg(regs, 30, fp)
  <2>1. /\ di.op = "ENTER" /\ Aligned(fp) /\ Writable(fp) /\ Writable(Wrap(fp + 8))
        /\ mem' = [[mem EXCEPT ![fp] = regs[29]] EXCEPT ![Wrap(fp + 8)] = regs[30]]
        /\ regs' = WriteReg(framed, 31, low)
        /\ Retire(Advance(di)) /\ UNCHANGED <<resv, loop>>
    BY DEF Enter
  <2>2. fp \in Word /\ low \in Word
    <3>1. fp \in Word
      BY <1>4, <1>5
    <3> HIDE DEF fp
    <3> QED
      BY <1>1, <1>4, <3>1
  <2>3. framed \in [Regs -> Word] /\ Hide(framed) = Quiet!WriteReg(UserRegs, 30, fp)
    BY <1>1, <2>2, <1>11 DEF Readable
  <2> HIDE DEF framed, low
  <2>4. UserRegs' = Quiet!WriteReg(Hide(framed), 31, low)
    BY <1>1, <2>1, <2>2, <2>3, HideWrites, QuietOperators, ZenonT(60)
  <2>5. /\ Quiet!Wrap(UserRegs[31] - 16) = fp /\ Quiet!Wrap(fp + 8) = Wrap(fp + 8)
        /\ Quiet!Wrap(fp - di.imm) = low /\ UserRegs[29] = regs[29] /\ UserRegs[30] = regs[30]
    BY <1>5, QuietOperators DEF low
  <2> HIDE DEF fp
  <2>6. /\ Quiet!Aligned(fp) /\ Quiet!Writable(fp) /\ Quiet!Writable(Wrap(fp + 8))
        /\ Quiet!Retire(Quiet!Advance(di))
    BY <1>2, <1>3, <2>1, QuietOperators
  <2>7. UserRegs' = Quiet!WriteReg(Quiet!WriteReg(UserRegs, 30, fp), 31, low)
    BY <2>3, <2>4
  <2> QED
    BY <2>1, <2>5, <2>6, <2>7 DEF Quiet!Enter
<1>10. Leave(di) => Quiet!Leave(di)
  <2> SUFFICES ASSUME Leave(di) PROVE Quiet!Leave(di)
    OBVIOUS
  <2> DEFINE fp == regs[30]
             hi == Wrap(fp + 8)
             high == Wrap(fp + 16)
             returned == WriteReg(regs, 29, mem[fp])
             framed == WriteReg(returned, 30, mem[hi])
  <2>1. /\ di.op = "LEAVE" /\ Aligned(fp) /\ Readable(fp) /\ Readable(hi)
        /\ regs' = WriteReg(framed, 31, high)
        /\ Retire(Advance(di)) /\ UNCHANGED <<resv, loop, mem>>
    BY DEF Leave
  <2>2. high \in Word
    BY <1>4, <1>5
  <2>3. returned \in [Regs -> Word] /\ Hide(returned) = Quiet!WriteReg(UserRegs, 29, mem[fp])
    BY <1>1, <1>3, <2>1, <1>11 DEF Readable
  <2> HIDE DEF returned, hi, high
  <2>4. /\ framed \in [Regs -> Word]
        /\ Hide(framed) = Quiet!WriteReg(Hide(returned), 30, mem[hi])
    <3>1. mem[hi] \in Word
      BY <1>3, <2>1
    <3>2. 30 \in Regs \ {28}
      BY <1>1
    <3> DEFINE v == mem[hi]
    <3>3. v \in Word
      BY <3>1
    <3> HIDE DEF v
    <3>4. /\ WriteReg(returned, 30, v) \in [Regs -> Word]
          /\ Hide(WriteReg(returned, 30, v)) = Quiet!WriteReg(Hide(returned), 30, v)
      BY <2>3, <3>2, <3>3, HideWrites
    <3> QED
      BY <3>4 DEF v
  <2> HIDE DEF framed
  <2>5. UserRegs' = Quiet!WriteReg(Hide(framed), 31, high)
    BY <1>1, <2>1, <2>2, <2>4, HideWrites, QuietOperators, ZenonT(60)
  <2> QED
    BY <1>2, <1>3, <1>5, <2>1, <2>3, <2>4, <2>5, QuietOperators DEF Quiet!Leave, hi, high
<1> QED
  BY <1>6, <1>7, <1>8, <1>9, <1>10

(* An instruction the handler's register, the traps and the CSRs are no part *)
(* of is the same instruction on the quiet hart, unless it throws.           *)
Ordinary(di) ==
  Untouched(di) /\ di.op \notin {"LD_D_NZ", "BREAK", "ECALL", "TRAPRET", "CSRRW", "INVALID"}

LEMMA QuietStep ==
  ASSUME TypeOK, Interrupted(ctl), ctl.privilege = 0,
         NEW di \in Code(ctl.pc), Ordinary(di), Execute(di), ~Thrown
  PROVE  Quiet!Step
<1>1. Untouched(di)
  BY DEF Ordinary
<1>2. ~(LoadFromNull(di) \/ RaiseTrap(di) \/ TrapReturn(di) \/ CsrRw(di) \/ Undecodable(di))
  BY DEF Ordinary, LoadFromNull, RaiseTrap, TrapOps, TrapReturn, CsrRw, Undecodable
<1>3. Quiet!Execute(di)
  BY <1>1, <1>2, QuietFlow, QuietRegister, QuietMemory, QuietStack DEF Execute, Quiet!Execute
<1>4. UserCtl.pc = ctl.pc
  BY <1>1, QuietOperators
<1> QED
  BY <1>3, <1>4 DEF Quiet!Step

-------------------------------------------------------------------------------
(* The instructions of the image.                                            *)

LEMMA Fetched ==
  /\ Code(0)  = {Esc(I("LOOP_SET", 0, 1, 0, -2))}
  /\ Code(8)  = {Esc(I("CALL", 29, 0, 0, 6)), I("JALR", 29, 0, 0, 32)}
  /\ Code(12) = {I("NOP", 0, 0, 0, 0)}
  /\ Code(16) = {Esc(I("LOOP_DECBR", 0, 0, 0, -2))}
  /\ Code(24) = {I("JMP", 0, 0, 0, 0)}
  /\ Code(32) = {Esc(I("ENTER", 0, 0, 0, 0))}
  /\ Code(40) = {I("ADDI", 2, 2, 0, 1)}
  /\ Code(44) = {I("PUSH", 2, 0, 0, 0)}
  /\ Code(48) = {Esc(I("FRAME", 3, 0, 0, -8))}
  /\ Code(56) = {I("LD_D", 3, 3, 0, 0)}
  /\ Code(60) = {Esc(I("ADJSP", 0, 0, 0, 8))}
  /\ Code(68) = {Esc(I("LEAVE", 0, 0, 0, 0))}
  /\ Code(76) = {I("RET", 0, 0, 0, 0)}
  /\ Code(128) = {Esc(I("CSRRW", 28, 0, 0, 6))}
  /\ Code(136) = {I("ADDI", 28, 28, 0, p) : p \in Periods}
  /\ Code(140) = {Esc(I("CSRRW", 0, 28, 0, 7))}
  /\ Code(148) = {Esc(I("TRAPRET", 0, 0, 0, 0))}
<1>1. \A a \in 0 .. 511 : Code(a) = ProgCode(a)
  BY ProgAssumption, WrapSmall
<1> QED
  BY <1>1 DEF ProgCode

LEMMA Fields ==
  \A op, rd, rs1, rs2, imm :
    /\ I(op, rd, rs1, rs2, imm) =
         [op |-> op, rd |-> rd, rs1 |-> rs1, rs2 |-> rs2, imm |-> imm, len |-> 4]
    /\ Esc(I(op, rd, rs1, rs2, imm)) =
         [op |-> op, rd |-> rd, rs1 |-> rs1, rs2 |-> rs2, imm |-> imm, len |-> 8]
  BY DEF I, Esc

LEMMA Stack ==
  /\ StackTop \in Nat /\ StackTop >= 24
  /\ \A n \in {0, 8, 16, 24} :
       Wrap(StackTop - n) = StackTop - n /\ StackTop - n \in Word /\ Aligned(StackTop - n)
  /\ \A n \in {8, 16, 24} : Readable(StackTop - n) /\ Writable(StackTop - n)
<1>1. StackTop \in Word /\ StackTop - 24 \in Word /\ WordSize \in Nat /\ StackTop % 8 = 0
  BY ProgAssumption, CellsAssumption, SizesAssumption DEF Aligned
<1>2. StackTop \in Nat /\ StackTop >= 24 /\ StackTop < WordSize
  BY <1>1 DEF Word
<1>3. ASSUME NEW n \in {0, 8, 16, 24}
      PROVE  Wrap(StackTop - n) = StackTop - n /\ StackTop - n \in Word
  BY <1>1, <1>2 DEF Wrap, Word
<1>4. \A t \in Nat, n \in {0, 8, 16, 24} : t % 8 = 0 => (t - n) % 8 = 0
  OBVIOUS
<1>5. \A n \in {0, 8, 16, 24} : Aligned(StackTop - n)
  BY <1>1, <1>2, <1>4 DEF Aligned
<1> QED
  BY <1>2, <1>3, <1>5, ProgAssumption DEF Readable, Writable

-------------------------------------------------------------------------------
(* One instruction of the program: it is ordinary, it retires, and the       *)
(* program is at its next pc with what holds there.                          *)

Moves(next) == next \in UserPcs /\ Retire(next) /\ At(next)'

LEMMA LoopEffect ==
  ASSUME TypeOK, At(ctl.pc), ctl.pc \in {0, 8, 12, 16, 24},
         NEW di \in Code(ctl.pc), Execute(di)
  PROVE  Ordinary(di) /\ \E next : Moves(next)
<1>1. /\ Regs = {0, 1, 2, 3, 28, 29, 30, 31} /\ regs \in [Regs -> Word] /\ regs[0] = 0
      /\ loop.count \in Nat /\ \A r \in Regs : regs[r] \in Nat
  BY ProgAssumption, SizesAssumption DEF ProgRegs, TypeOK, Word
<1>2. CASE ctl.pc = 0
  <2>1. di.op = "LOOP_SET" /\ di.rd = 0 /\ di.rs1 = 1 /\ di.rs2 = 0 /\ di.len = 8
    <3>1. di = Esc(I("LOOP_SET", 0, 1, 0, -2))
      BY <1>2, Fetched
    <3> QED
      BY <3>1, Fields
  <2>2. LoopSet(di) /\ Ordinary(di)
    BY <2>1, ExecuteByOp DEF Ordinary, Untouched
  <2>3. Advance(di) = 8
    BY <1>2, <2>1, WrapSmall DEF Advance
  <2>4. /\ Retire(8) /\ loop'.count = regs[1] /\ regs' = regs /\ mem' = mem
    BY <2>1, <2>2, <2>3 DEF LoopSet
  <2>5. Moves(8)
    BY <1>1, <1>2, <2>4 DEF Moves, At, UserPcs, Before, Balanced
  <2> QED
    BY <2>2, <2>5
<1>3. CASE ctl.pc = 8
  <2>1. /\ regs' = [regs EXCEPT ![29] = regs'[29]] /\ regs'[29] \in {12, 16}
        /\ Retire(32) /\ loop' = loop /\ mem' = mem /\ Ordinary(di)
    <3>1. CASE di = Esc(I("CALL", 29, 0, 0, 6))
      <4>1. /\ di.op = "CALL" /\ di.rd = 29 /\ di.rs1 = 0 /\ di.rs2 = 0
            /\ di.imm = 6 /\ di.len = 8
        BY <3>1, Fields
      <4>2. JumpAndLink(di) /\ Ordinary(di)
        BY <4>1, ExecuteByOp DEF Ordinary, Untouched
      <4>3. Advance(di) = 16 /\ Target(di) = 32
        BY <1>3, <4>1, WrapSmall DEF Advance, Target
      <4> QED
        BY <1>1, <4>1, <4>2, <4>3 DEF JumpAndLink, WriteReg
    <3>2. CASE di = I("JALR", 29, 0, 0, 32)
      <4>1. di.op = "JALR" /\ di.rd = 29 /\ di.rs1 = 0 /\ di.rs2 = 0 /\ di.imm = 32
        BY <3>2, Fields
      <4>2. JumpRegister(di) /\ Ordinary(di)
        BY <4>1, ExecuteByOp DEF Ordinary, Untouched
      <4> DEFINE linked == WriteReg(regs, 29, 12)
      <4>3. Wrap(ctl.pc + 4) = 12
        BY <1>3, WrapSmall
      <4>4. linked = [regs EXCEPT ![29] = 12] /\ linked[0] = 0
        BY <1>1 DEF WriteReg
      <4>5. WordAlign(Wrap(linked[0] + 32)) = 32
        BY <4>4, WrapSmall DEF WordAlign
      <4> HIDE DEF linked
      <4>6. regs' = linked /\ Retire(32) /\ loop' = loop /\ mem' = mem
        BY <4>1, <4>2, <4>3, <4>5 DEF JumpRegister, linked
      <4> QED
        BY <1>1, <4>2, <4>4, <4>6
    <3> QED
      BY <1>3, <3>1, <3>2, Fetched
  <2>2. \A r \in Regs \ {29} : regs'[r] = regs[r]
    BY <1>1, <2>1
  <2>3. Moves(32)
    BY <1>1, <1>3, <2>1, <2>2 DEF Moves, At, UserPcs, Before, Balanced
  <2> QED
    BY <2>1, <2>3
<1>4. CASE ctl.pc = 12
  <2>1. di.op = "NOP" /\ di.rd = 0 /\ di.rs1 = 0 /\ di.rs2 = 0 /\ di.len = 4
    <3>1. di = I("NOP", 0, 0, 0, 0)
      BY <1>4, Fetched
    <3> QED
      BY <3>1, Fields
  <2>2. Hint(di) /\ Ordinary(di)
    BY <2>1, ExecuteByOp DEF HintOps, Ordinary, Untouched
  <2>3. Advance(di) = 16
    BY <1>4, <2>1, WrapSmall DEF Advance
  <2>4. Retire(16) /\ loop' = loop /\ regs' = regs /\ mem' = mem
    BY <2>2, <2>3 DEF Hint
  <2>5. Moves(16)
    BY <1>4, <2>4 DEF Moves, At, UserPcs, Called, Balanced
  <2> QED
    BY <2>2, <2>5
<1>5. CASE ctl.pc = 16
  <2>1. /\ di.op = "LOOP_DECBR" /\ di.rd = 0 /\ di.rs1 = 0 /\ di.rs2 = 0
        /\ di.imm = -2 /\ di.len = 8
    <3>1. di = Esc(I("LOOP_DECBR", 0, 0, 0, -2))
      BY <1>5, Fetched
    <3> QED
      BY <3>1, Fields
  <2>2. LoopDecBr(di) /\ Ordinary(di)
    BY <2>1, ExecuteByOp DEF Ordinary, Untouched
  <2>3. Advance(di) = 24 /\ Target(di) = 8
    BY <1>5, <2>1, WrapSmall DEF Advance, Target
  <2>4. /\ Retire(IF loop.count > 1 THEN 8 ELSE 24) /\ regs' = regs /\ mem' = mem
        /\ loop.count > 0 => loop'.count = loop.count - 1
    BY <2>2, <2>3 DEF LoopDecBr, TypeOK
  <2>5. Called /\ Balanced /\ regs[3] = regs[2]
    BY <1>5 DEF At
  <2>6. CASE loop.count > 1
    <3>1. Before'
      BY <1>1, <2>4, <2>5, <2>6 DEF Called, Before
    <3>2. Moves(8)
      BY <2>4, <2>5, <2>6, <3>1 DEF Moves, At, UserPcs, Balanced
    <3> QED
      BY <2>2, <3>2
  <2>7. CASE ~(loop.count > 1)
    <3>1. Counted'
      BY <1>1, <2>4, <2>5, <2>7 DEF Called, Counted
    <3>2. Moves(24)
      BY <2>4, <2>5, <2>7, <3>1 DEF Moves, At, UserPcs, Balanced
    <3> QED
      BY <2>2, <3>2
  <2> QED
    BY <2>6, <2>7
<1>6. CASE ctl.pc = 24
  <2>1. di.op = "JMP" /\ di.rd = 0 /\ di.rs1 = 0 /\ di.rs2 = 0 /\ di.imm = 0
    <3>1. di = I("JMP", 0, 0, 0, 0)
      BY <1>6, Fetched
    <3> QED
      BY <3>1, Fields
  <2>2. Jump(di) /\ Ordinary(di)
    BY <2>1, ExecuteByOp DEF Ordinary, Untouched
  <2>3. Target(di) = 24
    BY <1>6, <2>1, WrapSmall DEF Target
  <2>4. Retire(24) /\ loop' = loop /\ regs' = regs /\ mem' = mem
    BY <2>2, <2>3 DEF Jump
  <2>5. Moves(24)
    BY <1>6, <2>4 DEF Moves, At, UserPcs, Counted, Balanced
  <2> QED
    BY <2>2, <2>5
<1> QED
  BY <1>2, <1>3, <1>4, <1>5, <1>6

LEMMA CallEffect ==
  ASSUME TypeOK, At(ctl.pc), ctl.pc \in {32, 40, 44, 48, 56, 60, 68, 76},
         NEW di \in Code(ctl.pc), Execute(di)
  PROVE  Ordinary(di) /\ \E next : Moves(next)
<1>1. /\ Regs = {0, 1, 2, 3, 28, 29, 30, 31} /\ regs \in [Regs -> Word] /\ regs[0] = 0
      /\ mem \in [Cells -> Word] /\ loop.count \in Nat
      /\ \A r \in Regs : regs[r] \in 0 .. WordSize - 1
  BY ProgAssumption, SizesAssumption DEF ProgRegs, TypeOK, Word
<1>2. /\ {StackTop - 8, StackTop - 16, StackTop - 24} \subseteq Cells
      /\ StackTop \in Nat /\ StackTop >= 24
  BY ProgAssumption, Stack
<1>3. CASE ctl.pc = 32
  <2>1. /\ di.op = "ENTER" /\ di.rd = 0 /\ di.rs1 = 0 /\ di.rs2 = 0
        /\ di.imm = 0 /\ di.len = 8
    <3>1. di = Esc(I("ENTER", 0, 0, 0, 0))
      BY <1>3, Fetched
    <3> QED
      BY <3>1, Fields
  <2>2. Enter(di) /\ Ordinary(di)
    BY <2>1, ExecuteByOp DEF Ordinary, Untouched
  <2>3. Advance(di) = 40
    BY <1>3, <2>1, WrapSmall DEF Advance
  <2>4. regs[31] = StackTop /\ regs[30] = 0 /\ regs[29] \in {12, 16} /\ Before
    BY <1>3 DEF At, Balanced
  <2> DEFINE fp == StackTop - 16
             hi == StackTop - 8
  <2>5. /\ Wrap(regs[31] - 16) = fp /\ Wrap(fp + 8) = hi /\ Wrap(fp - di.imm) = fp
        /\ Writable(fp) /\ Writable(hi)
    <3>1. regs[31] - 16 = fp /\ fp + 8 = hi /\ fp - di.imm = fp
      BY <1>2, <2>1, <2>4
    <3> QED
      BY <3>1, Stack
  <2>6. fp # hi /\ fp \in Cells /\ hi \in Cells
    BY <1>2
  <2> HIDE DEF fp, hi
  <2>7. /\ Retire(40) /\ loop' = loop
        /\ mem' = [[mem EXCEPT ![fp] = regs[29]] EXCEPT ![hi] = regs[30]]
        /\ regs' = WriteReg(WriteReg(regs, 30, fp), 31, fp)
    BY <2>2, <2>3, <2>5 DEF Enter
  <2>8. mem'[fp] = regs[29] /\ mem'[hi] = 0
    BY <1>1, <2>4, <2>6, <2>7
  <2>9. /\ regs'[30] = fp /\ regs'[31] = fp
        /\ \A r \in Regs \ {30, 31} : regs'[r] = regs[r]
    BY <1>1, <2>7 DEF WriteReg
  <2>10. Before' /\ Framed(16)'
    BY <1>1, <2>4, <2>7, <2>8, <2>9 DEF Before, Framed, fp, hi
  <2>11. Moves(40)
    BY <2>7, <2>10 DEF Moves, At, UserPcs
  <2> QED
    BY <2>2, <2>11
<1>4. CASE ctl.pc = 40
  <2>1. /\ di.op = "ADDI" /\ di.rd = 2 /\ di.rs1 = 2 /\ di.rs2 = 0
        /\ di.imm = 1 /\ di.len = 4
    <3>1. di = I("ADDI", 2, 2, 0, 1)
      BY <1>4, Fetched
    <3> QED
      BY <3>1, Fields
  <2>2. RegisterOp(di) /\ Ordinary(di)
    BY <2>1, ExecuteByOp DEF RegisterOps, Ordinary, Untouched
  <2>3. Advance(di) = 44
    BY <1>4, <2>1, WrapSmall DEF Advance
  <2>4. Dest(di) = 2 /\ Result(di) = Wrap(regs[2] + 1)
    BY <2>1 DEF Dest, Result
  <2>5. Before /\ Framed(16)
    BY <1>4 DEF At
  <2>6. Wrap(regs[2] + 1) = regs[2] + 1
    <3>1. regs[2] + 1 \in 0 .. WordSize - 1
      <4>1. /\ regs[1] \in 0 .. WordSize - 1 /\ regs[2] \in 0 .. WordSize - 1
            /\ WordSize \in Nat /\ WordSize >= 512
        BY <1>1, SizesAssumption
      <4> QED
        BY <1>1, <2>5, <4>1 DEF Before
    <3> QED
      BY <3>1, SizesAssumption DEF Wrap
  <2>7. /\ Retire(44) /\ loop' = loop /\ mem' = mem
        /\ regs' = [regs EXCEPT ![2] = regs[2] + 1]
    <3>1. Dest(di) = 2 /\ Result(di) = regs[2] + 1
      BY <2>4, <2>6
    <3>2. \A v : WriteReg(regs, 2, v) = [regs EXCEPT ![2] = v]
      BY DEF WriteReg
    <3> QED
      BY <2>2, <2>3, <3>1, <3>2 DEF RegisterOp
  <2>8. regs'[2] = regs[2] + 1 /\ \A r \in Regs \ {2} : regs'[r] = regs[r]
    BY <1>1, <2>7
  <2>9. Called'
    <3>1. regs[2] \in Nat /\ regs'[1] = regs[1] /\ regs[1] \in Nat
      BY <1>1, <2>8
    <3> QED
      BY <1>1, <2>5, <2>7, <2>8, <3>1 DEF Before, Called
  <2>10. Framed(16)'
    BY <1>1, <2>5, <2>7, <2>8 DEF Framed
  <2>11. Moves(44)
    BY <2>7, <2>9, <2>10 DEF Moves, At, UserPcs
  <2> QED
    BY <2>2, <2>11
<1>5. CASE ctl.pc = 44
  <2>1. di.op = "PUSH" /\ di.rd = 2 /\ di.rs1 = 0 /\ di.rs2 = 0 /\ di.len = 4
    <3>1. di = I("PUSH", 2, 0, 0, 0)
      BY <1>5, Fetched
    <3> QED
      BY <3>1, Fields
  <2>2. Push(di) /\ Ordinary(di)
    BY <2>1, ExecuteByOp DEF Ordinary, Untouched
  <2>3. Advance(di) = 48
    BY <1>5, <2>1, WrapSmall DEF Advance
  <2>4. Called /\ Framed(16)
    BY <1>5 DEF At
  <2> DEFINE sp == StackTop - 24
  <2>5. Wrap(regs[31] - 8) = sp /\ Writable(sp)
    <3>1. regs[31] - 8 = sp
      BY <1>2, <2>4 DEF Framed
    <3> QED
      BY <3>1, Stack
  <2>6. sp \in Cells /\ sp # StackTop - 16 /\ sp # StackTop - 8
    BY <1>2
  <2> HIDE DEF sp
  <2>7. /\ Retire(48) /\ loop' = loop /\ regs' = WriteReg(regs, 31, sp)
        /\ mem' = [mem EXCEPT ![sp] = WriteReg(regs, 31, sp)[2]]
    BY <2>1, <2>2, <2>3, <2>5 DEF Push
  <2>8. regs'[31] = sp /\ \A r \in Regs \ {31} : regs'[r] = regs[r]
    BY <1>1, <2>7 DEF WriteReg
  <2>9. /\ mem'[sp] = regs[2] /\ mem'[StackTop - 16] = mem[StackTop - 16]
        /\ mem'[StackTop - 8] = mem[StackTop - 8]
    BY <1>1, <1>2, <2>6, <2>7, <2>8
  <2>10. Called' /\ Framed(24)' /\ mem'[StackTop - 24] = regs'[2]
    BY <1>1, <2>4, <2>7, <2>8, <2>9 DEF Called, Framed, sp
  <2>11. Moves(48)
    BY <2>7, <2>10 DEF Moves, At, UserPcs
  <2> QED
    BY <2>2, <2>11
<1>6. CASE ctl.pc = 48
  <2>1. /\ di.op = "FRAME" /\ di.rd = 3 /\ di.rs1 = 0 /\ di.rs2 = 0
        /\ di.imm = -8 /\ di.len = 8
    <3>1. di = Esc(I("FRAME", 3, 0, 0, -8))
      BY <1>6, Fetched
    <3> QED
      BY <3>1, Fields
  <2>2. RegisterOp(di) /\ Ordinary(di)
    BY <2>1, ExecuteByOp DEF RegisterOps, Ordinary, Untouched
  <2>3. Advance(di) = 56
    BY <1>6, <2>1, WrapSmall DEF Advance
  <2>4. Called /\ Framed(24) /\ mem[StackTop - 24] = regs[2]
    BY <1>6 DEF At
  <2>5. Dest(di) = 3 /\ Result(di) = StackTop - 24
    <3>1. Dest(di) = 3 /\ Result(di) = Wrap(regs[30] + (-8))
      BY <2>1 DEF Dest, Result
    <3>2. regs[30] + (-8) = StackTop - 24
      BY <1>2, <2>4 DEF Framed
    <3> QED
      BY <3>1, <3>2, Stack
  <2>6. /\ Retire(56) /\ loop' = loop /\ mem' = mem
        /\ regs' = [regs EXCEPT ![3] = StackTop - 24]
    BY <2>2, <2>3, <2>5 DEF RegisterOp, WriteReg
  <2>7. regs'[3] = StackTop - 24 /\ \A r \in Regs \ {3} : regs'[r] = regs[r]
    BY <1>1, <2>6
  <2>8. Called' /\ Framed(24)' /\ mem'[StackTop - 24] = regs'[2]
    BY <1>1, <2>4, <2>6, <2>7 DEF Called, Framed
  <2>9. Moves(56)
    BY <2>6, <2>7, <2>8 DEF Moves, At, UserPcs
  <2> QED
    BY <2>2, <2>9
<1>7. CASE ctl.pc = 56
  <2>1. /\ di.op = "LD_D" /\ di.rd = 3 /\ di.rs1 = 3 /\ di.rs2 = 0
        /\ di.imm = 0 /\ di.len = 4
    <3>1. di = I("LD_D", 3, 3, 0, 0)
      BY <1>7, Fetched
    <3> QED
      BY <3>1, Fields
  <2>2. Load(di) /\ Ordinary(di)
    BY <2>1, ExecuteByOp DEF Ordinary, Untouched
  <2>3. Advance(di) = 60
    BY <1>7, <2>1, WrapSmall DEF Advance
  <2>4. Called /\ Framed(24) /\ mem[StackTop - 24] = regs[2] /\ regs[3] = StackTop - 24
    BY <1>7 DEF At
  <2>5. EffectiveAddress(di) = StackTop - 24 /\ Readable(StackTop - 24)
    <3>1. regs[3] + 0 = StackTop - 24
      BY <1>2, <2>4
    <3> QED
      BY <2>1, <3>1, Stack DEF EffectiveAddress
  <2>6. /\ Retire(60) /\ loop' = loop /\ mem' = mem
        /\ regs' = [regs EXCEPT ![3] = regs[2]]
    BY <2>1, <2>2, <2>3, <2>4, <2>5 DEF Load, WriteReg
  <2>7. regs'[3] = regs[2] /\ \A r \in Regs \ {3} : regs'[r] = regs[r]
    BY <1>1, <2>6
  <2>8. Called' /\ Framed(24)' /\ regs'[3] = regs'[2]
    BY <1>1, <2>4, <2>6, <2>7 DEF Called, Framed
  <2>9. Moves(60)
    BY <2>6, <2>8 DEF Moves, At, UserPcs
  <2> QED
    BY <2>2, <2>9
<1>8. CASE ctl.pc = 60
  <2>1. /\ di.op = "ADJSP" /\ di.rd = 0 /\ di.rs1 = 0 /\ di.rs2 = 0
        /\ di.imm = 8 /\ di.len = 8
    <3>1. di = Esc(I("ADJSP", 0, 0, 0, 8))
      BY <1>8, Fetched
    <3> QED
      BY <3>1, Fields
  <2>2. RegisterOp(di) /\ Ordinary(di)
    BY <2>1, ExecuteByOp DEF RegisterOps, Ordinary, Untouched
  <2>3. Advance(di) = 68
    BY <1>8, <2>1, WrapSmall DEF Advance
  <2>4. Called /\ Framed(24) /\ regs[3] = regs[2]
    BY <1>8 DEF At
  <2>5. Dest(di) = 31 /\ Result(di) = StackTop - 16
    <3>1. Dest(di) = 31 /\ Result(di) = Wrap(regs[31] + 8)
      BY <2>1 DEF Dest, Result
    <3>2. regs[31] + 8 = StackTop - 16
      BY <1>2, <2>4 DEF Framed
    <3> QED
      BY <3>1, <3>2, Stack
  <2>6. /\ Retire(68) /\ loop' = loop /\ mem' = mem
        /\ regs' = [regs EXCEPT ![31] = StackTop - 16]
    BY <2>2, <2>3, <2>5 DEF RegisterOp, WriteReg
  <2>7. regs'[31] = StackTop - 16 /\ \A r \in Regs \ {31} : regs'[r] = regs[r]
    BY <1>1, <2>6
  <2>8. Called' /\ Framed(16)' /\ regs'[3] = regs'[2]
    BY <1>1, <2>4, <2>6, <2>7 DEF Called, Framed
  <2>9. Moves(68)
    BY <2>6, <2>8 DEF Moves, At, UserPcs
  <2> QED
    BY <2>2, <2>9
<1>9. CASE ctl.pc = 68
  <2>1. di.op = "LEAVE" /\ di.rd = 0 /\ di.rs1 = 0 /\ di.rs2 = 0 /\ di.len = 8
    <3>1. di = Esc(I("LEAVE", 0, 0, 0, 0))
      BY <1>9, Fetched
    <3> QED
      BY <3>1, Fields
  <2>2. Leave(di) /\ Ordinary(di)
    BY <2>1, ExecuteByOp DEF Ordinary, Untouched
  <2>3. Advance(di) = 76
    BY <1>9, <2>1, WrapSmall DEF Advance
  <2>4. Called /\ Framed(16) /\ regs[3] = regs[2]
    BY <1>9 DEF At
  <2>5. /\ regs[30] = StackTop - 16 /\ mem[StackTop - 16] \in {12, 16}
        /\ mem[StackTop - 8] = 0
    BY <2>4 DEF Framed
  <2>6. /\ Wrap(regs[30] + 8) = StackTop - 8 /\ Wrap(regs[30] + 16) = StackTop
        /\ Readable(regs[30]) /\ Readable(StackTop - 8)
    <3>1. regs[30] + 8 = StackTop - 8 /\ regs[30] + 16 = StackTop - 0 /\ StackTop - 0 = StackTop
      BY <1>2, <2>5
    <3> QED
      BY <2>5, <3>1, Stack
  <2>7. /\ Retire(76) /\ loop' = loop /\ mem' = mem
        /\ regs' = WriteReg(WriteReg(WriteReg(regs, 29, mem[StackTop - 16]), 30, 0), 31, StackTop)
    BY <2>2, <2>3, <2>5, <2>6 DEF Leave
  <2>8. /\ regs'[29] \in {12, 16} /\ regs'[30] = 0 /\ regs'[31] = StackTop
        /\ \A r \in Regs \ {29, 30, 31} : regs'[r] = regs[r]
    BY <1>1, <2>5, <2>7 DEF WriteReg
  <2>9. Called' /\ Balanced' /\ regs'[3] = regs'[2]
    BY <1>1, <2>4, <2>7, <2>8 DEF Called, Balanced
  <2>10. Moves(76)
    BY <2>7, <2>8, <2>9 DEF Moves, At, UserPcs
  <2> QED
    BY <2>2, <2>10
<1>10. CASE ctl.pc = 76
  <2>1. di.op = "RET" /\ di.rd = 0 /\ di.rs1 = 0 /\ di.rs2 = 0
    <3>1. di = I("RET", 0, 0, 0, 0)
      BY <1>10, Fetched
    <3> QED
      BY <3>1, Fields
  <2>2. Return(di) /\ Ordinary(di)
    BY <2>1, ExecuteByOp DEF Ordinary, Untouched
  <2>3. Called /\ Balanced /\ regs[3] = regs[2] /\ regs[29] \in {12, 16}
    BY <1>10 DEF At
  <2>4. WordAlign(regs[29]) = regs[29]
    BY <2>3 DEF WordAlign
  <2>5. Retire(regs[29]) /\ loop' = loop /\ regs' = regs /\ mem' = mem
    BY <2>2, <2>4 DEF Return
  <2>6. Moves(regs[29])
    BY <2>3, <2>5 DEF Moves, At, UserPcs, Called, Balanced
  <2> QED
    BY <2>2, <2>6
<1> QED
  BY <1>3, <1>4, <1>5, <1>6, <1>7, <1>8, <1>9, <1>10

-------------------------------------------------------------------------------
(* One instruction of the handler: the program stays where it is, and so     *)
(* does all it can see.                                                      *)

LEMMA HandlerEffect ==
  ASSUME TypeOK, Interrupted(ctl), ctl.privilege = 1,
         NEW di \in Code(ctl.pc), Execute(di)
  PROVE  /\ Interrupted(ctl') /\ Running(ctl') = Running(ctl)
         /\ \A r \in Regs \ {28} : regs'[r] = regs[r]
         /\ mem' = mem /\ resv' = resv /\ loop' = loop
<1>1. ctl.pc \in HandlerPcs /\ 128 \in HandlerPcs /\ 28 \in Regs
  BY ProgAssumption DEF Interrupted, UnderHandler, HandlerPcs, ProgRegs
<1>2. ASSUME Advance(di) \in HandlerPcs,
             \/ di.op = "ADDI" /\ di.rd = 28
             \/ di.op = "CSRRW" /\ di.imm = 6 /\ di.rd = 28
             \/ di.op = "CSRRW" /\ di.imm = 7 /\ di.rd = 0
      PROVE  /\ Interrupted(ctl') /\ Running(ctl') = Running(ctl)
             /\ \A r \in Regs \ {28} : regs'[r] = regs[r]
             /\ mem' = mem /\ resv' = resv /\ loop' = loop
  BY <1>1, <1>2, HandlerKeeps DEF Interrupted
<1>3. CASE ctl.pc = 128
  <2>1. di.op = "CSRRW" /\ di.rd = 28 /\ di.imm = 6 /\ di.len = 8
    <3>1. di = Esc(I("CSRRW", 28, 0, 0, 6))
      BY <1>3, Fetched
    <3> QED
      BY <3>1, Fields
  <2>2. Advance(di) \in HandlerPcs
    BY <1>3, <2>1, WrapSmall DEF Advance, HandlerPcs
  <2> QED
    BY <1>2, <2>1, <2>2
<1>4. CASE ctl.pc = 136
  <2>1. di.op = "ADDI" /\ di.rd = 28 /\ di.len = 4
    <3>1. PICK p \in Periods : di = I("ADDI", 28, 28, 0, p)
      BY <1>4, Fetched
    <3> QED
      BY <3>1, Fields
  <2>2. Advance(di) \in HandlerPcs
    BY <1>4, <2>1, WrapSmall DEF Advance, HandlerPcs
  <2> QED
    BY <1>2, <2>1, <2>2
<1>5. CASE ctl.pc = 140
  <2>1. di.op = "CSRRW" /\ di.rd = 0 /\ di.imm = 7 /\ di.len = 8
    <3>1. di = Esc(I("CSRRW", 0, 28, 0, 7))
      BY <1>5, Fetched
    <3> QED
      BY <3>1, Fields
  <2>2. Advance(di) \in HandlerPcs
    BY <1>5, <2>1, WrapSmall DEF Advance, HandlerPcs
  <2> QED
    BY <1>2, <2>1, <2>2
<1>6. CASE ctl.pc = 148
  <2>1. di.op = "TRAPRET"
    <3>1. di = Esc(I("TRAPRET", 0, 0, 0, 0))
      BY <1>6, Fetched
    <3> QED
      BY <3>1, Fields
  <2>2. TrapReturn(di)
    BY <2>1, ExecuteByOp
  <2> QED
    BY <1>1, <2>2, HandlerReturns DEF Interrupted
<1> QED
  BY <1>1, <1>3, <1>4, <1>5, <1>6 DEF HandlerPcs

-------------------------------------------------------------------------------
(* The invariant, and each step a step of the quiet hart or none.            *)

LEMMA ProgInit == Init => ProgInv
<1> SUFFICES ASSUME Init PROVE ProgInv
  OBVIOUS
<1>1. TypeOK
  BY TypeInit
<1>2. regs[2] = 0 /\ regs[30] = 0 /\ regs[31] = StackTop
  BY ProgAssumption DEF Init, ProgBootRegs, ProgRegs
<1>3. ctl.pc = 0 /\ ctl.privilege = 0 /\ ctl.sie = 1 /\ ctl.stvec = 128
  BY ProgAssumption DEF Init, ProgBootCtl
<1>4. Interrupted(ctl) /\ Running(ctl) = 0
  BY <1>1, <1>3 DEF Interrupted, UnderHandler, TypeOK, Running
<1>5. At(0)
  BY <1>2 DEF At, UserPcs, Balanced
<1> QED
  BY <1>1, <1>4, <1>5 DEF ProgInv

LEMMA ProgStep ==
  ASSUME ProgInv, NEW di \in Code(ctl.pc), Execute(di)
  PROVE  /\ ProgInv'
         /\ Quiet!Step \/ UNCHANGED <<UserCtl, UserRegs, resv, loop, mem>>
<1>1. TypeOK /\ Interrupted(ctl) /\ At(Running(ctl)) /\ TypeOK'
  BY TypeStep DEF ProgInv
<1>2. ctl.privilege = 0 \/ ctl.privilege = 1
  BY <1>1 DEF TypeOK, Ctl, Bit
<1>3. CASE ctl.privilege = 0
  <2>1. At(ctl.pc) /\ ctl.pc \in UserPcs
    BY <1>1, <1>3 DEF Running, At
  <2>2. Ordinary(di) /\ \E next : Moves(next)
    BY <1>1, <2>1, LoopEffect, CallEffect DEF UserPcs
  <2>3. PICK next : Moves(next)
    BY <2>2
  <2>4. next \in UserPcs /\ Retire(next) /\ At(next)' /\ next \in Word
    BY <2>3, WrapSmall DEF Moves, UserPcs
  <2>5. Interrupted(ctl') /\ Running(ctl') = next
    BY <1>1, <1>3, <2>4, ProgramRetires DEF Interrupted, HandlerPcs
  <2>6. At(Running(ctl))'
    BY <2>4, <2>5 DEF At
  <2>7. ~Thrown
    BY <1>1, <2>4, RetiredIsNotThrown DEF TypeOK
  <2>8. Quiet!Step
    BY <1>1, <1>3, <2>2, <2>7, QuietStep
  <2> QED
    BY <1>1, <2>5, <2>6, <2>8 DEF ProgInv
<1>4. CASE ctl.privilege = 1
  <2>1. /\ Interrupted(ctl') /\ Running(ctl') = Running(ctl)
        /\ \A r \in Regs \ {28} : regs'[r] = regs[r]
        /\ mem' = mem /\ resv' = resv /\ loop' = loop
    BY <1>1, <1>4, HandlerEffect
  <2>2. {1, 2, 3, 29, 30, 31} \subseteq Regs \ {28}
    BY ProgAssumption DEF ProgRegs
  <2>3. At(Running(ctl))'
    BY <1>1, <2>1, <2>2 DEF At, Before, Called, Counted, Balanced, Framed
  <2>4. UserRegs' = UserRegs
    BY <1>1, <2>1, Views DEF TypeOK
  <2>5. UserCtl' = UserCtl
    BY <2>1, Views
  <2> QED
    BY <1>1, <2>1, <2>3, <2>4, <2>5 DEF ProgInv
<1> QED
  BY <1>2, <1>3, <1>4

LEMMA ProgInvariant == Spec => []ProgInv
<1>1. ProgInv /\ [Step]_vars => ProgInv'
  <2> SUFFICES ASSUME ProgInv, [Step]_vars PROVE ProgInv'
    OBVIOUS
  <2>1. CASE Step
    BY <2>1, ProgStep DEF Step
  <2>2. CASE UNCHANGED vars
    BY <2>2 DEF vars, ProgInv, TypeOK, At, Before, Called, Counted, Balanced, Framed
  <2> QED
    BY <2>1, <2>2
<1> QED
  BY <1>1, ProgInit, PTL DEF Spec

(* Outside the function the stack and frame pointers are given back,         *)
(* wherever the interrupts fall.                                             *)
THEOREM FramesBalance == Spec => []FrameBalanced
<1>1. ProgInv => FrameBalanced
  BY DEF ProgInv, At, Running, FrameBalanced, AtLoop, Balanced
<1> QED
  BY <1>1, ProgInvariant, PTL

(* The hardware loop runs its body as often as asked, for every count but 0. *)
THEOREM LoopExact == Spec => []LoopRunsExactly
<1>1. ProgInv => LoopRunsExactly
  BY DEF ProgInv, At, Running, LoopRunsExactly, Counted
<1> QED
  BY <1>1, ProgInvariant, PTL

(* The interrupted program takes the steps of a hart without a timer: its    *)
(* initial states map to initial states, an instruction of the program to    *)
(* the same instruction and an instruction of the handler to no step.        *)
THEOREM TimerIsTransparent == Spec => InterruptsTransparent
<1>1. Init => Quiet!Init
  <2> SUFFICES ASSUME Init PROVE Quiet!Init
    OBVIOUS
  <2>1. ctl.pc = 0 /\ ctl.privilege = 0
    BY ProgAssumption DEF Init, ProgBootCtl
  <2>2. UserCtl = QuietCtl(0)
    BY <2>1 DEF UserCtl
  <2>3. UserRegs = regs
    BY ProgAssumption DEF Init, ProgBootRegs, ProgRegs, UserRegs
  <2> QED
    BY <2>2, <2>3 DEF Init, Quiet!Init
<1>2. ProgInv /\ [Step]_vars => [Quiet!Step]_(Quiet!vars)
  <2> SUFFICES ASSUME ProgInv, [Step]_vars PROVE [Quiet!Step]_(Quiet!vars)
    OBVIOUS
  <2>1. CASE Step
    BY <2>1, ProgStep DEF Step, Quiet!vars
  <2>2. CASE UNCHANGED vars
    BY <2>2, Views DEF vars, Quiet!vars
  <2> QED
    BY <2>1, <2>2
<1> QED
  BY <1>1, <1>2, ProgInvariant, PTL DEF Spec, InterruptsTransparent, Quiet!Spec

===============================================================================
