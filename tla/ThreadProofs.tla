------------------------------ MODULE ThreadProofs ------------------------------
(***************************************************************************)
(* Proofs about the two threads, for every number of rounds, every timer   *)
(* period and every width of words and of the timer: when the handler      *)
(* breaks the reservation, no interleaving of the threads loses an         *)
(* increment.  The inductive invariant says where each thread is, what it  *)
(* has contributed to the counter so far, and that a reservation of the    *)
(* counter is held only while the value loaded is still the counter's.     *)
(***************************************************************************)
EXTENDS Threads, HartProofs

HandlerPcs == {128, 136, 144, 152, 156, 164}

(* The control states of this image.                                         *)
ImageControl(c) == UnderHandler(c, 128, HandlerPcs)

(* Whether a thread at pc has stored its increment without counting it yet.  *)
Pending(base, rs, pc) ==
  IF pc = base + 24 \/ (pc = base + 20 /\ regs[rs] = 0) THEN 1 ELSE 0

(* What a thread has added to the counter.                                   *)
Share(base, rn, rs, rounds, pc) == (rounds - regs[rn]) + Pending(base, rs, pc)

ThreadAt(base, rn, rounds, pc) ==
  /\ pc \in ThreadPcs(base)
  /\ regs[rn] \in 0 .. rounds
  /\ pc \notin {base + 28, base + 32} => regs[rn] # 0

(* While the thread that runs holds a reservation of the counter, the value  *)
(* it loaded is the counter's.                                               *)
Fresh(base, rv, pc) ==
  resv.valid /\ resv.addr = Counter =>
    /\ pc = base + 8  => regs[rv] = mem[Counter]
    /\ pc = base + 12 => regs[rv] = Wrap(mem[Counter] + 1)

(* The two pcs, by thread: the one that does not run is in r28.              *)
PcA == IF Running(ctl) \in ThreadPcs(BaseA) THEN Running(ctl) ELSE regs[28]
PcB == IF Running(ctl) \in ThreadPcs(BaseA) THEN regs[28] ELSE Running(ctl)

ThreadInv ==
  /\ TypeOK /\ ImageControl(ctl)
  /\ regs[26] = Scratch /\ regs[30] = Counter
  /\ ThreadAt(BaseA, 1, RoundsA, PcA) /\ ThreadAt(BaseB, 11, RoundsB, PcB)
  /\ mem[Counter] = Share(BaseA, 1, 3, RoundsA, PcA) + Share(BaseB, 11, 13, RoundsB, PcB)
  /\ ctl.privilege = 0 => Fresh(BaseA, 2, ctl.pc) /\ Fresh(BaseB, 12, ctl.pc)
  /\ ctl.privilege = 1 /\ ctl.pc # 128 => resv.addr = Scratch

-------------------------------------------------------------------------------
(* The instructions of the image.                                            *)

(* What is fetched at the addresses of the image.                            *)
LEMMA Fetched ==
  /\ \A a \in ThreadPcs(BaseA) : Code(a) = {ThreadInst(BaseA, 1, 2, 3, a)}
  /\ \A a \in ThreadPcs(BaseB) : Code(a) = {ThreadInst(BaseB, 11, 12, 13, a)}
  /\ Breaks => Entry = 128
  /\ Code(128) = {Esc(I("LR_D", 27, 26, 0, 0))}
  /\ Code(136) = {Esc(I("CSRRW", 28, 28, 0, 2))}
  /\ Code(144) = {Esc(I("CSRRW", 27, 0, 0, 6))}
  /\ Code(152) = {I("ADDI", 27, 27, 0, p) : p \in Periods}
  /\ Code(156) = {Esc(I("CSRRW", 0, 27, 0, 7))}
  /\ Code(164) = {Esc(I("TRAPRET", 0, 0, 0, 0))}
<1>1. \A a \in 0 .. 511 : Code(a) = ThreadCode(a)
  BY ThreadImageAssumption, WrapSmall
<1>2. /\ ThreadPcs(BaseA) = {0, 8, 12, 20, 24, 28, 32}
      /\ ThreadPcs(BaseB) = {64, 72, 76, 84, 88, 92, 96}
  BY DEF ThreadPcs, BaseA, BaseB
<1>3. \A a \in ThreadPcs(BaseA) : Code(a) = {ThreadInst(BaseA, 1, 2, 3, a)}
  BY <1>1, <1>2 DEF ThreadCode
<1>4. \A a \in ThreadPcs(BaseB) : Code(a) = {ThreadInst(BaseB, 11, 12, 13, a)}
  <2>1. \A a \in ThreadPcs(BaseB) : a \in 0 .. 511 /\ a \notin ThreadPcs(BaseA)
    BY <1>2
  <2> QED
    BY <1>1, <2>1 DEF ThreadCode
<1>5. \A a \in HandlerPcs : a \notin ThreadPcs(BaseA) /\ a \notin ThreadPcs(BaseB) /\ a \in 0 .. 511
  BY <1>2 DEF HandlerPcs
<1>6. {128, 136, 144, 152, 156, 164} = HandlerPcs
  BY DEF HandlerPcs
<1> QED
  BY <1>1, <1>3, <1>4, <1>5, <1>6 DEF ThreadCode, Entry

LEMMA Fields ==
  \A op, rd, rs1, rs2, imm :
    /\ I(op, rd, rs1, rs2, imm) =
         [op |-> op, rd |-> rd, rs1 |-> rs1, rs2 |-> rs2, imm |-> imm, len |-> 4]
    /\ Esc(I(op, rd, rs1, rs2, imm)) =
         [op |-> op, rd |-> rd, rs1 |-> rs1, rs2 |-> rs2, imm |-> imm, len |-> 8]
  BY DEF I, Esc

-------------------------------------------------------------------------------
(* One instruction of a thread, at any of its addresses: the thread stays at *)
(* its own addresses, the counter changes by what its share changes by, and  *)
(* nothing but the thread's three registers is touched.                      *)

LEMMA ThreadEffect ==
  ASSUME TypeOK, ImageControl(ctl), ctl.privilege = 0, regs[30] = Counter,
         NEW base \in {0, 64},
         NEW rn \in {1, 2, 3, 11, 12, 13}, NEW rv \in {1, 2, 3, 11, 12, 13},
         NEW rs \in {1, 2, 3, 11, 12, 13}, rn # rv, rn # rs, rv # rs,
         NEW rounds \in Nat, NEW others \in Nat, rounds + others < WordSize,
         ThreadAt(base, rn, rounds, ctl.pc), Fresh(base, rv, ctl.pc),
         mem[Counter] = Share(base, rn, rs, rounds, ctl.pc) + others,
         Execute(ThreadInst(base, rn, rv, rs, ctl.pc))
  PROVE  \E next \in ThreadPcs(base) :
           /\ Retire(next)
           /\ ThreadAt(base, rn, rounds, next)'
           /\ Fresh(base, rv, next)'
           /\ mem'[Counter] = Share(base, rn, rs, rounds, next)' + others
           /\ \A r \in Regs \ {rn, rv, rs} : regs'[r] = regs[r]
<1> DEFINE pc == ctl.pc
           di == ThreadInst(base, rn, rv, rs, pc)
           Good(next) == /\ Retire(next)
                         /\ ThreadAt(base, rn, rounds, next)'
                         /\ Fresh(base, rv, next)'
                         /\ mem'[Counter] = Share(base, rn, rs, rounds, next)' + others
                         /\ \A r \in Regs \ {rn, rv, rs} : regs'[r] = regs[r]
<1>1. /\ Regs = ThreadRegs /\ {rn, rv, rs, 0, 30} \subseteq Regs
      /\ Cells = {Counter, Scratch} /\ ReadOnly = {} /\ Aligned(Counter)
      /\ rn # 0 /\ rv # 0 /\ rs # 0 /\ rn # 30 /\ rv # 30 /\ rs # 30
  BY ThreadImageAssumption, RoundsAssumption DEF ThreadRegs
<1>2. /\ regs \in [Regs -> Word] /\ mem \in [Cells -> Word] /\ regs[0] = 0
      /\ regs[rn] \in 0 .. rounds /\ mem[Counter] \in Word
      /\ WordSize \in Nat /\ WordSize >= 512
  BY <1>1, SizesAssumption DEF TypeOK, ThreadAt
<1>3. /\ pc \in {base, base + 8, base + 12, base + 20, base + 24, base + 28, base + 32}
      /\ pc \in 0 .. 96
  BY DEF ThreadAt, ThreadPcs
<1>4. CASE pc = base
  <2>1. di = Esc(I("LR_D", rv, 30, 0, 0))
    BY <1>4 DEF ThreadInst
  <2>2. di.op = "LR_D" /\ di.rd = rv /\ di.rs1 = 30 /\ di.len = 8
    BY <2>1, Fields
  <2>3. LoadReserve(di)
    BY <2>2, ExecuteByOp
  <2>4. Advance(di) = base + 8
    BY <2>2, <1>3, <1>4, WrapSmall DEF Advance
  <2>5. /\ Retire(base + 8) /\ regs' = [regs EXCEPT ![rv] = mem[Counter]] /\ mem' = mem
        /\ resv' = [valid |-> TRUE, addr |-> Counter]
    BY <1>1, <2>2, <2>3, <2>4 DEF LoadReserve, Readable, WriteReg
  <2>6. base + 8 \in ThreadPcs(base)
    BY DEF ThreadPcs
  <2>7. Good(base + 8)
    BY <1>1, <1>2, <1>4, <2>5, <2>6 DEF ThreadAt, Fresh, Share, Pending
  <2> QED
    BY <2>6, <2>7
<1>5. CASE pc = base + 8
  <2>1. di = I("ADDI", rv, rv, 0, 1)
    BY <1>5 DEF ThreadInst
  <2>2. di.op = "ADDI" /\ di.rd = rv /\ di.rs1 = rv /\ di.imm = 1 /\ di.len = 4
    BY <2>1, Fields
  <2>3. RegisterOp(di)
    BY <2>2, ExecuteByOp DEF RegisterOps
  <2>4. Advance(di) = base + 12
    BY <2>2, <1>3, <1>5, WrapSmall DEF Advance
  <2>5. Dest(di) = rv /\ Result(di) = Wrap(regs[rv] + 1)
    BY <2>2 DEF Dest, Result
  <2>6. /\ Retire(base + 12) /\ regs' = [regs EXCEPT ![rv] = Wrap(regs[rv] + 1)]
        /\ mem' = mem /\ resv' = resv
    BY <1>1, <2>3, <2>4, <2>5 DEF RegisterOp, WriteReg
  <2>7. base + 12 \in ThreadPcs(base)
    BY DEF ThreadPcs
  <2>8. Good(base + 12)
    BY <1>1, <1>2, <1>5, <2>6, <2>7 DEF ThreadAt, Fresh, Share, Pending
  <2> QED
    BY <2>7, <2>8
<1>6. CASE pc = base + 12
  <2>1. di = Esc(I("SC_D", rs, 30, rv, 0))
    BY <1>6 DEF ThreadInst
  <2>2. di.op = "SC_D" /\ di.rd = rs /\ di.rs1 = 30 /\ di.rs2 = rv /\ di.len = 8
    BY <2>1, Fields
  <2>3. StoreConditional(di)
    BY <2>2, ExecuteByOp
  <2>4. Advance(di) = base + 20
    BY <2>2, <1>3, <1>6, WrapSmall DEF Advance
  <2>5. base + 20 \in ThreadPcs(base)
    BY DEF ThreadPcs
  <2>6. regs[rn] # 0 /\ Pending(base, rs, pc) = 0
    BY <1>3, <1>6 DEF ThreadAt, Pending
  <2>7. CASE ~(resv.valid /\ resv.addr = Counter)
    <3>1. /\ Retire(base + 20) /\ regs' = [regs EXCEPT ![rs] = 1]
          /\ mem' = mem /\ resv' = resv
      BY <1>1, <2>2, <2>3, <2>4, <2>7 DEF StoreConditional, WriteReg
    <3>2. Good(base + 20)
      BY <1>1, <1>2, <1>6, <2>5, <2>6, <3>1 DEF ThreadAt, Fresh, Share, Pending
    <3> QED
      BY <2>5, <3>2
  <2>8. CASE resv.valid /\ resv.addr = Counter
    <3>1. /\ Retire(base + 20) /\ regs' = [regs EXCEPT ![rs] = 0]
          /\ mem' = [mem EXCEPT ![Counter] = regs[rv]]
          /\ resv' = [resv EXCEPT !.valid = FALSE]
      BY <1>1, <2>2, <2>3, <2>4, <2>8 DEF StoreConditional, WriteReg, Writable
    <3>2. regs[rv] = Wrap(mem[Counter] + 1)
      BY <1>6, <2>8 DEF Fresh
    <3>3. mem[Counter] = (rounds - regs[rn]) + others
      BY <1>2, <2>6 DEF Share
    <3>4. mem[Counter] + 1 \in Nat /\ mem[Counter] + 1 < WordSize
      BY <1>2, <2>6, <3>3
    <3>5. regs[rv] = mem[Counter] + 1
      BY <1>2, <3>2, <3>4 DEF Wrap
    <3>6. mem'[Counter] = mem[Counter] + 1 /\ resv'.valid = FALSE
      BY <1>1, <1>2, <3>1, <3>5 DEF TypeOK
    <3>7. /\ regs'[rs] = 0 /\ regs'[rn] = regs[rn]
          /\ \A r \in Regs \ {rn, rv, rs} : regs'[r] = regs[r]
      BY <1>1, <1>2, <3>1
    <3>8. Share(base, rn, rs, rounds, base + 20)' = (rounds - regs[rn]) + 1
      BY <3>7 DEF Share, Pending
    <3>9. Good(base + 20)
      BY <1>2, <1>3, <2>5, <2>6, <3>1, <3>3, <3>6, <3>7, <3>8 DEF ThreadAt, Fresh
    <3> QED
      BY <2>5, <3>9
  <2> QED
    BY <2>7, <2>8
<1>7. CASE pc = base + 20
  <2>1. di = I("BNE", 0, rs, 0, -5)
    BY <1>7 DEF ThreadInst
  <2>2. di.op = "BNE" /\ di.rs1 = rs /\ di.rs2 = 0 /\ di.imm = -5
    BY <2>1, Fields
  <2>3. Branch(di)
    BY <2>2, ExecuteByOp DEF BranchOps
  <2>4. Target(di) = base /\ Wrap(pc + 4) = base + 24
    <3>1. pc + 4 * di.imm = base /\ pc + 4 = base + 24
      BY <1>3, <1>7, <2>2
    <3> QED
      BY <3>1, WrapSmall DEF Target
  <2>5. Taken(di) <=> regs[rs] # 0
    BY <1>2, <2>2 DEF Taken
  <2>6. /\ Retire(IF regs[rs] # 0 THEN base ELSE base + 24)
        /\ regs' = regs /\ mem' = mem /\ resv' = resv
    BY <2>3, <2>4, <2>5 DEF Branch
  <2>7. base \in ThreadPcs(base) /\ base + 24 \in ThreadPcs(base)
    BY DEF ThreadPcs
  <2>8. CASE regs[rs] # 0
    <3>1. Good(base)
      BY <1>1, <1>2, <1>7, <2>6, <2>7, <2>8 DEF ThreadAt, Fresh, Share, Pending
    <3> QED
      BY <2>7, <3>1
  <2>9. CASE regs[rs] = 0
    <3>1. Good(base + 24)
      BY <1>1, <1>2, <1>7, <2>6, <2>7, <2>9 DEF ThreadAt, Fresh, Share, Pending
    <3> QED
      BY <2>7, <3>1
  <2> QED
    BY <2>8, <2>9
<1>8. CASE pc = base + 24
  <2>1. di = I("ADDI", rn, rn, 0, -1)
    BY <1>8 DEF ThreadInst
  <2>2. di.op = "ADDI" /\ di.rd = rn /\ di.rs1 = rn /\ di.imm = -1 /\ di.len = 4
    BY <2>1, Fields
  <2>3. RegisterOp(di)
    BY <2>2, ExecuteByOp DEF RegisterOps
  <2>4. Advance(di) = base + 28
    BY <2>2, <1>3, <1>8, WrapSmall DEF Advance
  <2>5. Dest(di) = rn /\ Result(di) = Wrap(regs[rn] + (-1))
    BY <2>2 DEF Dest, Result
  <2>6. regs[rn] # 0
    BY <1>3, <1>8 DEF ThreadAt
  <2>7. Wrap(regs[rn] + (-1)) = regs[rn] - 1
    BY <1>2, <2>6 DEF Wrap
  <2>8. /\ Retire(base + 28) /\ regs' = [regs EXCEPT ![rn] = regs[rn] - 1]
        /\ mem' = mem /\ resv' = resv
    BY <1>1, <2>3, <2>4, <2>5, <2>7 DEF RegisterOp, WriteReg
  <2>9. base + 28 \in ThreadPcs(base)
    BY DEF ThreadPcs
  <2>10. /\ regs'[rn] = regs[rn] - 1
         /\ \A r \in Regs \ {rn, rv, rs} : regs'[r] = regs[r]
    BY <1>1, <1>2, <2>8
  <2>11. /\ Share(base, rn, rs, rounds, base + 28)' = rounds - (regs[rn] - 1)
         /\ Share(base, rn, rs, rounds, pc) = (rounds - regs[rn]) + 1
    BY <1>2, <1>8, <2>10 DEF Share, Pending
  <2>12. Good(base + 28)
    BY <1>2, <2>6, <2>8, <2>9, <2>10, <2>11 DEF ThreadAt, Fresh
  <2> QED
    BY <2>9, <2>12
<1>9. CASE pc = base + 28
  <2>1. di = I("BNE", 0, rn, 0, -7)
    BY <1>9 DEF ThreadInst
  <2>2. di.op = "BNE" /\ di.rs1 = rn /\ di.rs2 = 0 /\ di.imm = -7
    BY <2>1, Fields
  <2>3. Branch(di)
    BY <2>2, ExecuteByOp DEF BranchOps
  <2>4. Target(di) = base /\ Wrap(pc + 4) = base + 32
    <3>1. pc + 4 * di.imm = base /\ pc + 4 = base + 32
      BY <1>3, <1>9, <2>2
    <3> QED
      BY <3>1, WrapSmall DEF Target
  <2>5. Taken(di) <=> regs[rn] # 0
    BY <1>2, <2>2 DEF Taken
  <2>6. /\ Retire(IF regs[rn] # 0 THEN base ELSE base + 32)
        /\ regs' = regs /\ mem' = mem /\ resv' = resv
    BY <2>3, <2>4, <2>5 DEF Branch
  <2>7. base \in ThreadPcs(base) /\ base + 32 \in ThreadPcs(base)
    BY DEF ThreadPcs
  <2>8. CASE regs[rn] # 0
    <3>1. Good(base)
      BY <1>1, <1>2, <1>9, <2>6, <2>7, <2>8 DEF ThreadAt, Fresh, Share, Pending
    <3> QED
      BY <2>7, <3>1
  <2>9. CASE regs[rn] = 0
    <3>1. Good(base + 32)
      BY <1>1, <1>2, <1>9, <2>6, <2>7, <2>9 DEF ThreadAt, Fresh, Share, Pending
    <3> QED
      BY <2>7, <3>1
  <2> QED
    BY <2>8, <2>9
<1>10. CASE pc = base + 32
  <2>1. di = I("JMP", 0, 0, 0, 0)
    BY <1>10 DEF ThreadInst
  <2>2. di.op = "JMP" /\ di.imm = 0
    BY <2>1, Fields
  <2>3. Jump(di)
    BY <2>2, ExecuteByOp
  <2>4. Target(di) = pc
    BY <2>2, <1>3, WrapSmall DEF Target
  <2>5. Retire(base + 32) /\ regs' = regs /\ mem' = mem /\ resv' = resv
    BY <1>10, <2>3, <2>4 DEF Jump
  <2>6. base + 32 \in ThreadPcs(base)
    BY DEF ThreadPcs
  <2>7. Good(base + 32)
    BY <1>10, <2>5, <2>6 DEF ThreadAt, Fresh, Share, Pending
  <2> QED
    BY <2>6, <2>7
<1> QED
  BY <1>3, <1>4, <1>5, <1>6, <1>7, <1>8, <1>9, <1>10

-------------------------------------------------------------------------------
(* One instruction of the handler: the counter and the threads' registers    *)
(* stay, the two pcs are exchanged by the CSRRW of sepc alone, and once the  *)
(* first instruction has run the reservation is not of the counter.          *)

LEMMA HandlerEffect ==
  ASSUME Breaks, TypeOK, ImageControl(ctl), ctl.privilege = 1, regs[26] = Scratch,
         ctl.pc # 128 => resv.addr = Scratch,
         NEW di \in Code(ctl.pc), Execute(di)
  PROVE  /\ ImageControl(ctl') /\ mem' = mem /\ resv'.addr = Scratch
         /\ \A r \in Regs \ {27, 28} : regs'[r] = regs[r]
         /\ \/ Running(ctl') = Running(ctl) /\ regs'[28] = regs[28]
            \/ Running(ctl') = regs[28] /\ regs'[28] = Running(ctl)
<1>1. /\ Regs = ThreadRegs /\ {0, 26, 27, 28} \subseteq Regs
      /\ Scratch \in Cells /\ regs \in [Regs -> Word] /\ ctl \in Ctl
  BY ThreadImageAssumption DEF ThreadRegs, TypeOK
<1>2. ctl.pc \in HandlerPcs /\ Running(ctl) = ctl.sepc /\ 128 \in HandlerPcs
  BY DEF ImageControl, UnderHandler, Running, HandlerPcs
<1>3. ASSUME Advance(di) \in HandlerPcs,
             \/ di.op = "ADDI" /\ di.rd = 27
             \/ di.op = "CSRRW" /\ di.imm = 6 /\ di.rd = 27
             \/ di.op = "CSRRW" /\ di.imm = 7 /\ di.rd = 0
      PROVE  /\ ImageControl(ctl') /\ Running(ctl') = Running(ctl)
             /\ mem' = mem /\ resv' = resv
             /\ \A r \in Regs \ {27} : regs'[r] = regs[r]
  BY <1>1, <1>2, <1>3, HandlerKeeps DEF ImageControl
<1>6. CASE ctl.pc = 128
  <2>1. di.op = "LR_D" /\ di.rd = 27 /\ di.rs1 = 26 /\ di.len = 8
    <3>1. di = Esc(I("LR_D", 27, 26, 0, 0))
      BY <1>6, Fetched
    <3> QED
      BY <3>1, Fields
  <2>2. LoadReserve(di)
    BY <2>1, ExecuteByOp
  <2>3. Advance(di) = 136
    BY <2>1, <1>6, WrapSmall DEF Advance
  <2>4. /\ Retire(136) /\ mem' = mem /\ resv'.addr = Scratch
        /\ \A r \in Regs \ {27, 28} : regs'[r] = regs[r]
        /\ regs'[28] = regs[28]
    BY <1>1, <2>1, <2>2, <2>3 DEF LoadReserve, Readable, WriteReg
  <2> DEFINE c == [ctl EXCEPT !.pc = 136]
  <2>5. 136 \in Word /\ 136 \in HandlerPcs
    BY WrapSmall DEF HandlerPcs
  <2>6. ctl' = TickTimer(c)
    BY <2>4 DEF Retire
  <2>7. c.sepc = ctl.sepc /\ c.privilege = 1 /\ ImageControl(c)
    BY <1>1, <2>5 DEF ImageControl, UnderHandler, Ctl
  <2> HIDE DEF c
  <2>8. ImageControl(ctl') /\ Running(ctl') = ctl.sepc
    BY <1>2, <2>6, <2>7, TickUnderHandler DEF ImageControl, Running
  <2> QED
    BY <1>2, <2>4, <2>8
<1>7. CASE ctl.pc = 136
  <2>1. di.op = "CSRRW" /\ di.rd = 28 /\ di.rs1 = 28 /\ di.imm = 2 /\ di.len = 8
    <3>1. di = Esc(I("CSRRW", 28, 28, 0, 2))
      BY <1>7, Fetched
    <3> QED
      BY <3>1, Fields
  <2>2. CsrRw(di)
    BY <2>1, ExecuteByOp
  <2>3. Advance(di) = 144
    BY <2>1, <1>7, WrapSmall DEF Advance
  <2> DEFINE d == [ctl EXCEPT !.sepc = regs[28]]
             c == [d EXCEPT !.pc = 144]
  <2>4. ReadCsr(2) = ctl.sepc /\ WriteCsr(2, regs[28]) = d
    BY DEF ReadCsr, WriteCsr
  <2>5. (IF di.rs1 = 0 THEN ctl ELSE WriteCsr(di.imm, regs[di.rs1])) = d
    BY <2>1, <2>4
  <2>6. /\ ctl' = TickTimer(c) /\ mem' = mem /\ resv' = resv
        /\ regs' = WriteReg(regs, 28, ctl.sepc)
    BY <2>1, <2>2, <2>3, <2>4, <2>5 DEF CsrRw
  <2>7. 144 \in Word /\ 144 \in HandlerPcs
    BY WrapSmall DEF HandlerPcs
  <2>8. c.sepc = regs[28] /\ c.privilege = 1 /\ ImageControl(c)
    BY <1>1, <2>7, ZenonT(60) DEF ImageControl, UnderHandler, Ctl
  <2> HIDE DEF c
  <2>9. ImageControl(ctl') /\ Running(ctl') = regs[28]
    BY <1>2, <2>6, <2>8, TickUnderHandler DEF ImageControl, Running
  <2>10. regs'[28] = Running(ctl) /\ \A r \in Regs \ {27, 28} : regs'[r] = regs[r]
    BY <1>1, <1>2, <2>6 DEF WriteReg
  <2> QED
    BY <1>7, <2>6, <2>9, <2>10
<1>8. CASE ctl.pc = 144
  <2>1. di.op = "CSRRW" /\ di.rd = 27 /\ di.imm = 6 /\ di.len = 8
    <3>1. di = Esc(I("CSRRW", 27, 0, 0, 6))
      BY <1>8, Fetched
    <3> QED
      BY <3>1, Fields
  <2>2. Advance(di) \in HandlerPcs
    BY <2>1, <1>8, WrapSmall DEF Advance, HandlerPcs
  <2> QED
    BY <1>1, <1>3, <1>8, <2>1, <2>2
<1>9. CASE ctl.pc = 152
  <2>1. di.op = "ADDI" /\ di.rd = 27 /\ di.len = 4
    <3>1. PICK p \in Periods : di = I("ADDI", 27, 27, 0, p)
      BY <1>9, Fetched
    <3> QED
      BY <3>1, Fields
  <2>2. Advance(di) \in HandlerPcs
    BY <2>1, <1>9, WrapSmall DEF Advance, HandlerPcs
  <2> QED
    BY <1>1, <1>3, <1>9, <2>1, <2>2
<1>10. CASE ctl.pc = 156
  <2>1. di.op = "CSRRW" /\ di.rd = 0 /\ di.imm = 7 /\ di.len = 8
    <3>1. di = Esc(I("CSRRW", 0, 27, 0, 7))
      BY <1>10, Fetched
    <3> QED
      BY <3>1, Fields
  <2>2. Advance(di) \in HandlerPcs
    BY <2>1, <1>10, WrapSmall DEF Advance, HandlerPcs
  <2> QED
    BY <1>1, <1>3, <1>10, <2>1, <2>2
<1>11. CASE ctl.pc = 164
  <2>1. di.op = "TRAPRET"
    <3>1. di = Esc(I("TRAPRET", 0, 0, 0, 0))
      BY <1>11, Fetched
    <3> QED
      BY <3>1, Fields
  <2>2. TrapReturn(di)
    BY <2>1, ExecuteByOp
  <2> QED
    BY <1>2, <1>11, <2>2, HandlerReturns DEF ImageControl
<1> QED
  BY <1>2, <1>6, <1>7, <1>8, <1>9, <1>10, <1>11 DEF HandlerPcs

-------------------------------------------------------------------------------
(* The invariant.                                                            *)

LEMMA Apart ==
  /\ ThreadPcs(BaseA) \cap ThreadPcs(BaseB) = {}
  /\ BaseA \in ThreadPcs(BaseA) /\ BaseB \in ThreadPcs(BaseB)
  BY DEF ThreadPcs, BaseA, BaseB

LEMMA FreshApart ==
  /\ \A pc \in ThreadPcs(BaseB) : Fresh(BaseA, 2, pc)'
  /\ \A pc \in ThreadPcs(BaseA) : Fresh(BaseB, 12, pc)'
  BY DEF ThreadPcs, BaseA, BaseB, Fresh

LEMMA ThreadInit == Breaks /\ Init => ThreadInv
<1> SUFFICES ASSUME Breaks, Init PROVE ThreadInv
  OBVIOUS
<1>1. TypeOK
  BY TypeInit
<1>2. /\ regs[1] = RoundsA /\ regs[11] = RoundsB /\ regs[26] = Scratch
      /\ regs[28] = BaseB /\ regs[30] = Counter
  BY ThreadImageAssumption DEF Init, ThreadBootRegs, ThreadRegs
<1>3. /\ ctl.pc = BaseA /\ ctl.privilege = 0 /\ ctl.sie = 1 /\ ctl.stvec = 128
      /\ mem[Counter] = 0 /\ resv.valid = FALSE
  BY ThreadImageAssumption, Fetched DEF Init, ThreadBootCtl, ThreadBootMem
<1>4. ImageControl(ctl) /\ Running(ctl) = BaseA
  BY <1>1, <1>3 DEF ImageControl, UnderHandler, TypeOK, Running
<1>5. PcA = BaseA /\ PcB = BaseB
  BY <1>2, <1>4, Apart DEF PcA, PcB
<1>6. /\ ThreadAt(BaseA, 1, RoundsA, BaseA) /\ ThreadAt(BaseB, 11, RoundsB, BaseB)
      /\ Share(BaseA, 1, 3, RoundsA, BaseA) = 0 /\ Share(BaseB, 11, 13, RoundsB, BaseB) = 0
  BY <1>2, Apart, RoundsAssumption DEF ThreadAt, Share, Pending, BaseA, BaseB
<1> QED
  BY <1>1, <1>2, <1>3, <1>4, <1>5, <1>6 DEF ThreadInv, Fresh

LEMMA ShareBound ==
  ASSUME NEW base \in {0, 64}, NEW rn, NEW rs, NEW rounds \in Nat, NEW pc,
         ThreadAt(base, rn, rounds, pc)
  PROVE  Share(base, rn, rs, rounds, pc) \in 0 .. rounds
  BY DEF ThreadAt, Share, Pending

LEMMA ThreadStep ==
  ASSUME Breaks, ThreadInv, NEW di \in Code(ctl.pc), Execute(di)
  PROVE  ThreadInv'
<1>1. /\ TypeOK /\ ImageControl(ctl)
      /\ regs[26] = Scratch /\ regs[30] = Counter
      /\ mem[Counter] = Share(BaseA, 1, 3, RoundsA, PcA) + Share(BaseB, 11, 13, RoundsB, PcB)
      /\ ctl.privilege = 0 => Fresh(BaseA, 2, ctl.pc) /\ Fresh(BaseB, 12, ctl.pc)
      /\ ctl.privilege = 1 /\ ctl.pc # 128 => resv.addr = Scratch
  BY DEF ThreadInv
<1>2. /\ ThreadAt(BaseA, 1, RoundsA, PcA) /\ ThreadAt(BaseB, 11, RoundsB, PcB)
      /\ PcA \in ThreadPcs(BaseA) /\ PcB \in ThreadPcs(BaseB)
      /\ Share(BaseA, 1, 3, RoundsA, PcA) \in 0 .. RoundsA
      /\ Share(BaseB, 11, 13, RoundsB, PcB) \in 0 .. RoundsB
  BY ShareBound, RoundsAssumption DEF ThreadInv, ThreadAt, BaseA, BaseB
<1>3. {1, 2, 3, 11, 12, 13, 26, 27, 28, 30} \subseteq Regs
  BY ThreadImageAssumption DEF ThreadRegs
<1>4. TypeOK'
  BY <1>1, TypeStep
<1>5. (ctl.privilege = 0 \/ ctl.privilege = 1) /\ 128 \in HandlerPcs
  BY <1>1 DEF ImageControl, UnderHandler, Ctl, Bit, HandlerPcs
<1>6. CASE ctl.privilege = 0 /\ ctl.pc \in ThreadPcs(BaseA)
  <2> DEFINE others == Share(BaseB, 11, 13, RoundsB, PcB)
  <2>1. /\ Running(ctl) = ctl.pc /\ PcA = ctl.pc /\ PcB = regs[28]
        /\ di = ThreadInst(BaseA, 1, 2, 3, ctl.pc)
    BY <1>6, Fetched, Apart DEF Running, PcA, PcB
  <2>2. others \in Nat /\ RoundsA + others < WordSize
    BY <1>2, RoundsAssumption, SizesAssumption
  <2>3. /\ ThreadAt(BaseA, 1, RoundsA, ctl.pc) /\ Fresh(BaseA, 2, ctl.pc)
        /\ mem[Counter] = Share(BaseA, 1, 3, RoundsA, ctl.pc) + others
    BY <1>1, <1>2, <1>6, <2>1
  <2> HIDE DEF others
  <2>4. PICK next \in ThreadPcs(BaseA) :
          /\ Retire(next)
          /\ ThreadAt(BaseA, 1, RoundsA, next)'
          /\ Fresh(BaseA, 2, next)'
          /\ mem'[Counter] = Share(BaseA, 1, 3, RoundsA, next)' + others
          /\ \A r \in Regs \ {1, 2, 3} : regs'[r] = regs[r]
    <3>1. /\ BaseA \in {0, 64} /\ RoundsA \in Nat /\ others \in Nat /\ RoundsA + others < WordSize
          /\ TypeOK /\ ImageControl(ctl) /\ ctl.privilege = 0 /\ regs[30] = Counter
      BY <1>1, <1>6, <2>2, RoundsAssumption DEF BaseA
    <3>2. Execute(ThreadInst(BaseA, 1, 2, 3, ctl.pc))
      BY <2>1, Zenon
    <3> QED
      BY <2>3, <3>1, <3>2, ThreadEffect
  <2>5. next \in Word
    BY WrapSmall DEF ThreadPcs, BaseA, BaseB
  <2>6. /\ ImageControl(ctl') /\ Running(ctl') = next
        /\ \/ ctl'.privilege = 0 /\ ctl'.pc = next
           \/ ctl'.privilege = 1 /\ ctl'.pc = 128
    BY <1>1, <1>5, <1>6, <2>4, <2>5, ProgramRetires DEF ImageControl
  <2>7. /\ regs'[26] = Scratch /\ regs'[30] = Counter /\ regs'[28] = regs[28]
        /\ regs'[11] = regs[11] /\ regs'[13] = regs[13]
    BY <1>1, <1>3, <2>4
  <2>8. PcA' = next /\ PcB' = regs[28]
    BY <1>2, <2>1, <2>4, <2>6, <2>7, Apart DEF PcA, PcB
  <2>9. ThreadAt(BaseB, 11, RoundsB, regs[28])' /\ Share(BaseB, 11, 13, RoundsB, regs[28])' = others
    BY <1>2, <2>1, <2>7 DEF ThreadAt, Share, Pending, others
  <2>10. ctl'.privilege = 0 => Fresh(BaseA, 2, next)' /\ Fresh(BaseB, 12, next)'
    BY <2>4, FreshApart
  <2> QED
    BY <1>4, <2>4, <2>6, <2>7, <2>8, <2>9, <2>10 DEF ThreadInv
<1>7. CASE ctl.privilege = 0 /\ ctl.pc \in ThreadPcs(BaseB)
  <2> DEFINE others == Share(BaseA, 1, 3, RoundsA, PcA)
  <2>1. /\ Running(ctl) = ctl.pc /\ PcA = regs[28] /\ PcB = ctl.pc
        /\ di = ThreadInst(BaseB, 11, 12, 13, ctl.pc)
    BY <1>7, Fetched, Apart DEF Running, PcA, PcB
  <2>2. others \in Nat /\ RoundsB + others < WordSize
    BY <1>2, RoundsAssumption, SizesAssumption
  <2>3. /\ ThreadAt(BaseB, 11, RoundsB, ctl.pc) /\ Fresh(BaseB, 12, ctl.pc)
        /\ mem[Counter] = Share(BaseB, 11, 13, RoundsB, ctl.pc) + others
    BY <1>1, <1>2, <1>7, <2>1
  <2> HIDE DEF others
  <2>4. PICK next \in ThreadPcs(BaseB) :
          /\ Retire(next)
          /\ ThreadAt(BaseB, 11, RoundsB, next)'
          /\ Fresh(BaseB, 12, next)'
          /\ mem'[Counter] = Share(BaseB, 11, 13, RoundsB, next)' + others
          /\ \A r \in Regs \ {11, 12, 13} : regs'[r] = regs[r]
    <3>1. /\ BaseB \in {0, 64} /\ RoundsB \in Nat /\ others \in Nat /\ RoundsB + others < WordSize
          /\ TypeOK /\ ImageControl(ctl) /\ ctl.privilege = 0 /\ regs[30] = Counter
      BY <1>1, <1>7, <2>2, RoundsAssumption DEF BaseB
    <3>2. Execute(ThreadInst(BaseB, 11, 12, 13, ctl.pc))
      BY <2>1, Zenon
    <3> QED
      BY <2>3, <3>1, <3>2, ThreadEffect
  <2>5. next \in Word
    BY WrapSmall DEF ThreadPcs, BaseA, BaseB
  <2>6. /\ ImageControl(ctl') /\ Running(ctl') = next
        /\ \/ ctl'.privilege = 0 /\ ctl'.pc = next
           \/ ctl'.privilege = 1 /\ ctl'.pc = 128
    BY <1>1, <1>5, <1>7, <2>4, <2>5, ProgramRetires DEF ImageControl
  <2>7. /\ regs'[26] = Scratch /\ regs'[30] = Counter /\ regs'[28] = regs[28]
        /\ regs'[1] = regs[1] /\ regs'[3] = regs[3]
    BY <1>1, <1>3, <2>4
  <2>8. PcA' = regs[28] /\ PcB' = next
    BY <1>2, <2>1, <2>4, <2>6, <2>7, Apart DEF PcA, PcB
  <2>9. ThreadAt(BaseA, 1, RoundsA, regs[28])' /\ Share(BaseA, 1, 3, RoundsA, regs[28])' = others
    BY <1>2, <2>1, <2>7 DEF ThreadAt, Share, Pending, others
  <2>10. ctl'.privilege = 0 => Fresh(BaseB, 12, next)' /\ Fresh(BaseA, 2, next)'
    BY <2>4, FreshApart
  <2>11. mem'[Counter] = others + Share(BaseB, 11, 13, RoundsB, next)'
    <3>1. Share(BaseB, 11, 13, RoundsB, next)' \in Int
      BY <2>4, RoundsAssumption DEF ThreadAt, Share, Pending
    <3> QED
      BY <2>2, <2>4, <3>1
  <2> QED
    BY <1>4, <2>4, <2>6, <2>7, <2>8, <2>9, <2>10, <2>11 DEF ThreadInv
<1>8. CASE ctl.privilege = 1
  <2>1. /\ ImageControl(ctl') /\ mem' = mem /\ resv'.addr = Scratch
        /\ \A r \in Regs \ {27, 28} : regs'[r] = regs[r]
        /\ \/ Running(ctl') = Running(ctl) /\ regs'[28] = regs[28]
           \/ Running(ctl') = regs[28] /\ regs'[28] = Running(ctl)
    BY <1>1, <1>8, HandlerEffect
  <2>2. PcA' = PcA /\ PcB' = PcB
    BY <1>2, <2>1, Apart DEF PcA, PcB
  <2>3. \A r \in {1, 3, 11, 13, 26, 30} : regs'[r] = regs[r]
    BY <1>3, <2>1
  <2>4. /\ ThreadAt(BaseA, 1, RoundsA, PcA)' /\ ThreadAt(BaseB, 11, RoundsB, PcB)'
        /\ Share(BaseA, 1, 3, RoundsA, PcA)' = Share(BaseA, 1, 3, RoundsA, PcA)
        /\ Share(BaseB, 11, 13, RoundsB, PcB)' = Share(BaseB, 11, 13, RoundsB, PcB)
    BY <1>2, <2>2, <2>3 DEF ThreadAt, Share, Pending
  <2>5. Fresh(BaseA, 2, ctl.pc)' /\ Fresh(BaseB, 12, ctl.pc)'
    BY <2>1, RoundsAssumption DEF Fresh
  <2> QED
    BY <1>1, <1>4, <2>1, <2>3, <2>4, <2>5 DEF ThreadInv
<1>9. ctl.privilege = 0 => ctl.pc \in ThreadPcs(BaseA) \/ ctl.pc \in ThreadPcs(BaseB)
  BY <1>2 DEF Running, PcA, PcB
<1> QED
  BY <1>5, <1>6, <1>7, <1>8, <1>9

LEMMA ThreadInvariant ==
  ASSUME Breaks
  PROVE  Spec => []ThreadInv
<1>1. ThreadInv /\ [Step]_vars => ThreadInv'
  <2> SUFFICES ASSUME ThreadInv, [Step]_vars PROVE ThreadInv'
    OBVIOUS
  <2>1. CASE Step
    BY <2>1, ThreadStep DEF Step
  <2>2. CASE UNCHANGED vars
    <3>1. ctl' = ctl /\ regs' = regs /\ resv' = resv /\ mem' = mem /\ loop' = loop
      BY <2>2 DEF vars
    <3>2. TypeOK' /\ ImageControl(ctl')
      BY <3>1 DEF ThreadInv, TypeOK
    <3>3. PcA' = PcA /\ PcB' = PcB
      BY <3>1 DEF PcA, PcB
    <3>4. /\ ThreadAt(BaseA, 1, RoundsA, PcA)' /\ ThreadAt(BaseB, 11, RoundsB, PcB)'
          /\ Share(BaseA, 1, 3, RoundsA, PcA)' = Share(BaseA, 1, 3, RoundsA, PcA)
          /\ Share(BaseB, 11, 13, RoundsB, PcB)' = Share(BaseB, 11, 13, RoundsB, PcB)
      BY <3>1, <3>3 DEF ThreadInv, ThreadAt, Share, Pending
    <3>5. ctl.privilege = 0 => Fresh(BaseA, 2, ctl.pc)' /\ Fresh(BaseB, 12, ctl.pc)'
      BY <3>1 DEF ThreadInv, Fresh
    <3> QED
      BY <3>1, <3>2, <3>3, <3>4, <3>5 DEF ThreadInv
  <2> QED
    BY <2>1, <2>2
<1>2. Init => ThreadInv
  BY ThreadInit
<1> QED
  BY <1>1, <1>2, PTL DEF Spec

(* When both threads have finished, the counter holds every increment, for   *)
(* every number of rounds, every timer period and every interleaving of the  *)
(* threads, provided that the handler breaks the reservation.                *)
THEOREM NoUpdateLost ==
  ASSUME Breaks
  PROVE  Spec => []NoLostUpdate
<1>1. ThreadInv => NoLostUpdate
  <2> SUFFICES ASSUME ThreadInv, regs[1] = 0, regs[11] = 0
               PROVE  mem[Counter] = RoundsA + RoundsB
    BY DEF NoLostUpdate, Done
  <2>1. /\ Share(BaseA, 1, 3, RoundsA, PcA) = RoundsA
        /\ Share(BaseB, 11, 13, RoundsB, PcB) = RoundsB
    BY RoundsAssumption DEF ThreadInv, ThreadAt, ThreadPcs, Share, Pending, BaseA, BaseB
  <2> QED
    BY <2>1 DEF ThreadInv
<1> QED
  BY <1>1, ThreadInvariant, PTL

(* At every moment the counter is ahead of the rounds the threads have       *)
(* counted by at most one increment of each.                                 *)
THEOREM CounterTracks ==
  ASSUME Breaks
  PROVE  Spec => []CounterTracksRounds
<1>1. ThreadInv => CounterTracksRounds
  <2> SUFFICES ASSUME ThreadInv PROVE CounterTracksRounds
    OBVIOUS
  <2>1. /\ regs[1] \in Int /\ regs[11] \in Int
        /\ Pending(BaseA, 3, PcA) \in 0 .. 1 /\ Pending(BaseB, 13, PcB) \in 0 .. 1
    BY RoundsAssumption DEF ThreadInv, ThreadAt, Pending
  <2>2. mem[Counter] = (RoundsA - regs[1]) + Pending(BaseA, 3, PcA)
                       + ((RoundsB - regs[11]) + Pending(BaseB, 13, PcB))
    BY DEF ThreadInv, Share
  <2> QED
    BY <2>1, <2>2, RoundsAssumption DEF CounterTracksRounds
<1> QED
  BY <1>1, ThreadInvariant, PTL

===============================================================================
