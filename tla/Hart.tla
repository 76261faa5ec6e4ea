--------------------------------- MODULE Hart ---------------------------------
(***************************************************************************)
(* The hart of the HVM system simulator: what one call of step() does      *)
(* (src/src/hvm_sim_core/executor.cpp) to the CPU state and to memory.     *)
(*                                                                         *)
(* One action per group of instructions that share a shape.  An action is  *)
(* the whole of step(): the instruction's own effects in their order in    *)
(* the code, the place where a memory access may throw out of it, the      *)
(* advance of the pc, and the timer tick that follows an instruction that  *)
(* did not throw.                                                          *)
(*                                                                         *)
(* Memory is a function from the addresses of the mapped doublewords to    *)
(* words; an access anywhere else throws, as MemorySystem does.  The       *)
(* decoder is not part of the repository's sources: Code(a) is the set of  *)
(* instructions decode_inst may return at address a, a singleton when the  *)
(* run fixes a program and a larger set when it leaves the program free.   *)
(*                                                                         *)
(* An operator whose name has an underscore, as in SignalTrap_KeepsSie, is *)
(* the operator it precedes with one plausible mistake in it.  No action   *)
(* uses it; it is there to show that the properties would notice.          *)
(***************************************************************************)
EXTENDS Integers

CONSTANTS
  Regs,       (* the general registers the run uses, r0, r29, r30, r31 among them *)
  WordSize,   (* number of values of a register: 2^64 in the code                  *)
  TimeSize,   (* number of values of stime: 2^64 in the code                       *)
  Cells,      (* addresses of the mapped doublewords                               *)
  ReadOnly,   (* those whose region is read_only                                   *)
  Code(_),    (* the instructions that may be decoded at an address                *)
  BootRegs,   (* register files, control states and memories the host may start from *)
  BootCtl,
  BootMem

Word == 0 .. WordSize - 1
Time == 0 .. TimeSize - 1
Bit  == {0, 1}

RegisterOps == {"MOV", "RETAIN", "CHK_B", "RELEASE", "ALLOC_BUMP", "RDPROF",
                "ADDI", "LDA", "FRAME", "ADJSP", "ADD", "SUB", "MUL",
                "CMPEQ", "CMPNE", "CMPLT", "CMPLE"}
HintOps     == {"NOP", "SYSCALL", "ICACHE_RNG", "SFENCE_VMA", "PREFETCH", "MEMZERO_HINT",
                "BR_HINT", "DOORBELL"}
BranchOps   == {"BEQ", "BNE", "BLT", "BLE"}
TrapOps     == {"BREAK", "ECALL"}
OtherOps    == {"INVALID", "JMP", "TAILCALL", "JAL", "CALL", "JALR", "RET",
                "LD_D", "LD_D_NZ", "ST_D", "LD_P", "ST_P", "PUSH", "POP",
                "ENTER", "LEAVE", "TRAPRET", "LR_D", "SC_D", "CSRRW",
                "LOOP_SET", "LOOP_DECBR"}
Ops == RegisterOps \cup HintOps \cup BranchOps \cup TrapOps \cup OtherOps

(* DecodedInst: len is 8 for an escape-prefixed instruction and 4 otherwise. *)
Instruction == [op : Ops, rd : Regs, rs1 : Regs, rs2 : Regs, imm : Int, len : {4, 8}]

(* HvmCpuState without the registers: pc, privilege (1 = supervisor), the    *)
(* CSRs, sstatus as its three defined bits, and trap_pending.                *)
Ctl == [pc : Word, privilege : Bit, trap_pending : BOOLEAN,
        sie : Bit, spie : Bit, spp : Bit,
        stvec : Word, sepc : Word, scause : Word, stval : Word, satp : Word,
        stime : Time, stimecmp : Word]

ASSUME SizesAssumption ==
  /\ WordSize \in Nat /\ WordSize >= 512
  /\ TimeSize \in Nat /\ TimeSize >= 1 /\ TimeSize <= WordSize
ASSUME RegsAssumption  == {0, 29, 30, 31} \subseteq Regs
ASSUME CellsAssumption == Cells \subseteq Word /\ ReadOnly \subseteq Cells
ASSUME CodeAssumption  ==
  \A a \in Word : \A di \in Code(a) :
    di \in Instruction /\ (di.op = "CSRRW" => di.imm \in 0 .. 7)
ASSUME BootAssumption  ==
  /\ \A r \in BootRegs : r \in [Regs -> Word] /\ r[0] = 0
  /\ BootCtl \subseteq Ctl
  /\ BootMem \subseteq [Cells -> Word]

VARIABLES
  ctl,    (* pc, privilege, CSRs, trap_pending                    *)
  regs,   (* the general registers                                *)
  resv,   (* the LR/SC reservation: [valid, addr]                 *)
  loop,   (* the hardware loop: [count, backedge]                 *)
  mem     (* the mapped doublewords                               *)

vars == <<ctl, regs, resv, loop, mem>>

-------------------------------------------------------------------------------
(* Words and registers.                                                      *)

Wrap(n)     == n % WordSize
Signed(w)   == IF 2 * w >= WordSize THEN w - WordSize ELSE w
WordAlign(w) == w - (w % 4)

WriteReg_ZeroToo(r, i, v) == [r EXCEPT ![i] = v]

(* read_reg and write_reg: r0 reads as zero and ignores writes.              *)
WriteReg(r, i, v) == IF i = 0 THEN r ELSE [r EXCEPT ![i] = v]

Advance(di) == Wrap(ctl.pc + di.len)
Target(di)  == Wrap(ctl.pc + 4 * di.imm)

(* A doubleword access throws unless the doubleword is mapped; a store also  *)
(* throws when it is read-only.  The model follows executions whose          *)
(* doubleword accesses are aligned: an unaligned one would straddle cells.   *)
Aligned(a)  == a % 8 = 0
Readable(a) == a \in Cells
Writable(a) == a \in Cells \ ReadOnly

-------------------------------------------------------------------------------
(* Traps and the timer.                                                      *)

TimerCause  == WordSize \div 2    (* bit 63 set, code 0 *)
ThrownCause == 2                  (* step's handler for std::exception *)

SignalTrap_KeepsSie(c, cause, value) ==
  [c EXCEPT !.trap_pending = TRUE,
            !.sepc = c.pc, !.scause = cause, !.stval = value,
            !.spie = c.sie, !.spp = c.privilege, !.privilege = 1, !.pc = c.stvec]
SignalTrap_ClearsThenSaves(c, cause, value) ==
  [c EXCEPT !.trap_pending = TRUE,
            !.sepc = c.pc, !.scause = cause, !.stval = value,
            !.sie = 0, !.spie = 0, !.spp = c.privilege, !.privilege = 1, !.pc = c.stvec]
SignalTrap_SavesNewLevel(c, cause, value) ==
  [c EXCEPT !.trap_pending = TRUE,
            !.sepc = c.pc, !.scause = cause, !.stval = value,
            !.spie = c.sie, !.sie = 0, !.privilege = 1, !.spp = 1, !.pc = c.stvec]

(* HvmCpuState::signal_trap(cause, value).                                   *)
SignalTrap(c, cause, value) ==
  [c EXCEPT !.trap_pending = TRUE,
            !.sepc = c.pc, !.scause = cause, !.stval = value,
            !.spie = c.sie, !.sie = 0, !.spp = c.privilege, !.privilege = 1,
            !.pc = c.stvec]

TickTimer_IgnoresSie(c) ==
  LET t == [c EXCEPT !.stime = (c.stime + 1) % TimeSize]
  IN  IF t.stime >= t.stimecmp THEN SignalTrap(t, TimerCause, 0) ELSE t

TickTimer(c) ==
  LET t == [c EXCEPT !.stime = (c.stime + 1) % TimeSize]
  IN  IF t.stime >= t.stimecmp /\ t.sie = 1
      THEN SignalTrap(t, TimerCause, 0)
      ELSE t

Retire_TicksFirst(next) ==
  LET t == TickTimer(ctl)
  IN  ctl' = IF t.pc = ctl.pc THEN [t EXCEPT !.pc = next] ELSE t

(* The instruction completed: the pc moves and the timer ticks.              *)
Retire(next) == ctl' = TickTimer([ctl EXCEPT !.pc = next])

(* The instruction itself signalled a trap and returned: the timer ticks.    *)
Raise(cause) == ctl' = TickTimer(SignalTrap(ctl, cause, ctl.pc))

(* A memory access threw: step signals the trap and returns without a tick.  *)
Thrown == ctl' = SignalTrap(ctl, ThrownCause, ctl.pc)

-------------------------------------------------------------------------------
(* CSRs, by their number.                                                    *)

ReadCsr(n) ==
  CASE n = 0 -> ctl.sie + 2 * ctl.spie + 256 * ctl.spp
    [] n = 1 -> ctl.stvec
    [] n = 2 -> ctl.sepc
    [] n = 3 -> ctl.scause
    [] n = 4 -> ctl.stval
    [] n = 5 -> ctl.satp
    [] n = 6 -> ctl.stime
    [] n = 7 -> ctl.stimecmp

WriteCsr(n, v) ==
  CASE n = 0 -> [ctl EXCEPT !.sie = v % 2, !.spie = (v \div 2) % 2,
                            !.spp = (v \div 256) % 2]
    [] n = 1 -> [ctl EXCEPT !.stvec = v]
    [] n = 2 -> [ctl EXCEPT !.sepc = v]
    [] n = 3 -> [ctl EXCEPT !.scause = v]
    [] n = 4 -> [ctl EXCEPT !.stval = v]
    [] n = 5 -> [ctl EXCEPT !.satp = v]
    [] n = 6 -> ctl                               (* stime is read-only *)
    [] n = 7 -> [ctl EXCEPT !.stimecmp = v]

-------------------------------------------------------------------------------
(* Instructions that touch neither memory nor traps.                         *)

Hint(di) ==
  /\ di.op \in HintOps
  /\ Retire(Advance(di))
  /\ UNCHANGED <<regs, resv, loop, mem>>

Truth(b) == IF b THEN 1 ELSE 0

(* The register an instruction writes and the value it computes.             *)
Dest(di) == IF di.op = "ADJSP" THEN 31 ELSE di.rd

Result(di) ==
  LET a == regs[di.rs1]
      b == regs[di.rs2]
  IN CASE di.op \in {"MOV", "RETAIN", "CHK_B"}          -> a
       [] di.op \in {"RELEASE", "ALLOC_BUMP", "RDPROF"} -> 0
       [] di.op \in {"ADDI", "LDA"} -> Wrap(a + di.imm)
       [] di.op = "FRAME" -> Wrap(regs[30] + di.imm)
       [] di.op = "ADJSP" -> Wrap(regs[31] + di.imm)
       [] di.op = "ADD"   -> Wrap(a + b)
       [] di.op = "SUB"   -> Wrap(a - b)
       [] di.op = "MUL"   -> Wrap(a * b)
       [] di.op = "CMPEQ" -> Truth(a = b)
       [] di.op = "CMPNE" -> Truth(a # b)
       [] di.op = "CMPLT" -> Truth(Signed(a) < Signed(b))
       [] di.op = "CMPLE" -> Truth(Signed(a) <= Signed(b))

RegisterOp(di) ==
  /\ di.op \in RegisterOps
  /\ regs' = WriteReg(regs, Dest(di), Result(di))
  /\ Retire(Advance(di))
  /\ UNCHANGED <<resv, loop, mem>>

Taken(di) ==
  LET a == regs[di.rs1]
      b == regs[di.rs2]
  IN \/ di.op = "BEQ" /\ a = b
     \/ di.op = "BNE" /\ a # b
     \/ di.op = "BLT" /\ Signed(a) < Signed(b)
     \/ di.op = "BLE" /\ Signed(a) <= Signed(b)

Branch(di) ==
  /\ di.op \in BranchOps
  /\ Retire(IF Taken(di) THEN Target(di) ELSE Wrap(ctl.pc + 4))
  /\ UNCHANGED <<regs, resv, loop, mem>>

Jump(di) ==
  /\ di.op \in {"JMP", "TAILCALL"}
  /\ Retire(Target(di))
  /\ UNCHANGED <<regs, resv, loop, mem>>

(* JAL links pc + 4 whatever its length, CALL links the next instruction.    *)
JumpAndLink(di) ==
  /\ di.op \in {"JAL", "CALL"}
  /\ regs' = WriteReg(regs, di.rd,
                      IF di.op = "JAL" THEN Wrap(ctl.pc + 4) ELSE Advance(di))
  /\ Retire(Target(di))
  /\ UNCHANGED <<resv, loop, mem>>

(* The link register is written before the base register is read.            *)
JumpRegister(di) ==
  /\ di.op = "JALR"
  /\ LET linked == WriteReg(regs, di.rd, Wrap(ctl.pc + 4))
     IN /\ regs' = linked
        /\ Retire(WordAlign(Wrap(linked[di.rs1] + di.imm)))
  /\ UNCHANGED <<resv, loop, mem>>

Return(di) ==
  /\ di.op = "RET"
  /\ Retire(WordAlign(regs[29]))
  /\ UNCHANGED <<regs, resv, loop, mem>>

(* LOOP.DECBR branches by its own immediate, not by the recorded backedge.   *)
LoopSet(di) ==
  /\ di.op = "LOOP_SET"
  /\ loop' = [count |-> regs[di.rs1], backedge |-> Wrap(di.imm)]
  /\ Retire(Advance(di))
  /\ UNCHANGED <<regs, resv, mem>>

LoopDecBr_OnceMore(di) ==
  /\ di.op = "LOOP_DECBR"
  /\ loop' = [loop EXCEPT !.count = IF @ = 0 THEN 0 ELSE @ - 1]
  /\ Retire(IF loop.count > 0 THEN Target(di) ELSE Advance(di))
  /\ UNCHANGED <<regs, resv, mem>>

LoopDecBr(di) ==
  /\ di.op = "LOOP_DECBR"
  /\ loop' = [loop EXCEPT !.count = IF @ = 0 THEN 0 ELSE @ - 1]
  /\ Retire(IF loop.count > 1 THEN Target(di) ELSE Advance(di))
  /\ UNCHANGED <<regs, resv, mem>>

-------------------------------------------------------------------------------
(* Instructions that access memory.                                          *)

EffectiveAddress(di) == Wrap(regs[di.rs1] + di.imm)

Load(di) ==
  /\ di.op = "LD_D" \/ (di.op = "LD_D_NZ" /\ regs[di.rs1] # 0)
  /\ Aligned(EffectiveAddress(di))
  /\ IF Readable(EffectiveAddress(di))
     THEN /\ regs' = WriteReg(regs, di.rd, mem[EffectiveAddress(di)])
          /\ Retire(Advance(di))
     ELSE Thrown /\ UNCHANGED regs
  /\ UNCHANGED <<resv, loop, mem>>

LoadFromNull(di) ==
  /\ di.op = "LD_D_NZ" /\ regs[di.rs1] = 0
  /\ Raise(9)
  /\ UNCHANGED <<regs, resv, loop, mem>>

Store(di) ==
  /\ di.op = "ST_D"
  /\ Aligned(EffectiveAddress(di))
  /\ IF Writable(EffectiveAddress(di))
     THEN /\ mem' = [mem EXCEPT ![EffectiveAddress(di)] = regs[di.rd]]
          /\ Retire(Advance(di))
     ELSE Thrown /\ UNCHANGED mem
  /\ UNCHANGED <<regs, resv, loop>>

(* The first load is in rd before the second one can throw.                  *)
LoadPair(di) ==
  /\ di.op = "LD_P"
  /\ LET lo    == regs[di.rs2]
         hi    == Wrap(lo + 8)
         first == WriteReg(regs, di.rd, mem[lo])
     IN /\ Aligned(lo)
        /\ IF Readable(lo) /\ Readable(hi)
           THEN regs' = WriteReg(first, di.rs1, mem[hi]) /\ Retire(Advance(di))
           ELSE regs' = (IF Readable(lo) THEN first ELSE regs) /\ Thrown
  /\ UNCHANGED <<resv, loop, mem>>

StorePair(di) ==
  /\ di.op = "ST_P"
  /\ LET lo    == regs[di.rs2]
         hi    == Wrap(lo + 8)
         first == [mem EXCEPT ![lo] = regs[di.rd]]
     IN /\ Aligned(lo)
        /\ IF Writable(lo) /\ Writable(hi)
           THEN mem' = [first EXCEPT ![hi] = regs[di.rs1]] /\ Retire(Advance(di))
           ELSE mem' = (IF Writable(lo) THEN first ELSE mem) /\ Thrown
  /\ UNCHANGED <<regs, resv, loop>>

(* The stack pointer moves before the store can throw, and the value pushed  *)
(* is read after it has moved.                                               *)
Push(di) ==
  /\ di.op = "PUSH"
  /\ LET sp    == Wrap(regs[31] - 8)
         moved == WriteReg(regs, 31, sp)
     IN /\ Aligned(sp)
        /\ regs' = moved
        /\ IF Writable(sp)
           THEN mem' = [mem EXCEPT ![sp] = moved[di.rd]] /\ Retire(Advance(di))
           ELSE UNCHANGED mem /\ Thrown
  /\ UNCHANGED <<resv, loop>>

Pop(di) ==
  /\ di.op = "POP"
  /\ LET sp     == regs[31]
         loaded == WriteReg(regs, di.rd, mem[sp])
     IN /\ Aligned(sp)
        /\ IF Readable(sp)
           THEN regs' = WriteReg(loaded, 31, Wrap(loaded[31] + 8)) /\ Retire(Advance(di))
           ELSE UNCHANGED regs /\ Thrown
  /\ UNCHANGED <<resv, loop, mem>>

Enter_StackFirst(di) ==
  /\ di.op = "ENTER"
  /\ LET fp    == Wrap(regs[31] - 16)
         saved == [mem EXCEPT ![fp] = regs[29]]
     IN /\ Aligned(fp)
        /\ IF Writable(fp) /\ Writable(Wrap(fp + 8))
           THEN /\ mem' = [saved EXCEPT ![Wrap(fp + 8)] = regs[30]]
                /\ regs' = WriteReg(WriteReg(regs, 30, fp), 31, Wrap(fp - di.imm))
                /\ Retire(Advance(di))
           ELSE /\ mem' = (IF Writable(fp) THEN saved ELSE mem)
                /\ Thrown
                /\ regs' = WriteReg(regs, 31, fp)
  /\ UNCHANGED <<resv, loop>>
Enter_HighFirst(di) ==
  /\ di.op = "ENTER"
  /\ LET fp    == Wrap(regs[31] - 16)
         hi    == Wrap(fp + 8)
         saved == [mem EXCEPT ![hi] = regs[30]]
     IN /\ Aligned(fp)
        /\ IF Writable(fp) /\ Writable(hi)
           THEN /\ mem' = [saved EXCEPT ![fp] = regs[29]]
                /\ regs' = WriteReg(WriteReg(regs, 30, fp), 31, Wrap(fp - di.imm))
                /\ Retire(Advance(di))
           ELSE /\ mem' = (IF Writable(hi) THEN saved ELSE mem)
                /\ Thrown
                /\ UNCHANGED regs
  /\ UNCHANGED <<resv, loop>>

Enter(di) ==
  /\ di.op = "ENTER"
  /\ LET fp    == Wrap(regs[31] - 16)
         saved == [mem EXCEPT ![fp] = regs[29]]
     IN /\ Aligned(fp)
        /\ IF Writable(fp) /\ Writable(Wrap(fp + 8))
           THEN /\ mem' = [saved EXCEPT ![Wrap(fp + 8)] = regs[30]]
                /\ regs' = WriteReg(WriteReg(regs, 30, fp), 31, Wrap(fp - di.imm))
                /\ Retire(Advance(di))
           ELSE /\ mem' = (IF Writable(fp) THEN saved ELSE mem)
                /\ Thrown
                /\ UNCHANGED regs
  /\ UNCHANGED <<resv, loop>>

Leave_KeepsSlots(di) ==
  /\ di.op = "LEAVE"
  /\ LET fp       == regs[30]
         hi       == Wrap(fp + 8)
         returned == WriteReg(regs, 29, mem[fp])
     IN /\ Aligned(fp)
        /\ IF Readable(fp) /\ Readable(hi)
           THEN /\ regs' = WriteReg(WriteReg(returned, 30, mem[hi]), 31, fp)
                /\ Retire(Advance(di))
           ELSE regs' = (IF Readable(fp) THEN returned ELSE regs) /\ Thrown
  /\ UNCHANGED <<resv, loop, mem>>

Leave(di) ==
  /\ di.op = "LEAVE"
  /\ LET fp       == regs[30]
         hi       == Wrap(fp + 8)
         returned == WriteReg(regs, 29, mem[fp])
     IN /\ Aligned(fp)
        /\ IF Readable(fp) /\ Readable(hi)
           THEN /\ regs' = WriteReg(WriteReg(returned, 30, mem[hi]), 31, Wrap(fp + 16))
                /\ Retire(Advance(di))
           ELSE regs' = (IF Readable(fp) THEN returned ELSE regs) /\ Thrown
  /\ UNCHANGED <<resv, loop, mem>>

LoadReserve_KeepsFirst(di) ==
  /\ di.op = "LR_D"
  /\ LET addr == regs[di.rs1]
     IN /\ Aligned(addr)
        /\ IF Readable(addr)
           THEN /\ regs' = WriteReg(regs, di.rd, mem[addr])
                /\ resv' = IF resv.valid THEN resv ELSE [valid |-> TRUE, addr |-> addr]
                /\ Retire(Advance(di))
           ELSE Thrown /\ UNCHANGED <<regs, resv>>
  /\ UNCHANGED <<loop, mem>>

LoadReserve(di) ==
  /\ di.op = "LR_D"
  /\ LET addr == regs[di.rs1]
     IN /\ Aligned(addr)
        /\ IF Readable(addr)
           THEN /\ regs' = WriteReg(regs, di.rd, mem[addr])
                /\ resv' = [valid |-> TRUE, addr |-> addr]
                /\ Retire(Advance(di))
           ELSE Thrown /\ UNCHANGED <<regs, resv>>
  /\ UNCHANGED <<loop, mem>>

StoreConditional_AnyAddress(di) ==
  /\ di.op = "SC_D"
  /\ LET addr == regs[di.rs1]
     IN IF ~resv.valid
        THEN /\ regs' = WriteReg(regs, di.rd, 1)
             /\ Retire(Advance(di))
             /\ UNCHANGED <<resv, mem>>
        ELSE /\ Aligned(addr)
             /\ IF Writable(addr)
                THEN /\ mem' = [mem EXCEPT ![addr] = regs[di.rs2]]
                     /\ regs' = WriteReg(regs, di.rd, 0)
                     /\ resv' = [resv EXCEPT !.valid = FALSE]
                     /\ Retire(Advance(di))
                ELSE Thrown /\ UNCHANGED <<regs, resv, mem>>
  /\ UNCHANGED loop
StoreConditional_KeepsReservation(di) ==
  /\ di.op = "SC_D"
  /\ LET addr == regs[di.rs1]
         held == resv.valid /\ resv.addr = addr
     IN IF ~held
        THEN regs' = WriteReg(regs, di.rd, 1) /\ Retire(Advance(di)) /\ UNCHANGED mem
        ELSE /\ Aligned(addr)
             /\ IF Writable(addr)
                THEN /\ mem' = [mem EXCEPT ![addr] = regs[di.rs2]]
                     /\ regs' = WriteReg(regs, di.rd, 0)
                     /\ Retire(Advance(di))
                ELSE Thrown /\ UNCHANGED <<regs, mem>>
  /\ UNCHANGED <<resv, loop>>

(* A store-conditional that fails keeps the reservation, and so does one     *)
(* whose store throws.                                                       *)
StoreConditional(di) ==
  /\ di.op = "SC_D"
  /\ LET addr == regs[di.rs1]
         held == resv.valid /\ resv.addr = addr
     IN IF ~held
        THEN /\ regs' = WriteReg(regs, di.rd, 1)
             /\ Retire(Advance(di))
             /\ UNCHANGED <<resv, mem>>
        ELSE /\ Aligned(addr)
             /\ IF Writable(addr)
                THEN /\ mem' = [mem EXCEPT ![addr] = regs[di.rs2]]
                     /\ regs' = WriteReg(regs, di.rd, 0)
                     /\ resv' = [resv EXCEPT !.valid = FALSE]
                     /\ Retire(Advance(di))
                ELSE Thrown /\ UNCHANGED <<regs, resv, mem>>
  /\ UNCHANGED loop

-------------------------------------------------------------------------------
(* Instructions that change the control state.                               *)

RaiseTrap(di) ==
  /\ di.op \in TrapOps
  /\ Raise(IF di.op = "BREAK" THEN 10 ELSE 8)
  /\ UNCHANGED <<regs, resv, loop, mem>>

TrapReturn_StaysSupervisor(di) ==
  /\ di.op = "TRAPRET"
  /\ ctl' = TickTimer([ctl EXCEPT !.sie = ctl.spie, !.pc = ctl.sepc])
  /\ UNCHANGED <<regs, resv, loop, mem>>
TrapReturn_StaysMasked(di) ==
  /\ di.op = "TRAPRET"
  /\ ctl' = TickTimer([ctl EXCEPT !.privilege = ctl.spp, !.pc = ctl.sepc])
  /\ UNCHANGED <<regs, resv, loop, mem>>

(* TRAPRET leaves SPIE, SPP and trap_pending as they are.                    *)
TrapReturn(di) ==
  /\ di.op = "TRAPRET"
  /\ ctl' = TickTimer([ctl EXCEPT !.sie = ctl.spie, !.privilege = ctl.spp,
                                  !.pc = ctl.sepc])
  /\ UNCHANGED <<regs, resv, loop, mem>>

(* The CSR is written before rd; rs1 = r0 suppresses the CSR write.          *)
CsrRw(di) ==
  /\ di.op = "CSRRW"
  /\ regs' = WriteReg(regs, di.rd, ReadCsr(di.imm))
  /\ ctl' = TickTimer([(IF di.rs1 = 0 THEN ctl ELSE WriteCsr(di.imm, regs[di.rs1]))
                       EXCEPT !.pc = Advance(di)])
  /\ UNCHANGED <<resv, loop, mem>>

(* step() on an instruction the decoder rejects: a trap, and no tick.        *)
Undecodable(di) ==
  /\ di.op = "INVALID"
  /\ ctl' = SignalTrap(ctl, 9, ctl.pc)
  /\ UNCHANGED <<regs, resv, loop, mem>>

-------------------------------------------------------------------------------
Execute(di) ==
  \/ Hint(di) \/ RegisterOp(di)
  \/ Branch(di) \/ Jump(di) \/ JumpAndLink(di) \/ JumpRegister(di) \/ Return(di)
  \/ LoopSet(di) \/ LoopDecBr(di)
  \/ Load(di) \/ LoadFromNull(di) \/ Store(di) \/ LoadPair(di) \/ StorePair(di)
  \/ Push(di) \/ Pop(di) \/ Enter(di) \/ Leave(di)
  \/ LoadReserve(di) \/ StoreConditional(di)
  \/ RaiseTrap(di) \/ TrapReturn(di) \/ CsrRw(di) \/ Undecodable(di)

Init ==
  /\ ctl \in BootCtl
  /\ regs \in BootRegs
  /\ mem \in BootMem
  /\ resv = [valid |-> FALSE, addr |-> 0]
  /\ loop = [count |-> 0, backedge |-> 0]

Step == \E di \in Code(ctl.pc) : Execute(di)

Spec == Init /\ [][Step]_vars

(* The host calls step() again and again until it decides to stop.           *)
FairSpec == Spec /\ WF_vars(Step)

-------------------------------------------------------------------------------
(* Every variable stays in its type, and r0 holds zero: the one invariant of *)
(* shape, on which the proofs rest.                                          *)
TypeOK ==
  /\ ctl \in Ctl
  /\ regs \in [Regs -> Word] /\ regs[0] = 0
  /\ resv \in [valid : BOOLEAN, addr : Word]
  /\ loop \in [count : Word, backedge : Word]
  /\ mem \in [Cells -> Word]

===============================================================================
