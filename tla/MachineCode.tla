------------------------------- MODULE MachineCode -------------------------------
(***************************************************************************)
(* From instructions to bytes and back to effects: a program is encoded,   *)
(* one instruction after another, as the assembler does, and the hart then *)
(* runs the bytes.  Encoder and Scalar are the code; decode_inst is not in *)
(* the repository and is the decoding of docs/instructions.md, section 3.  *)
(*                                                                         *)
(* Only straight-line programs of the instructions of Scalar are run; the  *)
(* other instructions are encoded and read back.  A run ends at the end of *)
(* the code, at an access that throws (Hart has the trap), or when the     *)
(* host's process is killed by a division that is undefined in C++.        *)
(* Interrupts are disabled, and the code and its data are apart.           *)
(*                                                                         *)
(* An operator whose name has an underscore is the one it precedes with a  *)
(* plausible mistake in it; nothing uses it.                               *)
(***************************************************************************)
EXTENDS Encoder, Scalar

CONSTANTS
  Starts,      (* a program, of [mnemonic, rd, rs1, rs2, imm], and registers     *)
  DataSize,    (* bytes of data memory                                           *)
  Image        (* what the host loads at address 0 of it                         *)

(* What assemble makes of a line: parse_reg knows no register beyond r31.      *)
Inst == [mnemonic : Mnemonics, rd : 0 .. 31, rs1 : 0 .. 31, rs2 : 0 .. 31, imm : Int]

ASSUME StartsAssumption ==
  \A s \in Starts : s.program \in Seq(Inst) /\ s.regs \in [0 .. 31 -> Word] /\ s.regs[0] = 0
ASSUME DataAssumption ==
  DataSize \in Nat /\ Image \in Seq(0 .. TwoTo[ByteBits] - 1)

VARIABLES
  program, encoded,      (* the program, and how many of it are encoded          *)
  code,                  (* the bytes of the text section                        *)
  pc, regs, data,        (* the hart and its memory                              *)
  executed,              (* how many instructions have run                       *)
  outcome

codeVars == <<program, encoded, code, pc, regs, data, executed, outcome>>

CodeInit ==
  /\ \E s \in Starts : program = s.program /\ regs = s.regs
  /\ data = Load(Zeroed(DataSize), 0, Image)
  /\ encoded = 0 /\ code = <<>>
  /\ pc = 0 /\ executed = 0 /\ outcome = "running"

-------------------------------------------------------------------------------
(* encode_instruction's bytes go to the end of the section's data.             *)
EncodeNext ==
  /\ encoded < Len(program)
  /\ code' = code \o Encode(program[encoded + 1])
  /\ encoded' = encoded + 1
  /\ UNCHANGED <<program, pc, regs, data, executed, outcome>>

-------------------------------------------------------------------------------
(* The documented decoding.  Beyond the code there are zeros.                  *)
CodeByte(a) == IF a < Len(code) THEN code[a + 1] ELSE 0
CodeWord(a) == UNION {{8 * j + i : i \in OneBits(CodeByte(a + j), 8)} : j \in 0 .. 3}
CodeUleb(a) == IF CodeByte(a) < 128 THEN CodeByte(a)
               ELSE (CodeByte(a) % 128) + 128 * CodeByte(a + 1)

Escaped(a) == CodeByte(a) = EscapePrefix

(* DecodedInst, from a row of the table and a word: the fields of the row's    *)
(* format, the immediate sign-extended.                                        *)
DecodedInst(op, rd, rs1, rs2, imm, len) ==
  [op |-> op, rd |-> rd, rs1 |-> rs1, rs2 |-> rs2, imm |-> imm, len |-> len]

Fields(row, word, len) ==
  LET hi  == Field(word, 20, 5)
      mid == Field(word, 15, 5)
  IN CASE row[3] = "R" -> DecodedInst(row[1], hi, mid, Field(word, 10, 5), 0, len)
       [] row[3] = "I" -> DecodedInst(row[1], hi, mid, 0, SignExtend(Field(word, 0, 15), 15), len)
       [] row[3] = "B" -> DecodedInst(row[1], 0, hi, mid, SignExtend(Field(word, 0, 15), 15), len)
       [] row[3] = "J" -> DecodedInst(row[1], hi, 0, 0, SignExtend(Field(word, 0, 20), 20), len)

(* The row is the one that has the opcode and the function code.               *)
Rows(table, op, word) == {row \in table : row[2] = op /\ row[4] \in {-1, Field(word, 0, 10)}}

Decode(a) ==
  LET word == CodeWord(IF Escaped(a) THEN a + 4 ELSE a)
      rows == IF Escaped(a) THEN Rows(Escape32, CodeUleb(a + 1), word)
                            ELSE Rows(Base32, Field(word, 25, 7), word)
      len  == IF Escaped(a) THEN 8 ELSE 4
  IN  IF rows = {} THEN DecodedInst("INVALID", 0, 0, 0, 0, len)
                   ELSE Fields(CHOOSE row \in rows : TRUE, word, len)

-------------------------------------------------------------------------------
(* step, on the instructions of Scalar.                                        *)
Runnable == /\ encoded = Len(program) /\ outcome = "running" /\ pc < Len(code)
            /\ \A k \in 1 .. Len(program) :
                 program[k].mnemonic \in ValueOps \cup LoadOps \cup StoreOps

WriteReg(i, v) == IF i = 0 THEN regs ELSE [regs EXCEPT ![i] = v]

Retire(di) == /\ pc' = pc + di.len /\ executed' = executed + 1
              /\ UNCHANGED <<program, encoded, code, outcome>>

Stop(why) == /\ outcome' = why
             /\ UNCHANGED <<program, encoded, code, pc, regs, data, executed>>

(* An undefined division wraps on some hosts and is killed on others.          *)
Compute(di) ==
  /\ di.op \in ValueOps
  /\ regs' = WriteReg(di.rd, Result(di, regs[di.rs1], regs[di.rs2]))
  /\ UNCHANGED data
  /\ Retire(di)
Killed(di) ==
  /\ di.op \in ValueOps /\ Undefined(di, regs[di.rs1], regs[di.rs2])
  /\ Stop("killed")

LoadData(di) ==
  LET addr == EffectiveAddress(di, regs[di.rs1])
  IN /\ di.op \in LoadOps /\ CheckBounds(data, addr, Width(di.op))
     /\ regs' = WriteReg(di.rd, Loaded(di.op, data, addr))
     /\ UNCHANGED data
     /\ Retire(di)
StoreData(di) ==
  LET addr == EffectiveAddress(di, regs[di.rs1])
  IN /\ di.op \in StoreOps /\ CheckBounds(data, addr, Width(di.op))
     /\ data' = Stored(di.op, data, addr, regs[di.rd])
     /\ UNCHANGED regs
     /\ Retire(di)
ThrowsAt(di) ==
  /\ di.op \in LoadOps \cup StoreOps
  /\ ~CheckBounds(data, EffectiveAddress(di, regs[di.rs1]), Width(di.op))
  /\ Stop("thrown")
Invalid(di) == di.op \notin ValueOps \cup LoadOps \cup StoreOps /\ Stop("invalid")

Run == /\ Runnable
       /\ LET di == Decode(pc)
          IN Compute(di) \/ Killed(di) \/ LoadData(di) \/ StoreData(di) \/ ThrowsAt(di) \/ Invalid(di)

Over == ~Runnable /\ encoded = Len(program) /\ UNCHANGED codeVars

CodeNext == EncodeNext \/ Run \/ Over
CodeSpec == CodeInit /\ [][CodeNext]_codeVars

-------------------------------------------------------------------------------
(* What an instruction must not be for its bytes to mean it: an immediate that *)
(* its field cannot hold, which the encoder cuts off in silence; and a word    *)
(* whose lowest byte is the escape prefix, such as a branch back by two.       *)
Unsigned == {"MOVZ", "LUI"}
Fits(inst) ==
  CASE RowOf(inst.mnemonic)[3] = "R" -> TRUE
    [] RowOf(inst.mnemonic)[3] = "J" -> inst.imm \in -(2^19) .. 2^19 - 1
    [] inst.mnemonic \in Unsigned    -> inst.imm \in 0 .. 2^15 - 1
    [] OTHER                         -> inst.imm \in -(2^14) .. 2^14 - 1
Escapes(inst) ==
  RowOf(inst.mnemonic) \in Base32 /\ RowOf(inst.mnemonic)[3] # "R" /\ inst.imm % 256 = EscapePrefix

Readable(insts) == \A k \in 1 .. Len(insts) : Fits(insts[k]) /\ ~Escapes(insts[k])

(* The bytes at an address say this instruction: its name, and the operands    *)
(* its format has.                                                             *)
Says(di, inst) ==
  LET format == RowOf(inst.mnemonic)[3]
      imm    == IF inst.mnemonic \in Unsigned THEN SignExtend(inst.imm, 15) ELSE inst.imm
  IN /\ di.op = inst.mnemonic
     /\ format \in {"R", "I", "J"} => di.rd = inst.rd
     /\ format \in {"R", "I", "B"} => di.rs1 = inst.rs1
     /\ format \in {"R", "B"} => di.rs2 = inst.rs2
     /\ format \in {"I", "B", "J"} => di.imm = imm

(* The addresses at which a reader finds instructions, and the end.            *)
Reading ==
  LET at[k \in 0 .. encoded] == IF k = 0 THEN 0 ELSE at[k - 1] + Decode(at[k - 1]).len
  IN  at

(* encoder.h: the bytes of a program are read back as the program: each        *)
(* instruction is found where the one before it ends, short or escaped, and    *)
(* has the name and the operands it was encoded from.                          *)
ReadsBack ==
  Readable(SubSeq(program, 1, encoded)) =>
    /\ Reading[encoded] = Len(code)
    /\ \A k \in 1 .. encoded : Says(Decode(Reading[k - 1]), program[k])

-------------------------------------------------------------------------------
(* The column Operation of docs/hvm_instruction_set.csv: what an instruction   *)
(* leaves in rd, as a condition on the result.  Of a division by zero the      *)
(* column says nothing, and test_cpu.cpp:269, :283 and :297 speak for it.      *)
(* RETAIN and RELEASE have no meaning here: they count references in memory by *)
(* the column, and do not in the code.                                         *)
Counting == {"RETAIN", "RELEASE"}

BitAt(w, i) == (w \div TwoTo[i]) % 2
Remains(r, a, b) == (a - r) % Abs(b) = 0 /\ Abs(r) < Abs(b) /\ r * a >= 0
Biased(w) == (w + TwoTo[WordBits - 1]) % TwoTo[WordBits]

Meant(inst, a, b, r) ==
  LET op == inst.mnemonic
      by == b % WordBits
  IN CASE op = "MOV" -> r = a
       [] op = "MOVZ" -> /\ r \div TwoTo[15] = a \div TwoTo[15]
                         /\ \A i \in 0 .. 14 : BitAt(r, i) = 1
                              <=> 1 \in {BitAt(a, i), BitAt(inst.imm, i)}
       [] op = "LUI"  -> LET low == WordBits - 15
                         IN /\ r % TwoTo[low] = a % TwoTo[low]
                            /\ \A i \in 0 .. 14 : BitAt(r, low + i) = 1
                                 <=> 1 \in {BitAt(a, low + i), BitAt(inst.imm, i)}
       [] op \in {"ADDI", "LDA"} -> (r - a - inst.imm) % TwoTo[WordBits] = 0
       [] op = "ADD" -> r = a + b \/ r = a + b - TwoTo[WordBits]
       [] op = "SUB" -> r = a - b \/ r = a - b + TwoTo[WordBits]
       [] op = "MUL" -> (Signed(r) - Signed(a) * Signed(b)) % TwoTo[WordBits] = 0
       [] op = "DIV" /\ b # 0 -> Remains(Signed(a) - Signed(r) * Signed(b), Signed(a), Signed(b))
       [] op = "REM" /\ b # 0 -> Remains(Signed(r), Signed(a), Signed(b))
       [] op = "DIVU" /\ b # 0 -> a - r * b \in 0 .. b - 1
       [] op \in {"DIV", "DIVU"} /\ b = 0 -> r = AllOnes
       [] op = "REM" /\ b = 0 -> r = a
       [] op = "SHL" -> r = (a % TwoTo[WordBits - by]) * TwoTo[by]
       [] op = "SHR" -> r = a \div TwoTo[by]
       [] op = "SAR" -> Signed(r) = Signed(a) \div TwoTo[by]
       [] op = "AND" -> \A i \in 0 .. WordBits - 1 : BitAt(r, i) = BitAt(a, i) * BitAt(b, i)
       [] op = "OR"  -> \A i \in 0 .. WordBits - 1 : BitAt(r, i) = 1
                                                    <=> 1 \in {BitAt(a, i), BitAt(b, i)}
       [] op = "XOR" -> \A i \in 0 .. WordBits - 1 : BitAt(r, i) = 1
                                                    <=> BitAt(a, i) # BitAt(b, i)
       [] op = "NOT" -> r = AllOnes - a
       [] op = "CMPEQ" -> (r = 1 /\ a = b) \/ (r = 0 /\ a # b)
       [] op = "CMPNE" -> (r = 0 /\ a = b) \/ (r = 1 /\ a # b)
       [] op = "CMPLT" -> r \in {0, 1} /\ (r = 1 <=> Biased(a) < Biased(b))
       [] op = "CMPLE" -> r \in {0, 1} /\ (r = 1 <=> Biased(a) <= Biased(b))

(* A load reads as many bytes as its name says and extends them by its sign; a *)
(* store leaves exactly those bytes behind.                                    *)
SignedLoads == {"LD.B", "LD.H", "LD.W"}
MeantLoad(inst, addr, r) ==
  LET n == Width(inst.mnemonic)
  IN /\ \A i \in 0 .. n - 1 : data[addr + i] = (r \div TwoTo[ByteBits * i]) % TwoTo[ByteBits]
     /\ \A i \in n .. 7 : (r \div TwoTo[ByteBits * i]) % TwoTo[ByteBits]
          = IF inst.mnemonic \in SignedLoads /\ 2 * data[addr + n - 1] >= TwoTo[ByteBits]
            THEN TwoTo[ByteBits] - 1 ELSE 0
MeantStore(inst, addr, v) ==
  \A a \in DOMAIN data :
    data'[a] = IF a - addr \in 0 .. Width(inst.mnemonic) - 1
               THEN (v \div TwoTo[ByteBits * (a - addr)]) % TwoTo[ByteBits] ELSE data[a]

(* What a step may do, of an instruction.                                      *)
AsWritten(inst) ==
  LET a       == regs[inst.rs1]
      addr    == (a + inst.imm) % TwoTo[WordBits]
      r       == regs'[inst.rd]
      Sets(v) == regs' = IF inst.rd = 0 THEN regs ELSE [regs EXCEPT ![inst.rd] = v]
  IN CASE outcome' = "running" /\ inst.mnemonic \in ValueOps ->
            /\ Sets(r) /\ data' = data
            /\ inst.rd = 0 \/ Undefined([op |-> inst.mnemonic], a, regs[inst.rs2])
                 \/ Meant(inst, a, regs[inst.rs2], r)
       [] outcome' = "running" /\ inst.mnemonic \in LoadOps ->
            Sets(r) /\ data' = data /\ (inst.rd = 0 \/ MeantLoad(inst, addr, r))
       [] outcome' = "running" /\ inst.mnemonic \in StoreOps ->
            regs' = regs /\ MeantStore(inst, addr, regs[inst.rd])
       [] outcome' = "thrown" -> addr + Width(inst.mnemonic) > DataSize
       [] outcome' = "killed" -> Undefined([op |-> inst.mnemonic], a, regs[inst.rs2])
       [] OTHER -> FALSE

(* Executing the next instruction's bytes does what the instruction set says   *)
(* of the instruction that was written: its result in its rd and nowhere else, *)
(* r0 stays zero, and memory changes by its store alone or not at all.  Not    *)
(* said: what RETAIN and RELEASE do, and the result of a DIV or REM of the     *)
(* least word by -1, which C++ leaves undefined.                               *)
ExecutesAsWritten ==
  [][Run /\ Readable(program) /\ program[executed + 1].mnemonic \notin Counting
       => AsWritten(program[executed + 1])]_codeVars

===============================================================================
