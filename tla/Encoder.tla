--------------------------------- MODULE Encoder ---------------------------------
(***************************************************************************)
(* The instruction encoder of hvmc (src/src/tools/hvmc/src/encoder.cpp)    *)
(* and its opcode table (types.h).  A 32-bit word is the set of positions  *)
(* of its one bits, so that or is union and what a shift moves out of the  *)
(* word is lost; a byte is a number.                                       *)
(*                                                                         *)
(* An operator whose name has an underscore is the one it precedes with a  *)
(* plausible mistake in it; nothing uses it.                               *)
(***************************************************************************)
EXTENDS Words, Sequences

(* Mnemonic, opcode, format and function code, -1 for none: the rows encoded   *)
(* in one word, and those behind an escape prefix.                             *)
Base32 ==
  {<<"NOP", 0, "R", -1>>, <<"MOV", 1, "R", -1>>, <<"MOVZ", 3, "I", -1>>, <<"LUI", 4, "I", -1>>,
   <<"ADDI", 5, "I", -1>>, <<"RETAIN", 6, "R", -1>>, <<"RELEASE", 7, "R", -1>>,
   <<"ICACHE.RNG", 11, "R", -1>>, <<"ADD", 16, "R", 0>>, <<"SUB", 16, "R", 1>>,
   <<"MUL", 16, "R", 2>>, <<"DIV", 16, "R", 5>>, <<"DIVU", 16, "R", 6>>, <<"REM", 16, "R", 7>>,
   <<"SHL", 19, "R", 0>>, <<"SHR", 19, "R", 1>>, <<"SAR", 19, "R", 2>>, <<"AND", 32, "R", 0>>,
   <<"OR", 32, "R", 1>>, <<"XOR", 32, "R", 2>>, <<"NOT", 33, "R", -1>>, <<"CMPEQ", 64, "R", 0>>,
   <<"CMPNE", 64, "R", 1>>, <<"CMPLT", 64, "R", 2>>, <<"CMPLE", 64, "R", 3>>,
   <<"FCMPEQ", 65, "R", 0>>, <<"FCMPLT", 65, "R", 1>>, <<"FCMPLE", 65, "R", 2>>,
   <<"FADD", 48, "R", 0>>, <<"FSUB", 48, "R", 1>>, <<"FMUL", 48, "R", 2>>, <<"FDIV", 48, "R", 3>>,
   <<"BEQ", 80, "B", -1>>, <<"BNE", 81, "B", -1>>, <<"BLT", 82, "B", -1>>, <<"BLE", 83, "B", -1>>,
   <<"JMP", 96, "J", -1>>, <<"JAL", 97, "J", -1>>, <<"JALR", 98, "I", -1>>, <<"RET", 99, "R", -1>>,
   <<"LD.B", 112, "I", -1>>, <<"LD.BU", 113, "I", -1>>, <<"LD.H", 114, "I", -1>>,
   <<"LD.HU", 115, "I", -1>>, <<"LD.W", 116, "I", -1>>, <<"LD.WU", 117, "I", -1>>,
   <<"LD.D", 118, "I", -1>>, <<"LD.P", 119, "R", -1>>, <<"ST.B", 120, "I", -1>>,
   <<"ST.H", 121, "I", -1>>, <<"ST.W", 122, "I", -1>>, <<"ST.D", 123, "I", -1>>,
   <<"ST.P", 124, "R", -1>>, <<"LDA", 125, "I", -1>>, <<"PUSH", 126, "R", -1>>,
   <<"POP", 127, "R", -1>>}
Escape32 ==
  {<<"ENTER", 128, "I", -1>>, <<"LEAVE", 129, "R", -1>>, <<"ADJSP", 130, "I", -1>>,
   <<"FRAME", 131, "I", -1>>, <<"CALL", 180, "J", -1>>, <<"TAILCALL", 182, "J", -1>>,
   <<"SYSCALL", 192, "I", -1>>, <<"BREAK", 193, "R", -1>>, <<"ECALL", 194, "R", -1>>,
   <<"TRAPRET", 195, "R", -1>>, <<"LR.D", 196, "R", -1>>, <<"SC.D", 197, "R", -1>>,
   <<"CSRRW", 198, "I", -1>>, <<"SFENCE.VMA", 200, "R", -1>>, <<"LOOP.SET", 208, "I", -1>>,
   <<"LOOP.DECBR", 209, "B", -1>>}

Mnemonics == {row[1] : row \in Base32 \cup Escape32}
RowOf(mnemonic) == CHOOSE row \in Base32 \cup Escape32 : row[1] = mnemonic

-------------------------------------------------------------------------------
(* A field of a word: register numbers are bytes, nothing keeps them below 32. *)
Put(v, n, at) == {i + at : i \in OneBits(v, n)} \cap 0 .. 31

EncodeR(op, rd, rs1, rs2, func) ==
  Put(op, 8, 25) \cup Put(rd, 8, 20) \cup Put(rs1, 8, 15) \cup Put(rs2, 8, 10) \cup Put(func, 10, 0)

EncodeI(op, rd, rs1, imm) ==
  Put(op, 8, 25) \cup Put(rd, 8, 20) \cup Put(rs1, 8, 15) \cup Put(imm, 15, 0)

EncodeB(op, rs1, rs2, imm) ==
  Put(op, 8, 25) \cup Put(rs1, 8, 20) \cup Put(rs2, 8, 15) \cup Put(imm, 15, 0)

EncodeJ(op, rd, imm) == Put(op, 8, 25) \cup Put(rd, 8, 20) \cup Put(imm, 20, 0)

LittleEndian(word) == [i \in 1 .. 4 |-> Field(word, 8 * (i - 1), 8)]

(* Seven bits in each byte, the lowest first, all but the last with bit 7 set. *)
Uleb128(v) ==
  LET last == CHOOSE k \in 1 .. 4 : v < 128^k /\ \A j \in 1 .. k - 1 : v >= 128^j
  IN  [k \in 1 .. last |-> ((v \div 128^(k - 1)) % 128) + IF k < last THEN 128 ELSE 0]

EscapePrefix == 254

EmitEscape32_Unpadded(op, payload) ==
  <<EscapePrefix>> \o Uleb128(op) \o LittleEndian(payload)

EmitEscape32(op, payload) ==
  LET head == <<EscapePrefix>> \o Uleb128(op)
  IN  head \o [i \in 1 .. 4 - Len(head) |-> 0] \o LittleEndian(payload)

(* Format RI, which no row of the table has, is left out.                      *)
Payload(row, ops) ==
  CASE row[3] = "R" -> EncodeR(row[2], ops.rd, ops.rs1, ops.rs2, IF row[4] >= 0 THEN row[4] ELSE 0)
    [] row[3] = "I" -> EncodeI(row[2], ops.rd, ops.rs1, ops.imm)
    [] row[3] = "B" -> EncodeB(row[2], ops.rs1, ops.rs2, ops.imm)
    [] row[3] = "J" -> EncodeJ(row[2], ops.rd, ops.imm)

EncodeInstruction(row, ops) ==
  IF row \in Escape32 THEN EmitEscape32(row[2], Payload(row, ops)) ELSE LittleEndian(Payload(row, ops))

(* A name that is not in the table gives no bytes.                             *)
Encode(inst) ==
  IF inst.mnemonic \in Mnemonics THEN EncodeInstruction(RowOf(inst.mnemonic), inst) ELSE <<>>
===============================================================================
