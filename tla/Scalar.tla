---------------------------------- MODULE Scalar ----------------------------------
(***************************************************************************)
(* What the scalar instructions of the hart compute                        *)
(* (src/src/hvm_sim_core/executor.cpp, execute_inst): data movement,       *)
(* integer arithmetic, shifts, bitwise instructions, comparisons, and the  *)
(* loads and stores of every width.  Hart has the instructions that touch  *)
(* control, traps and the stack; the floating-point ones are not modelled. *)
(* A word is eight bytes of ByteBits bits.                                 *)
(*                                                                         *)
(* An operator whose name has an underscore is the one it precedes with a  *)
(* plausible mistake in it; nothing uses it.                               *)
(***************************************************************************)
EXTENDS FlatMemory

WordBits == 8 * ByteBits
ASSUME WordAssumption == WordBits >= 15     (* an immediate fits in a word *)

Word      == 0 .. TwoTo[WordBits] - 1
Wrap(n)   == n % TwoTo[WordBits]
Signed(w) == SignExtend(w, WordBits)
Ones(w)   == OneBits(w, WordBits)
AllOnes   == TwoTo[WordBits] - 1
Truth(b)  == IF b THEN 1 ELSE 0

Abs(n) == IF n < 0 THEN -n ELSE n

(* C++ division rounds towards zero.                                           *)
Quotient(a, b) == LET q == Abs(a) \div Abs(b) IN IF a < 0 <=> b < 0 THEN q ELSE -q

(* The least value by -1: the quotient does not exist and the code does not    *)
(* exclude it.                                                                 *)
Undefined(di, a, b) == di.op \in {"DIV", "REM"} /\ Signed(a) = -TwoTo[WordBits - 1] /\ b = AllOnes

(* The bits that an arithmetic right shift brings in.                          *)
SignFill(a, by) == IF Signed(a) < 0 THEN WordBits - by .. WordBits - 1 ELSE {}

ShiftBy(b) == b % WordBits

Shift(di, a, by) ==
  CASE di.op = "SHL" -> ValueOf({i + by : i \in Ones(a)}, WordBits)
    [] di.op = "SHR" -> ValueOf({i - by : i \in Ones(a)}, WordBits)
    [] di.op = "SAR" -> ValueOf({i - by : i \in Ones(a)} \cup SignFill(a, by), WordBits)

Divide(di, a, b) ==
  CASE di.op = "DIV"  -> IF b = 0 THEN AllOnes ELSE Wrap(Quotient(Signed(a), Signed(b)))
    [] di.op = "DIVU" -> IF b = 0 THEN AllOnes ELSE a \div b
    [] di.op = "REM"  -> IF b = 0 THEN a
                         ELSE Wrap(Signed(a) - Signed(b) * Quotient(Signed(a), Signed(b)))

ShiftOps  == {"SHL", "SHR", "SAR"}
DivideOps == {"DIV", "DIVU", "REM"}
PlainOps  == {"MOV", "RETAIN", "RELEASE", "MOVZ", "LUI", "ADDI", "LDA", "ADD", "SUB", "MUL",
              "AND", "OR", "XOR", "NOT", "CMPEQ", "CMPNE", "CMPLT", "CMPLE"}
ValueOps  == ShiftOps \cup DivideOps \cup PlainOps

(* The product is the same modulo 2^WordBits for signed operands.              *)
Plain(di, a, b) ==
  CASE di.op \in {"MOV", "RETAIN"} -> a
    [] di.op = "RELEASE" -> 0
    [] di.op = "MOVZ"  -> ValueOf(Ones(a) \cup OneBits(di.imm, 15), WordBits)
    [] di.op = "LUI"   -> ValueOf(Ones(a) \cup {i + WordBits - 15 : i \in OneBits(di.imm, 15)},
                                  WordBits)
    [] di.op \in {"ADDI", "LDA"} -> Wrap(a + di.imm)
    [] di.op = "ADD"   -> Wrap(a + b)
    [] di.op = "SUB"   -> Wrap(a - b)
    [] di.op = "MUL"   -> Wrap(Signed(a) * Signed(b))
    [] di.op = "AND"   -> ValueOf(Ones(a) \cap Ones(b), WordBits)
    [] di.op = "OR"    -> ValueOf(Ones(a) \cup Ones(b), WordBits)
    [] di.op = "XOR"   -> ValueOf((Ones(a) \ Ones(b)) \cup (Ones(b) \ Ones(a)), WordBits)
    [] di.op = "NOT"   -> ValueOf((0 .. WordBits - 1) \ Ones(a), WordBits)
    [] di.op = "CMPEQ" -> Truth(a = b)
    [] di.op = "CMPNE" -> Truth(a # b)
    [] di.op = "CMPLT" -> Truth(Signed(a) < Signed(b))
    [] di.op = "CMPLE" -> Truth(Signed(a) <= Signed(b))

(* What is written to rd, of the values of rs1 and rs2.                        *)
Result(di, a, b) ==
  CASE di.op \in ShiftOps  -> Shift(di, a, ShiftBy(b))
    [] di.op \in DivideOps -> Divide(di, a, b)
    [] di.op \in PlainOps  -> Plain(di, a, b)

-------------------------------------------------------------------------------
(* Loads and stores: how many bytes, and how a load fills the register.        *)
LoadOps  == {"LD.B", "LD.BU", "LD.H", "LD.HU", "LD.W", "LD.WU", "LD.D"}
StoreOps == {"ST.B", "ST.H", "ST.W", "ST.D"}

Width(op) == CASE op \in {"LD.B", "LD.BU", "ST.B"} -> 1
               [] op \in {"LD.H", "LD.HU", "ST.H"} -> 2
               [] op \in {"LD.W", "LD.WU", "ST.W"} -> 4
               [] op \in {"LD.D", "ST.D"} -> 8

EffectiveAddress(di, base) == Wrap(base + di.imm)

Loaded_ZeroExtended(op, data, addr) == Read(data, addr, Width(op))

Loaded(op, data, addr) ==
  LET v == Read(data, addr, Width(op))
  IN  IF op \in {"LD.B", "LD.H", "LD.W"} THEN Wrap(SignExtend(v, ByteBits * Width(op))) ELSE v

Stored(op, data, addr, value) == Write(data, addr, Width(op), value)
===============================================================================
