------------------------------ MODULE MCMachineCode ------------------------------
(***************************************************************************)
(* Words of 16 bits.  The programs: every instruction of the table with    *)
(* immediates around the ends of its fields, sequences of three of every   *)
(* shape, and stores followed by loads.                                    *)
(***************************************************************************)
EXTENDS MachineCode

MCRegs   == 0 .. 31
MCValues == {0, 3, 11, 32767, 32768, 65535, 21845}
Files(values) == {[r \in MCRegs |-> CASE r = 1 -> a [] r = 2 -> b [] OTHER -> 0] :
                    a \in values, b \in values}
MCImage == <<3, 1, 2, 0, 1, 2, 3, 3, 0, 2>>

I(mnemonic, rd, rs1, rs2, imm) ==
  [mnemonic |-> mnemonic, rd |-> rd, rs1 |-> rs1, rs2 |-> rs2, imm |-> imm]
FormatOf(mnemonic) == RowOf(mnemonic)[3]

Immediates(mnemonic) ==
  CASE FormatOf(mnemonic) = "R" -> {0}
    [] FormatOf(mnemonic) = "J" -> {0, 1, -1, -2, 254, 2^19 - 1, -(2^19), 2^19}
    [] mnemonic \in {"MOVZ", "LUI"} -> {0, 5, 254, 2^14 + 3, 2^15 - 1, 2^15}
    [] OTHER -> {0, 1, -1, -2, 254, 2^14 - 1, -(2^14), 2^14}
MCSingles == UNION {{<<I(m, rd, s[1], s[2], imm)>> :
                       rd \in {0, 1, 31}, s \in {<<1, 2>>, <<2, 1>>}, imm \in Immediates(m)} :
                     m \in Mnemonics}

Shapes == {I("NOP", 0, 0, 0, 0), I("SUB", 31, 2, 1, 0), I("ADDI", 1, 1, 0, -1), I("ADDI", 1, 2, 0, -2),
           I("LUI", 2, 2, 0, 300), I("BNE", 0, 1, 2, -3), I("BNE", 0, 1, 2, -2), I("JMP", 0, 0, 0, 510),
           I("JAL", 31, 0, 0, -(2^19)), I("LEAVE", 0, 0, 0, 0), I("ENTER", 0, 0, 0, 254),
           I("CALL", 31, 0, 0, -2), I("LOOP.DECBR", 0, 1, 2, -2), I("SC.D", 1, 2, 31, 0),
           I("LD.W", 1, 2, 0, 2^14)}
Streams == {<<a, b, c>> : a \in Shapes, b \in Shapes, c \in Shapes}

Copies == {<<I(st, 1, 2, 0, off), I(ld, 31, 2, 0, at)>> :
             st \in StoreOps, ld \in LoadOps, off \in {0, -1}, at \in {0, 1, -1}}
Chains == {<<I(x, 1, 1, 2, 3), I(y, 2, 1, 1, -7), I(z, 1, 2, 1, 9)>> :
             x \in {"LUI", "MOVZ", "MUL"}, y \in {"SAR", "SUB", "NOT"}, z \in {"REM", "ADDI", "SHL"}}

Starting(programs, values) == {[program |-> p, regs |-> r] : p \in programs, r \in Files(values)}
MCStarts == LET scalar == {p \in MCSingles : p[1].mnemonic \in ValueOps \cup LoadOps \cup StoreOps}
            IN Starting(scalar, MCValues) \cup Starting(MCSingles \ scalar, {0}) \cup Starting(Streams, {0})
                 \cup Starting(Copies, {1, 2, 21845}) \cup Starting(Chains, MCValues \ {11})
===============================================================================
