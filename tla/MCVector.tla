-------------------------------- MODULE MCVector --------------------------------
(* Three lanes, three vector registers, four doublewords of which any may be  *)
(* missing at the start.  v0 and v1 hold offsets that a gather can use.       *)
EXTENDS VectorSpec

I(op, form, rd, rs1, rs2) ==
  [op |-> op, form |-> form, rd |-> rd, rs1 |-> rs1, rs2 |-> rs2]

(* General registers: 1 a vector length, 2 an address, 3 a stride, 4 a        *)
(* scalar.                                                                    *)
MCProgram ==
  {I("VSETVL", "VX", 1, 1, 0), I("VFIRST", "VX", 4, 0, 0),
   I("VLD_V", "VX", 1, 0, 2), I("VST_V", "VX", 1, 0, 2),
   I("VLDS_V", "VX", 2, 3, 2), I("VSTS_V", "VX", 1, 3, 0),
   I("VLDX_V", "VX", 1, 1, 0), I("VLDX_V", "VX", 2, 1, 0), I("VSTX_V", "VX", 2, 1, 0),
   I("VADD", "VV", 1, 1, 2), I("VSUB", "VX", 2, 1, 2), I("VMUL", "VV", 2, 1, 1),
   I("VDIV", "VV", 2, 1, 0), I("VCOMP", "VX", 0, 1, 4), I("VSLL", "VX", 2, 2, 4),
   I("VSRL", "VV", 2, 1, 0), I("VMERGE", "VV", 0, 1, 2),
   I("VREDADD", "VV", 2, 1, 2), I("VREDADD", "VV", 1, 1, 2),
   I("VREDMIN", "VV", 2, 1, 0), I("VREDMAX", "VV", 0, 1, 0)}

MCRegs  == 0 .. 4
MCCells == {0, 8, 16, 24}
MCBootVectors ==
  {[r \in 0 .. 2 |-> CASE r = 0 -> <<1, 0, 1>> [] r = 1 -> <<8, 16, 0>> [] r = 2 -> <<24, 8, 8>>]}
MCBootRegs ==
  {[r \in MCRegs |-> CASE r = 0 -> 0 [] r = 1 -> n [] r = 2 -> 8 [] r = 3 -> 16 [] r = 4 -> 8] :
     n \in {2, 7}}
MCBootMem  == {[c \in MCCells |-> 24 - c]}
MCVecRegs  == 0 .. 2
===============================================================================
