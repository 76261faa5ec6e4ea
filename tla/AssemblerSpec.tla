------------------------------ MODULE AssemblerSpec ------------------------------
(***************************************************************************)
(* What a two-pass assembler promises.  The history variables follow the   *)
(* passes: seen has, for each token the first pass started a round at, the *)
(* section and the offset it was in; entered the switches of the first     *)
(* pass; emitted what the second pass assembled in each section.           *)
(***************************************************************************)
EXTENDS Assembler

VARIABLES seen, entered, emitted

avars == <<asm_vars, seen, entered, emitted>>

AInit == /\ AsmInit
         /\ seen = <<>> /\ entered = <<>> /\ emitted = [sec \in SectionNames |-> <<>>]

Here == [sec |-> current_sec, offset |-> Size(current_data)]

Follow ==
  /\ seen' = IF pass = 0 THEN [p \in DOMAIN seen \cup {pos} |-> IF p = pos THEN Here ELSE seen[p]]
             ELSE seen
  /\ entered' = IF pass = 0 /\ Directive(SectionDirectives)
                THEN Append(entered, [at |-> pos, name |-> Token(NamePos).text]) ELSE entered
  /\ emitted' = IF pass = 1 /\ Len(current_data') > Len(current_data)
                THEN [emitted EXCEPT ![current_sec] = Append(@, Last(current_data'))]
                ELSE emitted

ASpec == AInit /\ [][(Step /\ Follow) \/ (Returned /\ UNCHANGED <<seen, entered, emitted>>)]_avars

-------------------------------------------------------------------------------
(* The second pass starts its rounds at the tokens the first one did, at the  *)
(* same offsets: a label's offset is still true when an instruction uses it,  *)
(* through directives without operands, unknown lines and alignment.          *)
PassesAlign == pass = 1 => pos \in DOMAIN seen /\ seen[pos].offset = Size(current_data)

(* A source that opens with a section and enters none twice.                  *)
Plain == /\ entered # <<>> /\ entered[1].at = 1
         /\ \A i \in 1 .. Len(entered) : entered[i].name \in SectionNames
         /\ \A i, j \in 1 .. Len(entered) : i # j => entered[i].name # entered[j].name

(* Such a source loses nothing: at the end each section holds what was        *)
(* assembled while the source was in it, and the first pass was in it too.    *)
PlainIsComplete ==
  pass = 2 /\ Plain =>
    \A sec \in SectionNames :
      /\ sections[sec] = emitted[sec]
      /\ \A i \in 1 .. Len(emitted[sec]) : seen[emitted[sec][i].at].sec = sec

(* assembler.h: "instruction [operands]".  The registers of an instruction    *)
(* are those its line names.                                                  *)
RegistersOn(line) ==
  LET regs == SelectSeq(line, LAMBDA t : t.type = "IDENT" /\ t.text \in Registers)
  IN [i \in 1 .. Len(regs) |-> regs[i].text]
OperandsKept ==
  [][Instruction => Last(current_data').regs
                      = RegistersOn(SubSeq(source, pos + 1, EndOfLine(pos) - 1))]_avars

===============================================================================
