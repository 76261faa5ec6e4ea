------------------------------- MODULE Assembler -------------------------------
(***************************************************************************)
(* The assembler of hvmc (src/src/tools/hvmc/src/assembler.cpp): assemble, *)
(* two passes over the tokens of a source.                                 *)
(*                                                                         *)
(* A token is a record of its type, its text and a number (the value of a  *)
(* number, the length of a string); the lexer is not modelled.  One action *)
(* is one round of the token loop.                                         *)
(* Section contents are sequences of pieces, one for each instruction or   *)
(* datum: the token it comes from, its size, and an instruction's registers*)
(* and immediate.  The code stores the same as bytes.                      *)
(*                                                                         *)
(* An operator whose name has an underscore is the one it precedes with a  *)
(* plausible mistake in it; no action uses it.                             *)
(***************************************************************************)
EXTENDS Integers, Sequences, FiniteSets, SequencesExt

CONSTANTS
  Sources,     (* token sequences                                               *)
  Registers,   (* the names parse_reg knows                                     *)
  Mnemonics,   (* the names in the opcode table                                 *)
  Escape,      (* those encoded as escape32                                     *)
  Branches,    (* those of format B or J                                        *)
  Garbage      (* what an uninitialised integer may hold                        *)

SectionNames == {"text", "rodata", "data"}

ASSUME MnemonicsAssumption == Escape \subseteq Mnemonics /\ Branches \subseteq Mnemonics
ASSUME GarbageAssumption   == Garbage \subseteq Nat /\ Garbage # {}
ASSUME SourcesAssumption   ==
  /\ Sources \subseteq Seq([type : STRING, text : STRING, n : Nat])
  /\ \A s \in Sources : \A i \in 3 .. Len(s) :
       s[i - 2].type = "DOT" /\ s[i - 1].text = "align" /\ s[i].type = "NUMBER" => s[i].n > 0

VARIABLES
  source,         (* chosen at the start, never changed                          *)
  pass,           (* current_pass: 0, 1, and 2 when assemble has returned        *)
  pos,            (* the token the loop is at                                    *)
  current_sec,
  current_data,
  sections,       (* what has been committed to each section                     *)
  labels,         (* from label names to offsets                                 *)
  global_symbols

asm_vars == <<source, pass, pos, current_sec, current_data, sections, labels, global_symbols>>

AsmInit ==
  /\ source \in Sources
  /\ pass = 0 /\ pos = 1
  /\ current_sec = "text" /\ current_data = <<>>
  /\ sections = [s \in SectionNames |-> <<>>]
  /\ labels = <<>>
  /\ global_symbols = <<>>

-------------------------------------------------------------------------------
(* The lexer returns END for ever at the end of the source.                  *)
Token(i) == IF i <= Len(source) THEN source[i] ELSE [type |-> "END", text |-> "", n |-> 0]

(* The first NEWLINE or END from token i on, and the token after it: where    *)
(* the loop goes on when it skips the rest of a line.                         *)
EndOfLine(i) == CHOOSE j \in i .. Len(source) + i :
                  /\ Token(j).type \in {"NEWLINE", "END"}
                  /\ \A k \in i .. j - 1 : Token(k).type \notin {"NEWLINE", "END"}
NextLine(i) == EndOfLine(i) + 1

Size(data) ==
  LET upTo[n \in 0 .. Len(data)] == IF n = 0 THEN 0 ELSE upTo[n - 1] + data[n].size
  IN upTo[Len(data)]

Piece(size, regs, imm) == [at |-> pos, size |-> size, regs |-> regs, imm |-> imm]
Datum(size)            == Piece(size, <<>>, 0)

Running == pass < 2 /\ Token(pos).type # "END"

(* The loop is at a directive, an identifier that is not a label, a label.    *)
Directive(names) == Running /\ Token(pos).type = "DOT"
                    /\ Token(pos + 1).type = "IDENT" /\ Token(pos + 1).text \in names
Identifier       == Running /\ Token(pos).type = "IDENT" /\ Token(pos + 1).type # "COLON"
AtLabel          == Running /\ Token(pos).type = "IDENT" /\ Token(pos + 1).type = "COLON"

DataSize == [byte |-> 1, word |-> 2, short |-> 2, quad |-> 8, dword |-> 8]
StringNames  == {"ascii", "asciz", "string"}
SectionDirectives == SectionNames \cup {"section"}
KnownDirectives ==
  SectionDirectives \cup DOMAIN DataSize \cup StringNames \cup {"global", "globl", "align"}

Commit == sections' = IF pass = 1 THEN [sections EXCEPT ![current_sec] = current_data]
                      ELSE sections

-------------------------------------------------------------------------------
(* The token that names the section: the directive itself, or the token after *)
(* .section, with or without a dot of its own.                                *)
NamePos == CASE Token(pos + 1).text # "section" -> pos + 1
             [] Token(pos + 1).text = "section" /\ Token(pos + 2).type = "DOT" -> pos + 3
             [] OTHER -> pos + 2

(* A switch replaces what the section it leaves held before by the data       *)
(* gathered since it was entered, and starts the next one empty; a name it    *)
(* does not know leaves it where it is.                                       *)
Switch_ClearsFirst ==
  /\ Directive(SectionDirectives)
  /\ IF Token(NamePos).text \in SectionNames
     THEN /\ current_sec' = Token(NamePos).text /\ current_data' = <<>>
          /\ sections' = IF pass = 1 THEN [sections EXCEPT ![current_sec] = <<>>] ELSE sections
     ELSE UNCHANGED <<current_sec, current_data>> /\ Commit
  /\ pos' = NextLine(NamePos + 1)
  /\ UNCHANGED <<source, pass, labels, global_symbols>>

Switch ==
  /\ Directive(SectionDirectives)
  /\ IF Token(NamePos).text \in SectionNames
     THEN current_sec' = Token(NamePos).text /\ current_data' = <<>>
     ELSE UNCHANGED <<current_sec, current_data>>
  /\ pos' = NextLine(NamePos + 1)
  /\ Commit
  /\ UNCHANGED <<source, pass, labels, global_symbols>>

(* The symbol is put in section 1, .text, whatever the label's section; the   *)
(* value of one without a label is never set.                                 *)
Global ==
  /\ Directive({"global", "globl"})
  /\ LET name == Token(pos + 2).text
     IN IF pass = 0 THEN UNCHANGED global_symbols
        ELSE \E v \in IF name \in DOMAIN labels THEN {labels[name]} ELSE Garbage :
               global_symbols' = Append(global_symbols, [name |-> name, value |-> v,
                                                         section_idx |-> 1])
  /\ pos' = NextLine(pos + 3)
  /\ UNCHANGED <<source, pass, current_sec, current_data, sections, labels>>

Number_PassOneOnly ==
  /\ Directive(DOMAIN DataSize)
  /\ current_data' = IF Token(pos + 2).type = "NUMBER" /\ pass = 1
                     THEN Append(current_data, Datum(DataSize[Token(pos + 1).text]))
                     ELSE current_data
  /\ pos' = NextLine(pos + 3)
  /\ UNCHANGED <<source, pass, current_sec, sections, labels, global_symbols>>

(* .byte, .word and .quad: the next token if it is a number; the first pass   *)
(* notes its size.                                                            *)
Number ==
  /\ Directive(DOMAIN DataSize)
  /\ current_data' = IF Token(pos + 2).type = "NUMBER"
                     THEN Append(current_data, Datum(DataSize[Token(pos + 1).text]))
                     ELSE current_data
  /\ pos' = NextLine(pos + 3)
  /\ UNCHANGED <<source, pass, current_sec, sections, labels, global_symbols>>

String ==
  /\ Directive(StringNames)
  /\ current_data' = IF Token(pos + 2).type = "STRING"
                     THEN Append(current_data, Datum(Token(pos + 2).n
                            + IF Token(pos + 1).text = "ascii" THEN 0 ELSE 1))
                     ELSE current_data
  /\ pos' = NextLine(pos + 3)
  /\ UNCHANGED <<source, pass, current_sec, sections, labels, global_symbols>>

(* Zeros up to a multiple of the number; .align 0 divides by zero and is not  *)
(* among the sources.                                                         *)
Align ==
  /\ Directive({"align"})
  /\ LET n   == Token(pos + 2).n
         mis == Size(current_data) % n
     IN current_data' = IF Token(pos + 2).type = "NUMBER" /\ mis # 0
                        THEN Append(current_data, Datum(n - mis)) ELSE current_data
  /\ pos' = NextLine(pos + 3)
  /\ UNCHANGED <<source, pass, current_sec, sections, labels, global_symbols>>

(* A label is an offset in the data gathered since the last switch.           *)
Label ==
  /\ AtLabel
  /\ labels' = IF pass = 0 THEN [l \in DOMAIN labels \cup {Token(pos).text} |->
                                   IF l = Token(pos).text THEN Size(current_data) ELSE labels[l]]
               ELSE labels
  /\ pos' = pos + 2
  /\ UNCHANGED <<source, pass, current_sec, current_data, sections, global_symbols>>

(* What a sign and the token after it make of the immediate so far.           *)
Signed(sign, t, imm) ==
  CASE t.type = "NUMBER" -> IF sign = "MINUS" THEN -t.n ELSE t.n
    [] t.type = "IDENT" /\ sign = "MINUS" /\ t.text \in DOMAIN labels -> -labels[t.text]
    [] OTHER -> imm

(* The operands of an instruction in these tokens: at most three registers,   *)
(* and the last number or label, whose offset is from the instruction when it *)
(* is a branch.  A label that is not known counts for nothing.                *)
Operands(line, branch) ==
  FoldLeft(LAMBDA o, t :
             IF o.sign # "" THEN [o EXCEPT !.imm = Signed(o.sign, t, @), !.sign = ""]
             ELSE IF t.type \in {"MINUS", "PLUS"} THEN [o EXCEPT !.sign = t.type]
             ELSE IF t.type = "NUMBER" THEN [o EXCEPT !.imm = t.n]
             ELSE IF t.type # "IDENT" THEN o
             ELSE IF t.text \in Registers /\ Len(o.regs) < 3
                  THEN [o EXCEPT !.regs = Append(@, t.text)]
             ELSE IF t.text \notin DOMAIN labels THEN o
             ELSE [o EXCEPT !.imm = labels[t.text]
                                      - IF pass = 1 /\ branch THEN Size(current_data) ELSE 0],
           [regs |-> <<>>, imm |-> 0, sign |-> ""], line)

(* A sign takes the token after it, whatever that is, and a sign that is      *)
(* taken takes none: of a row of signs from token i up to k, every other.     *)
Taken(i, k) ==
  Cardinality({s \in i .. k - 1 : \A r \in s .. k - 1 : Token(r).type \in {"MINUS", "PLUS"}}) % 2 = 1

(* The operands from token i on end with the line, or with a later one when a *)
(* sign takes its NEWLINE.                                                    *)
EndsAt(i, j) == Token(j).type \in {"NEWLINE", "END"} /\ ~Taken(i, j)
EndOfOperands(i) == CHOOSE j \in i .. Len(source) + i :
                      EndsAt(i, j) /\ \A k \in i .. j - 1 : ~EndsAt(i, k)

(* The token after the mnemonic has been read to see whether it is a colon,   *)
(* and is not read again: the operands are those of the tokens after it.      *)
Instruction ==
  /\ Identifier /\ Token(pos).text \in Mnemonics
  /\ LET end  == EndOfOperands(pos + 2)
         line == [n \in 1 .. end - (pos + 2) |-> Token(pos + 1 + n)]
         ops  == Operands(line, Token(pos).text \in Branches)
     IN /\ current_data' = Append(current_data,
             Piece(IF Token(pos).text \in Escape THEN 8 ELSE 4, ops.regs, ops.imm))
        /\ pos' = end + 1
  /\ UNCHANGED <<source, pass, current_sec, sections, labels, global_symbols>>

(* What the loop does not know it skips to the end of the line, and a token   *)
(* that starts no statement it skips alone.                                   *)
SkipLine ==
  /\ \/ Running /\ Token(pos).type = "DOT" /\ Token(pos + 1).type = "IDENT"
                /\ Token(pos + 1).text \notin KnownDirectives
     \/ Identifier /\ Token(pos).text \notin Mnemonics
  /\ pos' = NextLine(pos + 2)
  /\ UNCHANGED <<source, pass, current_sec, current_data, sections, labels, global_symbols>>

SkipToken ==
  /\ Running
  /\ \/ Token(pos).type \notin {"DOT", "IDENT"} /\ pos' = pos + 1
     \/ Token(pos).type = "DOT" /\ Token(pos + 1).type # "IDENT" /\ pos' = pos + 2
  /\ UNCHANGED <<source, pass, current_sec, current_data, sections, labels, global_symbols>>

(* The second pass starts with no data, in the section the first one ended in.*)
EndOfPass ==
  /\ pass < 2 /\ Token(pos).type = "END"
  /\ pass' = pass + 1
  /\ Commit
  /\ IF pass = 0 THEN pos' = 1 /\ current_data' = <<>>
     ELSE UNCHANGED <<pos, current_data>>
  /\ UNCHANGED <<source, current_sec, labels, global_symbols>>

Step == \/ Switch \/ Global \/ Number \/ String \/ Align \/ Label \/ Instruction
        \/ SkipLine \/ SkipToken \/ EndOfPass

(* The call of assemble has returned.                                         *)
Returned == pass = 2 /\ UNCHANGED asm_vars

Assemble == AsmInit /\ [][Step \/ Returned]_asm_vars

===============================================================================
