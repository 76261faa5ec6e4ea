-------------------------------- MODULE Compiler -------------------------------
(***************************************************************************)
(* hvmc -S (src/src/tools/hvmc/src/main.cpp): a C source through the lexer *)
(* and the parser to the code generator, and then the text it has made at  *)
(* work: CodeMeaning runs it beside the C program that was meant.          *)
(*                                                                         *)
(* The parser asks the lexer for one token at a time.  Nothing that the    *)
(* lexer does depends on the parser, and an exception of either ends the   *)
(* compilation, so here the lexer comes first.                             *)
(***************************************************************************)
EXTENDS Parser, Lexer, CodeMeaning, CSyntax

CONSTANTS
  Trees,      (* what may be meant                                              *)
  Texts       (* sources that mean nothing in particular                        *)

VARIABLES
  meant,      (* what the one who wrote the source meant, or Null               *)
  phase       (* lex, gen, or failed: the compiler printed an error             *)

cvars == <<lvars, vars, mvars, meant, phase>>

CInit ==
  /\ \/ meant \in Trees /\ source = Spell(meant)
     \/ meant = Null /\ source \in Texts
  /\ LexInit
  /\ phase = "lex"
  /\ program = Null /\ work = <<>> /\ out = <<>> /\ label_counter = 0
  /\ pc = 0 /\ reg = [i \in 0 .. 2 |-> 0] /\ cont = <<>>

ReadToken ==
  /\ phase = "lex" /\ Lex
  /\ UNCHANGED <<vars, mvars, meant, phase>>

(* parser.parse() returns, and cg.gen is called on the tree, or it throws.    *)
ParseSource ==
  /\ phase = "lex" /\ Ended
  /\ LET parsed == IF tokens[Len(tokens)].kind = "END" THEN Parse ELSE Thrown
     IN IF parsed.next # 0
        THEN phase' = "gen" /\ program' = parsed.node /\ work' = <<Gen(parsed.node)>>
        ELSE phase' = "failed" /\ UNCHANGED <<program, work>>
  /\ UNCHANGED <<lvars, out, label_counter, mvars, meant>>

Generate == Next /\ UNCHANGED <<lvars, mvars, meant, phase>>

Compile == ReadToken \/ ParseSource \/ Generate

(* The text at work.                                                          *)
Machine == MachineStep /\ UNCHANGED <<lvars, meant, phase>>
World   == ((meant # Null /\ Start(meant)) \/ SourceStep \/ Answer)
           /\ UNCHANGED <<lvars, meant, phase>>

(* Nothing more is compared once they have disagreed.                         *)
Done == \/ phase = "failed"
        \/ Generated /\ (pc > Len(out) \/ (pc = 0 /\ (meant = Null \/ ~Plain(meant))))
        \/ Generated /\ SourceWaits /\ MachineWaits /\ ~Agree

CNext == Compile \/ Machine \/ World \/ (Done /\ UNCHANGED cvars)

(* A machine goes on until it waits.                                          *)
CSpec == CInit /\ [][CNext]_cvars /\ WF_cvars(Machine)

-------------------------------------------------------------------------------
(* The parser makes of a text the tree it spells: the operators bind as they  *)
(* do in C, and so do else and the postfixes.  What it does not understand,   *)
(* parentheses around a part of an expression unless a prefix operator is     *)
(* directly before them, it refuses and never misreads.                       *)
ParsesAsMeant ==
  meant # Null => /\ phase = "gen" => program = meant
                  /\ phase = "failed" => Parenthesised(meant)
===============================================================================
