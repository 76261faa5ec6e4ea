------------------------------ MODULE MCAssembler ------------------------------
(* Every source of Lines lines over these.                                    *)
EXTENDS AssemblerSpec

CONSTANT Lines

T(type, text, n) == [type |-> type, text |-> text, n |-> n]
Id(text) == T("IDENT", text, 0)
Dot      == T("DOT", ".", 0)
Comma    == T("COMMA", ",", 0)
One      == T("NUMBER", "1", 1)
Minus    == T("MINUS", "-", 0)
Newline  == T("NEWLINE", "", 0)

Alphabet ==
  {<<Dot, Id("section"), Dot, Id("text")>>, <<Dot, Id("data")>>, <<Dot, Id("section"), Id("bss")>>,
   <<Dot, Id("global"), Id("f")>>, <<Id("f"), T("COLON", ":", 0)>>,
   <<Id("mov"), Id("a0"), Comma, Id("a1")>>, <<Id("leave")>>,
   <<Id("beq"), Id("a0"), Comma, Id("a1"), Comma, Id("f")>>,
   <<Id("mov"), Minus, Id("a0"), Minus, Id("f")>>, <<Dot, Id("byte"), Minus, One>>,
   <<Dot, Id("byte"), One>>, <<Dot, Id("word")>>,
   <<Dot, Id("align"), T("NUMBER", "8", 8)>>, <<Dot, Id("asciz"), T("STRING", "x", 1)>>,
   <<Dot, Id("type"), Id("f")>>, <<Dot, One>>, <<Id("b"), Id("f")>>,
   <<Id("mov"), Id("a0"), Minus>>}

MCSources == {FoldLeft(LAMBDA s, l : s \o l \o <<Newline>>, <<>>, t) : t \in [1 .. Lines -> Alphabet]}
MCRegisters == {"a0", "a1"}
MCMnemonics == {"mov", "leave", "beq"}
MCEscape    == {"leave"}
MCBranches  == {"beq"}
MCGarbage   == {0, 7}
===============================================================================
