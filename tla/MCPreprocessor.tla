----------------------------- MODULE MCPreprocessor -----------------------------
(* A root file of RootLines lines over a small alphabet, and two files  *)
(* that it and each other may include.                                        *)
EXTENDS PreprocessorC

CONSTANTS RootLines

L(kind, name)   == [kind |-> kind, name |-> name, value |-> ""]
D(name, value)  == [kind |-> "define", name |-> name, value |-> value]

Alphabet ==
  {L("if", "1"), L("if", "M"), L("ifdef", "M"), L("elif", "1"),
   L("else", ""), L("endif", ""), L("text", "M"), L("include", "a"), D("M", "0"),
   D("M", "")}

MCSources == [1 .. RootLines -> Alphabet]

(* a has an include guard, includes itself or includes b; b includes a, the   *)
(* root or nothing there is, or takes a macro away, or stops with an error.   *)
H(a, b) == [f \in {"a", "b"} |-> IF f = "a" THEN a ELSE b]
Guarded == <<L("ifndef", "A"), D("A", "M"), L("text", "A"), L("endif", "")>>
MCHeaders ==
  {H(Guarded, <<>>), H(<<L("include", "a")>>, <<>>)} \cup
  {H(<<L("text", "t"), L("include", "b")>>, b) :
     b \in {<<L("include", "a")>>, <<L("include", "main")>>, <<L("include", "gone")>>,
            <<L("undef", "M"), L("pragma", ""), L("unknown", "#line")>>, <<L("error", "")>>}}

MCFiles == {"main", "a", "b"}
===============================================================================
