--------------------------------- MODULE Lexemes --------------------------------
(***************************************************************************)
(* What the lexemes of a C text are, as the language defines them, in the  *)
(* part of C that hvmc reads: no suffix of a number, no floating number,   *)
(* no "..." and no digraph.  A text is a sequence of symbols: characters,  *)
(* and words taken as one.                                                 *)
(***************************************************************************)
EXTENDS Integers, Sequences, FiniteSets

CONSTANTS
  Words,          (* the symbols that are words or letters                      *)
  HexDigits,      (* the symbols that are digits of a hexadecimal number        *)
  Numerals(_)     (* the symbol of a number below ten                           *)

(* Operators and punctuation.                                                 *)
Spelled ==
  [OROR |-> <<"|", "|">>, ANDAND |-> <<"&", "&">>, PIPE |-> <<"|">>, CARET |-> <<"^">>,
   AMPER |-> <<"&">>, EQEQ |-> <<"=", "=">>, NEQ |-> <<"!", "=">>, LT |-> <<"<">>,
   GT |-> <<">">>, LE |-> <<"<", "=">>, GE |-> <<">", "=">>, LSHIFT |-> <<"<", "<">>,
   RSHIFT |-> <<">", ">">>, PLUS |-> <<"+">>, MINUS |-> <<"-">>, STAR |-> <<"*">>,
   SLASH |-> <<"/">>, PERCENT |-> <<"%">>, EXCLAM |-> <<"!">>, TILDE |-> <<"~">>,
   PLUSPLUS |-> <<"+", "+">>, MINUSMINUS |-> <<"-", "-">>, EQ |-> <<"=">>,
   PLUS_EQ |-> <<"+", "=">>, MINUS_EQ |-> <<"-", "=">>, STAR_EQ |-> <<"*", "=">>,
   SLASH_EQ |-> <<"/", "=">>, PERCENT_EQ |-> <<"%", "=">>, AMPER_EQ |-> <<"&", "=">>,
   PIPE_EQ |-> <<"|", "=">>, CARET_EQ |-> <<"^", "=">>, LSHIFT_EQ |-> <<"<", "<", "=">>,
   RSHIFT_EQ |-> <<">", ">", "=">>, ARROW |-> <<"-", ">">>, DOT |-> <<".">>,
   COMMA |-> <<",">>, SEMICOLON |-> <<";">>, LPAREN |-> <<"(">>, RPAREN |-> <<")">>,
   LBRACKET |-> <<"[">>, RBRACKET |-> <<"]">>, LBRACE |-> <<"{">>, RBRACE |-> <<"}">>,
   QUESTION |-> <<"?">>, COLON |-> <<":">>]

-------------------------------------------------------------------------------
(* Lexemes: which parts of a text t, from p up to q, are a token or a comment.*)

Letter(t, p)    == IF p \in DOMAIN t THEN t[p] ELSE "end"
Part(t, p, q)   == [i \in 1 .. q - p |-> Letter(t, p + i - 1)]
All(t, p, q, S) == \A r \in p .. q - 1 : t[r] \in S
Decimal         == {Numerals(n) : n \in 0 .. 9}
Exes            == {"x", "X"}

(* The character at p is not escaped: an even number of backslashes, back to  *)
(* start, precede it.                                                         *)
Bare(t, start, p) ==
  Cardinality({r \in start .. p - 1 : All(t, r, p, {"\\"})}) % 2 = 0

Quoted(t, p, q) ==
  /\ q - p >= 2 /\ t[p] = "\"" /\ t[q - 1] = "\"" /\ Bare(t, p + 1, q - 1)
  /\ ~\E r \in p + 1 .. q - 2 : t[r] = "\"" /\ Bare(t, p + 1, r)

Character(t, p, q) ==
  /\ t[p] = "'" /\ t[q - 1] = "'"
  /\ \/ q - p = 3 /\ t[p + 1] \notin {"'", "\\", "\n"}
     \/ q - p = 4 /\ t[p + 1] = "\\" /\ t[p + 2] # "\n"

OperatorTexts == {Spelled[k] : k \in DOMAIN Spelled}

Lexeme(t, p, q) ==
  \/ q - p <= 3 /\ Part(t, p, q) \in OperatorTexts
  \/ t[p] \in Words /\ All(t, p, q, Words \cup Decimal)
  \/ All(t, p, q, Decimal)
  \/ q - p >= 2 /\ t[p] = "0" /\ t[p + 1] \in Exes /\ All(t, p + 2, q, HexDigits)
  \/ Quoted(t, p, q)
  \/ Character(t, p, q)

Comment(t, p, q) ==
  \/ /\ q - p >= 4 /\ Part(t, p, p + 2) = <<"/", "*">> /\ Part(t, q - 2, q) = <<"*", "/">>
     /\ ~\E r \in p + 2 .. q - 3 : Part(t, r, r + 2) = <<"*", "/">>
  \/ /\ q - p >= 2 /\ Part(t, p, p + 2) = <<"/", "/">> /\ ~\E r \in p .. q - 1 : t[r] = "\n"
     /\ Letter(t, q) \in {"\n", "end"}

(* Between tokens there are blanks, ends of lines and comments: from each of  *)
(* the stops but the last, one of them goes to a later stop.                  *)
Blank(t, r, s) == s = r + 1 /\ t[r] \in {" ", "\n"}
Space(t, p, q) ==
  \E stops \in SUBSET (p .. q) :
    /\ p \in stops /\ q \in stops
    /\ \A r \in stops \ {q} : \E s \in stops : s > r /\ (Comment(t, r, s) \/ Blank(t, r, s))
===============================================================================
