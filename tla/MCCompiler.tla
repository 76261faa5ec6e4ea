------------------------------- MODULE MCCompiler ------------------------------
(* Sources that are the spelling of a tree: functions with every statement of *)
(* depth two, and every operator beside every other; and short texts of any   *)
(* symbols, for the lexer.                                                    *)
EXTENDS Compiler

Int_            == CType("INT", 0, 0)
Const(v)        == [kind |-> "CONSTANT", value |-> v]
Var(x)          == [kind |-> "VARIABLE", name |-> <<x>>]
Bin(op, e1, e2) == BinaryOp(op, e1, e2)
Call(f, args)   == [kind |-> "CALL", name |-> <<f>>, list |-> args]
Asm(code)       == [kind |-> "ASM_STMT", code |-> <<code>>]
Decl(e)         == VariableDecl(<<"v">>, Int_, e)
Return(e)       == [kind |-> "RETURN_STMT", expr |-> e]
Block(list)     == [kind |-> "BLOCK", list |-> list]
If(c, s, t)     == [kind |-> "IF_STMT", cond |-> c, then_body |-> s, else_body |-> t]
While(c, s)     == [kind |-> "WHILE_STMT", cond |-> c, body |-> s]
Do_(c, s)       == [kind |-> "DO_WHILE_STMT", cond |-> c, body |-> s]
For(i, c, n, s) == [kind |-> "FOR_STMT", init |-> i, cond |-> c, inc |-> n, body |-> s]
Just(k)         == [kind |-> k]
Cast(e)         == [kind |-> "CAST", target_type |-> CType("CHAR", 0, 0), expr |-> e]
Index(e1, e2)   == [kind |-> "ARRAY_INDEX", left |-> e1, right |-> e2]
Member(e)       == [kind |-> "MEMBER_ACCESS", obj |-> e, member |-> <<"m">>]
Assign(e1, e2)  == [kind |-> "ASSIGN", target |-> e1, value |-> e2]
Str             == [kind |-> "STRING_LIT", value |-> <<"a", "/", "*">>]

F == Call("f", <<>>)
G == Call("g", <<Bin("STAR", Var("x"), Const(2)), Var("y")>>)

Function(params, body) ==
  [kind |-> "FUNCTION_DEF", name |-> <<"main">>, type |-> Int_, params |-> params, body |-> body]
Program(list) == [kind |-> "PROGRAM", list |-> list]

-------------------------------------------------------------------------------
(* Statements, over expressions the generator has code for.                   *)

Conds  == {F, Var("y")} \cup {Bin(op, F, Const(1)) : op \in {"LT", "GE", "EQEQ"}}
          \cup {Bin(op, Bin("MINUS", F, Var("x")), Const(0)) : op \in {"LE", "GT", "NEQ"}}
Simple == {Asm("a"), Just("EMPTY_STMT"), Return(Bin("MINUS", Bin("PLUS", F, Var("x")), Const(2)))}

Over(conds, S) ==
  {If(c, s, t) : c \in conds, s \in S, t \in S \cup {Null}}
  \cup {While(c, s) : c \in conds, s \in S} \cup {Do_(c, s) : c \in conds, s \in S}
  \cup {For(i, c, n, s) : i \in {Null, G}, c \in conds \cup {Null}, n \in {Null, F}, s \in S}

Deep == Over({Bin("LT", F, Const(1))}, {Asm("a")})
          \cup {Block(<<Asm("a"), Return(Null)>>), Block(<<Decl(G), Asm("b")>>)}

(* An else is that of the nearest if.                                         *)
Spellable(s) == ~(s.kind = "IF_STMT" /\ s.else_body # Null /\ s.then_body.kind = "IF_STMT"
                  /\ s.then_body.else_body = Null)

Statements == Over(Conds, Simple) \cup {s \in Over({F, Bin("GE", F, Const(1))}, Deep) : Spellable(s)}

(* Expressions: every operator beside every other, either way round.          *)
Leaves == <<Var("x"), Var("y"), Const(2)>>
Ops    == {"OROR", "ANDAND", "PIPE", "CARET", "AMPER", "EQEQ", "NEQ", "LT", "GE", "LSHIFT",
           "RSHIFT", "PLUS", "MINUS", "STAR", "PERCENT"}
Pairs  == {Bin(p, Bin(q, Leaves[1], Leaves[2]), Leaves[3]) : p, q \in Ops}
          \cup {Bin(p, Leaves[1], Bin(q, Leaves[2], Leaves[3])) : p, q \in Ops}

Unaries(S) ==
  {UnaryOp(op, e, TRUE) : op \in {"MINUS", "EXCLAM", "TILDE"}, e \in S}
  \cup {Operand(k, e) : k \in {"DEREF", "ADDRESS_OF", "SIZEOF_EXPR"}, e \in S}
  \cup UNION {{Index(e, Var("y")), Index(Var("x"), e), Member(e), Cast(e), Bin("STAR", e, Var("y")),
               Bin("PLUS", Var("y"), e), Assign(Var("x"), e), Call("g", <<e, Str>>)} : e \in S}
Mixed == {UnaryOp("PLUSPLUS", Var("x"), TRUE), Assign(Index(Var("x"), Const(1)), Var("y"))}
         \cup {e \in Unaries(Unaries({Var("x")}) \cup {F, Str, Bin("PLUS", Var("x"), Var("y"))}) :
                 e.kind = "ASSIGN" => e.value.kind # "ASSIGN" \/ e.value.target = Var("x")}

Other == {Return(e) : e \in Pairs \cup Mixed} \cup {Null}
         \cup {[kind |-> "EXPR_STMT", expr |-> e] : e \in {F, Assign(Var("x"), F)}}
         \cup Over({Bin("ANDAND", F, Str)}, {Just("BREAK_STMT"), Just("CONTINUE_STMT"), Return(Str)})

Declarations ==
  {Program(<<VariableDecl(<<"v">>, CType(base, pointers, array), init)>>) :
     base \in {"INT", "CHAR", "LONG", "UINT", "UCHAR", "ULONG"}, pointers \in 0 .. 2,
     array \in {0, 3}, init \in {Null, Const(1)}}
  \cup {Program(<<VariableDecl(<<"v">>, Int_, Const(1)),
                  Function(<<VariableDecl(<<"x">>, Int_, Null),
                             VariableDecl(<<"y">>, CType("CHAR", 1, 0), Null)>>, s),
                  [Function(<<>>, Block(<<Return(F)>>)) EXCEPT !.name = <<"n">>]>>) :
          s \in {Null, Block(<<>>), Block(<<While(F, Return(Str))>>)}}

Wrap(s) == Program(<<Function(<<>>, IF s = Null THEN Null ELSE Block(<<s>>))>>)

MCTrees == UNION {{Wrap(s) : s \in Statements \cup Other}, Declarations}

(* All the nodes: no tree is deeper than ten.                                 *)
MCPrograms == MCTrees \cup {Program(<<>>)}
Below(S)   == UNION {Parts(m) : m \in S}
Below1 == Below(MCPrograms)
Below2 == Below(Below1)
Below3 == Below(Below2)
Below4 == Below(Below3)
Below5 == Below(Below4)
Below6 == Below(Below5)
Below7 == Below(Below6)
Below8 == Below(Below7)
Below9 == Below(Below8)
MCInner == Below1 \cup Below2 \cup Below3 \cup Below4 \cup Below5 \cup Below6 \cup Below7
           \cup Below8 \cup Below9 \cup Below(Below9)

-------------------------------------------------------------------------------
(* Short texts: of each of these sets of symbols, up to so many.              *)
UpTo(S, n) == UNION {[1 .. k -> S] : k \in 0 .. n}
MCTexts == UNION {
  UpTo({"<", "=", ">", "-"}, 4), UpTo({"+", "=", "&", "|", "/", "!"}, 3),
  UpTo({"\"", "\\", "'", "\n"}, 4), UpTo({"/", "*", "\n"}, 5),
  UpTo({"0", "x", "X", "a", "1"}, 3), UpTo({"0", "x", "1", " "}, 3),
  UpTo({"'", "\\", "0", "n"}, 4), UpTo({"asm", " ", "{", "}", "\n"}, 4),
  {<<k, "@", "/", "/", k, "\n", k>> : k \in {"if", "int", "main"}}}

MCLetters == {"if", "else", "while", "for", "do", "break", "continue", "return", "int", "char",
              "long", "unsigned", "sizeof", "asm", "main", "a", "b", "f", "g", "m", "n", "v",
              "x", "X", "y"}
MCDigit == "0" :> 0 @@ "1" :> 1 @@ "2" :> 2 @@ "3" :> 3 @@ "9" :> 9 @@ "a" :> 10 @@ "f" :> 15
MCHexDigits == DOMAIN MCDigit
MCNumerals(n) == IF \E d \in DOMAIN MCDigit : MCDigit[d] = n
                 THEN CHOOSE d \in DOMAIN MCDigit : MCDigit[d] = n ELSE "9"
MCCodeOf(s) == CASE s = "\n" -> 10 [] s = "'" -> 39 [] s = "\"" -> 34 [] s = "\\" -> 92
                 [] s = "0" -> 48 [] s = "nul" -> 0 [] OTHER -> 110

MCAnswers == {0, 1}
MCEnv     == <<"x">> :> 1 @@ <<"y">> :> 0 @@ <<"v">> :> 5
===============================================================================
