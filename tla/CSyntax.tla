-------------------------------- MODULE CSyntax --------------------------------
(***************************************************************************)
(* The C that hvmc reads, as the language defines it: how the trees of     *)
(* CodeGen are spelled.  Nothing here or in Lexemes is taken from the      *)
(* lexer or the parser: they are compared with it.                         *)
(***************************************************************************)
EXTENDS Lexemes, TLC

(* How tightly they bind: assignment, the binary operators, casts, prefix     *)
(* operators, and what needs no parentheses anywhere.                         *)
BinaryPrec ==
  [OROR |-> 2, ANDAND |-> 3, PIPE |-> 4, CARET |-> 5, AMPER |-> 6, EQEQ |-> 7, NEQ |-> 7,
   LT |-> 8, GT |-> 8, LE |-> 8, GE |-> 8, LSHIFT |-> 9, RSHIFT |-> 9, PLUS |-> 10,
   MINUS |-> 10, STAR |-> 11, SLASH |-> 11, PERCENT |-> 11]

CastPrec   == 12
PrefixPrec == 13
TightPrec  == 14

Prefix == {"UNARY_OP", "ADDRESS_OF", "DEREF", "SIZEOF_EXPR"}

Prec(e) == CASE e.kind = "ASSIGN"    -> 1
             [] e.kind = "BINARY_OP" -> BinaryPrec[e.op]
             [] e.kind = "CAST"      -> CastPrec
             [] e.kind \in Prefix    -> PrefixPrec
             [] OTHER                -> TightPrec

-------------------------------------------------------------------------------
(* A text is made of tokens, each followed by a blank.                        *)
Tok(symbols) == symbols \o <<" ">>
Punct(kind)  == Tok(Spelled[kind])
Key(word)    == Tok(<<word>>)
Join(s, separator) ==
  LET upto[n \in Nat] == IF n = 0 THEN <<>> ELSE IF n = 1 THEN s[1]
                         ELSE upto[n - 1] \o separator \o s[n]
  IN upto[Len(s)]

TypeWords ==
  [INT |-> Key("int"), CHAR |-> Key("char"), LONG |-> Key("long"), VOID |-> Key("void"),
   UINT |-> Key("unsigned") \o Key("int"), UCHAR |-> Key("unsigned") \o Key("char"),
   ULONG |-> Key("unsigned") \o Key("long")]

PrefixWords == [UNARY_OP |-> <<>>, ADDRESS_OF |-> Punct("AMPER"), DEREF |-> Punct("STAR"),
                SIZEOF_EXPR |-> Key("sizeof")]

RECURSIVE SpellExpr(_, _)

(* e where something that binds as prec does is wanted.                       *)
SpellExpr(e, prec) ==
  IF Prec(e) < prec THEN Punct("LPAREN") \o SpellExpr(e, 0) \o Punct("RPAREN")
  ELSE
  CASE e.kind = "CONSTANT"   -> Tok(<<Numerals(e.value)>>)
    [] e.kind = "VARIABLE"   -> Tok(e.name)
    [] e.kind = "STRING_LIT" -> Tok(<<"\"">> \o e.value \o <<"\"">>)
    [] e.kind = "ASSIGN"     -> SpellExpr(e.target, PrefixPrec) \o Punct("EQ") \o SpellExpr(e.value, 1)
    [] e.kind = "BINARY_OP"  -> SpellExpr(e.left, Prec(e)) \o Punct(e.op) \o SpellExpr(e.right, Prec(e) + 1)
    [] e.kind = "UNARY_OP"   ->
         Punct(e.op) \o SpellExpr(e.operand, IF e.op \in {"PLUSPLUS", "MINUSMINUS"} THEN PrefixPrec
                                             ELSE CastPrec)
    [] e.kind \in Prefix     ->
         PrefixWords[e.kind] \o SpellExpr(e.operand, IF e.kind = "SIZEOF_EXPR" THEN PrefixPrec
                                                     ELSE CastPrec)
    [] e.kind = "CAST"       -> Punct("LPAREN") \o TypeWords[e.target_type.base] \o Punct("RPAREN")
                                \o SpellExpr(e.expr, CastPrec)
    [] e.kind = "CALL"       ->
         Tok(e.name) \o Punct("LPAREN")
         \o Join([i \in DOMAIN e.list |-> SpellExpr(e.list[i], 1)], Punct("COMMA")) \o Punct("RPAREN")
    [] e.kind = "ARRAY_INDEX" -> SpellExpr(e.left, TightPrec) \o Punct("LBRACKET")
                                 \o SpellExpr(e.right, 0) \o Punct("RBRACKET")
    [] e.kind = "MEMBER_ACCESS" -> SpellExpr(e.obj, TightPrec) \o Punct("DOT") \o Tok(e.member)

Stars(type) == Join([i \in 1 .. type.pointers |-> Punct("STAR")], <<>>)
Bounds(type) == IF type.array = 0 THEN <<>>
                ELSE Punct("LBRACKET") \o Tok(<<Numerals(type.array)>>) \o Punct("RBRACKET")
Declared(d) == TypeWords[d.type.base] \o Stars(d.type) \o Tok(d.name) \o Bounds(d.type)

None(n)       == n.kind = "NULL"
Optional(e)   == IF None(e) THEN <<>> ELSE SpellExpr(e, 0)
InParens(e)   == Punct("LPAREN") \o SpellExpr(e, 0) \o Punct("RPAREN")
Semicolon     == Punct("SEMICOLON") \o <<"\n">>

RECURSIVE Spell(_)
Spell(n) ==
  CASE n.kind = "PROGRAM" -> Join([i \in DOMAIN n.list |-> Spell(n.list[i])], <<>>)
    [] n.kind = "BLOCK"   -> Punct("LBRACE") \o Join([i \in DOMAIN n.list |-> Spell(n.list[i])], <<>>)
                             \o Punct("RBRACE")
    [] n.kind = "FUNCTION_DEF" ->
         TypeWords[n.type.base] \o Tok(n.name) \o Punct("LPAREN")
         \o Join([i \in DOMAIN n.params |-> Declared(n.params[i])], Punct("COMMA"))
         \o Punct("RPAREN") \o (IF None(n.body) THEN Semicolon ELSE Spell(n.body))
    [] n.kind = "VARIABLE_DECL" ->
         Declared(n) \o (IF None(n.init) THEN <<>> ELSE Punct("EQ") \o SpellExpr(n.init, 1)) \o Semicolon
    [] n.kind = "IF_STMT" -> Key("if") \o InParens(n.cond) \o Spell(n.then_body)
                             \o (IF None(n.else_body) THEN <<>> ELSE Key("else") \o Spell(n.else_body))
    [] n.kind = "WHILE_STMT" -> Key("while") \o InParens(n.cond) \o Spell(n.body)
    [] n.kind = "DO_WHILE_STMT" -> Key("do") \o Spell(n.body) \o Key("while") \o InParens(n.cond)
                                   \o Semicolon
    [] n.kind = "FOR_STMT" -> Key("for") \o Punct("LPAREN") \o Optional(n.init) \o Punct("SEMICOLON")
                              \o Optional(n.cond) \o Punct("SEMICOLON") \o Optional(n.inc)
                              \o Punct("RPAREN") \o Spell(n.body)
    [] n.kind = "RETURN_STMT"   -> Key("return") \o Optional(n.expr) \o Semicolon
    [] n.kind = "EXPR_STMT"     -> SpellExpr(n.expr, 0) \o Semicolon
    [] n.kind = "BREAK_STMT"    -> Key("break") \o Semicolon
    [] n.kind = "CONTINUE_STMT" -> Key("continue") \o Semicolon
    [] n.kind = "ASM_STMT"      -> Key("asm") \o <<"{">> \o n.code \o <<"}">> \o Semicolon
    [] n.kind = "EMPTY_STMT"    -> Semicolon

-------------------------------------------------------------------------------
(* The parentheses in the spelling of e, one that an expression needs inside  *)
(* another, are not all directly after a prefix operator.  first: e itself is *)
(* directly after one.                                                        *)
RECURSIVE Groups(_, _)
Groups(e, first) ==
  LET tight(x) == (Prec(x) < TightPrec /\ ~first) \/ Groups(x, first)
  IN CASE e.kind = "BINARY_OP" -> \/ Prec(e.left) < Prec(e) \/ Prec(e.right) <= Prec(e)
                                  \/ Groups(e.left, FALSE) \/ Groups(e.right, FALSE)
       [] e.kind = "ASSIGN"    -> \/ Prec(e.target) < PrefixPrec
                                  \/ Groups(e.target, FALSE) \/ Groups(e.value, FALSE)
       [] e.kind \in Prefix    -> e.operand.kind = "CAST" \/ Groups(e.operand, TRUE)
       [] e.kind = "CAST"      -> Prec(e.expr) < CastPrec \/ Groups(e.expr, FALSE)
       [] e.kind = "CALL"      -> \E i \in DOMAIN e.list : Groups(e.list[i], FALSE)
       [] e.kind = "ARRAY_INDEX"   -> tight(e.left) \/ Groups(e.right, FALSE)
       [] e.kind = "MEMBER_ACCESS" -> tight(e.obj)
       [] OTHER -> FALSE

Exprs(n) ==
  CASE n.kind \in {"IF_STMT", "WHILE_STMT", "DO_WHILE_STMT"} -> {n.cond}
    [] n.kind = "FOR_STMT"                  -> {n.init, n.cond, n.inc}
    [] n.kind = "VARIABLE_DECL"             -> {n.init}
    [] n.kind \in {"RETURN_STMT", "EXPR_STMT"} -> {n.expr}
    [] OTHER                                -> {}

RECURSIVE Parenthesised(_)
Parenthesised(n) ==
  LET within == CASE n.kind \in {"PROGRAM", "BLOCK"} -> {n.list[i] : i \in DOMAIN n.list}
                  [] n.kind = "IF_STMT"              -> {n.then_body, n.else_body}
                  [] n.kind \in {"FUNCTION_DEF", "WHILE_STMT", "DO_WHILE_STMT", "FOR_STMT"} -> {n.body}
                  [] OTHER                           -> {}
  IN (\E e \in Exprs(n) : Groups(e, FALSE)) \/ (\E m \in within : Parenthesised(m))
===============================================================================
