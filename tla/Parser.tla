-------------------------------- MODULE Parser --------------------------------
(***************************************************************************)
(* The C parser of hvmc (src/src/tools/hvmc/src/parser.cpp): recursive     *)
(* descent over the tokens of Lexer, to the trees of CodeGen.              *)
(*                                                                         *)
(* A function of the class is an operator from the position of the token   *)
(* that peek() gives when it is called to what it makes and the position   *)
(* when it returns.  Position 0 is that of a parser that has thrown: every *)
(* token is wrong there, so what is parsed from it is at 0 too.            *)
(*                                                                         *)
(* Of a type, the qualifiers and the name of a struct are left out.  Names *)
(* and texts are the symbols of their tokens; <<>> is no name.             *)
(*                                                                         *)
(* An operator whose name has an underscore is the one it precedes with a  *)
(* plausible mistake in it.                                                *)
(***************************************************************************)
EXTENDS Lexer, CodeGen

Kind(p)       == IF p = 0 THEN "THROWN" ELSE tokens[p].kind
NextOf(p)     == IF Kind(p) \in {"THROWN", "END"} THEN p ELSE p + 1
Expect(p, k)  == IF Kind(p) = k THEN NextOf(p) ELSE 0
Match(p, k)   == IF Kind(p) = k THEN NextOf(p) ELSE p

Made(node, p) == [node |-> node, next |-> p]
Thrown        == Made(Null, 0)

PastAll(p, kinds) ==
  IF p = 0 THEN 0 ELSE CHOOSE q \in p .. Len(tokens) :
                         Kind(q) \notin kinds /\ \A r \in p .. q - 1 : Kind(r) \in kinds

-------------------------------------------------------------------------------
(* Types.  SHORT_KW sets a base that the end of the function overwrites.      *)

ParseTypeSpec(p) ==
  LET q == PastAll(p, {"CONST", "VOLATILE", "UNSIGNED", "SIGNED", "LONG_KW"})
      has(k)  == \E r \in p .. q - 1 : Kind(r) = k
      base    == CASE Kind(q) = "VOID_KW"   -> "VOID"
                   [] Kind(q) = "CHAR_KW"   -> "CHAR"
                   [] Kind(q) = "STRUCT_KW" -> "STRUCT"
                   [] OTHER -> IF has("LONG_KW") THEN "LONG" ELSE "INT"
      unsigned == [VOID |-> "VOID", STRUCT |-> "STRUCT", CHAR |-> "UCHAR", INT |-> "UINT",
                   LONG |-> "ULONG"]
  IN [base |-> IF has("UNSIGNED") THEN unsigned[base] ELSE base,
      next |-> CASE Kind(q) \in {"SHORT_KW", "VOID_KW", "CHAR_KW", "INT_KW"} -> q + 1
                 [] Kind(q) = "STRUCT_KW" -> Expect(q + 1, "IDENT")
                 [] OTHER -> q]

ParseDeclarator(p) ==
  LET q     == PastAll(p, {"STAR"})
      named == Kind(q) = "IDENT"
  IN [pointers |-> q - p, name |-> IF named THEN tokens[q].text ELSE <<>>,
      next |-> Match(q, "IDENT")]

CType(base, pointers, array) == [base |-> base, pointers |-> pointers, array |-> array]

VariableDecl(name, type, init) ==
  [kind |-> "VARIABLE_DECL", name |-> name, type |-> type, init |-> init]

-------------------------------------------------------------------------------
(* A function called while it may be under way.                               *)
RECURSIVE Descend(_, _)

ParseExpression(p) == Descend("assignment", p)

Operand(kind, e)      == [kind |-> kind, operand |-> e]
UnaryOp(op, e, first) == [kind |-> "UNARY_OP", op |-> op, operand |-> e, is_prefix |-> first]

ParsePrimary(p) ==
  LET t == tokens[p]
      r == ParseExpression(p + 1)
  IN CASE Kind(p) = "LPAREN" -> Made(r.node, Expect(r.next, "RPAREN"))
       [] Kind(p) \in {"NUMBER", "CHAR_LIT"} ->
            Made([kind |-> "CONSTANT", value |-> t.value], p + 1)
       [] Kind(p) = "STRING"     -> Made([kind |-> "STRING_LIT", value |-> t.text], p + 1)
       [] Kind(p) = "IDENT"      -> Made([kind |-> "VARIABLE", name |-> t.text], p + 1)
       [] Kind(p) = "INLINE_ASM" -> Made([kind |-> "ASM_STMT", code |-> t.text], p + 1)
       [] OTHER                  -> Thrown

RECURSIVE ParseArguments(_), PostfixFrom(_)

ParseArguments(p) ==
  LET r    == ParseExpression(p)
      rest == ParseArguments(r.next + 1)
  IN IF Kind(r.next) # "COMMA" THEN [list |-> <<r.node>>, next |-> r.next]
     ELSE [list |-> <<r.node>> \o rest.list, next |-> rest.next]

(* The "(" after what is not a name is forgotten, and "++" takes the token    *)
(* that follows it, which decides what is recorded.                           *)
PostfixFrom(r) ==
  LET q     == r.next + 1
      args  == IF Kind(q) = "RPAREN" THEN [list |-> <<>>, next |-> q] ELSE ParseArguments(q)
      index == ParseExpression(q)
      obj   == IF Kind(r.next) = "ARROW" THEN Operand("DEREF", r.node) ELSE r.node
      step  == IF Kind(q) = "PLUSPLUS" THEN "PLUSPLUS" ELSE "MINUSMINUS"
  IN CASE Kind(r.next) = "LPAREN" ->
            PostfixFrom(IF r.node.kind # "VARIABLE" THEN Made(r.node, q)
                        ELSE Made([kind |-> "CALL", name |-> r.node.name, list |-> args.list],
                                  Expect(args.next, "RPAREN")))
       [] Kind(r.next) = "LBRACKET" ->
            PostfixFrom(Made([kind |-> "ARRAY_INDEX", left |-> r.node, right |-> index.node],
                             Expect(index.next, "RBRACKET")))
       [] Kind(r.next) \in {"DOT", "ARROW"} ->
            PostfixFrom(IF Kind(q) # "IDENT" THEN Thrown
                        ELSE Made([kind |-> "MEMBER_ACCESS", obj |-> obj,
                                   member |-> tokens[q].text], q + 1))
       [] Kind(r.next) \in {"PLUSPLUS", "MINUSMINUS"} ->
            PostfixFrom(Made(UnaryOp(step, r.node, FALSE), NextOf(q)))
       [] OTHER -> r

ParsePostfix(p) == PostfixFrom(ParsePrimary(p))

ParseUnary(p) ==
  LET r == Descend("unary", p + 1)
  IN CASE Kind(p) \in {"PLUSPLUS", "MINUSMINUS", "MINUS", "TILDE", "EXCLAM"} ->
            Made(UnaryOp(Kind(p), r.node, TRUE), r.next)
       [] Kind(p) = "AMPER"  -> Made(Operand("ADDRESS_OF", r.node), r.next)
       [] Kind(p) = "STAR"   -> Made(Operand("DEREF", r.node), r.next)
       [] Kind(p) = "SIZEOF" -> Made(Operand("SIZEOF_EXPR", r.node), r.next)
       [] Kind(p) = "PLUS"   -> r
       [] OTHER              -> ParsePostfix(p)

(* Unless a ")" follows the type, which may be empty, the "(" is forgotten.   *)
ParseCast(p) ==
  LET type == ParseTypeSpec(p + 1)
      r    == Descend("cast", type.next + 1)
  IN IF Kind(p) # "LPAREN" THEN ParseUnary(p)
     ELSE IF Kind(type.next) # "RPAREN" THEN ParseUnary(type.next)
     ELSE Made([kind |-> "CAST", target_type |-> CType(type.base, 0, 0), expr |-> r.node], r.next)

(* parse_logical_or to parse_multiplicative: each takes the operators of one  *)
(* row between operands of the next, the last between casts.                  *)
Levels == <<{"OROR"}, {"ANDAND"}, {"PIPE"}, {"CARET"}, {"AMPER"}, {"EQEQ", "NEQ"},
            {"LT", "GT", "LE", "GE"}, {"LSHIFT", "RSHIFT"}, {"PLUS", "MINUS"},
            {"STAR", "SLASH", "PERCENT"}>>

BinaryOp(op, left, right) == [kind |-> "BINARY_OP", op |-> op, left |-> left, right |-> right]

RECURSIVE ParseBinary(_, _), ParseRest(_, _), ParseRest_RightToLeft(_, _)

ParseBinary(l, p) ==
  IF l > Len(Levels) THEN ParseCast(p) ELSE ParseRest(l, ParseBinary(l + 1, p))

ParseRest_RightToLeft(l, r) ==
  IF Kind(r.next) \notin Levels[l] THEN r
  ELSE LET right == ParseRest_RightToLeft(l, ParseBinary(l + 1, r.next + 1))
       IN Made(BinaryOp(Kind(r.next), r.node, right.node), right.next)

ParseRest(l, r) ==
  IF Kind(r.next) \notin Levels[l] THEN r
  ELSE LET right == ParseBinary(l + 1, r.next + 1)
       IN ParseRest(l, Made(BinaryOp(Kind(r.next), r.node, right.node), right.next))

(* Which assignment it was is not kept.                                       *)
ParseAssignment(p) ==
  LET r     == ParseBinary(1, p)
      value == Descend("assignment", r.next + 1)
  IN IF Kind(r.next) \notin {"EQ", "PLUS_EQ", "MINUS_EQ", "STAR_EQ"} THEN r
     ELSE Made([kind |-> "ASSIGN", target |-> r.node, value |-> value.node], value.next)

-------------------------------------------------------------------------------
(* Declarations.                                                              *)

ParseVariableDecl(base, pointers, name, p) ==
  LET sized == Kind(p) = "LBRACKET" /\ Kind(p + 1) = "NUMBER"
      q     == IF Kind(p) = "LBRACKET" THEN Expect(Match(p + 1, "NUMBER"), "RBRACKET") ELSE p
      init  == IF Kind(q) = "EQ" THEN ParseExpression(q + 1) ELSE Made(Null, q)
      type  == CType(base, pointers, IF sized THEN tokens[p + 1].value ELSE 0)
  IN Made(VariableDecl(name, type, init.node), Expect(init.next, "SEMICOLON"))

RECURSIVE ParseParams(_), ParseStatements(_)

ParseParams(p) ==
  LET type  == ParseTypeSpec(p)
      d     == ParseDeclarator(type.next)
      param == VariableDecl(d.name, CType(type.base, d.pointers, 0), Null)
      rest  == ParseParams(d.next + 1)
  IN IF Kind(d.next) # "COMMA" THEN [list |-> <<param>>, next |-> d.next]
     ELSE [list |-> <<param>> \o rest.list, next |-> rest.next]

ParseStatements(p) ==
  LET r    == Descend("statement", p)
      rest == ParseStatements(r.next)
  IN IF Kind(p) \in {"RBRACE", "END", "THROWN"} THEN [list |-> <<>>, next |-> p]
     ELSE [list |-> <<r.node>> \o rest.list, next |-> rest.next]

ParseBlock(p) ==
  LET r == ParseStatements(Expect(p, "LBRACE"))
  IN Made([kind |-> "BLOCK", list |-> r.list], Expect(r.next, "RBRACE"))

ParseFunctionDef(base, p) ==
  LET params == IF Kind(p + 2) = "RPAREN" THEN [list |-> <<>>, next |-> p + 2]
                ELSE ParseParams(p + 2)
      q      == Expect(params.next, "RPAREN")
      body   == IF Kind(q) = "LBRACE" THEN ParseBlock(q) ELSE Made(Null, Expect(q, "SEMICOLON"))
  IN Made([kind |-> "FUNCTION_DEF", name |-> tokens[p].text, type |-> CType(base, 0, 0),
           params |-> params.list, body |-> body.node], body.next)

ParseDeclaration(p) ==
  LET type == ParseTypeSpec(Match(Match(p, "EXTERN"), "STATIC"))
      d    == ParseDeclarator(type.next)
  IN IF Kind(type.next) = "IDENT" /\ Kind(type.next + 1) = "LPAREN"
     THEN ParseFunctionDef(type.base, type.next)
     ELSE IF d.name = <<>> THEN Thrown
     ELSE ParseVariableDecl(type.base, d.pointers, d.name, d.next)

-------------------------------------------------------------------------------
(* Statements.                                                                *)

(* "(" expression ")" after a keyword.                                        *)
ParseCondition(p) ==
  LET r == ParseExpression(Expect(p, "LPAREN")) IN Made(r.node, Expect(r.next, "RPAREN"))

ParseIf(p) ==
  LET cond == ParseCondition(p + 1)
      then == Descend("statement", cond.next)
      else == IF Kind(then.next) = "ELSE" THEN Descend("statement", then.next + 1)
              ELSE Made(Null, then.next)
  IN Made([kind |-> "IF_STMT", cond |-> cond.node, then_body |-> then.node,
           else_body |-> else.node], else.next)

ParseWhile(p) ==
  LET cond == ParseCondition(p + 1)
      body == Descend("statement", cond.next)
  IN Made([kind |-> "WHILE_STMT", cond |-> cond.node, body |-> body.node], body.next)

ParseFor(p) ==
  LET part(q, end) == IF Kind(q) = end THEN Made(Null, q) ELSE ParseExpression(q)
      init == part(Expect(p + 1, "LPAREN"), "SEMICOLON")
      cond == part(Expect(init.next, "SEMICOLON"), "SEMICOLON")
      inc  == part(Expect(cond.next, "SEMICOLON"), "RPAREN")
      body == Descend("statement", Expect(inc.next, "RPAREN"))
  IN Made([kind |-> "FOR_STMT", init |-> init.node, cond |-> cond.node, inc |-> inc.node,
           body |-> body.node], body.next)

ParseDoWhile(p) ==
  LET body == Descend("statement", p + 1)
      cond == ParseCondition(Expect(body.next, "WHILE"))
  IN Made([kind |-> "DO_WHILE_STMT", cond |-> cond.node, body |-> body.node],
          Expect(cond.next, "SEMICOLON"))

ParseReturn(p) ==
  LET r == IF Kind(p + 1) = "SEMICOLON" THEN Made(Null, p + 1) ELSE ParseExpression(p + 1)
  IN Made([kind |-> "RETURN_STMT", expr |-> r.node], Expect(r.next, "SEMICOLON"))

(* VOLATILE begins a type and no declaration statement.                       *)
Declares == {"INT_KW", "CHAR_KW", "SHORT_KW", "LONG_KW", "VOID_KW", "UNSIGNED", "SIGNED",
             "STATIC", "EXTERN", "STRUCT_KW", "CONST"}

ParseStatement(p) ==
  LET only(kind) == Made([kind |-> kind], Expect(p + 1, "SEMICOLON"))
      r == ParseExpression(p)
  IN CASE Kind(p) = "LBRACE"     -> ParseBlock(p)
       [] Kind(p) = "IF"         -> ParseIf(p)
       [] Kind(p) = "WHILE"      -> ParseWhile(p)
       [] Kind(p) = "FOR"        -> ParseFor(p)
       [] Kind(p) = "DO"         -> ParseDoWhile(p)
       [] Kind(p) = "RETURN"     -> ParseReturn(p)
       [] Kind(p) = "BREAK"      -> only("BREAK_STMT")
       [] Kind(p) = "CONTINUE"   -> only("CONTINUE_STMT")
       [] Kind(p) = "SEMICOLON"  -> Made([kind |-> "EMPTY_STMT"], p + 1)
       [] Kind(p) = "INLINE_ASM" -> Made([kind |-> "ASM_STMT", code |-> tokens[p].text],
                                         Expect(p + 1, "SEMICOLON"))
       [] Kind(p) \in Declares   -> ParseDeclaration(p)
       [] OTHER -> Made([kind |-> "EXPR_STMT", expr |-> r.node], Expect(r.next, "SEMICOLON"))

RECURSIVE DeclarationsFrom(_)
DeclarationsFrom(p) ==
  LET r    == Descend("declaration", p)
      rest == DeclarationsFrom(r.next)
  IN IF Kind(p) \in {"END", "THROWN"} THEN [list |-> <<>>, next |-> p]
     ELSE [list |-> <<r.node>> \o rest.list, next |-> rest.next]

ParseProgram(p) ==
  LET r == DeclarationsFrom(p) IN Made([kind |-> "PROGRAM", list |-> r.list], r.next)

Descend(f, p) == CASE f = "program"     -> ParseProgram(p)
                   [] f = "declaration" -> ParseDeclaration(p)
                   [] f = "statement"   -> ParseStatement(p)
                   [] f = "assignment"  -> ParseAssignment(p)
                   [] f = "cast"        -> ParseCast(p)
                   [] f = "unary"       -> ParseUnary(p)

Parse == Descend("program", 1)
===============================================================================
