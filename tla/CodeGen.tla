-------------------------------- MODULE CodeGen --------------------------------
(***************************************************************************)
(* The code generator of hvmc (src/src/tools/hvmc/src/codegen.cpp): from a *)
(* syntax tree to the lines of an assembly text.                           *)
(*                                                                         *)
(* The functions of the class call each other over the tree.  work is what *)
(* the calls on the C++ stack have still to do, in order: lines to emit    *)
(* and calls to make.  An action is the body of one call, up to the calls  *)
(* it makes, which it leaves in its place in work.                         *)
(*                                                                         *)
(* A line or call is a record: op is the mnemonic, or the function called; *)
(* node the part of the tree it is about, which names its operand; reg the *)
(* register it concerns; label the label it places or refers to.  The      *)
(* registers that an instruction always has are part of its op.            *)
(*                                                                         *)
(* An operator whose name has an underscore is the one it precedes with a  *)
(* plausible mistake in it; no action uses it.                             *)
(***************************************************************************)
EXTENDS Integers, Sequences

CONSTANTS
  Programs,   (* the trees that gen may be called on                       *)
  Inner       (* the nodes in them                                         *)

Null    == [kind |-> "NULL"]
Node    == Programs \cup Inner \cup {Null}
NoLabel == -1

(* ASTNode: which fields hold nodes, by kind.                                *)
Parts(n) ==
  CASE n.kind \in {"PROGRAM", "BLOCK", "CALL"}          -> {n.list[i] : i \in DOMAIN n.list}
    [] n.kind = "FUNCTION_DEF"                          -> {n.body}
    [] n.kind \in {"WHILE_STMT", "DO_WHILE_STMT"}       -> {n.cond, n.body}
    [] n.kind \in {"RETURN_STMT", "EXPR_STMT"}          -> {n.expr}
    [] n.kind = "VARIABLE_DECL"                         -> {n.init}
    [] n.kind = "IF_STMT"                    -> {n.cond, n.then_body, n.else_body}
    [] n.kind = "FOR_STMT"                   -> {n.init, n.cond, n.inc, n.body}
    [] n.kind \in {"BINARY_OP", "ARRAY_INDEX"}          -> {n.left, n.right}
    [] n.kind \in {"UNARY_OP", "ADDRESS_OF", "DEREF"}   -> {n.operand}
    [] n.kind = "ASSIGN"                                -> {n.target, n.value}
    [] OTHER                                            -> {}

ASSUME NodeAssumption ==
  \A n \in Node :
    /\ \A p \in Parts(n) : p \in Node
    /\ n.kind \in {"PROGRAM", "BLOCK", "CALL"} => n.list \in Seq(Node)

VARIABLES
  program,        (* the tree, chosen at the start                             *)
  work,           (* what remains to be done                                   *)
  out,            (* the output: the lines emitted                             *)
  label_counter

vars == <<program, work, out, label_counter>>

Calls  == {"gen", "expression", "condition"}
Marks  == {"label", "string", "function", "enter", "asm", ".section", ".global"}
Jumps  == {"jmp", "call", "ret", "beq", "bne", "blt", "bge", "bgt", "ble"}
Values == {"mov_imm", "mov_name", "mov_r1", "mov_address", "mov_label", "ld", "ld_r1", "scale_r2",
           "add", "sub", "mul", "div", "rem", "and", "or", "xor", "sll", "srl"}

Entry == [op : Calls \cup Marks \cup Jumps \cup Values, node : Node,
          reg : Nat, label : Nat \cup {NoLabel}]

Line(op, n)       == [op |-> op, node |-> n, reg |-> 1, label |-> NoLabel]
Into(op, n, r)    == [op |-> op, node |-> n, reg |-> r, label |-> NoLabel]
LabelLine(l)      == [op |-> "label", node |-> Null, reg |-> 1, label |-> l]
Jmp(l)            == [op |-> "jmp", node |-> Null, reg |-> 1, label |-> l]
Branch(op, r, l)  == [op |-> op, node |-> Null, reg |-> r, label |-> l]
Gen(n)            == Line("gen", n)
Expression(n, r)  == Into("expression", n, r)
Condition(n, l)   == [op |-> "condition", node |-> n, reg |-> 1, label |-> l]

Init ==
  /\ program \in Programs
  /\ work = <<Gen(program)>>
  /\ out = <<>>
  /\ label_counter = 0

-------------------------------------------------------------------------------
(* The head of work is a call of f on a node of one of these kinds.           *)
The == Head(work).node

Calling(f, kinds) == work # <<>> /\ Head(work).op = f /\ The.kind \in kinds

(* The body of the call: what it emits and calls, and the labels it takes.    *)
Do(entries, labels) ==
  /\ work' = entries \o Tail(work)
  /\ label_counter' = label_counter + labels
  /\ UNCHANGED <<program, out>>

Emit ==
  /\ work # <<>> /\ Head(work).op \notin Calls
  /\ out' = Append(out, Head(work))
  /\ work' = Tail(work)
  /\ UNCHANGED <<program, label_counter>>

-------------------------------------------------------------------------------
(* gen: statements and declarations.                                          *)

GenList ==
  /\ Calling("gen", {"PROGRAM", "BLOCK"})
  /\ Do([i \in 1 .. Len(The.list) |-> Gen(The.list[i])], 0)

(* gen of an expression is nothing, so an expression statement is nothing     *)
(* unless its expression is inline assembly.                                  *)
GenExprStmt ==
  /\ Calling("gen", {"EXPR_STMT"})
  /\ Do(<<Gen(The.expr)>>, 0)

GenAsm ==
  /\ Calling("gen", {"ASM_STMT"})
  /\ Do(<<Line("asm", The)>>, 0)

GenNothing ==
  /\ Calling("gen", {"BREAK_STMT", "CONTINUE_STMT", "EMPTY_STMT", "BINARY_OP", "UNARY_OP",
                     "ASSIGN", "CALL", "VARIABLE", "CONSTANT", "STRING_LIT", "DEREF",
                     "ADDRESS_OF", "MEMBER_ACCESS", "ARRAY_INDEX", "CAST", "SIZEOF_EXPR"})
  /\ Do(<<>>, 0)

GenReturn ==
  /\ Calling("gen", {"RETURN_STMT"})
  /\ Do((IF The.expr = Null THEN <<>> ELSE <<Expression(The.expr, 1)>>)
        \o <<Line("ret", The)>>, 0)

GenFunctionDef ==
  /\ Calling("gen", {"FUNCTION_DEF"})
  /\ Do(IF The.body = Null THEN <<>>
        ELSE <<Line(".section", The), Line(".global", The), Line("function", The),
               Line("enter", The), Gen(The.body), Line("ret", Null)>>, 0)

GenVariableDecl ==
  /\ Calling("gen", {"VARIABLE_DECL"})
  /\ Do(IF The.init = Null THEN <<>>
        ELSE <<Expression(The.init, 1), Line("mov_name", The)>>, 0)

GenIf_SharesLabel ==
  /\ Calling("gen", {"IF_STMT"})
  /\ LET else_lbl == label_counter
         end_lbl  == label_counter + 1
     IN Do(<<Condition(The.cond, else_lbl), Gen(The.then_body)>>
           \o IF The.else_body = Null THEN <<LabelLine(else_lbl)>>
              ELSE <<Jmp(end_lbl), LabelLine(else_lbl), Gen(The.else_body),
                     LabelLine(end_lbl)>>, IF The.else_body = Null THEN 2 ELSE 1)

GenIf ==
  /\ Calling("gen", {"IF_STMT"})
  /\ LET else_lbl == label_counter
         end_lbl  == label_counter + 1
     IN Do(<<Condition(The.cond, else_lbl), Gen(The.then_body)>>
           \o IF The.else_body = Null THEN <<LabelLine(else_lbl)>>
              ELSE <<Jmp(end_lbl), LabelLine(else_lbl), Gen(The.else_body),
                     LabelLine(end_lbl)>>, 2)

GenWhile_LeavesToStart ==
  /\ Calling("gen", {"WHILE_STMT"})
  /\ LET start == label_counter
         end   == label_counter + 1
     IN Do(<<LabelLine(start), Condition(The.cond, start), Gen(The.body),
             Jmp(start), LabelLine(end)>>, 2)

GenWhile ==
  /\ Calling("gen", {"WHILE_STMT"})
  /\ LET start == label_counter
         end   == label_counter + 1
     IN Do(<<LabelLine(start), Condition(The.cond, end), Gen(The.body),
             Jmp(start), LabelLine(end)>>, 2)

GenFor ==
  /\ Calling("gen", {"FOR_STMT"})
  /\ LET start == label_counter
         end   == label_counter + 1
         If(n, e) == IF n = Null THEN <<>> ELSE <<e>>
     IN Do(If(The.init, Expression(The.init, 1))
           \o <<LabelLine(start)>> \o If(The.cond, Condition(The.cond, end))
           \o <<Gen(The.body)>> \o If(The.inc, Expression(The.inc, 1))
           \o <<Jmp(start), LabelLine(end)>>, 2)

GenDoWhile ==
  /\ Calling("gen", {"DO_WHILE_STMT"})
  /\ LET start == label_counter
         end   == label_counter + 1
     IN Do(<<LabelLine(start), Gen(The.body), Condition(The.cond, end),
             Jmp(start), LabelLine(end)>>, 2)

-------------------------------------------------------------------------------
(* gen_condition: go to the label unless the condition holds.  No caller asks *)
(* for the inverse.  An operator that is no comparison gives no branch.       *)

BranchUnless == [EQEQ |-> "bne", NEQ |-> "beq", LT |-> "bge", LE |-> "bgt",
                 GT |-> "ble", GE |-> "blt"]

GenCondition_SameSense ==
  /\ Calling("condition", {"BINARY_OP"})
  /\ LET same == [EQEQ |-> "bne", NEQ |-> "beq", LT |-> "bge", LE |-> "bge",
                  GT |-> "ble", GE |-> "ble"]
     IN Do(<<Expression(The.left, 1), Expression(The.right, 2)>>
           \o IF The.op \notin DOMAIN same THEN <<>>
              ELSE <<Branch(same[The.op], 2, Head(work).label)>>, 0)

GenCondition ==
  /\ Calling("condition", {"BINARY_OP"})
  /\ Do(<<Expression(The.left, 1), Expression(The.right, 2)>>
        \o IF The.op \notin DOMAIN BranchUnless THEN <<>>
           ELSE <<Branch(BranchUnless[The.op], 2, Head(work).label)>>, 0)

GenConditionOther ==
  /\ work # <<>> /\ Head(work).op = "condition" /\ The.kind # "BINARY_OP"
  /\ Do(IF The = Null THEN <<>>
        ELSE <<Expression(The, 1), Branch("beq", 0, Head(work).label)>>, 0)

-------------------------------------------------------------------------------
(* gen_expression: the value of the node in register Head(work).reg.          *)

(* The instruction on r1 and r2 with its result in r1; a comparison or a      *)
(* logical operator has none.                                                 *)
BinaryOps == [PLUS |-> "add", MINUS |-> "sub", STAR |-> "mul", SLASH |-> "div",
              PERCENT |-> "rem", AMPER |-> "and", PIPE |-> "or", CARET |-> "xor",
              LSHIFT |-> "sll", RSHIFT |-> "srl"]

MoveResult(r) == IF r = 1 THEN <<>> ELSE <<Into("mov_r1", Null, r)>>

GenOperand ==
  /\ Calling("expression", {"CONSTANT", "VARIABLE"})
  /\ Do(<<Into(IF The.kind = "CONSTANT" THEN "mov_imm" ELSE "mov_name", The,
               Head(work).reg)>>, 0)

GenBinaryOp ==
  /\ Calling("expression", {"BINARY_OP"})
  /\ Do(<<Expression(The.left, 1), Expression(The.right, 2)>>
        \o (IF The.op \in DOMAIN BinaryOps THEN <<Line(BinaryOps[The.op], Null)>> ELSE <<>>)
        \o MoveResult(Head(work).reg), 0)

(* The operator is ignored: -x, !x and x++ are x.                             *)
GenUnaryOp ==
  /\ Calling("expression", {"UNARY_OP"})
  /\ Do(<<Expression(The.operand, Head(work).reg)>>, 0)

(* The value is computed; nothing is stored in the target.                    *)
GenAssign ==
  /\ Calling("expression", {"ASSIGN"})
  /\ Do(<<Expression(The.value, 1), Into("mov_r1", Null, Head(work).reg)>>, 0)

GenAddressOf ==
  /\ Calling("expression", {"ADDRESS_OF"})
  /\ Do(IF The.operand.kind # "VARIABLE" THEN <<>>
        ELSE <<Into("mov_address", The.operand, Head(work).reg)>>, 0)

(* The string is put where the code is.                                       *)
GenStringLit ==
  /\ Calling("expression", {"STRING_LIT"})
  /\ LET lbl == label_counter
     IN Do(<<[Line("string", The) EXCEPT !.label = lbl],
             [Into("mov_label", The, Head(work).reg) EXCEPT !.label = lbl]>>, 1)

(* Arguments go to r1, r2, ... as they are computed.                          *)
GenCall ==
  /\ Calling("expression", {"CALL"})
  /\ Do([i \in 1 .. Len(The.list) |-> Expression(The.list[i], i)]
        \o <<Line("call", The)>> \o MoveResult(Head(work).reg), 0)

GenDeref ==
  /\ Calling("expression", {"DEREF"})
  /\ Do(<<Expression(The.operand, Head(work).reg), Into("ld", Null, Head(work).reg)>>, 0)

GenArrayIndex ==
  /\ Calling("expression", {"ARRAY_INDEX"})
  /\ Do(<<Expression(The.left, 1), Expression(The.right, 2), Line("scale_r2", Null),
          Line("add", Null), Into("ld_r1", Null, Head(work).reg)>>, 0)

GenNoExpression ==
  /\ Calling("expression", {"NULL", "MEMBER_ACCESS", "CAST", "SIZEOF_EXPR", "ASM_STMT"})
  /\ Do(<<>>, 0)

-------------------------------------------------------------------------------
Statement == \/ GenList \/ GenExprStmt \/ GenAsm \/ GenNothing \/ GenReturn
             \/ GenFunctionDef \/ GenVariableDecl
             \/ GenIf \/ GenWhile \/ GenFor \/ GenDoWhile
Compute == \/ GenCondition \/ GenConditionOther
           \/ GenOperand \/ GenBinaryOp \/ GenUnaryOp \/ GenAssign \/ GenAddressOf
           \/ GenStringLit \/ GenCall \/ GenDeref \/ GenArrayIndex \/ GenNoExpression

Next == Emit \/ Statement \/ Compute

Spec == Init /\ [][Next]_vars

-------------------------------------------------------------------------------
TypeOK ==
  /\ program \in Node
  /\ work \in Seq(Entry) /\ out \in Seq(Entry)
  /\ label_counter \in Nat

(* The labels placed by the lines of a sequence, those its lines and calls    *)
(* refer to, and that none is placed twice.                                   *)
Places(e)   == e.op \in {"label", "string"}
Placed(s)   == {s[i].label : i \in {j \in DOMAIN s : Places(s[j])}}
Referred(s) == {s[i].label : i \in {j \in DOMAIN s : ~Places(s[j])}} \ {NoLabel}
Once(s)     == \A i, j \in DOMAIN s :
                 Places(s[i]) /\ Places(s[j]) /\ s[i].label = s[j].label => i = j

(* No label is placed twice in the text, through any nesting of statements    *)
(* and strings in expressions, and when gen returns every label that a jump,  *)
(* a branch or a mov of the text names is placed in it.                       *)
LabelsResolve ==
  /\ Once(out)
  /\ work = <<>> => Referred(out) \subseteq Placed(out)

(* The same of the text to come, which makes it inductive: what is emitted,   *)
(* then what remains.                                                         *)
LabelsInv ==
  /\ Once(out) /\ Once(work) /\ Placed(out) \cap Placed(work) = {}
  /\ Placed(out) \cup Placed(work) \subseteq 0 .. label_counter - 1
  /\ Referred(out) \cup Referred(work) \subseteq Placed(out) \cup Placed(work)
===============================================================================
