------------------------------ MODULE CodeMeaning ------------------------------
(***************************************************************************)
(* What the text that CodeGen writes does when it runs, beside what the C  *)
(* function it was written for does.                                       *)
(*                                                                         *)
(* Both see the same world: calls, whose answers are free, inline          *)
(* assembly, and the value returned.  The machine runs the lines by the    *)
(* meaning of their mnemonics, a variable's name standing for its value;   *)
(* the rules of C unfold the tree in cont.  When both wait for the world,  *)
(* they must wait for the same.                                            *)
(*                                                                         *)
(* The comparison is made for the plain programs, the part of C for which  *)
(* the generator has code: see Plain.                                      *)
(***************************************************************************)
EXTENDS CodeGen

CONSTANTS
  Answers,   (* what a called function may return, or leave in another register *)
  Env        (* the values of the variables                                     *)

VARIABLES
  pc,        (* the machine: the line it is at, 0 before it starts, and         *)
  reg,       (* its registers                                                   *)
  cont       (* the rules of C: what remains to be run                          *)

mvars == <<pc, reg, cont>>

Generated == program # Null /\ work = <<>>

-------------------------------------------------------------------------------
(* Values of expressions.                                                     *)

Apply(op, a, b) ==
  CASE op = "PLUS" -> a + b [] op = "MINUS" -> a - b [] op = "STAR" -> a * b

Compare(op, a, b) ==
  CASE op = "EQEQ" -> a = b [] op = "NEQ" -> a # b
    [] op = "LT"   -> a < b [] op = "LE"  -> a <= b
    [] op = "GT"   -> a > b [] op = "GE"  -> a >= b

Comparisons == {"EQEQ", "NEQ", "LT", "LE", "GT", "GE"}

(* The value of an expression in which calls answer a.                        *)
RECURSIVE Value(_, _)
Value(e, a) ==
  CASE e.kind = "CONSTANT" -> e.value
    [] e.kind = "VARIABLE" -> Env[e.name]
    [] e.kind = "CALL"     -> a
    [] e.op \in Comparisons -> IF Compare(e.op, Value(e.left, a), Value(e.right, a)) THEN 1 ELSE 0
    [] OTHER -> Apply(e.op, Value(e.left, a), Value(e.right, a))

(* The call in it, which a plain expression has at most one of.               *)
RECURSIVE CallIn(_)
CallIn(e) == CASE e.kind = "CALL"      -> e
               [] e.kind = "BINARY_OP" -> CallIn(e.left)
               [] OTHER                -> Null

(* An expression is plain when each right operand is a leaf, and so is each   *)
(* argument but the first, which makes no call.  A condition compares two     *)
(* such, or is a leaf or a call.  Statements make no jump but return, call    *)
(* nothing as a statement, and read no variable they declare or assign.       *)
Leaf(e) == e.kind \in {"CONSTANT", "VARIABLE"}

RECURSIVE PlainExpr(_)
PlainExpr(e) ==
  \/ Leaf(e)
  \/ e.kind = "BINARY_OP" /\ e.op \in {"PLUS", "MINUS", "STAR"} /\ PlainExpr(e.left) /\ Leaf(e.right)
  \/ /\ e.kind = "CALL"
     /\ \A i \in DOMAIN e.list :
          Leaf(e.list[i]) \/ (i = 1 /\ PlainExpr(e.list[1]) /\ CallIn(e.list[1]) = Null)

PlainCond(e) ==
  \/ Leaf(e)
  \/ e.kind = "CALL" /\ PlainExpr(e)
  \/ e.kind = "BINARY_OP" /\ e.op \in Comparisons /\ PlainExpr(e.left) /\ Leaf(e.right)

RECURSIVE Plain(_)
Plain(n) ==
  CASE n.kind = "PROGRAM" -> n.list # <<>> /\ n.list[Len(n.list)].kind = "FUNCTION_DEF"
                             /\ Plain(n.list[Len(n.list)])
    [] n.kind = "BLOCK" -> \A i \in DOMAIN n.list : Plain(n.list[i])
    [] n.kind = "FUNCTION_DEF" -> n.body # Null /\ Plain(n.body)
    [] n.kind = "IF_STMT" -> PlainCond(n.cond) /\ Plain(n.then_body) /\ Plain(n.else_body)
    [] n.kind \in {"WHILE_STMT", "DO_WHILE_STMT"} -> PlainCond(n.cond) /\ Plain(n.body)
    [] n.kind = "FOR_STMT" -> /\ n.init = Null \/ PlainExpr(n.init)
                              /\ n.cond = Null \/ PlainCond(n.cond)
                              /\ n.inc = Null \/ PlainExpr(n.inc)
                              /\ Plain(n.body)
    [] n.kind = "RETURN_STMT"   -> n.expr = Null \/ PlainExpr(n.expr)
    [] n.kind = "VARIABLE_DECL" -> n.init = Null \/ PlainExpr(n.init)
    [] OTHER -> n.kind \in {"ASM_STMT", "EMPTY_STMT", "NULL"}

-------------------------------------------------------------------------------
(* The rules of C.  cont is a sequence of: a statement to run, an expression  *)
(* to evaluate, a condition to test with what follows either way, and a value *)
(* to return.                                                                 *)

Run(n)           == [do |-> "run", node |-> n, yes |-> <<>>, no |-> <<>>]
Eval(e)          == [do |-> "eval", node |-> e, yes |-> <<>>, no |-> <<>>]
Test(e, yes, no) == [do |-> "test", node |-> e, yes |-> yes, no |-> no]
Give(e)          == [do |-> "give", node |-> e, yes |-> <<>>, no |-> <<>>]

Unfold(n) ==
  CASE n.kind = "BLOCK"         -> [i \in DOMAIN n.list |-> Run(n.list[i])]
    [] n.kind = "FUNCTION_DEF"  -> <<Run(n.body), Run([kind |-> "RETURN_STMT", expr |-> Null])>>
    [] n.kind = "IF_STMT"       -> <<Test(n.cond, <<Run(n.then_body)>>, <<Run(n.else_body)>>)>>
    [] n.kind = "WHILE_STMT"    -> <<Test(n.cond, <<Run(n.body), Run(n)>>, <<>>)>>
    [] n.kind = "DO_WHILE_STMT" -> <<Run(n.body), Test(n.cond, <<Run(n)>>, <<>>)>>
    [] n.kind = "FOR_STMT"      ->
         LET again == <<Run(n.body), Eval(n.inc), Run([n EXCEPT !.init = Null])>>
         IN <<Eval(n.init)>> \o (IF n.cond = Null THEN again ELSE <<Test(n.cond, again, <<>>)>>)
    [] n.kind = "VARIABLE_DECL" -> <<Eval(n.init)>>
    [] OTHER                    -> <<>>

Now == Head(cont)

(* What the program waits for: inline assembly, a call, or to return.         *)
SourceWaits ==
  /\ cont # <<>>
  /\ \/ Now.do = "run" /\ Now.node.kind = "ASM_STMT"
     \/ Now.do = "give"
     \/ Now.do # "run" /\ CallIn(Now.node) # Null

(* A value is returned once it is known: the call in it comes first.          *)
Asked(n) == IF n.kind # "ASM_STMT" /\ CallIn(n) # Null THEN CallIn(n) ELSE n

After(a) ==
  CASE Now.do = "test" -> (IF Value(Now.node, a) # 0 THEN Now.yes ELSE Now.no) \o Tail(cont)
    [] Now.do = "give" -> <<Give([kind |-> "CONSTANT", value |-> Value(Now.node, a)])>>
    [] OTHER           -> Tail(cont)

SourceStep ==
  /\ Generated /\ cont # <<>> /\ ~SourceWaits
  /\ cont' = CASE Now.do # "run" -> After(0)
               [] Now.node.kind = "RETURN_STMT" -> <<Give(Now.node.expr)>>
               [] OTHER -> Unfold(Now.node) \o Tail(cont)
  /\ UNCHANGED <<vars, pc, reg>>

-------------------------------------------------------------------------------
(* The machine.                                                               *)

The_line == out[pc]
PlaceOf(l) == CHOOSE i \in DOMAIN out : Places(out[i]) /\ out[i].label = l

MachineWaits == pc \in DOMAIN out /\ The_line.op \in {"call", "asm", "ret"}

BranchTaken ==
  LET a == reg[1]
      b == reg[The_line.reg]
  IN CASE The_line.op = "beq" -> a = b [] The_line.op = "bne" -> a # b
       [] The_line.op = "blt" -> a < b [] The_line.op = "bge" -> a >= b
       [] The_line.op = "bgt" -> a > b [] The_line.op = "ble" -> a <= b

Branches == {"beq", "bne", "blt", "bge", "bgt", "ble"}

Load ==
  CASE The_line.op = "mov_imm"  -> [reg EXCEPT ![The_line.reg] = The_line.node.value]
    [] The_line.op = "mov_name" -> [reg EXCEPT ![The_line.reg] = Env[The_line.node.name]]
    [] The_line.op = "mov_r1"   -> [reg EXCEPT ![The_line.reg] = reg[1]]
    [] The_line.op = "add"      -> [reg EXCEPT ![1] = reg[1] + reg[2]]
    [] The_line.op = "sub"      -> [reg EXCEPT ![1] = reg[1] - reg[2]]
    [] The_line.op = "mul"      -> [reg EXCEPT ![1] = reg[1] * reg[2]]
    [] OTHER                    -> reg

MachineStep ==
  /\ Generated /\ SourceWaits /\ pc \in DOMAIN out /\ ~MachineWaits
  /\ reg' = Load
  /\ pc' = IF The_line.op = "jmp" \/ (The_line.op \in Branches /\ BranchTaken)
           THEN PlaceOf(The_line.label) ELSE pc + 1
  /\ UNCHANGED <<vars, cont>>

-------------------------------------------------------------------------------
(* They wait for the same: the same assembly, the same function with the same *)
(* arguments, or to return the same value, if there is one.                   *)
Agree ==
  LET asked == Asked(Now.node)
  IN \/ Now.do = "run" /\ The_line.op = "asm" /\ The_line.node = Now.node
     \/ /\ asked.kind = "CALL" /\ The_line.op = "call" /\ The_line.node.name = asked.name
        /\ \A i \in DOMAIN asked.list : reg[i] = Value(asked.list[i], 0)
     \/ /\ Now.do = "give" /\ asked.kind # "CALL" /\ The_line.op = "ret"
        /\ asked # Null => reg[1] = Value(asked, 0)

Answer ==
  /\ SourceWaits /\ MachineWaits /\ Agree
  /\ IF The_line.op = "ret" THEN cont' = <<>> /\ pc' = Len(out) + 1 /\ UNCHANGED reg
     ELSE /\ pc' = pc + 1
          /\ \E a, b \in Answers :
               /\ cont' = After(a)
               /\ reg' = IF The_line.op = "call" THEN [reg EXCEPT ![1] = a, ![2] = b] ELSE reg
  /\ UNCHANGED vars

-------------------------------------------------------------------------------
(* The last function of the tree is called, and its code.                     *)
Start(tree) ==
  /\ Generated /\ pc = 0 /\ Plain(tree)
  /\ LET main == tree.list[Len(tree.list)]
     IN /\ pc' = CHOOSE i \in DOMAIN out : out[i].op = "function" /\ out[i].node.name = main.name
        /\ cont' = <<Run(main)>>
  /\ UNCHANGED <<vars, reg>>

-------------------------------------------------------------------------------
(* Whenever the code and the C program it comes from both wait for the world, *)
(* they wait for the same: through every nesting of if, while, for and do,    *)
(* whatever the functions called answer, the same assembly is reached, the    *)
(* same calls are made with the same arguments, the same value returned.      *)
RunsAsWritten == SourceWaits /\ MachineWaits => Agree

(* The code does not run away: when the program waits for the world, the code *)
(* gets there too, and no jump leads into a loop the program does not have.   *)
KeepsUp == SourceWaits ~> MachineWaits
===============================================================================
