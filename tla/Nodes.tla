-------------------------------- MODULE Nodes --------------------------------
(* The tree the parser makes and the type checker and the code generator walk *)
(* (node.h): one constructor per class. A node is the name of its class, what *)
(* the class keeps besides nodes (v: a name is the sequence of its words, an  *)
(* operator a token kind), and its children in the order they are visited.    *)
EXTENDS Sequences

Node(n, v, k) == [n |-> n, v |-> v, k |-> k]
Empty == Node("Empty", <<>>, <<>>)

(* Types as they are written.                                                 *)
BaseTypeNode(name) == Node("Type", name, <<>>)
QualifiedTypeNode(recv, name) == Node("Qualified", name, <<recv>>)
ReifiedTypeNode(name, types) == Node("Reified", name, types)
FuncTypeNode(ret, params) == Node("FuncType", <<>>, <<ret>> \o params)
ReturnTypeNode(types) == Node("Returns", <<>>, types)
TypeOfNode(expr) == Node("TypeOf", <<>>, <<expr>>)

(* Literals and what is made of parts.                                        *)
NumberNode(text) == Node("Number", text, <<>>)
StringNode(text) == Node("String", text, <<>>)
RegexNode(text) == Node("Regex", text, <<>>)
StringExprNode(parts) == Node("StringExpr", <<>>, parts)
EmbedNode(expr) == Node("Embed", <<>>, <<expr>>)
ArrayNode(elements) == Node("Array", <<>>, elements)
MapNode(keysAndValues) == Node("Map", <<>>, keysAndValues)
TupleNode(elements) == Node("Tuple", <<>>, elements)

(* Names, calls and operators. An index and a call of a value are calls of    *)
(* the methods index and call.                                                *)
VarNode(name) == Node("Var", name, <<>>)
AccessNode(recv, name) == Node("Access", name, <<recv>>)
ApplyNode(recv, method, args) == Node("Apply", method, <<recv>> \o args)
NewNode(type, args) == Node("New", <<>>, <<type>> \o args)
TypeOpNode(op, expr, type) == Node("TypeOp", <<op>>, <<expr, type>>)
UnaryOpNode(op, expr) == Node("UnaryOp", <<op>>, <<expr>>)
BinaryOpNode(op, left, right) == Node("BinaryOp", <<op>>, <<left, right>>)

(* Commands.                                                                  *)
CmdNode(name, args) == Node("Cmd", name, args)
CmdArgNode(parts) == Node("CmdArg", <<>>, parts)
ArgArrayNode(args) == Node("ArgArray", <<>>, args)
WildCardNode(text) == Node("WildCard", text, <<>>)
RedirNode(op, args) == Node("Redir", <<op>>, args)
PipelineNode(stages) == Node("Pipeline", <<>>, stages)
WithNode(expr, redirs) == Node("With", <<>>, <<expr>> \o redirs)
ForkNode(op, expr) == Node("Fork", <<op>>, <<expr>>)
CmdSubNode(to, expr) == Node("CmdSub", <<to>>, <<expr>>)
ProcSubNode(op, expr) == Node("ProcSub", <<op>>, <<expr>>)

(* Statements.                                                                *)
BlockNode(statements) == Node("Block", <<>>, statements)
AssertNode(conds) == Node("Assert", <<>>, conds)
TypeAliasNode(name, type) == Node("TypeAlias", name, <<type>>)
LoopNode(init, cond, iter, body) == Node("Loop", <<>>, <<init, cond, iter, body>>)
DoWhileNode(cond, body) == Node("Loop", <<"do">>, <<Empty, cond, Empty, body>>)
ArmNode(patterns, action) == Node("Arm", <<>>, patterns \o <<action>>)
CaseNode(expr, arms) == Node("Case", <<>>, <<expr>> \o arms)
JumpNode(kind, exprs) == Node("Jump", <<kind>>, exprs)
CatchNode(name, type, block) == Node("Catch", name, <<type, block>>)
TryNode(block, catches) == Node("Try", <<>>, <<block>> \o catches)
TryFinallyNode(block, catches, finally) == Node("Try", <<"finally">>, <<block>> \o catches \o <<finally>>)
VarDeclNode(kind, name, exprs) == Node("VarDecl", <<kind>> \o name, exprs)
AssignNode(left, right) == Node("Assign", <<>>, <<left, right>>)
SelfAssignNode(op, left, right) == Node("SelfAssign", <<op>>, <<left, right>>)
ElementSelfAssignNode(op, left, right) == Node("ElementSelfAssign", <<op>>, <<left, right>>)
PrefixAssignNode(assigns, body) == Node("PrefixAssign", <<>>, assigns \o body)
ParamNode(name, type) == Node("Param", name, <<type>>)
FunctionNode(name, params, ret, body) == Node("Function", name, params \o <<ret>> \o body)
InterfaceNode(name, members) == Node("Interface", name, members)
UserDefinedCmdNode(name, body) == Node("UserDefinedCmd", name, <<body>>)
SourceListNode(name, path) == Node("SourceList", name, <<path>>)
AssignOps == {"ASSIGN", "ADD_ASSIGN", "SUB_ASSIGN", "MUL_ASSIGN", "DIV_ASSIGN", "MOD_ASSIGN", "STR_ASSIGN", "NULL_ASSIGN"}

(* Nodes the parser does not build as they are written (node.cpp): pipelines  *)
(* are flat, an assignment to an element is a call of SET, a condition "is"   *)
(* on a variable declares the variable in the block, for-in is a loop.        *)
IsIndexCall(node) == node.n = "Apply" /\ node.v = <<"index">>
ResolveAssignOp == [op \in AssignOps \cup {"INC", "DEC"} |->
  CASE op \in {"ADD_ASSIGN", "INC"} -> "ADD" [] op \in {"SUB_ASSIGN", "DEC"} -> "SUB" [] op = "MUL_ASSIGN" -> "MUL"
    [] op = "DIV_ASSIGN" -> "DIV" [] op = "MOD_ASSIGN" -> "MOD" [] op = "STR_ASSIGN" -> "STR_CHECK"
    [] OTHER -> "NULL_COALE"]
CreateAssignNode(left, op, right) ==
  IF op = "ASSIGN" /\ IsIndexCall(left) THEN ApplyNode(left.k[1], <<"set">>, Tail(left.k) \o <<right>>)
  ELSE IF op = "ASSIGN" THEN AssignNode(left, right)
  ELSE IF IsIndexCall(left) THEN ElementSelfAssignNode(ResolveAssignOp[op], left, right)
  ELSE SelfAssignNode(ResolveAssignOp[op], left, right)
Flat(node) == IF node.n = "Pipeline" THEN node.k ELSE <<node>>
CreateBinaryNode(left, op, right) ==
  IF op = "PIPE" THEN PipelineNode(Flat(left) \o Flat(right))
  ELSE IF op \in AssignOps THEN CreateAssignNode(left, op, right)
  ELSE BinaryOpNode(op, left, right)
IsNarrowing(cond, then) ==
  then.n = "Block" /\ cond.n = "TypeOp" /\ cond.v = <<"is">> /\ cond.k[1].n = "Var"
Narrowed(cond, then) ==
  BlockNode(<<VarDeclNode("let", cond.k[1].v, <<TypeOpNode("as", cond.k[1], cond.k[2])>>)>> \o then.k)
IfNode(cond, then, else) ==
  Node("If", <<>>, <<cond, IF IsNarrowing(cond, then) THEN Narrowed(cond, then) ELSE then, else>>)
CreateForInNode(name, expr, block) ==
  LET iter == VarNode(<<"%reset">>)
  IN  LoopNode(VarDeclNode("let", iter.v, <<ApplyNode(expr, <<"ITER">>, <<>>)>>),
               ApplyNode(iter, <<"HAS_NEXT">>, <<>>), Empty,
               BlockNode(<<VarDeclNode("var", name, <<ApplyNode(iter, <<"NEXT">>, <<>>)>>)>> \o block.k))
=============================================================================
