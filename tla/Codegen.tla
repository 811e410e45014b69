------------------------------- MODULE Codegen -------------------------------
(* The code generator: what a typed node compiles to, a sequence of           *)
(* instructions in which labels are named by the node they belong to, and     *)
(* where an exception entry stands where the code that handles it begins.     *)
(* Everything a node must know of what encloses it is in c: the kind of code, *)
(* the locals of the blocks it is in, its loops and its finally blocks.       *)
(* Left out: line numbers, the pool of constants, and tilde expansion.        *)
EXTENDS TypeChecker

Instr(op, n, l, t, v) == [op |-> op, n |-> n, l |-> l, t |-> t, v |-> v]
Op(op) == <<Instr(op, <<>>, <<>>, NoType, <<>>)>>
OpN(op, n) == <<Instr(op, n, <<>>, NoType, <<>>)>>
OpT(op, t) == <<Instr(op, <<>>, <<>>, t, <<>>)>>
To(op, label) == <<Instr(op, <<>>, <<label>>, NoType, <<>>)>>
Goto(label) == To("GOTO", label)
Mark(label) == To("MARK", label)
Const(t, v) == <<Instr("LOAD_CONST", <<>>, <<>>, t, v)>>
CatchException(begin, end, t, n) == <<Instr("ENTRY", n, <<begin, end>>, t, <<>>)>>
EmitMethodCall(params, method) == <<Instr("CALL_BUILTIN2", <<params + 1>>, <<>>, method.ret, <<method.name>>)>>
EmitFuncCall(params, ret) == <<Instr("CALL_FUNC", <<params>>, <<>>, ret, <<>>)>>
ToStr == EmitMethodCall(0, LookupMethod(AnyType, "STR"))

(* What a node must know of what encloses it.                                 *)
Code(kind) == [kind |-> kind, locals |-> <<>>, loops |-> <<>>, finally |-> <<>>]
WithLocals(c, base, size) == [c EXCEPT !.locals = Append(@, <<base, size>>)]
Reclaim(base, size) == OpN("RECLAIM_LOCAL", <<base, size>>)
NeedReclaim(c, block) ==
  /\ block.k # <<>> /\ Last(block.k).ty # Nothing /\ block.a.size > 0
  /\ c.kind = "toplevel" \/ c.locals # <<>>
EnterMultiFinally(c) == FlattenSeq([i \in DOMAIN c.finally |-> To("ENTER_FINALLY", c.finally[Len(c.finally) + 1 - i])])

RECURSIVE Gen(_, _, _), GenConcat(_, _, _, _)
GenAll(c, p, nodes) == FlattenSeq([i \in DOMAIN nodes |-> Gen(c, Append(p, i), nodes[i])])
Kid(c, p, node, i) == Gen(c, Append(p, i), node.k[i])
Label(name, p) == <<name, p>>

(* Strings made of pieces: each after the first is joined to what precedes.   *)
IsStrConcat(node) == node.n = "BinaryOp" /\ node.v = <<"ADD">> /\ node.k[1].ty = String
GenConcat(c, p, node, fragment) ==
  LET inner == node.k[1]
  IN  CASE node.n = "String" /\ node.v = <<>> /\ fragment -> <<>>
        [] node.n = "StringExpr" ->
             IF node.k = <<>> THEN IF fragment THEN <<>> ELSE Const(String, <<>>)
             ELSE FlattenSeq([i \in DOMAIN node.k |-> GenConcat(c, Append(p, i), node.k[i], fragment \/ i > 1)])
        [] node.n = "BinaryOp" /\ IsStrConcat(node) ->
             GenConcat(c, Append(p, 1), node.k[1], fragment) \o GenConcat(c, Append(p, 2), node.k[2], TRUE)
        [] node.n = "Embed" /\ (inner.n \in {"StringExpr", "String"} \/ IsStrConcat(inner)) ->
             GenConcat(c, Append(p, 1), inner, fragment)
        [] OTHER -> Gen(c, p, node) \o IF fragment THEN Op("CONCAT") ELSE <<>>
GenPieces(c, p, nodes, first) == FlattenSeq([i \in DOMAIN nodes |-> GenConcat(c, Append(p, i), nodes[i], i > first)])

(* Commands. The segments between the wild cards of a glob are joined.        *)
LastWildCard(node, i) == CHOOSE j \in 0 .. i : (j = 0 \/ node.k[j].n = "WildCard") /\ \A l \in j + 1 .. i : node.k[l].n # "WildCard"
GenCmdArg(c, p, node) == (* generateCmdArg, without what takes the value *)
  FlattenSeq([i \in DOMAIN node.k |-> GenConcat(c, Append(p, i), node.k[i], i > 1)])
Globs(node) == Cardinality({i \in DOMAIN node.k : node.k[i].n = "WildCard" \/ i - 1 = LastWildCard(node, i)})
VisitCmdArgNode(c, p, node) ==
  IF HasGlob(node)
  THEN FlattenSeq([i \in DOMAIN node.k |->
         IF node.k[i].n = "WildCard" THEN OpN("PUSH_META", <<i>>)
         ELSE GenConcat(c, Append(p, i), node.k[i], i - 1 > LastWildCard(node, i))])
       \o Op("PUSH_NULL") \o OpN("ADD_GLOBBING", <<Globs(node)>>)
  ELSE GenCmdArg(c, p, node) \o Op("ADD_CMD_ARG")
HasRedir(node) == \E i \in DOMAIN node.k : node.k[i].n = "Redir" \/ (node.k[i].n = "CmdArg" /\ node.k[i].k[1].n = "ProcSub")
VisitCmdNode(c, p, node) ==
  Const(String, node.v) \o Op("NEW_CMD") \o (IF HasRedir(node) THEN Op("NEW_REDIR") ELSE Op("PUSH_NULL"))
  \o GenAll(c, p, node.k) \o (IF HasRedir(node) THEN Op("DO_REDIR") ELSE <<>>) \o Op("CALL_CMD")
VisitRedirNode(c, p, node) ==
  (IF node.k = <<>> THEN Const(String, <<>>) ELSE GenCmdArg(c, Append(p, 1), node.k[1]))
  \o <<Instr("ADD_REDIR_OP", <<>>, <<>>, NoType, node.v)>>
VisitWithNode(c, p, node) ==
  LET in == WithLocals(c, node.a.base, 1)
  IN  Op("NEW_REDIR") \o FlattenSeq([i \in 1 .. Len(node.k) - 1 |-> Kid(in, p, node, i + 1)])
      \o Op("DO_REDIR") \o OpN("STORE_LOCAL", <<node.a.base>>) \o Kid(in, p, node, 1) \o Reclaim(node.a.base, 1)
GeneratePipeline(c, p, node) ==
  LET last == IsLastPipe(node)
      size == IF last THEN Len(node.k) - 1 ELSE Len(node.k)
      label(i) == Label("pipe", Append(p, i))
      in == WithLocals(c, node.a.base, 1)
  IN  <<Instr(IF last THEN "PIPELINE_LP" ELSE "PIPELINE", <<>>, [i \in 1 .. size + 1 |-> label(i)], NoType, <<>>)>>
      \o Mark(Label("begin", p))
      \o FlattenSeq([i \in 1 .. size |-> (IF i > 1 THEN Op("HALT") ELSE <<>>) \o Mark(label(i)) \o Kid(c, p, node, i)])
      \o Mark(Label("end", p)) \o CatchException(Label("begin", p), Label("end", p), ProcGuard, <<0, 0>>) \o Op("HALT")
      \o Mark(label(size + 1))
      \o IF last THEN OpN("STORE_LOCAL", <<node.a.base>>) \o Kid(in, p, node, size + 1) \o Reclaim(node.a.base, 1) ELSE <<>>
VisitForkNode_unguarded(c, p, node) == (* no guard between the child and the parent's handlers *)
  <<Instr("FORK", <<>>, <<Label("merge", p)>>, node.ty, <<>>)>> \o Kid(c, p, node, 1) \o Op("HALT") \o Mark(Label("merge", p))
VisitForkNode(c, p, node) ==
  IF node.k[1].n = "Pipeline" /\ node.n # "CmdSub" (* ForkKind::ARRAY and STR are never pipelines of their own *)
  THEN LET code == GeneratePipeline(c, Append(p, 1), node.k[1])
       IN  <<[Head(code) EXCEPT !.op = "PIPELINE_ASYNC", !.t = node.ty]>> \o Tail(code)
  ELSE Mark(Label("begin", p)) \o <<Instr("FORK", <<>>, <<Label("merge", p)>>, node.ty, <<>>)>> \o Kid(c, p, node, 1)
       \o Mark(Label("end", p)) \o CatchException(Label("begin", p), Label("end", p), ProcGuard, <<0, 0>>) \o Op("HALT")
       \o Mark(Label("merge", p))

(* Expressions.                                                               *)
LoadVar(handle) ==
  (IF "global" \in handle.attrs THEN OpN("LOAD_GLOBAL", <<handle.ix>>) ELSE OpN("LOAD_LOCAL", <<handle.ix>>))
  \o IF "env" \in handle.attrs THEN Op("LOAD_ENV") ELSE <<>>
StoreVar(handle) == IF "global" \in handle.attrs THEN OpN("STORE_GLOBAL", <<handle.ix>>) ELSE OpN("STORE_LOCAL", <<handle.ix>>)
NewOf(t, add, nodes, c, p) ==
  OpT("NEW", t) \o FlattenSeq([i \in DOMAIN nodes |-> Gen(c, Append(p, i), nodes[i]) \o add[i]])
VisitPrint(p, t) ==
  IF IsOption(t)
  THEN To("TRY_UNWRAP", Label("then", p)) \o Const(String, <<"(invalid)">>) \o Goto(Label("merge", p)) \o Mark(Label("then", p))
       \o (IF Element(t) = String THEN <<>> ELSE ToStr) \o Mark(Label("merge", p)) \o OpT("PRINT", t)
  ELSE (IF t = String THEN <<>> ELSE ToStr) \o OpT("PRINT", t)
VisitTypeOpNode(c, p, node) ==
  LET from == node.k[1].ty
  IN  Kid(c, p, node, 1)
      \o CASE node.a = "NO_CAST" -> <<>>
           [] node.a = "TO_VOID" -> Op("POP")
           [] node.a = "NUM_CAST" -> EmitMethodCall(0, LookupMethod(from, IF from = IntType THEN "TO_FLOAT" ELSE "TO_INT"))
           [] node.a = "TO_STRING" -> ToStr
           [] node.a = "TO_BOOL" -> EmitMethodCall(0, LookupMethod(from, "BOOL"))
           [] node.a = "CHECK_CAST" -> OpT("CHECK_CAST", node.ty)
           [] node.a = "CHECK_UNWRAP" -> Op("CHECK_UNWRAP")
           [] node.a = "PRINT" -> VisitPrint(p, from)
           [] node.a = "ALWAYS_FALSE" -> Op("POP") \o Op("PUSH_FALSE")
           [] node.a = "ALWAYS_TRUE" -> Op("POP") \o Op("PUSH_TRUE")
           [] OTHER -> OpT("INSTANCE_OF", node.k[2].ty)
VisitBinaryOpNode(c, p, node) ==
  LET op == node.v[1]
      left == Kid(c, p, node, 1)
      right == Kid(c, p, node, 2)
      else == Label("else", p)
      merge == Label("merge", p)
  IN  CASE op = "COND_AND" ->
             left \o To("BRANCH", else) \o right \o Goto(merge) \o Mark(else) \o Op("PUSH_FALSE") \o Mark(merge)
        [] op = "COND_OR" ->
             left \o To("BRANCH", else) \o Op("PUSH_TRUE") \o Goto(merge) \o Mark(else) \o right \o Mark(merge)
        [] op = "STR_CHECK" ->
             left \o Op("DUP") \o EmitMethodCall(0, LookupMethod(String, "empty")) \o To("BRANCH", merge) \o Op("POP") \o right \o Mark(merge)
        [] op = "NULL_COALE" -> left \o To("TRY_UNWRAP", merge) \o right \o Mark(merge)
        [] IsFunc(node.k[1].ty) -> left \o right \o Op(IF op = "EQ" THEN "REF_EQ" ELSE "REF_NE")
        [] node.k[1].n = "Empty" -> right \o Op("APPEND")
        [] OTHER -> GenConcat(c, p, node, FALSE)
VisitApplyNode(c, p, node) ==
  GenAll(c, p, node.k)
  \o IF node.v = <<"call">> THEN EmitFuncCall(Len(node.k) - 1, node.ty) ELSE EmitMethodCall(Len(node.k) - 1, node.a)

(* Control.                                                                   *)
VisitBlockNode(c, p, node) ==
  GenAll(WithLocals(c, node.a.base, node.a.size), p, node.k)
  \o IF NeedReclaim(c, node) THEN Reclaim(node.a.base, node.a.size) ELSE <<>>
IsEmptyCode(node) == node.n = "Empty" \/ (node.n = "Block" /\ node.k = <<>>)
VisitLoopNode(c, p, node) ==
  LET declares == node.k[1].n = "VarDecl"
      local == IF declares THEN node.k[1].a.ix ELSE 0
      size == IF declares THEN 1 ELSE 0
      outer == WithLocals(c, local, size)
      in == [outer EXCEPT !.loops = Append(@, [path |-> p, block |-> Len(outer.locals) + 1])]
      label(name) == Label(name, p)
  IN  Kid(in, p, node, 1)
      \o (IF IsEmptyCode(node.k[3]) THEN <<>> ELSE Goto(label("init")))
      \o (IF node.v = <<"do">> THEN Goto(label("start")) ELSE <<>>)
      \o Mark(label("continue")) \o Kid(in, p, node, 3) \o Mark(label("init"))
      \o (IF node.k[2].n = "Empty" THEN Op("PUSH_TRUE") ELSE Kid(in, p, node, 2)) \o To("BRANCH", label("break"))
      \o Mark(label("start")) \o Kid(in, p, node, 4) \o Mark(label("break"))
      \o (IF node.ty = Void THEN <<>> ELSE Op("PUSH_INVALID") \o Mark(label("breakWithValue")))
      \o IF declares THEN Reclaim(local, 1) ELSE <<>>
VisitIfNode(c, p, node) ==
  Kid(c, p, node, 1) \o To("BRANCH", Label("else", p)) \o Kid(c, p, node, 2)
  \o (IF IsEmptyCode(node.k[3]) \/ node.k[2].ty = Nothing THEN <<>> ELSE Goto(Label("merge", p)))
  \o Mark(Label("else", p)) \o Kid(c, p, node, 3) \o Mark(Label("merge", p))

(* A case of constants looks its value up in a table of where the arms begin; *)
(* one with a regex tries the patterns in turn, its value on the stack.       *)
IsDefault(arm) == Len(arm.k) = 1
GenerateMapCase(c, p, node) ==
  LET arms == Tail(node.k)
      label(i) == Label("arm", Append(p, i))
      consts == FlattenSeq([i \in DOMAIN arms |-> [j \in 1 .. Len(arms[i].k) - 1 |-> <<arms[i].k[j].v, i>>]])
      jump(i) == IF i > 1 /\ node.ty # Nothing THEN Goto(Label("merge", p)) ELSE <<>>
      default == {i \in DOMAIN arms : IsDefault(arms[i])}
  IN  Const(T("table%%"), <<>>) \o Kid(c, p, node, 1)
      \o <<Instr("LOOKUP_HASH", <<>>, [i \in DOMAIN consts |-> label(consts[i][2])], NoType, [i \in DOMAIN consts |-> consts[i][1]])>>
      \o Goto(IF default = {} THEN Label("merge", p) ELSE label(CHOOSE i \in default : TRUE))
      \o FlattenSeq([i \in DOMAIN arms |-> jump(i) \o Mark(label(i)) \o Gen(c, Append(p, i + 1), Last(arms[i].k))])
      \o Mark(Label("merge", p))
GenerateIfElseArm(c, p, node, arm, i) ==
  LET at == Append(p, i)
      lookup(name) == LookupMethod(node.k[1].ty, name)
      pattern(j) ==
        (IF j = 1 THEN <<>>
         ELSE To("BRANCH", Label("or", Append(at, j))) \o Op("PUSH_TRUE") \o Goto(Label("armMerge", at)) \o Mark(Label("or", Append(at, j))))
        \o Op("DUP") \o Gen(c, Append(at, j), arm.k[j]) \o EmitMethodCall(1, lookup(IF arm.k[j].ty = String THEN "EQ" ELSE "MATCH"))
  IN  FlattenSeq([j \in 1 .. Len(arm.k) - 1 |-> pattern(j)]) \o Mark(Label("armMerge", at))
      \o To("BRANCH", Label("armElse", at)) \o Op("POP") \o Gen(c, Append(at, 0), Last(arm.k)) \o Goto(Label("merge", p))
      \o Mark(Label("armElse", at))
GenerateIfElseCase(c, p, node) ==
  LET arms == Tail(node.k)
      default == {i \in DOMAIN arms : IsDefault(arms[i])}
  IN  Kid(c, p, node, 1)
      \o FlattenSeq([i \in DOMAIN arms |-> IF i \in default THEN <<>> ELSE GenerateIfElseArm(c, p, node, arms[i], i + 1)])
      \o FlattenSeq([i \in DOMAIN arms |-> IF i \in default THEN Op("POP") \o Gen(c, Append(p, i + 1), Last(arms[i].k)) ELSE <<>>])
      \o Mark(Label("merge", p))

(* Jumps: the locals of the blocks the jump leaves are reclaimed at once.     *)
GenerateBreakContinue_noReclaim(c, p, node) ==
  LET loop == Last(c.loops)
  IN  GenAll(c, p, node.k) \o (IF node.a THEN EnterMultiFinally(c) ELSE <<>>)
      \o Goto(Label(IF node.v = <<"CONTINUE">> THEN "continue" ELSE IF node.k = <<>> THEN "break" ELSE "breakWithValue", loop.path))
GenerateBreakContinue(c, p, node) ==
  LET loop == Last(c.loops)
      start == c.locals[loop.block][1]
      stop == Last(c.locals)[1] + Last(c.locals)[2]
  IN  GenAll(c, p, node.k) \o (IF stop > start THEN Reclaim(start, stop - start) ELSE <<>>)
      \o (IF node.a THEN EnterMultiFinally(c) ELSE <<>>)
      \o Goto(Label(IF node.v = <<"CONTINUE">> THEN "continue" ELSE IF node.k = <<>> THEN "break" ELSE "breakWithValue", loop.path))
VisitJumpNode(c, p, node) ==
  CASE node.v = <<"THROW">> -> GenAll(c, p, node.k) \o Op("THROW")
    [] node.v = <<"RETURN">> ->
         GenAll(c, p, node.k) \o EnterMultiFinally(c)
         \o Op(IF c.kind = "udc" THEN "RETURN_UDC" ELSE IF node.k = <<>> THEN "RETURN" ELSE "RETURN_V")
    [] OTHER -> GenerateBreakContinue(c, p, node)
VisitCatchNode(c, p, node) ==
  IF node.k[2].k = <<>> THEN Op("POP") ELSE OpN("STORE_LOCAL", <<node.a.ix>>) \o Kid(c, p, node, 2)
VisitTryNode(c, p, node) ==
  LET withFinally == node.v = <<"finally">>
      blocks == IF withFinally THEN Front(node.k) ELSE node.k
      block == Inner(node.k[1])
      finally == Label("finally", p)
      in == IF withFinally THEN [c EXCEPT !.finally = Append(@, finally)] ELSE c
      sizes == {block.a.max} \cup {Inner(blocks[i]).k[2].a.max : i \in 2 .. Len(blocks)}
      size == CHOOSE s \in sizes : \A o \in sizes : o <= s
      leave(i) ==
        IF blocks[i].ty = Nothing THEN <<>>
        ELSE (IF withFinally THEN To("ENTER_FINALLY", finally) ELSE <<>>) \o Goto(Label("merge", p))
      catch(i) ==
        CatchException(Label("begin", p), Label("end", p), Inner(blocks[i]).k[1].ty, <<block.a.base, block.a.size>>)
        \o Kid(in, p, node, i) \o leave(i)
  IN  Mark(Label("begin", p)) \o Kid(in, p, node, 1) \o Mark(Label("end", p)) \o leave(1)
      \o FlattenSeq([i \in 1 .. Len(blocks) - 1 |-> catch(i + 1)])
      \o (IF withFinally
          THEN Mark(finally) \o CatchException(Label("begin", p), finally, Root, <<block.a.base, size>>)
               \o Kid(c, p, node, Len(node.k)) \o Op("EXIT_FINALLY")
          ELSE <<>>)
      \o Mark(Label("merge", p))

(* Variables and assignments.                                                 *)
VisitVarDeclNode(c, p, node) ==
  CASE node.v[1] = "import-env" ->
         Const(String, <<node.v[2]>>) \o Op("DUP") \o GenAll(c, p, node.k) \o OpN("IMPORT_ENV", <<Len(node.k)>>) \o StoreVar(node.a)
    [] node.v[1] = "EXPORT_ENV" ->
         Const(String, <<node.v[2]>>) \o Op("DUP") \o GenAll(c, p, node.k) \o Op("STORE_ENV") \o StoreVar(node.a)
    [] OTHER -> GenAll(c, p, node.k) \o StoreVar(node.a)
VisitAssignNode(c, p, node) == (* and of self assignments, whose right side takes the old value *)
  LET left == node.k[1]
      self == node.n = "SelfAssign"
      right == IF node.k[2].n = "CmdArg" THEN GenCmdArg(c, Append(p, 2), node.k[2]) ELSE Kid(c, p, node, 2)
      load == IF "global" \in left.a.attrs THEN OpN("LOAD_GLOBAL", <<left.a.ix>>) ELSE OpN("LOAD_LOCAL", <<left.a.ix>>)
  IN  IF left.n = "Access"
      THEN Gen(c, p \o <<1, 1>>, left.k[1]) \o (IF self THEN Op("DUP") \o OpN("LOAD_FIELD", <<left.a.ix>>) ELSE <<>>)
           \o right \o OpN("STORE_FIELD", <<left.a.ix>>)
      ELSE (IF self THEN LoadVar(left.a) ELSE <<>>) \o right
           \o IF "env" \in left.a.attrs THEN load \o Op("SWAP") \o Op("STORE_ENV") ELSE StoreVar(left.a)
VisitElementSelfAssignNode(c, p, node) ==
  Kid(c, p, node, 1) \o Kid(c, p, node, 2) \o Op("DUP2") \o Kid(c, p, node, 3) \o Kid(c, p, node, 4) \o Kid(c, p, node, 5)
VisitPrefixAssignNode(c, p, node) ==
  LET assigns == Front(node.k)
      in == WithLocals(c, node.a.base, Len(node.k))
      entry(i) ==
        Const(String, assigns[i].k[1].v) \o Op("DUP") \o OpN("STORE_LOCAL", <<assigns[i].k[1].a.ix>>)
        \o GenCmdArg(in, p \o <<i, 2>>, assigns[i].k[2]) \o Op("ADD2ENV_CTX")
  IN  IF Last(node.k).n = "Assign" THEN GenAll(c, p, node.k)
      ELSE Op("NEW_ENV_CTX") \o FlattenSeq([i \in DOMAIN assigns |-> entry(i)]) \o OpN("STORE_LOCAL", <<node.a.base>>)
           \o Kid(in, p, node, Len(node.k)) \o Reclaim(node.a.base, Len(node.k))

Gen(c, p, node) ==
  CASE node.n \in {"Empty", "TypeAlias"} -> <<>>
    [] node.n \in {"Number", "String", "Regex"} -> Const(node.ty, node.v)
    [] node.n = "StringExpr" -> GenConcat(c, p, node, FALSE)
    [] node.n = "Array" -> NewOf(node.ty, [i \in DOMAIN node.k |-> Op("APPEND_ARRAY")], node.k, c, p)
    [] node.n = "Map" -> NewOf(node.ty, [i \in DOMAIN node.k |-> IF i % 2 = 0 THEN Op("APPEND_MAP") ELSE <<>>], node.k, c, p)
    [] node.n = "Tuple" ->
         OpT("NEW", node.ty) \o FlattenSeq([i \in DOMAIN node.k |-> Op("DUP") \o Kid(c, p, node, i) \o OpN("STORE_FIELD", <<i>>)])
    [] node.n = "Var" -> LoadVar(node.a)
    [] node.n = "Access" -> Kid(c, p, node, 1) \o OpN("LOAD_FIELD", <<node.a.ix>>)
    [] node.n = "TypeOp" -> VisitTypeOpNode(c, p, node)
    [] node.n = "UnaryOp" -> Kid(c, p, node, 1) \o Op("UNWRAP")
    [] node.n = "BinaryOp" -> VisitBinaryOpNode(c, p, node)
    [] node.n = "Apply" -> VisitApplyNode(c, p, node)
    [] node.n = "New" -> IF IsOption(node.ty) THEN Op("PUSH_INVALID") ELSE OpT("NEW", node.ty)
    [] node.n = "Embed" -> Kid(c, p, node, 1) \o IF node.a = NoMethod THEN <<>> ELSE EmitMethodCall(0, node.a)
    [] node.n = "Cmd" -> VisitCmdNode(c, p, node)
    [] node.n = "CmdArg" -> VisitCmdArgNode(c, p, node)
    [] node.n = "ArgArray" -> OpT("NEW", node.ty) \o Op("PUSH_NULL") \o GenAll(c, p, node.k) \o Op("POP")
    [] node.n = "Redir" -> VisitRedirNode(c, p, node)
    [] node.n = "Pipeline" -> GeneratePipeline(c, p, node)
    [] node.n = "With" -> VisitWithNode(c, p, node)
    [] node.n \in {"Fork", "CmdSub", "ProcSub"} -> VisitForkNode(c, p, node)
    [] node.n = "Assert" -> GenAll(c, p, node.k) \o Op("ASSERT")
    [] node.n = "Block" -> VisitBlockNode(c, p, node)
    [] node.n = "Loop" -> VisitLoopNode(c, p, node)
    [] node.n = "If" -> VisitIfNode(c, p, node)
    [] node.n = "Case" -> IF node.a = "MAP" THEN GenerateMapCase(c, p, node) ELSE GenerateIfElseCase(c, p, node)
    [] node.n = "Jump" -> VisitJumpNode(c, p, node)
    [] node.n = "Catch" -> VisitCatchNode(c, p, node)
    [] node.n = "Try" -> VisitTryNode(c, p, node)
    [] node.n = "VarDecl" -> VisitVarDeclNode(c, p, node)
    [] node.n \in {"Assign", "SelfAssign"} -> VisitAssignNode(c, p, node)
    [] node.n = "ElementSelfAssign" -> VisitElementSelfAssignNode(c, p, node)
    [] node.n = "PrefixAssign" -> VisitPrefixAssignNode(c, p, node)
    [] node.n = "Function" -> Const(node.a.ty, node.v) \o OpN("STORE_GLOBAL", node.v)
    [] node.n = "UserDefinedCmd" -> Const(node.a.ty, node.v) \o OpN("STORE_GLOBAL", <<"cmd:" \o node.v[1]>>)
    [] OTHER -> <<>>

(* The code of a builder (CodeBuilder::build): labels become places, entries  *)
(* where they stand, and the operands to reserve are the most the running sum *)
(* of what the instructions push and pop comes to, counted as they stand.     *)
StackSize ==
  [op \in {"PUSH_NULL", "PUSH_TRUE", "PUSH_FALSE", "PUSH_META", "PUSH_INVALID", "LOAD_CONST", "LOAD_GLOBAL", "LOAD_LOCAL",
           "NEW_ENV_CTX", "DUP", "NEW", "ENTER_FINALLY", "FORK", "PIPELINE", "PIPELINE_LP", "PIPELINE_ASYNC", "NEW_REDIR"} |-> 1]
  @@ [op \in {"ASSERT", "STORE_FIELD", "STORE_ENV", "ADD2ENV_CTX", "APPEND_MAP", "LOOKUP_HASH"} |-> -2]
  @@ [op \in {"PRINT", "STORE_GLOBAL", "STORE_LOCAL", "IMPORT_ENV", "POP", "CONCAT", "APPEND", "APPEND_ARRAY", "BRANCH",
              "EXIT_FINALLY", "REF_EQ", "REF_NE", "ADD_CMD_ARG", "CALL_CMD", "ADD_REDIR_OP"} |-> -1]
  @@ [op \in {"DUP2"} |-> 2]
SizeOf(instr) ==
  CASE instr.op = "CALL_FUNC" -> -(instr.n[1] + IF instr.t = Void THEN 1 ELSE 0)
    [] instr.op = "CALL_BUILTIN2" -> -(instr.n[1] - IF instr.t = Void THEN 0 ELSE 1)
    [] instr.op = "ADD_GLOBBING" -> -(instr.n[1] + 1)
    [] instr.op \in DOMAIN StackSize -> StackSize[instr.op]
    [] OTHER -> 0
IsPseudo(instr) == instr.op \in {"MARK", "ENTRY"}
Assemble(items) ==
  LET place == FoldLeft(LAMBDA acc, x : Append(acc, Last(acc) + IF IsPseudo(x) THEN 0 ELSE 1), <<1>>, items) \* before each item
      depth == FoldLeft(LAMBDA acc, x : Append(acc, Last(acc) + SizeOf(x)), <<0>>, items)
      at(label) == LET i == CHOOSE j \in DOMAIN items : items[j].op = "MARK" /\ items[j].l[1] = label IN place[i]
      marked == {items[j].l[1] : j \in {i \in DOMAIN items : items[i].op = "MARK"}}
      real == SelectSeq(items, LAMBDA x : ~IsPseudo(x))
      where == [i \in DOMAIN items |-> i]
      entries == SelectSeq(where, LAMBDA i : items[i].op = "ENTRY")
      entry(i) == [t |-> items[i].t, begin |-> at(items[i].l[1]), end |-> at(items[i].l[2]), dest |-> place[i], n |-> items[i].n]
      depths == {0} \cup {depth[i] : i \in DOMAIN items}
  IN  [code |-> [i \in DOMAIN real |-> [real[i] EXCEPT !.l = [j \in DOMAIN @ |-> IF @[j] \in marked THEN at(@[j]) ELSE 0]]],
       entries |-> [i \in DOMAIN entries |-> entry(entries[i])],
       max |-> CHOOSE d \in depths : \A e \in depths : e <= d]
Toplevel(nodes) == Assemble(GenAll(Code("toplevel"), <<>>, nodes) \o Op("RETURN"))
FunctionCode(node) == Assemble(Gen(Code(IF node.n = "Function" THEN "function" ELSE "udc"), <<>>, node.k[1]))
=============================================================================
