----------------------------- MODULE TypeChecker -----------------------------
(* The type checker: a walk over the tree the parser made that gives every    *)
(* node its type and what the code generator must know of it (a), inserts the *)
(* casts that coerce one type to another, and gives every local variable its  *)
(* index. Each rule takes the checker's state and returns it with the typed   *)
(* node in out; once err is set nothing counts any more. Left out: modules    *)
(* (module FrontEnd), completion, and the numbers that only bound a size.     *)
EXTENDS Types, Nodes, TLC

IsTyped(node) == "ty" \in DOMAIN node
Typed(node, k, ty, a) == [n |-> node.n, v |-> node.v, k |-> k, ty |-> ty, a |-> a]
Now(node, ty) == Typed(node, node.k, ty, "")
Literal(name, text, ty) == Typed(Node(name, text, <<>>), <<>>, ty, "")

(* The checker: scopes from the outermost in, each with its handles, the      *)
(* index of the next local and how many the scope has; how far the locals of  *)
(* the function reach; how deep each kind of block encloses the node          *)
(* (FlowContext); the types the breaks of each loop carry (BreakGather).      *)
Scope(kind, next) == [kind |-> kind, handles |-> <<>>, next |-> next, size |-> 0]
Handle(ty, ix, attrs) == [ty |-> ty, ix |-> ix, attrs |-> attrs]
NoHandle == Handle(NoType, 0, {})
NoFlow == [try |-> 0, finally |-> 0, loop |-> 0, child |-> 0]
Checker ==
  [err |-> FALSE, scopes |-> <<Scope("GLOBAL", 0)>>, max |-> 0, depth |-> 0, flow |-> <<NoFlow>>,
   breaks |-> <<>>, ret |-> NoType, out |-> Now(Empty, Void)]

Raise(c) == [c EXCEPT !.err = TRUE]
Demand(c, cond) == IF cond THEN c ELSE Raise(c)
Gives(c, node) == IF c.err THEN c ELSE [c EXCEPT !.out = node]

Here(c) == Last(c.scopes)
BaseIndex(c) == Here(c).next - Here(c).size
EnterScope(c, kind) ==
  [c EXCEPT !.scopes = Append(@, Scope(kind, IF kind = "BLOCK" /\ Here(c).kind = "BLOCK" THEN Here(c).next ELSE 0))]
ExitScope(c) == [c EXCEPT !.scopes = Front(@)]
IntoFlow(c, level) == [c EXCEPT !.flow = Append(@, [Last(@) EXCEPT ![level] = Len(c.flow)])]
LeaveFlow(c) == [c EXCEPT !.flow = Front(@)]
Level(c, level) == Last(c.flow)[level]

Lookup(c, name) ==
  LET found == {i \in DOMAIN c.scopes : name \in DOMAIN c.scopes[i].handles}
  IN  IF found = {} THEN NoHandle ELSE c.scopes[CHOOSE i \in found : \A j \in found : j <= i].handles[name]
Define(c, name, ty, attrs) == (* NameScope::add; a global has its own table *)
  LET here == Here(c)
      global == here.kind = "GLOBAL"
      alias == "alias" \in attrs
      handle == Handle(ty, here.next, attrs \cup IF global THEN {"global"} ELSE {})
  IN  IF name \in DOMAIN here.handles THEN Raise(c)
      ELSE [c EXCEPT !.scopes[Len(c.scopes)] =
                       [here EXCEPT !.handles = (name :> [handle EXCEPT !.ix = IF global THEN name ELSE @]) @@ @,
                                    !.next = IF global \/ alias THEN @ ELSE @ + 1,
                                    !.size = IF global \/ alias THEN @ ELSE @ + 1],
                     !.max = IF global \/ alias \/ @ > here.next THEN @ ELSE here.next + 1]
TupleFields == <<"_0", "_1", "_2">>
LookupField(ty, name) ==
  LET at == {i \in DOMAIN TupleFields : TupleFields[i] = name /\ ty.n = "Tuple" /\ i <= Len(ty.e)}
  IN  IF at = {} THEN NoHandle ELSE LET i == CHOOSE j \in at : TRUE IN Handle(ty.e[i], i, {})

(* Coercions: to Void anything, to Boolean an option and what has BOOL.       *)
CastOp_unchecked(from, to) ==
  IF to = Void THEN "TO_VOID" ELSE IF IsSameOrBaseTypeOf(to, from) \/ IsSameOrBaseTypeOf(from, to) THEN "NO_CAST" ELSE "TO_STRING"
CastOp(from, to) ==
  CASE to = Void -> "TO_VOID"
    [] IsSameOrBaseTypeOf(to, from) -> "NO_CAST"
    [] {from, to} \subseteq {IntType, Float} -> "NUM_CAST"
    [] IsOption(from) -> IF to = Boolean THEN "CHECK_UNWRAP" ELSE "none"
    [] to = String -> "TO_STRING"
    [] to = Boolean /\ LookupMethod(from, "BOOL") # NoMethod -> "TO_BOOL"
    [] to # Nothing /\ IsSameOrBaseTypeOf(from, to) -> "CHECK_CAST"
    [] OTHER -> "none"
CheckCoercion(required, ty) ==
  required = Void \/ (required = Boolean /\ (IsOption(ty) \/ LookupMethod(ty, "BOOL") # NoMethod))
CastBy(node, ty, op) == Typed(TypeOpNode("as", node, Empty), <<node>>, ty, op)
Cast(node, ty) == CastBy(node, ty, CastOp(node.ty, ty))
ResolveBy(c, ty, op) == Demand(Gives(c, CastBy(c.out, ty, op)), op # "none")
ResolveCoercion(c, ty) == IF c.err THEN c ELSE ResolveBy(c, ty, CastOp(c.out.ty, ty))
Coerced(c, ty) ==
  CASE c.err -> c
    [] IsSameOrBaseTypeOf(ty, c.out.ty) -> c
    [] CheckCoercion(ty, c.out.ty) -> ResolveCoercion(c, ty)
    [] OTHER -> Raise(c)

RECURSIVE Visit(_, _), CheckAll(_, _, _), CheckStatements(_, _, _, _), CheckEntries(_, _, _), RewriteBreaks(_, _), FoldConst(_)
Check(c, node) ==
  IF c.err THEN c ELSE IF IsTyped(node) THEN Gives(c, node)
  ELSE [Visit([c EXCEPT !.depth = @ + 1], node) EXCEPT !.depth = c.depth]
AsExpr(c, node) == LET r == Check(c, node) IN IF r.err THEN r ELSE Demand(r, r.out.ty # Void)
AsSomeExpr(c, node) == LET r == AsExpr(c, node) IN IF r.err THEN r ELSE Demand(r, r.out.ty # Nothing)
Required(c, ty, node) == LET r == Check(c, node) IN IF r.err THEN r ELSE Demand(r, IsSameOrBaseTypeOf(ty, r.out.ty))
WithCoercion(c, ty, node) == Coerced(Check(c, node), ty)

(* A list of nodes, each checked as its demand says; out is their sequence.   *)
Exactly == <<"exactly">>
Expr == <<"expr">>
Some == <<"some">>
Coerce(ty) == <<"coerce", ty>>
Require(ty) == <<"require", ty>>
Each(demand, nodes) == [i \in DOMAIN nodes |-> demand]
Demanded(r, demand) ==
  CASE r.err \/ demand = Exactly -> r
    [] ~r.err /\ demand = Expr -> Demand(r, r.out.ty # Void)
    [] ~r.err /\ demand = Some -> Demand(r, r.out.ty \notin {Void, Nothing})
    [] ~r.err /\ demand[1] = "coerce" -> Coerced(r, demand[2])
    [] OTHER -> Demand(r, IsSameOrBaseTypeOf(demand[2], r.out.ty))
CheckAs(c, demand, node) == Demanded(Check(c, node), demand)
Before(node, rest) == IF rest.err THEN rest ELSE [rest EXCEPT !.out = <<node>> \o @]
CheckFurther(r, demands, nodes) == IF r.err THEN r ELSE Before(r.out, CheckAll(r, demands, nodes))
CheckAll(c, demands, nodes) ==
  IF nodes = <<>> THEN [c EXCEPT !.out = <<>>]
  ELSE CheckFurther(CheckAs(c, Head(demands), Head(nodes)), Tail(demands), Tail(nodes))
CheckEach(c, demand, nodes) == CheckAll(c, Each(demand, nodes), nodes)
Finish(c, node, ty, a) == IF c.err THEN c ELSE Gives(c, Typed(node, c.out, ty, a))
Tys(nodes) == [i \in DOMAIN nodes |-> nodes[i].ty]

(* A block: what follows a statement that never ends is refused, the value of *)
(* all but the last is dropped, and the last is the value unless a type (or   *)
(* Void) is required of it. The scope says which locals the block has.        *)
NextStatement(r, required, nodes, acc) ==
  IF r.err \/ (r.out.n = "Block" /\ r.out.k = <<>>) THEN Raise(r) ELSE CheckStatements(r, required, nodes, Append(acc, r.out))
ValueOf(nodes, required) == IF Len(nodes) > 1 THEN Coerce(Void) ELSE IF required = NoType THEN Exactly ELSE Coerce(required)
CheckStatements(c, required, nodes, acc) ==
  CASE c.err -> c
    [] ~c.err /\ nodes = <<>> -> [c EXCEPT !.out = acc]
    [] ~c.err /\ nodes # <<>> /\ acc # <<>> /\ Last(acc).ty = Nothing -> Raise(c)
    [] OTHER -> NextStatement(CheckAs(c, ValueOf(nodes, required), Head(nodes)), required, Tail(nodes), acc)
BlockOf(r, node) ==
  IF r.err THEN r
  ELSE Finish(r, node, IF r.out = <<>> THEN Void ELSE Last(r.out).ty, [base |-> BaseIndex(r), size |-> Here(r).size, max |-> r.max - BaseIndex(r)])
CheckBlock(c, required, node) == BlockOf(CheckStatements(c, required, node.k, <<>>), node)

(* Types written in the source.                                               *)

BaseType(c, name) ==
  LET alias == Lookup(c, "type:" \o name)
  IN  IF alias # NoHandle THEN alias.ty ELSE IF name \in Builtins THEN T(name) ELSE NoType
WrittenType(c, node, e) ==
  CASE node.n = "Type" -> BaseType(c, node.v[1])
    [] node.n = "TypeOf" -> e[1]
    [] node.n = "Reified" -> ReifiedType(node.v[1], e)
    [] node.n = "Returns" -> IF Len(e) = 1 THEN e[1] ELSE TupleType(e)
    [] OTHER -> FuncType(e[1], Tail(e))
GivesType(c, node, ty) == Demand(Gives(c, Typed(node, <<>>, ty, "")), ty # NoType)
TypeOfParts(c, node, parts) == IF parts.err THEN parts ELSE GivesType(c, node, WrittenType(c, node, Tys(parts.out)))
VisitType(c, node) == TypeOfParts(c, node, CheckEach(c, IF node.n = "TypeOf" THEN Some ELSE Exactly, node.k))

(* Literals and what is made of expressions.                                  *)
ArrayFrom(node, first) ==
  IF first.err THEN first
  ELSE Finish(Before(first.out, CheckEach(first, Coerce(first.out.ty), Tail(node.k))), node, ArrayType(first.out.ty), "")
VisitArray(c, node) == ArrayFrom(node, AsSomeExpr(c, node.k[1]))
MapOf(node, first, rest, ty) ==
  IF rest.err \/ ~IsSameOrBaseTypeOf(Value, ty[1]) THEN Raise(rest)
  ELSE Finish([rest EXCEPT !.out = first.out \o @], node, MapType(ty[1], ty[2]), "")
Alternately(ty, nodes) == [i \in DOMAIN nodes |-> Coerce(IF i % 2 = 1 THEN ty[1] ELSE ty[2])]
MapFrom(node, first) ==
  LET others == SubSeq(node.k, 3, Len(node.k))
  IN  IF first.err THEN first ELSE MapOf(node, first, CheckAll(first, Alternately(Tys(first.out), others), others), Tys(first.out))
VisitMap(c, node) == MapFrom(node, CheckAll(c, <<Some, Some>>, SubSeq(node.k, 1, 2)))
TupleFrom(node, r) == Finish(r, node, IF r.err THEN NoType ELSE TupleType(Tys(r.out)), "")
VisitTuple(c, node) == TupleFrom(node, CheckEach(c, Some, node.k))
VisitVar(c, node) ==
  LET handle == Lookup(c, node.v[1]) IN Demand(Gives(c, Typed(node, <<>>, handle.ty, handle)), handle # NoHandle)
FieldOf(node, r, handle) == Demand(Finish(r, node, handle.ty, handle), handle # NoHandle)
AccessOf(node, r) == IF r.err THEN r ELSE FieldOf(node, r, LookupField(r.out[1].ty, node.v[1]))
VisitAccess(c, node) == AccessOf(node, CheckAll(c, <<Expr>>, node.k))
IsOp(from, to) ==
  IF IsSameOrBaseTypeOf(to, from) THEN "ALWAYS_TRUE"
  ELSE IF ~IsOption(from) /\ IsSameOrBaseTypeOf(from, to) THEN "INSTANCEOF" ELSE "ALWAYS_FALSE"
CastWith(node, r, op) == Demand(Finish(r, node, r.out[2].ty, op), op # "none")
TypeOpOf(node, r) ==
  CASE r.err -> r
    [] ~r.err /\ node.v = <<"as">> -> CastWith(node, r, CastOp(r.out[1].ty, r.out[2].ty))
    [] OTHER -> Finish(r, node, Boolean, IsOp(r.out[1].ty, r.out[2].ty))
VisitTypeOp(c, node) == TypeOpOf(node, CheckAll(c, <<Expr, Exactly>>, node.k))

(* Operators are calls of methods but for those on Boolean and String values  *)
(* and on options.                                                            *)
MethodCall(name, k) == ApplyNode(k[1], <<name>>, Tail(k))
CallOf(r, op, k) == AsExpr(r, MethodCall(op, k))
OnOperand(op, operand) == CallOf(operand, op, <<operand.out>>)
UnaryOpOf(node, e) ==
  CASE e.err -> e
    [] ~e.err /\ node.v = <<"UNWRAP">> ->
         IF IsOption(e.out.ty) THEN Gives(e, Typed(node, <<e.out>>, Element(e.out.ty), "")) ELSE Raise(e)
    [] OTHER -> OnOperand(node.v[1], IF IsOption(e.out.ty) THEN ResolveCoercion(e, Boolean) ELSE e)
VisitUnaryOp(c, node) == UnaryOpOf(node, AsExpr(c, node.k[1]))
CondOf(node, r) == IF r.err THEN r ELSE Demand(Finish(r, node, Boolean, ""), r.out[1].ty # Nothing)
ValueOr(node, left, right) == IF right.err THEN right ELSE Gives(right, Typed(node, <<left.out, right.out>>, Element(left.out.ty), ""))
NullCoaleOf(node, left) ==
  IF left.err \/ ~IsOption(left.out.ty) THEN Raise(left)
  ELSE ValueOr(node, left, WithCoercion(left, Element(left.out.ty), node.k[2]))
AsString(e) == IF e.ty = String THEN e ELSE Cast(e, String)
ConcatOf(node, both, k) == Demand(Gives(both, Typed(node, k, String, "")), \A i \in 1 .. 2 : k[i].n = "TypeOp" => k[i].a # "none")
OperatorOf(node, op, both, ty) ==
  CASE both.err -> both
    [] ~both.err /\ IsFunc(ty[1]) /\ ty[1] = ty[2] /\ op \in {"EQ", "NE"} -> Finish(both, node, Boolean, "")
    [] ~both.err /\ op = "ADD" /\ String \in {ty[1], ty[2]} -> ConcatOf(node, both, [i \in 1 .. 2 |-> AsString(both.out[i])])
    [] OTHER -> CallOf(both, op, both.out)
OnOperands(node, op, both) == OperatorOf(node, op, both, Tys(both.out))
VisitBinaryOp(c, node) ==
  CASE node.v[1] \in {"COND_AND", "COND_OR"} -> CondOf(node, CheckEach(c, Coerce(Boolean), node.k))
    [] node.v[1] = "STR_CHECK" -> Finish(CheckEach(c, Require(String), node.k), node, String, "")
    [] node.v[1] = "NULL_COALE" -> NullCoaleOf(node, AsExpr(c, node.k[1]))
    [] OTHER -> OnOperands(node, node.v[1], CheckEach(c, Expr, node.k))

(* Calls: a method of the receiver, unless a field of it has the name, or a   *)
(* function. A typed operand stands for one the code puts on the stack.       *)
MethodOf(node) ==
  CASE node.v = <<"index">> -> "GET" [] node.v = <<"set">> -> "SET" [] OTHER -> node.v[1]
ApplyOf(node, callee, method, args) ==
  CASE args.err -> args
    [] ~args.err /\ method = NoMethod ->
         Gives(args, Typed(ApplyNode(callee, <<"call">>, args.out), <<callee>> \o args.out, callee.ty.e[1], NoMethod))
    [] OTHER -> Gives(args, Typed(node, <<callee>> \o args.out, method.ret, method))
WithArguments(node, recv, callee, params, method) ==
  IF Len(node.k) # Len(params) + 1 THEN Raise(recv)
  ELSE ApplyOf(node, callee, method, CheckAll(recv, [i \in DOMAIN params |-> Coerce(params[i])], Tail(node.k)))
ApplyFunc(node, recv, callee) ==
  IF IsFunc(callee.ty) THEN WithArguments(node, recv, callee, Tail(callee.ty.e), NoMethod) ELSE Raise(recv)
ApplyMethod(node, recv, method) ==
  IF method = NoMethod THEN Raise(recv) ELSE WithArguments(node, recv, recv.out, method.params, method)
ApplyTo(node, recv, field) ==
  CASE recv.err -> recv
    [] ~recv.err /\ node.v = <<"call">> -> ApplyFunc(node, recv, recv.out)
    [] ~recv.err /\ node.v # <<"call">> /\ field # NoHandle ->
         ApplyFunc(node, recv, Typed(AccessNode(recv.out, node.v), <<recv.out>>, field.ty, field))
    [] OTHER -> ApplyMethod(node, recv, LookupMethod(recv.out.ty, MethodOf(node)))
ApplyOn(node, recv) == ApplyTo(node, recv, LookupField(recv.out.ty, MethodOf(node)))
VisitApply(c, node) == ApplyOn(node, CheckAs(c, IF node.v = <<"call">> THEN Require(Func) ELSE Expr, node.k[1]))
NewFrom(node, t) ==
  IF t.err \/ Len(node.k) > 1 \/ ~(IsOption(t.out[1].ty) \/ t.out[1].ty.n \in {"Array", "Map"}) THEN Raise(t)
  ELSE Finish(t, node, t.out[1].ty, "")
VisitNew(c, node) == NewFrom(node, CheckAll(c, <<Expr>>, <<node.k[1]>>))

(* Strings and commands. What is embedded becomes a String by INTERP in a     *)
(* string; in an argument an array is what CMD_ARG makes of it, else STR. A   *)
(* file descriptor or an array is an argument of its own.                     *)
ByMethod(node, r, method) == Demand(Finish(r, node, method.ret, method), method # NoMethod)
FirstMethod(method, other) == IF method # NoMethod THEN method ELSE other
MethodToEmbed(ty, inString) ==
  CASE IsOption(ty) -> NoMethod
    [] ~IsOption(ty) /\ inString -> LookupMethod(ty, "INTERP")
    [] OTHER -> FirstMethod(LookupMethod(ty, "CMD_ARG"), LookupMethod(ty, "STR"))
AsItIs(inString) == {String} \cup (IF inString THEN {} ELSE {StringArray, UnixFD})
EmbedOf(node, r, inString) ==
  CASE r.err -> r
    [] ~r.err /\ (\E t \in AsItIs(inString) : IsSameOrBaseTypeOf(t, r.out[1].ty)) -> Finish(r, node, r.out[1].ty, NoMethod)
    [] OTHER -> ByMethod(node, r, MethodToEmbed(r.out[1].ty, inString))
VisitEmbed(c, node) == EmbedOf(node, CheckAll(c, <<Expr>>, node.k), node.v = <<"str">>)
VisitStringExpr(c, node) ==
  LET k == [i \in DOMAIN node.k |-> IF node.k[i].n = "Embed" THEN [node.k[i] EXCEPT !.v = <<"str">>] ELSE node.k[i]]
  IN  Finish(CheckAll(c, Each(Expr, k), k), node, String, "")
HasGlob(node) == \E i \in DOMAIN node.k : node.k[i].n = "WildCard"
CmdArgDone(node, r) ==
  IF r.err THEN r
  ELSE Demand(Finish(r, node, IF HasGlob(node) THEN StringArray ELSE r.out[1].ty, ""),
              Len(node.k) = 1 \/ \A i \in DOMAIN r.out : r.out[i].ty \notin {StringArray, UnixFD})
VisitCmdArg(c, node) == CmdArgDone(node, CheckEach(c, Expr, node.k))
RedirOf(node, r) ==
  IF r.err THEN r
  ELSE Demand(Finish(r, node, AnyType, ""),
              \A i \in DOMAIN r.out : /\ r.out[i].ty # StringArray
                                      /\ (node.v = <<"REDIR_HERE_STR">> => r.out[i].ty # UnixFD))
VisitRedir(c, node) == RedirOf(node, CheckEach(c, Expr, node.k))
VisitCmd(c, node) == Finish(CheckAll(c, Each(Expr, node.k), node.k), node, IF node.v = <<"exit">> THEN Nothing ELSE Boolean, "")
IsLastPipe(node) == node.v # <<"inFork">> /\ Last(node.k).n # "Cmd"
PipelineOf(node, first, scope, last) ==
  IF last.err THEN last
  ELSE Gives(ExitScope(last), Typed(node, Append(first.out, last.out), IF IsLastPipe(node) THEN last.out.ty ELSE Boolean, [base |-> BaseIndex(scope)]))
LastStage(node, first, scope) == PipelineOf(node, first, scope, Check(scope, Last(node.k)))
PipelineIn(node, first, block) ==
  LastStage(node, first, IF IsLastPipe(node) THEN Define(block, "%%pipe", AnyType, {"ro"}) ELSE block)
AfterStages(node, first) == IF first.err THEN first ELSE PipelineIn(node, first, EnterScope(LeaveFlow(first), "BLOCK"))
VisitPipeline(c, node) == AfterStages(node, CheckEach(IntoFlow(c, "child"), Exactly, Front(node.k)))
WithOf(node, scope, r) == IF r.err THEN r ELSE ExitScope(Finish(r, node, r.out[1].ty, [base |-> BaseIndex(scope)]))
WithIn(node, scope) == WithOf(node, scope, CheckAll(scope, <<Exactly>> \o Each(Expr, Tail(node.k)), node.k))
VisitWith(c, node) == WithIn(node, Define(EnterScope(c, "BLOCK"), "%%redir", AnyType, {"ro"}))
ForkType(node) ==
  CASE node.v = <<"string">> -> String
    [] node.v = <<"array">> -> StringArray
    [] node.n = "ProcSub" -> UnixFD
    [] OTHER -> Job
InFork(e) == IF e.n = "Pipeline" THEN [e EXCEPT !.v = <<"inFork">>] ELSE e
ForkOf(node, r) ==
  IF r.err THEN r ELSE Demand(LeaveFlow(Finish(r, node, ForkType(node), "")), node.n = "Fork" => r.out[1].ty # Job)
VisitFork(c, node) == ForkOf(node, CheckAll(IntoFlow(c, "child"), <<Exactly>>, <<InFork(node.k[1])>>))
VisitAssert(c, node) ==
  LET k == IF Len(node.k) = 2 THEN node.k ELSE Append(node.k, Literal("String", <<>>, String))
  IN  Finish(CheckAll(c, <<Coerce(Boolean), Require(String)>>, k), node, Void, "")

(* Statements and what encloses them.                                         *)
LeaveBlock(r, empty) == IF empty \/ r.err THEN Raise(r) ELSE ExitScope(r)
VisitBlock(c, node) == LeaveBlock(CheckBlock(EnterScope(c, "BLOCK"), NoType, node), c.depth = 1 /\ node.k = <<>>)
AliasOf(node, r) == IF r.err THEN r ELSE Finish(Define(r, "type:" \o node.v[1], r.out[1].ty, {"alias"}), node, Void, "")
VisitTypeAlias(c, node) == AliasOf(node, CheckAll(c, <<Exactly>>, node.k))
(* A loop's value is an option of what its first break carries; the others    *)
(* are coerced to that, those of loops inside the block left alone.           *)
IsBreak(node, k) == node.n = "Jump" /\ node.v = <<"BREAK">> /\ k # <<>>
BreakWith(node, k, ty) ==
  [node EXCEPT !.k = IF IsBreak(node, k) /\ ~IsSameOrBaseTypeOf(ty, k[1].ty) THEN <<Cast(k[1], ty)>> ELSE k]
RewriteBreaks(node, ty) ==
  BreakWith(node, [i \in DOMAIN node.k |-> IF node.n = "Loop" /\ i = 4 THEN node.k[i] ELSE RewriteBreaks(node.k[i], ty)], ty)
Fits(ty, other) == IsSameOrBaseTypeOf(ty, other) \/ CheckCoercion(ty, other)
BreaksCoerce(types) == \A i \in DOMAIN types : Fits(types[1], types[i])
Continue == Typed(JumpNode("CONTINUE", <<>>), <<>>, Nothing, FALSE)
AfterBlock(block) == (* the block of a loop ends by going on *)
  IF block.ty = Nothing THEN block ELSE [block EXCEPT !.k = Append(@, Continue), !.ty = Nothing]
OwnLocals(node, block) == (* the variable the head declares is the loop's *)
  IF node.k[1].n = "VarDecl" /\ node.k[1].v # <<>> THEN [block EXCEPT !.a.base = @ + 1, !.a.size = @ - 1] ELSE block
LoopOf(node, outer, head, block, carried) ==
  Gives(outer, Typed(node, Append(head.out, AfterBlock(IF carried = <<>> THEN block ELSE RewriteBreaks(block, carried[1]))),
                     IF carried = <<>> THEN Void ELSE OptionType(carried[1]), ""))
LoopWith(node, head, body) ==
  IF body.err \/ ~BreaksCoerce(Last(body.breaks)) THEN Raise(body)
  ELSE LoopOf(node, ExitScope(LeaveFlow([body EXCEPT !.breaks = Front(@)])), head, OwnLocals(node, body.out), Last(body.breaks))
LoopFrom(node, head) ==
  IF head.err THEN head
  ELSE LoopWith(node, head, CheckBlock([IntoFlow(head, "loop") EXCEPT !.breaks = Append(@, <<>>)], Void, node.k[4]))
VisitLoop(c, node) ==
  LET demands == <<Coerce(Void), IF node.k[2].n = "Empty" THEN Exactly ELSE Coerce(Boolean), Coerce(Void)>>
  IN  LoopFrom(node, CheckAll(EnterScope(c, "BLOCK"), demands, SubSeq(node.k, 1, 3)))
CommonType(then, else) ==
  CASE IsSameOrBaseTypeOf(then, else) -> then
    [] IsSameOrBaseTypeOf(else, then) -> else
    [] CheckCoercion(then, else) -> then
    [] CheckCoercion(else, then) -> else
    [] OTHER -> Void
IfWith(node, r, common) == Finish(CheckAll(r, <<Exactly, Coerce(common), Coerce(common)>>, r.out), node, common, "")
IfOf(node, r) == IF r.err THEN r ELSE IfWith(node, r, CommonType(r.out[2].ty, r.out[3].ty))
VisitIf(c, node) == IfOf(node, CheckAll(c, <<Coerce(Boolean), Exactly, Exactly>>, node.k))

(* The patterns of a case are constants of one type, none given twice.        *)
NotConst == Node("NotConst", <<>>, <<>>)
FoldedOf(node, k) ==
  CASE node.n \in {"String", "Number", "Regex"} -> node
    [] \E i \in DOMAIN k : k[i] = NotConst -> NotConst
    [] node.n = "Apply" /\ node.ty = IntType /\ node.v = <<"MINUS">> -> [k[1] EXCEPT !.v = <<Text(-IntOf[k[1].v[1]])>>]
    [] node.n = "Apply" /\ node.ty = IntType /\ node.v = <<"NOT">> -> [k[1] EXCEPT !.v = <<Text(-IntOf[k[1].v[1]] - 1)>>]
    [] node.n = "Apply" /\ node.ty = IntType /\ node.v = <<"PLUS">> -> k[1]
    [] node.n = "StringExpr" -> Literal("String", FlattenSeq([i \in DOMAIN k |-> k[i].v]), String)
    [] node.n = "Embed" /\ node.a = NoMethod -> k[1]
    [] OTHER -> NotConst
FoldConst(node) == FoldedOf(node, [i \in DOMAIN node.k |-> FoldConst(node.k[i])])
PatternType(node) == IF node.ty = Regex THEN String ELSE node.ty
Patterns(arms) == FlattenSeq([i \in DOMAIN arms |-> Front(arms[i].k)])
AllFit(ty, nodes) == \A i \in DOMAIN nodes : Fits(ty, nodes[i].ty)
FirstIn(types, nodes) ==
  IF types = {} THEN Void
  ELSE nodes[CHOOSE i \in DOMAIN nodes : nodes[i].ty \in types /\ \A j \in 1 .. i - 1 : nodes[j].ty \notin types].ty
ArmType(nodes) == FirstIn({ty \in Range(Tys(nodes)) : AllFit(ty, nodes)}, nodes)
Elses(arms) == {i \in DOMAIN arms : Len(arms[i].k) = 1}
MatchedByMap(folded) == SelectSeq(folded, LAMBDA n : n.n # "Regex")
Distinct(constants) ==
  IsInjective([i \in DOMAIN constants |-> constants[i].v]) /\ \A i \in DOMAIN constants : constants[i].n = constants[1].n
PatternsOK(patterns, folded, on) ==
  /\ \A i \in DOMAIN patterns : PatternType(patterns[i]) = PatternType(patterns[1]) /\ folded[i] # NotConst
  /\ Distinct(MatchedByMap(folded)) /\ IsSameOrBaseTypeOf(PatternType(patterns[1]), on)
ArmsFrom(arms, i) == Len(Patterns(SubSeq(arms, 1, i - 1)))
TypedArms(arms, folded, actions, ty) ==
  [i \in DOMAIN arms |-> Typed(arms[i], SubSeq(folded, ArmsFrom(arms, i) + 1, ArmsFrom(arms, i) + Len(arms[i].k) - 1) \o <<actions[i]>>, ty, "")]
CaseKind(patterns) == IF \E i \in DOMAIN patterns : patterns[i].ty = Regex THEN "IF_ELSE" ELSE "MAP"
CaseOf(node, e, p, folded, r, ty) ==
  IF r.err THEN r
  ELSE Demand(Gives(r, Typed(node, <<e.out>> \o TypedArms(Tail(node.k), folded, r.out, ty), ty, CaseKind(p.out))),
              ty = Void \/ Elses(Tail(node.k)) # {})
CaseWith(node, e, p, folded, acts, ty) == CaseOf(node, e, p, folded, CheckEach(acts, Coerce(ty), acts.out), ty)
CaseActs(node, e, p, folded, acts) ==
  IF acts.err THEN acts ELSE CaseWith(node, e, p, folded, acts, ArmType(acts.out))
CaseFolded(node, e, p, folded) ==
  LET on == IF IsOption(e.out.ty) THEN Element(e.out.ty) ELSE e.out.ty
      arms == Tail(node.k)
  IN  IF ~PatternsOK(p.out, folded, on) THEN Raise(p)
      ELSE CaseActs(node, e, p, folded, CheckEach(p, Exactly, [i \in DOMAIN arms |-> Last(arms[i].k)]))
CasePatterns(node, e, p) ==
  IF p.err \/ p.out = <<>> \/ Cardinality(Elses(Tail(node.k))) > 1 THEN Raise(p)
  ELSE CaseFolded(node, e, p, [i \in DOMAIN p.out |-> FoldConst(p.out[i])])
CaseOn(node, e) == IF e.err THEN e ELSE CasePatterns(node, e, CheckEach(e, Expr, Patterns(Tail(node.k))))
VisitCase(c, node) == CaseOn(node, AsExpr(c, node.k[1]))

(* Jumps say in a whether they leave a try inside the loop.                   *)
LeavesInside(c, level) == Level(c, level) > Level(c, "loop")
Refused(c, kind) ==
  CASE kind \in {"BREAK", "CONTINUE"} -> Level(c, "loop") = 0 \/ LeavesInside(c, "finally") \/ LeavesInside(c, "child")
    [] kind = "RETURN" -> Level(c, "finally") > 0 \/ Level(c, "child") > 0 \/ c.ret = NoType
    [] OTHER -> Level(c, "finally") > 0
Carried(c, kind, ty) == (* what a break carries *)
  IF kind = "BREAK" THEN [c EXCEPT !.breaks[Len(c.breaks)] = Append(@, ty)] ELSE c
JumpOf(node, value, leavesTry) ==
  CASE value.err \/ (node.v[1] = "RETURN" /\ value.out.ty = Void /\ node.k # <<>>) -> Raise(value)
    [] ~value.err /\ node.k = <<>> -> Gives(value, Typed(node, <<>>, Nothing, leavesTry))
    [] OTHER -> Gives(Carried(value, node.v[1], value.out.ty), Typed(node, <<value.out>>, Nothing, leavesTry))
JumpValue(c, node) ==
  CASE node.v[1] = "RETURN" -> Require(c.ret) [] node.v[1] = "THROW" -> Require(AnyType)
    [] OTHER -> IF node.k = <<>> THEN Exactly ELSE Some
VisitJump(c, node) ==
  IF Refused(c, node.v[1]) THEN Raise(c)
  ELSE JumpOf(node, CheckAs(c, JumpValue(c, node), IF node.k = <<>> THEN Empty ELSE node.k[1]), LeavesInside(c, "try"))

(* Try: the catch blocks must fit the type of the block or all are Void; a    *)
(* finally block has no value and ends; a catch block can be reached.         *)
CatchOf(node, type, scope, block) ==
  IF block.err THEN block
  ELSE Gives(ExitScope(block), Typed(node, <<type.out, block.out>>, block.out.ty, Lookup(scope, node.v[1])))
CatchIn(node, type, scope) == CatchOf(node, type, scope, CheckBlock(scope, NoType, node.k[2]))
Catching(node, type) ==
  IF type.err \/ IsOption(type.out.ty) THEN Raise(type)
  ELSE CatchIn(node, type, Define(EnterScope(type, "BLOCK"), node.v[1], type.out.ty, {"ro"}))
VisitCatch(c, node) ==
  Catching(node, IF node.k[1].n = "Empty" THEN Gives(c, Typed(BaseTypeNode(<<"Any">>), <<>>, AnyType, "")) ELSE AsSomeExpr(c, node.k[1]))
Inner(node) == IF node.n = "TypeOp" THEN node.k[1] ELSE node
Caught(catch) == Inner(catch).k[1].ty
Unreachable(catches) == \E i \in 1 .. Len(catches) - 1 : IsSameOrBaseTypeOf(Caught(catches[i]), Caught(catches[i + 1]))
FinallyOf(node, r, last, ty) ==
  IF last.err \/ Inner(last.out).k = <<>> \/ last.out.ty = Nothing THEN Raise(last)
  ELSE Gives(LeaveFlow(last), Typed(node, Append(r.out, last.out), ty, ""))
TryOf(node, r, ty) ==
  CASE r.err -> r
    [] ~r.err /\ Unreachable(Tail(r.out)) -> Raise(r)
    [] ~r.err /\ ~Unreachable(Tail(r.out)) /\ node.v # <<"finally">> -> Finish(r, node, ty, "")
    [] OTHER -> FinallyOf(node, r, WithCoercion(IntoFlow(r, "finally"), Void, Last(node.k)), ty)
TryWith(node, inTry, ty) == TryOf(node, CheckEach(LeaveFlow(inTry), Coerce(ty), inTry.out), ty)
TryBlocks(node, inTry) ==
  IF inTry.err THEN inTry ELSE TryWith(node, inTry, IF AllFit(inTry.out[1].ty, inTry.out) THEN inTry.out[1].ty ELSE Void)
Blocks(node) == IF node.v = <<"finally">> THEN Front(node.k) ELSE node.k
VisitTry(c, node) ==
  IF (Blocks(node) = node.k /\ Len(node.k) = 1) \/ node.k[1].k = <<>> THEN Raise(c)
  ELSE TryBlocks(node, CheckEach(IntoFlow(c, "try"), Exactly, Blocks(node)))

(* Variables. A name of the environment is a local that is not on the frame.  *)
DeclOf(node, d) == Finish(d, node, Void, Lookup(d, node.v[2]))
IsEnv(kind) == kind \in {"import-env", "EXPORT_ENV"}
VarDeclOf(node, r) ==
  IF r.err THEN r
  ELSE DeclOf(node, Define(r, node.v[2], IF IsEnv(node.v[1]) THEN String ELSE r.out[1].ty,
                           CASE node.v[1] = "let" -> {"ro"} [] OTHER -> IF IsEnv(node.v[1]) THEN {"env"} ELSE {}))
VisitVarDecl(c, node) == VarDeclOf(node, CheckEach(c, IF IsEnv(node.v[1]) THEN Require(String) ELSE Some, node.k))
AssignableOf(left, node) == IF left.err \/ node.n \notin {"Var", "Access"} THEN Raise(left) ELSE Demand(left, "ro" \notin left.out.a.attrs)
Assignable(c, node) == AssignableOf(AsExpr(c, node), node)
AssignOf(node, left, right) == IF right.err THEN right ELSE Gives(right, Typed(node, <<left.out, right.out>>, Void, ""))
AssignTo(node, left) == IF left.err THEN left ELSE AssignOf(node, left, WithCoercion(left, left.out.ty, node.k[2]))
VisitAssign(c, node) == AssignTo(node, Assignable(c, node.k[1]))
OnStack(ty) == Typed(Empty, <<>>, ty, "")
BackTo(r, ty) == IF r.err \/ r.out.ty = ty THEN r ELSE ResolveCoercion(r, ty)
Operate(c, ty, op, right) == (* the operator on a value the stack has *)
  BackTo(AsExpr(c, BinaryOpNode(op, OnStack(ty), right)), ty)
SelfAssignTo(node, left) == IF left.err THEN left ELSE AssignOf(node, left, Operate(left, left.out.ty, node.v[1], node.k[2]))
VisitSelfAssign(c, node) == SelfAssignTo(node, Assignable(c, node.k[1]))
ElementOf(node, both, get, right, set) ==
  IF set.err THEN set ELSE Gives(set, Typed(node, both.out \o <<get.out, right.out, set.out>>, Void, ""))
ElementSet(node, both, on, get, right) ==
  IF right.err THEN right
  ELSE ElementOf(node, both, get, right, Required(right, Void, MethodCall("set", Append(on, OnStack(get.out.ty)))))
ElementGet(node, both, on, get) ==
  IF get.err THEN get ELSE ElementSet(node, both, on, get, Operate(get, get.out.ty, node.v[1], node.k[2]))
ElementOn(node, both, on) == ElementGet(node, both, on, CallOf(both, "index", on))
ElementAt(node, both) == IF both.err THEN both ELSE ElementOn(node, both, [i \in 1 .. 2 |-> OnStack(both.out[i].ty)])
VisitElementSelfAssign(c, node) == ElementAt(node, CheckAll(c, <<Expr, Expr>>, node.k[1].k))
EntryOf(assign, value, d, rest, acc) ==
  LET name == assign.k[1].v[1]
      entry == Typed(assign, <<Typed(assign.k[1], <<>>, String, Lookup(d, name)), value.out>>, Void, "")
  IN  CheckEntries(d, rest, Append(acc, entry))
EntryFrom(assign, value, rest, acc) ==
  IF value.err THEN value ELSE EntryOf(assign, value, Define(value, assign.k[1].v[1], String, {"env"}), rest, acc)
CheckEntries(c, assigns, acc) == (* NAME=value before an expression *)
  CASE c.err -> c
    [] ~c.err /\ assigns = <<>> -> [c EXCEPT !.out = acc]
    [] OTHER -> EntryFrom(Head(assigns), Required(c, String, Head(assigns).k[2]), Tail(assigns), acc)
PrefixOf(node, scope, entries, body) ==
  IF body.err THEN body
  ELSE Gives(ExitScope(body), Typed(node, Append(entries.out, body.out), body.out.ty, [base |-> BaseIndex(scope)]))
PrefixBody(node, scope, entries) == IF entries.err THEN entries ELSE PrefixOf(node, scope, entries, Check(entries, Last(node.k)))
PrefixIn(node, scope) == PrefixBody(node, scope, CheckEntries(scope, Front(node.k), <<>>))
Alone(node, values) == IF values.err THEN values ELSE Finish(CheckEach(values, Exactly, node.k), node, Void, "")
VisitPrefixAssign(c, node) ==
  IF Last(node.k).n # "Assign" THEN PrefixIn(node, Define(EnterScope(c, "BLOCK"), "%%env", AnyType, {"ro"}))
  ELSE Alone(node, CheckEach(c, Require(String), [i \in DOMAIN node.k |-> node.k[i].k[1]]))

(* Functions and commands are declared at the top level only; the locals of   *)
(* each begin at zero. A body that may reach its end returns there.           *)
IntoFunc(c, ret) == EnterScope(EnterScope([c EXCEPT !.ret = ret, !.max = 0], "FUNC"), "BLOCK")
OutOfFunc(r, c) == [ExitScope(ExitScope(r)) EXCEPT !.ret = NoType, !.max = c.max]
DefineAll(c, names, tys, attrs) ==
  FoldLeft(LAMBDA acc, i : IF acc.err THEN acc ELSE Define(acc, names[i], tys[i], attrs), c, [i \in DOMAIN names |-> i])
Return(k) == Typed(JumpNode("RETURN", <<>>), k, Nothing, FALSE)
Returning(block, k) == [block EXCEPT !.k = Append(@, Return(k)), !.ty = Nothing]
FunctionDone(c, node, ty, body, block) ==
  Demand(Gives(OutOfFunc(body, c), Typed(node, <<block>>, Void, [ty |-> ty, params |-> Len(node.k) - 2])), block.ty = Nothing)
FunctionWith(c, node, ty, body) ==
  IF body.err THEN Raise(body)
  ELSE FunctionDone(c, node, ty, body, IF ty.e[1] = Void /\ body.out.ty # Nothing THEN Returning(body.out, <<>>) ELSE body.out)
FunctionBody(c, node, ty, inner) == IF inner.err THEN Raise(inner) ELSE FunctionWith(c, node, ty, CheckBlock(inner, Void, Last(node.k)))
FunctionIn(c, node, ty, named) ==
  IF named.err THEN named
  ELSE FunctionBody(c, node, ty, DefineAll(IntoFunc(named, ty.e[1]), [i \in 1 .. Len(node.k) - 2 |-> node.k[i].v[1]], Tail(ty.e), {}))
FunctionAs(c, node, types, ty) ==
  IF types.err \/ ty = NoType THEN Raise(types) ELSE FunctionIn(c, node, ty, Define(types, node.v[1], ty, {"func", "ro"}))
FunctionOfTypes(c, node, types) ==
  FunctionAs(c, node, types, IF types.err THEN NoType ELSE FuncType(types.out[1].ty, Tail(Tys(types.out))))
VisitFunction(c, node) ==
  LET params == SubSeq(node.k, 1, Len(node.k) - 2)
      written == <<node.k[Len(node.k) - 1]>> \o [i \in DOMAIN params |-> params[i].k[1]]
  IN  IF c.depth # 1 THEN Raise(c) ELSE FunctionOfTypes(c, node, CheckAll(c, <<Exactly>> \o Each(Some, params), written))
UDCNames == <<"%%attr", "%%redir", "@", "#">>
CmdOf(c, node, body, status) ==
  Gives(OutOfFunc(body, c), Typed(node, <<IF body.out.ty = Nothing THEN body.out ELSE Returning(body.out, <<status.out>>)>>, Void,
                                  [ty |-> AnyType, params |-> 4]))
CmdWith(c, node, body) == IF body.err THEN body ELSE CmdOf(c, node, body, Check(body, VarNode(<<"?">>)))
CmdIn(c, node, named) ==
  IF named.err THEN Raise(named)
  ELSE CmdWith(c, node, CheckBlock(DefineAll(IntoFunc(named, IntType), UDCNames, <<AnyType, AnyType, StringArray, IntType>>, {"ro"}), Void, node.k[1]))
VisitUserDefinedCmd(c, node) == IF c.depth # 1 THEN Raise(c) ELSE CmdIn(c, node, Define(c, "cmd:" \o node.v[1], AnyType, {"ro"}))

Visit(c, node) ==
  CASE node.n = "Empty" -> Gives(c, Now(node, Void))
    [] node.n = "Number" -> Gives(c, Now(node, IF node.v[1] \in DOMAIN IntOf THEN IntType ELSE Float))
    [] node.n \in {"String", "WildCard"} -> Gives(c, Now(node, String))
    [] node.n = "Regex" -> Gives(c, Now(node, Regex))
    [] node.n = "StringExpr" -> VisitStringExpr(c, node)
    [] node.n = "Array" -> VisitArray(c, node)
    [] node.n = "Map" -> VisitMap(c, node)
    [] node.n = "Tuple" -> VisitTuple(c, node)
    [] node.n = "Var" -> VisitVar(c, node)
    [] node.n = "Access" -> VisitAccess(c, node)
    [] node.n = "TypeOp" -> VisitTypeOp(c, node)
    [] node.n = "UnaryOp" -> VisitUnaryOp(c, node)
    [] node.n = "BinaryOp" -> VisitBinaryOp(c, node)
    [] node.n = "Apply" -> VisitApply(c, node)
    [] node.n = "New" -> VisitNew(c, node)
    [] node.n = "Embed" -> VisitEmbed(c, node)
    [] node.n = "Cmd" -> VisitCmd(c, node)
    [] node.n = "CmdArg" -> VisitCmdArg(c, node)
    [] node.n = "ArgArray" -> Finish(CheckAll(c, Each(Expr, node.k), node.k), node, StringArray, "")
    [] node.n = "Redir" -> VisitRedir(c, node)
    [] node.n = "Pipeline" -> VisitPipeline(c, node)
    [] node.n = "With" -> VisitWith(c, node)
    [] node.n \in {"Fork", "CmdSub", "ProcSub"} -> VisitFork(c, node)
    [] node.n = "Assert" -> VisitAssert(c, node)
    [] node.n = "Block" -> VisitBlock(c, node)
    [] node.n = "TypeAlias" -> VisitTypeAlias(c, node)
    [] node.n = "Loop" -> VisitLoop(c, node)
    [] node.n = "If" -> VisitIf(c, node)
    [] node.n = "Case" -> VisitCase(c, node)
    [] node.n = "Jump" -> VisitJump(c, node)
    [] node.n = "Catch" -> VisitCatch(c, node)
    [] node.n = "Try" -> VisitTry(c, node)
    [] node.n = "VarDecl" -> VisitVarDecl(c, node)
    [] node.n = "Assign" -> VisitAssign(c, node)
    [] node.n = "SelfAssign" -> VisitSelfAssign(c, node)
    [] node.n = "ElementSelfAssign" -> VisitElementSelfAssign(c, node)
    [] node.n = "PrefixAssign" -> VisitPrefixAssign(c, node)
    [] node.n = "Function" -> VisitFunction(c, node)
    [] node.n = "UserDefinedCmd" -> VisitUserDefinedCmd(c, node)
    [] node.n \in {"Type", "Reified", "FuncType", "Returns", "TypeOf"} -> VisitType(c, node)
    [] OTHER -> Raise(c)

(* A statement of the top level: its value is dropped, or printed.            *)
MayBeCmd(node) == node.n = "Cmd" \/ (node.n = "Pipeline" /\ Last(node.k).n = "Cmd")
Printing(e) == IF e.ty \in {Void, Nothing} THEN e ELSE [Cast(e, Void) EXCEPT !.a = "PRINT"]
ToBePrinted(r) == Gives(r, Printing(r.out))
AtTopLevel(r, node, printing) ==
  CASE r.err -> r
    [] ~r.err /\ (~printing \/ MayBeCmd(node)) -> Coerced(r, Void)
    [] OTHER -> ToBePrinted(r)
CheckTopLevel(c, previous, node, printing) ==
  IF previous = Nothing THEN Raise(c) ELSE AtTopLevel(Check(c, node), node, printing)
=============================================================================
