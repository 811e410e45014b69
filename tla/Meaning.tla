------------------------------- MODULE Meaning -------------------------------
(* What a script means, read off its typed tree: names are looked up in the   *)
(* scopes that enclose them, a block ends with what it declared gone, a       *)
(* finally block runs however its block ends, and what stands around a        *)
(* command, redirections and assignments, is in force while it runs and at    *)
(* no other time. There are no instructions, operands, indices or jumps here: *)
(* this is what Codegen and Machine together must come to. The methods and    *)
(* the outside world are those of Objects.                                    *)
EXTENDS Objects

(* A state: the world, the scopes, what is in force around commands, values   *)
(* that wait for the right side of an assignment, how the last node ended     *)
(* and with what, and the functions there are.                                *)
Begin(world, functions) ==
  [w |-> world, scopes |-> <<>>, ctx |-> <<>>, holes |-> <<>>, how |-> "go", v |-> NoVal, vs |-> <<>>, calls |-> 0, fns |-> functions]
Go(s, v) == [s EXCEPT !.v = v]
Throws(s, v) == [s EXCEPT !.how = "throw", !.v = v]
Raises(s, name) == Throws(s, Val(T(name), <<name>>))
From(s, r) == (* the outcome of a native method *)
  IF r.err = "" THEN [s EXCEPT !.w = r.w, !.v = r.ret] ELSE Raises([s EXCEPT !.w = r.w], r.err)
Within(s, r) == (* what r comes to, once the scopes and contexts it opened are gone *)
  [r EXCEPT !.scopes = SubSeq(@, 1, Len(s.scopes)), !.ctx = SubSeq(@, 1, Len(s.ctx)), !.holes = s.holes]
Open(s) == [s EXCEPT !.scopes = Append(@, <<>>)]
Bind(s, name, v) == [s EXCEPT !.scopes[Len(s.scopes)] = (name :> v) @@ @, !.v = NoVal]
ScopeOf(s, name) == CHOOSE i \in DOMAIN s.scopes : name \in DOMAIN s.scopes[i] /\ \A j \in i + 1 .. Len(s.scopes) : name \notin DOMAIN s.scopes[j]
Iterators(s) == UNION {{v.v[1] : v \in {x \in Range(scope) : x.v # <<>>}} : scope \in Range(s.scopes)} \cap DOMAIN s.w.heap

(* The environment: the innermost assignment in front of a command that has   *)
(* the name, or else the shell's own.                                         *)
Holders(s, name) == {i \in DOMAIN s.ctx : s.ctx[i][1] = "env" /\ \E j \in 2 .. Len(s.ctx[i]) : s.ctx[i][j][1] = name}
Inner1(set) == CHOOSE i \in set : \A j \in set : j <= i
EnvAt(s, i, name) == CHOOSE j \in 2 .. Len(s.ctx[i]) : s.ctx[i][j][1] = name
Env(s, name) ==
  LET at == Holders(s, <<name>>)
  IN  IF at # {} THEN s.ctx[Inner1(at)][EnvAt(s, Inner1(at), <<name>>)][2] ELSE IF name \in DOMAIN s.w.env THEN s.w.env[name] ELSE Invalid
PutEnv(s, name, v) ==
  LET at == Holders(s, <<name>>)
  IN  IF at # {} THEN [s EXCEPT !.ctx[Inner1(at)][EnvAt(s, Inner1(at), <<name>>)][2] = v] ELSE [s EXCEPT !.w.env = (name :> v) @@ @]

Get(s, node) ==
  LET name == node.v[1]
  IN  CASE "env" \in node.a.attrs -> IF Env(s, name) = Invalid THEN Raises(s, "IllegalAccessError") ELSE Go(s, Env(s, name))
        [] "env" \notin node.a.attrs /\ "global" \in node.a.attrs ->
             IF name \in DOMAIN s.w.globals THEN Go(s, s.w.globals[name]) ELSE Raises(s, "IllegalAccessError")
        [] OTHER -> Go(s, s.scopes[ScopeOf(s, name)][name])
Put(s, node, v) ==
  LET name == node.v[1]
      r == CASE "env" \in node.a.attrs -> PutEnv(s, name, v)
             [] "env" \notin node.a.attrs /\ "global" \in node.a.attrs -> [s EXCEPT !.w.globals = (name :> v) @@ @]
             [] OTHER -> [s EXCEPT !.scopes[ScopeOf(s, name)][name] = v]
  IN  Go(r, NoVal)

RECURSIVE Eval(_, _), Iterate(_, _)
Onward(s, node) == IF s.how = "go" THEN Eval(s, node) ELSE s
Statements(s, nodes) == FoldLeft(LAMBDA r, node : Onward(r, node), Go(s, NoVal), nodes)
Valued(r, vs) == [r EXCEPT !.vs = Append(vs, r.v)]
EvalAll(s, nodes) ==
  FoldLeft(LAMBDA r, node : IF r.how = "go" THEN Valued(Eval(r, node), r.vs) ELSE r, [s EXCEPT !.vs = <<>>], nodes)
Method1(s, name, args) == From(s, Invoke(s.w, Iterators(s), name, args))

(* Strings made of pieces.                                                    *)
Piece(r, text) ==
  CASE r.how # "go" -> r
    [] r.how = "go" /\ text = <<>> -> Go(r, Str(r.v.v))
    [] OTHER -> From(r, Concat(r.w, Str(text), r.v))
Pieces(s, nodes) ==
  FoldLeft(LAMBDA r, node : IF r.how = "go" THEN Piece(Eval(r, node), r.v.v) ELSE r, Go(s, Str(<<>>)), nodes)

(* Children: each starts from what its parent has and changes none of it but  *)
(* what it says.                                                              *)
ExitOf(r) ==
  CASE r.how = "throw" /\ r.v.t.n = "Shell Exit" -> r.v.v[1]
    [] r.how = "throw" /\ r.v.t.n # "Shell Exit" -> "1"
    [] OTHER -> r.w.globals["?"].v[1]
EndOf(s, r, t) == Ended(s.w, t, ExitOf(r), r.w.log)
Child(s, node, t) == EndOf(s, Eval([s EXCEPT !.w.log = <<>>], node), t)
Stages(s, nodes, t) == FoldLeft(LAMBDA r, node : [r EXCEPT !.w.log = Child(r, node, t).w.log], s, nodes)
LastChild(s, child) == [s EXCEPT !.w = child.w, !.v = child.ret]
LastStage(s, node, t) == LastChild(s, Child(s, node, t))
Processes(s, nodes, t) == LastStage(Stages(s, Front(nodes), t), Last(nodes), t)
Forked(s, node) ==
  Processes(s, IF node.k[1].n = "Pipeline" /\ node.n # "CmdSub" THEN node.k[1].k ELSE node.k, node.ty)
Pipeline(s, node) ==
  IF node.v # <<"inFork">> /\ Last(node.k).n # "Cmd" THEN Eval(Stages(s, Front(node.k), T("pipe%%")), Last(node.k))
  ELSE Processes(s, node.k, Boolean)

(* Commands: the arguments and the redirections in the order they are         *)
(* written (acc); what is in force, the outermost first.                      *)
IsWild(node) == node.n = "WildCard"
Found(k, vs) == (* the pieces of an argument, what a pattern finds in between *)
  FlattenSeq([i \in DOMAIN k |-> IF IsWild(k[i]) THEN <<"found">> ELSE vs[Cardinality({j \in 1 .. i : ~IsWild(k[j])})].v])
GlobArg(acc, k, r) ==
  CASE r.how # "go" -> [acc EXCEPT !.r = r]
    [] r.how = "go" /\ (\E i \in DOMAIN r.vs : r.vs[i].v = <<"nowhere">>) -> [acc EXCEPT !.r = Raises(r, "SystemError")]
    [] OTHER -> [acc EXCEPT !.r = r, !.args = Append(@, Str(Found(k, r.vs)))]
WordArg(acc, r) ==
  CASE r.how # "go" -> [acc EXCEPT !.r = r]
    [] r.how = "go" /\ r.v.t = UnixFD -> [r |-> r, args |-> Append(acc.args, Str(r.v.v)), redirs |-> Append(acc.redirs, Val(T("NOP"), r.v.v))]
    [] r.how = "go" /\ r.v.t = StringArray -> [acc EXCEPT !.r = r, !.args = @ \o SelectSeq(Obj(r.w, r.v).items, LAMBDA e : e.v # <<>>)]
    [] OTHER -> [acc EXCEPT !.r = r, !.args = Append(@, r.v)]
Argument(acc, k) ==
  IF \E i \in DOMAIN k : IsWild(k[i]) THEN GlobArg(acc, k, EvalAll(acc.r, SelectSeq(k, LAMBDA x : ~IsWild(x))))
  ELSE WordArg(acc, IF Len(k) = 1 THEN Eval(acc.r, k[1]) ELSE Pieces(acc.r, k))
Redirection(acc, name, r) ==
  IF r.how # "go" THEN [acc EXCEPT !.r = r] ELSE [acc EXCEPT !.r = r, !.redirs = Append(@, Val(T(name), r.v.v))]
OneArg(acc, node) ==
  IF node.n = "Redir" THEN Redirection(acc, node.v[1], Pieces(acc.r, IF node.k = <<>> THEN <<>> ELSE node.k[1].k))
  ELSE Argument(acc, node.k)
ArgsOf(s, nodes) ==
  FoldLeft(LAMBDA acc, node : IF acc.r.how = "go" THEN OneArg(acc, node) ELSE acc, [r |-> s, args |-> <<>>, redirs |-> <<>>], nodes)
Redirected(redirs) == IF redirs = <<>> THEN <<>> ELSE <<<<"redir">> \o redirs>>
Fails(redirs) == \E i \in DOMAIN redirs : redirs[i].v = <<"nowhere">>
WithStatus(s, status) == [s EXCEPT !.w.globals = ("?" :> Val(IntType, <<status>>)) @@ @]
TooDeep(s) == s.calls = MaxFrames
Returned(s, r) == [Within(s, r) EXCEPT !.calls = s.calls]
FromUDC(r) == IF r.how # "return" THEN r ELSE WithStatus([r EXCEPT !.how = "go", !.v = Bool(r.v.v[1] = "0")], r.v.v[1])
IntoUDC(s, array, args, redirs) ==
  [WithStatus([s EXCEPT !.w = array.w], "0") EXCEPT
     !.scopes = Append(@, ("@" :> array.ret) @@ ("#" :> Num(Len(args)))), !.ctx = @ \o Redirected(redirs), !.calls = @ + 1]
CallUDC(s, name, args, redirs) ==
  IF TooDeep(s) THEN Raises(s, "StackOverflowError")
  ELSE FromUDC(Returned(s, Eval(IntoUDC(s, Make(s.w, StringArray, Object("array", args)), args, redirs), s.fns["cmd:" \o name].body)))
Ran(s, argv, redirs) ==
  [s EXCEPT !.w.log = Append(@, [what |-> "cmd", argv |-> argv, ctx |-> SelectSeq(s.ctx \o Redirected(redirs), LAMBDA x : Len(x) > 1)])]
RunOutside(s, name, args, redirs) ==
  Go(WithStatus(Ran(s, <<<<name>>>> \o [i \in DOMAIN args |-> args[i].v], redirs), IF name = "false" THEN "1" ELSE "0"), Bool(name # "false"))
RunWith(c, name) ==
  CASE c.r.how # "go" -> c.r
    [] c.r.how = "go" /\ Fails(c.redirs) -> Raises(c.r, "SystemError")
    [] "cmd:" \o name \in DOMAIN c.r.w.globals -> CallUDC(c.r, name, c.args, c.redirs)
    [] name = "exit" -> Throws(c.r, Val(T("Shell Exit"), <<IF c.args # <<>> THEN c.args[1].v[1] ELSE "0">>))
    [] name = "missing" -> Raises(c.r, "SystemError")
    [] OTHER -> RunOutside(c.r, name, c.args, c.redirs)
Command(s, node) == RunWith(ArgsOf(s, node.k), node.v[1])
WithIn(s, c, node) ==
  CASE c.r.how # "go" -> c.r
    [] c.r.how = "go" /\ Fails(c.redirs) -> Raises(c.r, "SystemError")
    [] OTHER -> Within(s, Eval([c.r EXCEPT !.ctx = @ \o Redirected(c.redirs)], node))
With(s, node) == WithIn(s, ArgsOf(s, Tail(node.k)), Head(node.k))
Entered(r, name) == IF r.how = "go" THEN [r EXCEPT !.ctx[Len(r.ctx)] = Append(@, <<name, r.v>>)] ELSE r
ValueToSet(node) == IF node.n = "CmdArg" THEN node.k ELSE <<node>>
Prefix(s, assigns) ==
  FoldLeft(LAMBDA r, a : IF r.how = "go" THEN Entered(Pieces(r, ValueToSet(a.k[2])), a.k[1].v) ELSE r,
           [s EXCEPT !.ctx = Append(@, <<"env">>)], assigns)

(* Operators and casts.                                                       *)
TakesRight(op, v) == (* the right side is what counts *)
  CASE op = "COND_AND" -> IsTrue(v) [] op = "COND_OR" -> ~IsTrue(v)
    [] op = "STR_CHECK" -> v.v = <<>> [] OTHER -> v = Invalid
Both(l, r, node) ==
  CASE r.how # "go" -> r
    [] r.how = "go" /\ IsFunc(node.k[1].ty) -> Go(r, Bool((l.v = r.v) = (node.v = <<"EQ">>)))
    [] OTHER -> From(r, Concat(r.w, l.v, r.v))
RightOf(l, node) ==
  CASE l.how # "go" -> l
    [] l.how = "go" /\ node.v[1] \in {"COND_AND", "COND_OR", "STR_CHECK", "NULL_COALE"} ->
         IF TakesRight(node.v[1], l.v) THEN Eval(l, node.k[2]) ELSE l
    [] OTHER -> Both(l, Eval(l, node.k[2]), node)
BinaryOp(s, node) == RightOf(Eval(s, node.k[1]), node)
Optional(node) == IsOption(node.k[1].ty) \/ IsOption(node.k[2].ty) (* an option is not what it may hold *)
Says(r) == IF r.how = "go" THEN Go([r EXCEPT !.w.log = Append(@, [what |-> "print", argv |-> r.v.v])], NoVal) ELSE r
CastTo(r, to) == (* by the method of the type *)
  Method1(r, CASE to = Float -> "TO_FLOAT" [] to = IntType -> "TO_INT" [] to = Boolean -> "BOOL" [] OTHER -> "STR", <<r.v>>)
TypeOpOn(r, node) ==
  CASE r.how # "go" \/ node.a = "NO_CAST" -> r
    [] r.how = "go" /\ node.a = "TO_VOID" -> Go(r, NoVal)
    [] r.how = "go" /\ node.a \in {"NUM_CAST", "TO_STRING", "TO_BOOL"} -> CastTo(r, node.ty)
    [] r.how = "go" /\ node.a = "CHECK_UNWRAP" -> Go(r, Bool(r.v # Invalid))
    [] r.how = "go" /\ node.a = "CHECK_CAST" -> IF InstanceOf(r.v, node.ty) THEN r ELSE Raises(r, "TypeCastError")
    [] r.how = "go" /\ node.a = "PRINT" -> Says(IF r.v = Invalid THEN Go(r, Str(<<"(invalid)">>)) ELSE Method1(r, "STR", <<r.v>>))
    [] OTHER -> Go(r, Bool(IF Optional(node) THEN IsSameOrBaseTypeOf(node.k[2].ty, node.k[1].ty) ELSE InstanceOf(r.v, node.k[2].ty)))
TypeOp(s, node) == TypeOpOn(Eval(s, node.k[1]), node)

(* Calls.                                                                     *)
Result(r) == IF r.how = "return" THEN [r EXCEPT !.how = "go"] ELSE r
CallDecl(s, decl, args) ==
  Result(Returned(s, Eval([s EXCEPT !.scopes = Append(@, [p \in Range(decl.names) |-> args[CHOOSE i \in DOMAIN args : decl.names[i] = p]]),
                                    !.calls = @ + 1], decl.body)))
CallFunction(s, f, args) == IF TooDeep(s) THEN Raises(s, "StackOverflowError") ELSE CallDecl(s, s.fns[f.v[1]], args)
ApplyTo(r, node) ==
  CASE r.how # "go" -> r
    [] r.how = "go" /\ node.v = <<"call">> -> CallFunction(r, r.vs[1], Tail(r.vs))
    [] OTHER -> Method1(r, node.a.name, r.vs)
Apply(s, node) == ApplyTo(EvalAll(s, node.k), node)

(* Control.                                                                   *)
Goes(s) == [s EXCEPT !.how = "go"]
GoesOn(i, node) == IF i.how = "go" THEN Iterate(i, node) ELSE i
AfterTurn(r, node) == (* a turn of a loop has ended *)
  CASE r.how \in {"go", "continue"} -> GoesOn(Eval(Goes(r), node.k[3]), node)
    [] r.how = "break" -> Goes(r)
    [] OTHER -> r
Turn(s, node) == Within(s, Eval(Open(s), node.k[4]))
TurnIf(c, node) ==
  CASE c.how # "go" -> c
    [] c.how = "go" /\ IsTrue(c.v) -> AfterTurn(Turn(c, node), node)
    [] OTHER -> Go(c, IF node.ty = Void THEN NoVal ELSE Invalid)
Iterate(s, node) == TurnIf(IF node.k[2].n = "Empty" THEN Go(s, Bool(TRUE)) ELSE Eval(s, node.k[2]), node)
AfterFirst(r, node) == (* the turn of a do before its condition *)
  CASE r.how = "break" -> Goes(r)
    [] r.how \in {"go", "continue"} -> Iterate(Goes(r), node)
    [] OTHER -> r
LoopFrom(s, node) == IF node.v = <<"do">> THEN AfterFirst(Turn(s, node), node) ELSE GoesOn(Eval(s, node.k[1]), node)
Loop(s, node) == Within(s, LoopFrom(Open(s), node))
Has(v, p) == v # Invalid /\ IF p.ty = Regex THEN Positions(v.v, p.v) # {} ELSE v.v = p.v
Hits(v, arm) == Len(arm.k) = 1 \/ \E i \in 1 .. Len(arm.k) - 1 : Has(v, arm.k[i])
Arms(s, arms) == (* the first arm with a pattern the value has, else the arm without *)
  LET hit == SelectSeq(arms, LAMBDA a : Hits(s.v, a))
  IN  IF hit = <<>> THEN Go(s, NoVal) ELSE Eval(s, Last(hit[1].k))
ElseLast(arms) == SelectSeq(arms, LAMBDA a : Len(a.k) > 1) \o SelectSeq(arms, LAMBDA a : Len(a.k) = 1)
CaseOn(r, node) == IF r.how = "go" THEN Arms(r, ElseLast(Tail(node.k))) ELSE r
JumpWith(r, word) ==
  IF r.how # "go" THEN r
  ELSE [r EXCEPT !.how = CASE word = "THROW" -> "throw" [] word = "RETURN" -> "return" [] word = "BREAK" -> "break" [] OTHER -> "continue"]
Jump(s, node) == JumpWith(IF node.k = <<>> THEN Go(s, NoVal) ELSE Eval(s, node.k[1]), node.v[1])
Uncast(node) == IF node.n = "TypeOp" THEN node.k[1] ELSE node
Taking(v, catches) == SelectSeq(catches, LAMBDA c : IsSameOrBaseTypeOf(Uncast(c).k[1].ty, v.t))
CaughtBy(s, r, catches) == IF catches = <<>> THEN r ELSE Within(s, Eval(Goes(r), catches[1]))
Caught(s, r, catches) == IF r.how # "throw" THEN r ELSE CaughtBy(s, r, Taking(r.v, catches))
Finally(r, last) == IF last.how # "go" THEN last ELSE [last EXCEPT !.how = r.how, !.v = r.v]
TryFinally(r, block) == Finally(r, Eval(Goes(r), block))
TryBlock(s, block, catches) == Caught(s, Within(s, Eval(s, block)), catches)
Try(s, node) ==
  IF node.v # <<"finally">> THEN TryBlock(s, node.k[1], Tail(node.k))
  ELSE TryFinally(TryBlock(s, node.k[1], SubSeq(node.k, 2, Len(node.k) - 1)), Last(node.k))
Catch(s, node) == Eval(Bind(Open(s), node.v[1], s.v), node.k[2])

(* Declarations and assignments.                                              *)
Declare(r, node) ==
  LET name == node.v[2]
  IN  CASE r.how # "go" -> r
        [] r.how = "go" /\ node.v[1] = "import-env" -> Go(IF Env(r, name) = Invalid THEN PutEnv(r, name, r.v) ELSE r, NoVal)
        [] r.how = "go" /\ node.v[1] = "EXPORT_ENV" -> Go(PutEnv(r, name, r.v), NoVal)
        [] r.how = "go" /\ "global" \in node.a.attrs -> Go([r EXCEPT !.w.globals = (name :> r.v) @@ @], NoVal)
        [] OTHER -> Bind(r, name, r.v)
Imported(s, name) == IF Env(s, name) = Invalid THEN Raises(s, "IllegalAccessError") ELSE Go(s, NoVal)
VarDecl(s, node) == IF node.k = <<>> THEN Imported(s, node.v[2]) ELSE Declare(Eval(s, node.k[1]), node)
Fill(s, vs) == [s EXCEPT !.holes = vs \o @]
Right(s, node, old) == (* what an assignment gives, old the value it had *)
  CASE s.how # "go" -> s
    [] s.how = "go" /\ node.k[2].n = "CmdArg" -> Pieces(s, node.k[2].k)
    [] OTHER -> Eval(IF node.n = "SelfAssign" THEN Fill(s, <<old>>) ELSE s, node.k[2])
PutField(l, r, ix) == IF r.how = "go" THEN Go([r EXCEPT !.w.heap[l.v.v[1]].items[ix] = r.v], NoVal) ELSE r
AssignField(l, node) ==
  IF l.how # "go" THEN l ELSE PutField(l, Right(l, node, Obj(l.w, l.v).items[node.k[1].a.ix]), node.k[1].a.ix)
PutVar(r, left) == IF r.how = "go" THEN Put(r, left, r.v) ELSE r
AssignVar(l, node) == PutVar(Right(l, node, l.v), node.k[1])
Assign(s, node) ==
  IF node.k[1].n = "Access" THEN AssignField(Eval(s, node.k[1].k[1]), node)
  ELSE AssignVar(IF node.n = "SelfAssign" THEN Get(s, node.k[1]) ELSE s, node)
SetElement(new, at, node) == IF new.how = "go" THEN Eval(Fill(new, at.vs \o <<new.v>>), node.k[5]) ELSE new
NewElement(old, at, node) == IF old.how = "go" THEN SetElement(Eval(Fill(old, <<old.v>>), node.k[4]), at, node) ELSE old
OldElement(at, node) == IF at.how = "go" THEN NewElement(Eval(Fill(at, at.vs), node.k[3]), at, node) ELSE at
ElementSelfAssign(s, node) == OldElement(EvalAll(s, SubSeq(node.k, 1, 2)), node)
Declares(s, node) == Go([s EXCEPT !.w.globals = (IF node.n = "Function" THEN node.v[1] ELSE "cmd:" \o node.v[1]) :> Val(node.a.ty, node.v) @@ @], NoVal)

Makes(r, ty, kind, items) == From(r, Make(r.w, ty, Object(kind, items)))
PairsOf(vs) == [i \in 1 .. Len(vs) \div 2 |-> <<vs[2 * i - 1], vs[2 * i]>>]
LastOf(pairs, key) == pairs[CHOOSE i \in DOMAIN pairs : pairs[i][1] = key /\ \A j \in i + 1 .. Len(pairs) : pairs[j][1] # key]
Keys(pairs) == FoldLeft(LAMBDA keys, p : IF p[1] \in Range(keys) THEN keys ELSE Append(keys, p[1]), <<>>, pairs)
EntriesOf(pairs) == [n \in DOMAIN Keys(pairs) |-> LastOf(pairs, Keys(pairs)[n])]
MadeOf(r, node) ==
  CASE r.how # "go" -> r
    [] r.how = "go" /\ node.n = "Tuple" -> Makes(r, node.ty, "tuple", r.vs)
    [] r.how = "go" /\ node.n = "Map" -> Makes(r, node.ty, "map", EntriesOf(PairsOf(r.vs)))
    [] OTHER -> Makes(r, node.ty, "array", r.vs)
ArgArray(c, node) == IF c.r.how = "go" THEN Makes(c.r, node.ty, "array", c.args) ELSE c.r
AfterOne(r, node) == (* what is done with the value of the node inside *)
  CASE r.how # "go" -> r
    [] r.how = "go" /\ node.n = "Access" -> Go(r, Obj(r.w, r.v).items[node.a.ix])
    [] r.how = "go" /\ node.n = "UnaryOp" -> IF r.v = Invalid THEN Raises(r, "UnwrappingError") ELSE r
    [] r.how = "go" /\ node.n = "Embed" -> IF node.a = NoMethod THEN r ELSE Method1(r, node.a.name, <<r.v>>)
    [] OTHER -> Eval(r, IF IsTrue(r.v) THEN node.k[2] ELSE node.k[3])
Asserted(r) ==
  IF r.how # "go" THEN r ELSE IF IsTrue(r.vs[1]) THEN Go(r, NoVal) ELSE Throws(r, Val(T("Assertion Error"), <<>>))

Eval(s, node) ==
  CASE node.n = "Empty" -> IF node.ty = Void THEN Go(s, NoVal) ELSE [s EXCEPT !.v = Head(s.holes), !.holes = Tail(@)]
    [] node.n = "TypeAlias" -> Go(s, NoVal)
    [] node.n \in {"Number", "String", "Regex"} -> Go(s, Val(node.ty, node.v))
    [] node.n = "StringExpr" -> Pieces(s, node.k)
    [] node.n \in {"Array", "Tuple", "Map"} -> MadeOf(EvalAll(s, node.k), node)
    [] node.n = "Var" -> Get(s, node)
    [] node.n \in {"Access", "UnaryOp", "Embed", "If"} -> AfterOne(Eval(s, node.k[1]), node)
    [] node.n = "TypeOp" -> TypeOp(s, node)
    [] node.n = "BinaryOp" -> BinaryOp(s, node)
    [] node.n = "Apply" -> Apply(s, node)
    [] node.n = "New" -> IF IsOption(node.ty) THEN Go(s, Invalid) ELSE Makes(s, node.ty, IF node.ty.n = "Map" THEN "map" ELSE "array", <<>>)
    [] node.n = "Cmd" -> Command(s, node)
    [] node.n = "ArgArray" -> ArgArray(ArgsOf(s, node.k), node)
    [] node.n = "Pipeline" -> Pipeline(s, node)
    [] node.n = "With" -> With(s, node)
    [] node.n \in {"Fork", "CmdSub", "ProcSub"} -> Forked(s, node)
    [] node.n = "Assert" -> Asserted(EvalAll(s, node.k))
    [] node.n = "Block" -> Within(s, Statements(Open(s), node.k))
    [] node.n = "Loop" -> Loop(s, node)
    [] node.n = "Case" -> CaseOn(Eval(s, node.k[1]), node)
    [] node.n = "Jump" -> Jump(s, node)
    [] node.n = "Catch" -> Catch(s, node)
    [] node.n = "Try" -> Try(s, node)
    [] node.n = "VarDecl" -> VarDecl(s, node)
    [] node.n \in {"Assign", "SelfAssign"} -> Assign(s, node)
    [] node.n = "ElementSelfAssign" -> ElementSelfAssign(s, node)
    [] node.n = "PrefixAssign" ->
         IF Last(node.k).n = "Assign" THEN Statements(s, node.k) ELSE Within(s, Onward(Prefix(s, Front(node.k)), Last(node.k)))
    [] OTHER -> Declares(s, node)
=============================================================================
