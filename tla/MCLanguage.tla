----------------------------- MODULE MCLanguage -----------------------------
(* Small scripts through the checker, the code generator and the machine:     *)
(* every expression of two operators one in the other, and every statement of *)
(* three constructs one in the other, in a shell that has a few variables, a  *)
(* function and a command. What the machine does is compared with what the    *)
(* script means.                                                              *)
EXTENDS Machine, Codegen

Ref == INSTANCE Meaning

CONSTANTS
  MaxExpressions,  \* bound: expressions one in the other
  MaxStatements    \* bound: statements one in the other

VARIABLES tree, kind, depth, shell, meant

Var(x) == VarNode(<<x>>)
Lit(i) == NumberNode(<<Text(i)>>)
Word(w) == StringNode(<<w>>)
Arg(k) == CmdArgNode(k)
Cmd(name, args) == CmdNode(<<name>>, args)
Echo(w) == Cmd("echo", <<Arg(<<Word(w)>>)>>)
Binary(op, l, r) == BinaryOpNode(op, l, r)
Block1(k) == BlockNode(k)
Decl(name, t) == VarDeclNode("var", <<name>>, <<t>>)
TypeNode(name) == BaseTypeNode(<<name>>)
Reified1(name, k) == ReifiedTypeNode(<<name>>, k)
OptInt == Reified1("Option", <<TypeNode("Int")>>)
Redir(k) == RedirNode("REDIR_OUT_2_FILE", k)
Into(w) == Redir(<<Arg(<<Word(w)>>)>>)
Apply1(name, k) == ApplyNode(k[1], <<name>>, Tail(k))
Assign1(l, r) == AssignNode(l, r)
Self(op, l, r) == SelfAssignNode(op, l, r)
Arm(k) == ArmNode(Front(k), Last(k))
If1(c, t, e) == IfNode(c, t, e)
ForIn(x, t, k) == CreateForInNode(<<x>>, t, Block1(k))
EnvOf(k) == PrefixAssignNode(<<Assign1(Var("E"), Arg(<<Word("x")>>))>>, <<k>>)

(* The shell: its variables, f, which has a try and a finally, g, which never *)
(* ends, and the command c.                                                   *)
Param(x, t) == ParamNode(<<x>>, TypeNode(t))
FunctionOf(name, params, ret, k) == FunctionNode(<<name>>, params, TypeNode(ret), <<Block1(k)>>)
Return1Of(k) == JumpNode("RETURN", k)
Shell ==
  <<FunctionOf("f", <<Param("x", "Int")>>, "Int",
      <<TryFinallyNode(Block1(<<Decl("y", Binary("ADD", Var("x"), Lit(1))), Return1Of(<<Var("y")>>)>>), <<>>, Block1(<<Echo("f")>>))>>),
    FunctionOf("g", <<Param("x", "Int")>>, "Int", <<Return1Of(<<Apply1("call", <<Var("g"), Var("x")>>)>>)>>),
    UserDefinedCmdNode(<<"c">>, Block1(<<Decl("y", Var("#")), Cmd("echo", <<Arg(<<EmbedNode(Var("@"))>>)>>), Cmd("false", <<>>)>>))>>
Typing0 ==
  [i |-> IntType, b |-> Boolean, s |-> String, o |-> Type("Option", <<IntType>>), a |-> Type("Array", <<IntType>>),
   n |-> Type("Map", <<String, IntType>>)] @@ ("?" :> IntType)
Declared == FoldLeft(LAMBDA c, x : Define(c, x, Typing0[x], {}), Checker, <<"i", "b", "s", "o", "a", "n", "?">>)
NameOf(node) == IF node.n = "Function" THEN node.v[1] ELSE "cmd:" \o node.v[1]
Named1(nodes, F(_)) == FoldLeft(LAMBDA acc, node : (NameOf(node) :> F(node)) @@ acc, <<>>, nodes)
ParamsOf(node) == [i \in 1 .. Len(node.k) - 2 |-> node.k[i].v[1]]
Meanings(nodes, sources) ==
  FoldLeft(LAMBDA acc, i : (NameOf(nodes[i]) :> [names |-> ParamsOf(sources[i]), body |-> nodes[i].k[1]]) @@ acc, <<>>, [i \in DOMAIN nodes |-> i])
WorldOf(nodes) ==
  LET a == Make(World, Typing0["a"], Object("array", <<Num(1), Num(2)>>))
      n == Make(a.w, Typing0["n"], Object("map", <<<<Str(<<"k">>), Num(1)>>, <<Str(<<"l">>), Num(2)>>>>))
  IN  [n.w EXCEPT !.globals = [i |-> Num(2), b |-> Bool(TRUE), s |-> Str(<<"a">>), o |-> Invalid, a |-> a.ret, n |-> n.ret]
                              @@ ("?" :> Num(0)) @@ Named1(nodes, LAMBDA node : Val(node.a.ty, node.v)),
                  !.env = [P |-> Str(<<"p">>)]]
ReadyWith(compiled) ==
  [checker |-> compiled, code |-> Named1(compiled.out, FunctionCode), meanings |-> Meanings(compiled.out, Shell), world |-> WorldOf(compiled.out)]
Ready == ReadyWith(CheckEach(Declared, Exactly, Shell))

(* Expressions around an expression.                                          *)
Atoms == {Lit(3), Var("i"), Var("s"), Var("o"), Var("b"), Var("a"), Var("n"), Word("a"), TypeOpNode("as", Var("s"), TypeNode("Any")), Echo("a"), Cmd("missing", <<>>), Apply1("call", <<Var("f"), Lit(1)>>)}
Around(t) ==
  UNION {{Binary(op, t, Var("i")), Binary(op, Var("i"), t)} : op \in {"ADD", "MUL", "LT", "EQ"}}
  \cup {Binary("ADD", t, Var("s")), Binary("ADD", Word("a"), t), Binary("STR_CHECK", t, Word("d")), Binary("STR_CHECK", Word(""), t),
        Binary("COND_AND", t, Var("b")), Binary("COND_AND", Var("b"), t), Binary("COND_OR", t, Var("b")), Binary("COND_OR", Cmd("false", <<>>), t),
        Binary("NULL_COALE", t, Lit(4)), Binary("NULL_COALE", Var("o"), t), UnaryOpNode("UNWRAP", t)}
  \cup {UnaryOpNode(op, t) : op \in {"NOT", "MINUS"}}
  \cup {TypeOpNode(op, t, ty) : op \in {"as", "is"}, ty \in {OptInt, TypeNode("Any"), TypeNode("String"), TypeNode("Int"), TypeNode("Void")}}
  \cup {ArrayNode(<<Lit(1), t>>), ArrayNode(<<t, t>>), MapNode(<<t, Lit(1), Word("a"), Lit(2)>>),
        MapNode(<<Word("a"), t>>), TupleNode(<<t, Var("i")>>), AccessNode(TupleNode(<<t>>), <<"_0">>)}
  \cup {Apply1("index", <<t, Lit(0)>>), Apply1("index", <<Var("a"), t>>), Apply1("index", <<Var("n"), t>>), Apply1("get", <<Var("a"), t>>),
        Apply1("push", <<Var("a"), t>>), Apply1("add", <<Var("a"), t>>), Apply1("size", <<t>>), Apply1("pop", <<t>>), Apply1("copy", <<t>>),
        Apply1("put", <<Var("n"), t, Lit(3)>>), Apply1("slice", <<t, Lit(0), Lit(1)>>), Apply1("set", <<Var("a"), t, Lit(5)>>),
        Apply1("set", <<Var("n"), Word("k"), t>>), Apply1("call", <<Var("f"), t>>), Apply1("call", <<Var("g"), t>>)}
  \cup {StringExprNode(<<Word("a"), EmbedNode(t)>>), StringExprNode(<<EmbedNode(t), Word("b")>>),
        CmdSubNode("string", t), CmdSubNode("array", t), ForkNode("BACKGROUND", t)}
  \cup {Cmd(name, <<Arg(<<EmbedNode(t)>>), Arg(<<Word("z")>>)>>) : name \in {"echo", "c"}}
  \cup {Cmd("echo", <<Arg(<<Word("p"), EmbedNode(t)>>), Into("o")>>), Cmd("echo", <<Redir(<<Arg(<<EmbedNode(t)>>)>>)>>),
        Cmd("echo", <<Arg(<<EmbedNode(t), WildCardNode(<<"*">>), Word("a")>>)>>),
        Cmd("echo", <<Arg(<<ProcSubNode("in", t)>>)>>), ArgArrayNode(<<Arg(<<EmbedNode(t)>>), Arg(<<Word("z")>>)>>)}
  \cup {If1(t, Lit(1), Lit(2)), If1(Var("b"), t, Lit(2)), If1(Var("b"), Lit(1), t)}
  \cup {CaseNode(t, <<Arm(<<Lit(3), Lit(2), Word("x")>>), Arm(<<Word("y")>>)>>), CaseNode(Var("i"), <<Arm(<<Lit(2), t>>), Arm(<<t>>)>>),
        CaseNode(Var("s"), <<Arm(<<Word("b"), RegexNode(<<"a">>), t>>), Arm(<<RegexNode(<<"z">>), Lit(1)>>), Arm(<<Lit(7)>>)>>),
        CaseNode(t, <<Arm(<<RegexNode(<<"b">>), Echo("b")>>)>>)}
Assignments(t) ==
  {Assign1(Var("i"), t), Assign1(Var("o"), t), Self("ADD", Var("i"), t), Self("ADD", Var("s"), t), Self("NULL_COALE", Var("o"), t),
   ElementSelfAssignNode("ADD", Apply1("index", <<Var("a"), t>>), Lit(1)),
   ElementSelfAssignNode("MUL", Apply1("index", <<Var("n"), Word("k")>>), t),
   Block1(<<Decl("v", t), Assign1(Var("v"), t), Echo("v")>>), AssertNode(<<t>>), PipelineNode(<<Echo("a"), t>>), PipelineNode(<<t, Echo("b")>>)}

(* Statements around statements.                                              *)
Thrown == JumpNode("THROW", <<Lit(1)>>)
Simple ==
  {Echo("a"), Cmd("missing", <<>>), Cmd("exit", <<Arg(<<Word("1")>>)>>), Thrown, JumpNode("BREAK", <<>>), JumpNode("CONTINUE", <<>>),
   Return1Of(<<Lit(3)>>), Apply1("put", <<Var("n"), Word("m"), Lit(3)>>), Cmd("c", <<Arg(<<Word("u")>>)>>), Self("ADD", Var("i"), Lit(1)),
   If1(Binary("EQ", Var("i"), Lit(3)), Block1(<<JumpNode("BREAK", <<Var("i")>>)>>), Empty)}
Enclose(t) ==
  {Block1(<<Decl("v", Var("i")), t>>), Block1(<<t, Echo("l")>>), If1(Var("b"), Block1(<<t>>), Block1(<<Echo("e")>>)),
   LoopNode(Decl("v", Lit(1)), Binary("LT", Var("v"), Lit(3)), Self("ADD", Var("v"), Lit(1)), Block1(<<Decl("u", Var("v")), t>>)),
   LoopNode(Empty, Binary("LT", Var("i"), Lit(5)), Empty, Block1(<<Self("ADD", Var("i"), Lit(1)), t>>)),
   DoWhileNode(Cmd("false", <<>>), Block1(<<Decl("w", Lit(1)), t>>)),
   ForIn("x", Var("a"), <<t, Cmd("echo", <<Arg(<<EmbedNode(Var("x"))>>)>>)>>), ForIn("x", Var("n"), <<t>>),
   TryNode(Block1(<<Decl("v", Lit(0)), t>>), <<CatchNode(<<"e">>, TypeNode("Any"), Block1(<<Echo("c")>>))>>),
   TryNode(Block1(<<t>>), <<CatchNode(<<"e">>, TypeNode("Int"), Block1(<<Echo("c"), JumpNode("THROW", <<Var("e")>>)>>))>>),
   TryNode(Block1(<<Echo("t"), Thrown>>), <<CatchNode(<<"e">>, Empty, Block1(<<Decl("v", Lit(0)), t>>))>>),
   TryFinallyNode(Block1(<<Decl("v", Lit(0)), t>>), <<>>, Block1(<<Echo("z")>>)),
   TryFinallyNode(Block1(<<Decl("v", Lit(0)), t>>), <<>>, Block1(<<t, Decl("u", Lit(0))>>)),
   TryFinallyNode(Block1(<<t>>), <<CatchNode(<<"e">>, TypeNode("Error"), Block1(<<t>>))>>, Block1(<<Echo("z")>>)),
   WithNode(t, <<Into("o")>>), WithNode(t, <<Into("nowhere")>>), EnvOf(t),
   CaseNode(Var("i"), <<Arm(<<Lit(2), t>>), Arm(<<Lit(3), Lit(4), Echo("d")>>)>>),
   CmdSubNode("string", Block1(<<t>>)), PipelineNode(<<Echo("p"), Block1(<<t>>)>>),
   PipelineNode(<<Block1(<<t>>), Echo("q")>>), ForkNode("COPROC", Block1(<<t>>))}
Called(t) == <<FunctionOf("h", <<Param("p", "Int")>>, "Int", <<Decl("v", Var("p")), t, Return1Of(<<Var("v")>>)>>), Apply1("call", <<Var("h"), Lit(5)>>)>>

(* Scripts known to fail: a try in the finally block of another, and what     *)
(* opens a context in a try whose catch gives back fewer locals than it has.  *)
RECURSIVE Nodes(_)
Nodes(node) == {node} \cup UNION {Nodes(node.k[i]) : i \in DOMAIN node.k}
Names(node) == {x.n : x \in Nodes(node)}
TryInFinally(node) == node.n = "Try" /\ node.v = <<"finally">> /\ "Try" \in Names(Last(node.k))
ContextInTry(node) ==
  /\ node.n = "Try" /\ Names(node.k[1]) \cap {"With", "PrefixAssign"} # {}
  /\ \E i \in DOMAIN node.k[1].k : node.k[1].k[i].n = "VarDecl"
KnownToFail == \E node \in Nodes(tree) : TryInFinally(node) \/ ContextInTry(node)

None == <<>>
Init ==
  /\ \/ kind = "expression" /\ tree \in Atoms
     \/ kind = "statement" /\ tree \in Simple
  /\ depth = 0 /\ program = None /\ m = [Start(World) EXCEPT !.status = "none"] /\ meant = None /\ shell = Ready
Building == program = None
Nest ==
  /\ Building /\ depth' = depth + 1
  /\ IF kind = "expression"
     THEN depth < MaxExpressions /\ tree' \in Around(tree) \cup Assignments(tree) /\ (depth > 0 => tree.n \notin {"Assign", "SelfAssign"})
     ELSE depth < MaxStatements /\ tree' \in Enclose(tree)
  /\ UNCHANGED <<kind, program, m, meant, shell>>
Scripts == {<<tree>>} \cup IF kind = "statement" THEN {Called(tree)} ELSE {}
Further(nodes, c) == [c |-> c, nodes |-> Append(nodes, c.out)]
CheckedScript(script) ==
  FoldLeft(LAMBDA r, node : Further(r.nodes, CheckTopLevel(r.c, Void, node, TRUE)),
           [c |-> [shell.checker EXCEPT !.out = Now(Empty, Void)], nodes |-> <<>>], script)
Begins(script, nodes, functions) ==
  /\ program' = ("" :> Toplevel(nodes)) @@ Named1(functions, FunctionCode) @@ shell.code
  /\ meant' = Ref!Statements(Ref!Begin(shell.world, Meanings(functions, script) @@ shell.meanings), nodes)
  /\ m' = Start(shell.world)
Execute(script, r) == ~r.c.err /\ Begins(script, r.nodes, SelectSeq(r.nodes, LAMBDA x : x.n = "Function"))
Load0 ==
  /\ Building /\ ~KnownToFail
  /\ \E script \in Scripts : Execute(script, CheckedScript(script))
  /\ shell' = None /\ UNCHANGED <<tree, kind, depth>>
Run1 == ~Building /\ Next /\ UNCHANGED <<tree, kind, depth, meant, shell>>
MCNext == Nest \/ Load0 \/ Run1
Spec == Init /\ [][MCNext]_<<tree, kind, depth, program, m, meant, shell>>

(* The machine never comes to an instruction its operands are not made for: a *)
(* variable nobody stored, a return with operands left, an end of a finally   *)
(* block without the place to go back to (the assertions of vm.cpp).          *)
NeverGoesWrong == m.status # "wrong"

(* A value is of the type the checker gave its variable, and so are the parts *)
(* of arrays, maps and tuples, however many variables share them.             *)
RECURSIVE Sound(_, _, _)
Sound(w, v, t) ==
  /\ InstanceOf(v, t)
  /\ IsContainer(w, v) =>
       CASE v.t.n = "Array" -> \A i \in DOMAIN Obj(w, v).items : Sound(w, Obj(w, v).items[i], Element(v.t))
         [] v.t.n = "Tuple" -> \A i \in DOMAIN Obj(w, v).items : Sound(w, Obj(w, v).items[i], v.t.e[i])
         [] OTHER -> \A i \in DOMAIN Obj(w, v).items : \A j \in 1 .. 2 : Sound(w, Obj(w, v).items[i][j], v.t.e[j])
WellTyped == ~Building => \A x \in DOMAIN Typing0 : Sound(m.w, m.w.globals[x], Typing0[x])

(* What a script leaves behind and every command it runs, with what was in    *)
(* force around it, is what the script means (codegen.cpp, vm.cpp).           *)
RECURSIVE Deep(_, _, _)
Deep(w, v, d) ==
  IF v.v # <<>> /\ v.v[1] \in DOMAIN w.heap /\ d > 0
  THEN <<v.t, [i \in DOMAIN Parts(w, v) |-> Deep(w, Parts(w, v)[i], d - 1)]>> ELSE <<v.t, v.v>>
Seen(w) == [x \in DOMAIN w.globals |-> Deep(w, w.globals[x], 3)]
Agrees ==
  /\ m.status = (IF meant.how = "throw" THEN "thrown" ELSE "done")
  /\ meant.how = "throw" => m.thrown = meant.v
  /\ m.w.log = meant.w.log /\ m.w.env = meant.w.env /\ Seen(m.w) = Seen(meant.w)
ComputesAsWritten == m.status \in {"done", "thrown"} => Agrees

=============================================================================
