------------------------------- MODULE Machine -------------------------------
(* The virtual machine: it runs the code of a program, an instruction at a    *)
(* time, on a stack of operands, the locals of each frame and the globals. A  *)
(* child is run to its end before its parent goes on (a fork copies           *)
(* everything, and nothing here waits for the other side). A redirection or   *)
(* an assignment in front of a command is in force as long as the object that *)
(* made it lives, which is as long as an operand or a local refers to it.     *)
EXTENDS Objects

VARIABLES
  program,   \* the code of the top level and of each function, by name
  m          \* the state of the interpreter

vars == <<program, m>>

Start(world) ==
  [w |-> world, key |-> "", pc |-> 1, stack |-> <<>>, locals |-> <<>>, frames |-> <<>>, thrown |-> NoVal, saved |-> NoVal,
   status |-> "run", parents |-> <<>>]

Unit(s) == program[s.key]
Current(s) == Unit(s).code[s.pc]
Running(ops) == m.status = "run" /\ m.pc \in DOMAIN Unit(m).code /\ Current(m).op \in ops

(* The objects that live: those an operand or a local leads to, of any frame. *)
ValuesIn(frame) == Range(frame.stack) \cup Range(frame.locals)
Held(s) == ValuesIn(s) \cup UNION {ValuesIn(f) : f \in Range(s.frames)} \cup Range(s.w.globals)
RECURSIVE Reach(_, _)
Reach(w, keys) ==
  LET inside(k) == LET o == w.heap[k]
                       values == CASE o.kind = "map" -> FlattenSeq(o.items) [] o.kind \in {"env", "redir"} -> <<>> [] OTHER -> o.items
                   IN  {o.of} \cup {v.v[1] : v \in {x \in Range(values) : x.v # <<>>}}
      more == (UNION {inside(k) : k \in keys}) \cap DOMAIN w.heap
  IN  IF more \subseteq keys THEN keys ELSE Reach(w, keys \cup more)
Live(s) == Reach(s.w, {v.v[1] : v \in {x \in Held(s) : x.v # <<>>}} \cap DOMAIN s.w.heap)
ByAge(w, keys) == SelectSeq([i \in 1 .. Cardinality(DOMAIN w.heap) |-> "#" \o ToString(i)], LAMBDA k : k \in keys)
InForce(s, redir) == (* what a command with that redirection runs under, the outermost first *)
  LET keys == {k \in Live(s) \cup ({v.v[1] : v \in {redir} \ {Null}}) : s.w.heap[k].on /\ s.w.heap[k].items # <<>>}
      inOrder == ByAge(s.w, keys)
  IN  [i \in DOMAIN inOrder |-> <<s.w.heap[inOrder[i]].kind>> \o s.w.heap[inOrder[i]].items]

(* The environment: what the innermost assignment in front of a command says, *)
(* or the shell's own.                                                        *)
EnvHolders(s, name) ==
  SelectSeq(ByAge(s.w, Live(s)), LAMBDA k : s.w.heap[k].kind = "env" /\ \E i \in DOMAIN s.w.heap[k].items : s.w.heap[k].items[i][1] = name)
Entry(s, k, name) == CHOOSE i \in DOMAIN s.w.heap[k].items : s.w.heap[k].items[i][1] = name
GetEnv(s, name) ==
  LET holders == EnvHolders(s, name)
  IN  IF holders # <<>> THEN s.w.heap[Last(holders)].items[Entry(s, Last(holders), name)][2]
      ELSE IF name[1] \in DOMAIN s.w.env THEN s.w.env[name[1]] ELSE Invalid
SetEnv(s, name, value) ==
  LET holders == EnvHolders(s, name)
  IN  IF holders # <<>> THEN [s EXCEPT !.w.heap[Last(holders)].items[Entry(s, Last(holders), name)][2] = value]
      ELSE [s EXCEPT !.w.env = (name[1] :> value) @@ @]

(* Operands.                                                                  *)
Top(s) == Last(s.stack)
Peek(s, i) == s.stack[Len(s.stack) - i]
Pop(s, n) == [s EXCEPT !.stack = SubSeq(@, 1, Len(@) - n)]
Push(s, v) == [s EXCEPT !.stack = Append(@, v)]
Next1(s) == [s EXCEPT !.pc = @ + 1]
Wrong(s) == [s EXCEPT !.status = "wrong"]

(* Exceptions: the first entry of the frame that covers the instruction and   *)
(* has the type takes the exception; without one the frame is left. The       *)
(* guard of a child ends the child; so does what nothing takes.               *)
Resume(s, child, how) == (* one child of those to run has ended *)
  LET p == Last(s.parents)
      r == Ended(p.m.w, p.t, how, child.log)
      next == [p.m EXCEPT !.w.log = r.w.log]
  IN  IF p.todo # <<>>
      THEN [next EXCEPT !.pc = Head(p.todo), !.w.log = <<>>, !.parents = Append(@, [p EXCEPT !.m = next, !.todo = Tail(@)])]
      ELSE [Push([p.m EXCEPT !.w = r.w], r.ret) EXCEPT !.pc = p.merge]
Ends(s, status, how) == IF s.parents = <<>> THEN [s EXCEPT !.status = status] ELSE Resume(s, s.w, how)
ExitStatus(thrown) == IF thrown.t.n = "Shell Exit" THEN thrown.v[1] ELSE "1"
LeaveFrame(s) == [Last(s.frames) EXCEPT !.w = s.w, !.thrown = s.thrown, !.saved = s.saved, !.frames = Front(s.frames), !.parents = s.parents]
Reclaimed(locals, base, size) == [i \in DOMAIN locals |-> IF i \in base .. base + size - 1 THEN NoVal ELSE locals[i]]
RECURSIVE HandleException(_)
HandleException(s) ==
  LET entries == Unit(s).entries
      takes == {i \in DOMAIN entries : entries[i].begin <= s.pc /\ s.pc < entries[i].end /\ IsSameOrBaseTypeOf(entries[i].t, s.thrown.t)}
      entry == entries[CHOOSE i \in takes : \A j \in takes : i <= j]
      there == [s EXCEPT !.pc = entry.dest, !.stack = <<>>, !.locals = Reclaimed(@, entry.n[1], entry.n[2]), !.thrown = NoVal]
  IN  CASE takes = {} /\ s.frames = <<>> -> Ends(s, "thrown", ExitStatus(s.thrown))
        [] takes = {} /\ s.frames # <<>> -> HandleException([LeaveFrame(s) EXCEPT !.pc = @ - 1])
        [] OTHER -> CASE entry.t = ProcGuard -> Ends(s, "thrown", ExitStatus(s.thrown))
                      [] entry.t = Root -> [there EXCEPT !.saved = s.thrown]
                      [] OTHER -> Push(there, s.thrown)
Throw(s, v) == (* an exception a finally block holds back comes first *)
  HandleException(IF s.saved # NoVal THEN [s EXCEPT !.thrown = s.saved, !.saved = NoVal] ELSE [s EXCEPT !.thrown = v])
Error1(s, name) == IF name = "undefined" THEN Wrong(s) ELSE Throw(s, Val(T(name), <<name>>))
Results(s, r) == (* of a native method, whose operands are gone *)
  CASE r.err # "" -> Error1([s EXCEPT !.w = r.w], r.err)
    [] r.ret = NoVal -> Next1([s EXCEPT !.w = r.w])
    [] OTHER -> Next1(Push([s EXCEPT !.w = r.w], r.ret))

(* One instruction. Each action is a family of the interpreter's loop.        *)
Constants(i) ==
  CASE i.op = "LOAD_CONST" -> Val(i.t, i.v)
    [] i.op = "PUSH_TRUE" -> Bool(TRUE)
    [] i.op = "PUSH_FALSE" -> Bool(FALSE)
    [] i.op = "PUSH_INVALID" -> Invalid
    [] i.op = "PUSH_META" -> Val(T("meta"), <<"*">>)
    [] OTHER -> Null
Load ==
  /\ Running({"LOAD_CONST", "PUSH_NULL", "PUSH_TRUE", "PUSH_FALSE", "PUSH_INVALID", "PUSH_META"})
  /\ m' = Next1(Push(m, Constants(Current(m))))
Variable(s, i) ==
  LET x == i.n[1]
      v == IF i.op = "LOAD_GLOBAL" THEN IF x \in DOMAIN s.w.globals THEN s.w.globals[x] ELSE NoVal
           ELSE IF x \in DOMAIN s.locals THEN s.locals[x] ELSE NoVal
  IN  CASE i.op = "STORE_GLOBAL" -> Next1([Pop(s, 1) EXCEPT !.w.globals = (x :> Top(s)) @@ @])
        [] i.op = "STORE_LOCAL" -> Next1([Pop(s, 1) EXCEPT !.locals = (x :> Top(s)) @@ @])
        [] i.op = "RECLAIM_LOCAL" -> Next1([s EXCEPT !.locals = Reclaimed(@, x, i.n[2])])
        [] v = NoVal -> IF i.op = "LOAD_GLOBAL" THEN Error1(s, "IllegalAccessError") ELSE Wrong(s)
        [] OTHER -> Next1(Push(s, v))
Variables ==
  /\ Running({"LOAD_GLOBAL", "STORE_GLOBAL", "LOAD_LOCAL", "STORE_LOCAL", "RECLAIM_LOCAL"})
  /\ m' = Variable(m, Current(m))
Shuffle ==
  /\ Running({"POP", "DUP", "DUP2", "SWAP"})
  /\ m' = Next1([m EXCEPT !.stack = CASE Current(m).op = "POP" -> Front(@)
                                      [] Current(m).op = "DUP" -> Append(@, Last(@))
                                      [] Current(m).op = "DUP2" -> @ \o SubSeq(@, Len(@) - 1, Len(@))
                                      [] OTHER -> SubSeq(@, 1, Len(@) - 2) \o <<Last(@), @[Len(@) - 1]>>])

(* The environment.                                                           *)
Environ(s, i) ==
  LET default == IF i.op = "IMPORT_ENV" THEN i.n[1] ELSE 0
      name == Peek(s, default)
      value == GetEnv(s, name.v)
      popped == Pop(s, default + 1)
      key == popped.stack[Len(popped.stack)].v[1]
  IN  CASE i.op = "NEW_ENV_CTX" ->
             Next1(Push([s EXCEPT !.w = Alloc(@, [Object("env", <<>>) EXCEPT !.on = TRUE])], Val(AnyType, <<NewKey(s.w)>>)))
        [] i.op = "STORE_ENV" -> Next1(SetEnv(Pop(s, 2), Peek(s, 1).v, Top(s)))
        [] i.op = "ADD2ENV_CTX" ->
             LET ctx == Peek(s, 2).v[1] IN Next1([Pop(s, 2) EXCEPT !.w.heap[ctx].items = Append(@, <<Peek(s, 1).v, Top(s)>>)])
        [] value # Invalid -> IF i.op = "LOAD_ENV" THEN Next1(Push(popped, value)) ELSE Next1(popped)
        [] default = 1 -> Next1(SetEnv(popped, name.v, Top(s)))
        [] OTHER -> Error1(popped, "IllegalAccessError")
Environment ==
  /\ Running({"NEW_ENV_CTX", "ADD2ENV_CTX", "LOAD_ENV", "STORE_ENV", "IMPORT_ENV"})
  /\ m' = Environ(m, Current(m))

(* Objects.                                                                   *)
KindOf(t) == CASE t.n = "Array" -> "array" [] t.n = "Map" -> "map" [] OTHER -> "tuple"
Construct(s, i) ==
  LET v == Top(s)
      under(n) == Peek(s, n).v[1]
      field(key) == IF i.n[1] \in DOMAIN s.w.heap[key].items THEN s.w.heap[key].items[i.n[1]] ELSE NoVal
  IN  CASE i.op = "NEW" ->
             Next1(Push([s EXCEPT !.w = Alloc(@, Object(KindOf(i.t), IF i.t.n = "Tuple" THEN [j \in DOMAIN i.t.e |-> NoVal] ELSE <<>>))],
                        Val(i.t, <<NewKey(s.w)>>)))
        [] i.op = "APPEND_ARRAY" -> Next1([Pop(s, 1) EXCEPT !.w.heap[under(1)].items = Append(@, v)])
        [] i.op = "APPEND_MAP" ->
             Next1([Pop(s, 2) EXCEPT !.w = MapMethod(@, {}, "SET", Peek(s, 2), <<Peek(s, 1), v>>).w])
        [] i.op = "STORE_FIELD" -> Next1([Pop(s, 2) EXCEPT !.w.heap[under(1)].items[i.n[1]] = v])
        [] field(under(0)) = NoVal -> Wrong(s)
        [] OTHER -> Next1(Push(Pop(s, 1), field(under(0))))
Construction ==
  /\ Running({"NEW", "APPEND_ARRAY", "APPEND_MAP", "STORE_FIELD", "LOAD_FIELD"})
  /\ m' = Construct(m, Current(m))

(* Calls. A native method has its operands until it returns.                  *)
Natives(s, i) ==
  LET n == IF i.op = "CALL_BUILTIN2" THEN i.n[1] ELSE 2
      args == SubSeq(s.stack, Len(s.stack) - n + 1, Len(s.stack))
  IN  IF i.op = "CALL_BUILTIN2" THEN Results(Pop(s, n), Invoke(s.w, Live(s), i.v[1], args))
      ELSE Results(Pop(s, n), Concat(s.w, args[1], args[2]))
Native ==
  /\ Running({"CALL_BUILTIN2", "CONCAT", "APPEND"})
  /\ m' = Natives(m, Current(m))
Enter(s, key, locals) ==
  IF Len(s.frames) = MaxFrames THEN Error1(s, "StackOverflowError")
  ELSE [s EXCEPT !.frames = Append(@, Next1(s)), !.key = key, !.pc = 1, !.stack = <<>>,
                 !.locals = FoldLeft(LAMBDA acc, j : ((j - 1) :> locals[j]) @@ acc, <<>>, [j \in DOMAIN locals |-> j])]
Call ==
  /\ Running({"CALL_FUNC"})
  /\ LET n == Current(m).n[1]
     IN  m' = Enter(Pop(m, n + 1), Peek(m, n).v[1], SubSeq(m.stack, Len(m.stack) - n + 1, Len(m.stack)))
SetStatus(s, status) == [s EXCEPT !.w.globals = ("?" :> Val(IntType, <<status>>)) @@ @]
Returned(s, i) ==
  LET back == LeaveFrame(s)
      status == Top(s).v[1]
  IN  CASE s.frames = <<>> -> [s EXCEPT !.status = IF s.stack = <<>> /\ s.parents = <<>> THEN "done" ELSE "wrong"]
        [] i.op = "RETURN" -> back
        [] i.op = "RETURN_V" -> Push(back, Top(s))
        [] OTHER -> SetStatus(Push(back, Bool(status = "0")), status)
Return1 ==
  /\ Running({"RETURN", "RETURN_V", "RETURN_UDC"})
  /\ m' = Returned(m, Current(m))

(* Jumps and exceptions.                                                      *)
Jumped(s, i) ==
  LET arm == {j \in DOMAIN i.v : i.v[j] = Top(s).v}
  IN  CASE i.op = "GOTO" -> [s EXCEPT !.pc = i.l[1]]
        [] i.op = "BRANCH" -> IF IsTrue(Top(s)) THEN Next1(Pop(s, 1)) ELSE [Pop(s, 1) EXCEPT !.pc = i.l[1]]
        [] i.op = "TRY_UNWRAP" -> IF Top(s) = Invalid THEN Next1(Pop(s, 1)) ELSE [s EXCEPT !.pc = i.l[1]]
        [] i.op = "ENTER_FINALLY" -> [Push(s, Val(T("number"), <<ToString(s.pc + 1)>>)) EXCEPT !.pc = i.l[1]]
        [] OTHER -> IF Top(s) # Invalid /\ arm # {} THEN [Pop(s, 2) EXCEPT !.pc = i.l[CHOOSE j \in arm : TRUE]] ELSE Next1(Pop(s, 2))
Jump1 ==
  /\ Running({"GOTO", "BRANCH", "TRY_UNWRAP", "ENTER_FINALLY", "LOOKUP_HASH"})
  /\ m' = Jumped(m, Current(m))
PlaceOf(s, v) == CHOOSE i \in DOMAIN Unit(s).code : ToString(i) = v.v[1]
Exceptional(s, i) ==
  CASE i.op = "THROW" -> Throw(Pop(s, 1), Top(s))
    [] i.op = "ASSERT" -> IF IsTrue(Peek(s, 1)) THEN Next1(Pop(s, 2)) ELSE Throw(Pop(s, 2), Val(T("Assertion Error"), <<>>))
    [] s.saved # NoVal -> HandleException([s EXCEPT !.thrown = s.saved, !.saved = NoVal])
    [] OTHER -> IF s.stack = <<>> \/ Top(s).t.n # "number" THEN Wrong(s) ELSE [Pop(s, 1) EXCEPT !.pc = PlaceOf(s, Top(s))]
Exceptions ==
  /\ Running({"THROW", "ASSERT", "EXIT_FINALLY"})
  /\ m' = Exceptional(m, Current(m))
Typing(s, i) ==
  LET v == Top(s)
  IN  CASE i.op = "INSTANCE_OF" -> Next1(Push(Pop(s, 1), Bool(InstanceOf(v, i.t))))
        [] i.op = "CHECK_CAST" -> IF InstanceOf(v, i.t) THEN Next1(s) ELSE Error1(Pop(s, 1), "TypeCastError")
        [] i.op = "UNWRAP" -> IF v = Invalid THEN Error1(s, "UnwrappingError") ELSE Next1(s)
        [] i.op = "CHECK_UNWRAP" -> Next1(Push(Pop(s, 1), Bool(v # Invalid)))
        [] i.op = "PRINT" -> Next1([Pop(s, 1) EXCEPT !.w.log = Append(@, [what |-> "print", argv |-> v.v])])
        [] OTHER -> Next1(Push(Pop(s, 2), Bool((v = Peek(s, 1)) = (i.op = "REF_EQ"))))
Types1 ==
  /\ Running({"INSTANCE_OF", "CHECK_CAST", "UNWRAP", "CHECK_UNWRAP", "PRINT", "REF_EQ", "REF_NE"})
  /\ m' = Typing(m, Current(m))

(* Commands. The operands are the arguments so far and the redirection, null  *)
(* until there is one; a file descriptor is an argument that must stay open.  *)
NewRedir(s) == Push([s EXCEPT !.w = Alloc(@, Object("redir", <<>>))], Val(AnyType, <<NewKey(s.w)>>))
AddArg(s) ==
  LET v == Top(s)
      withRedir == IF Peek(s, 1) = Null THEN NewRedir(Pop(s, 2)) ELSE Pop(s, 1)
      argv(t) == Peek(t, 1).v[1]
      add(t, items) == [t EXCEPT !.w.heap[argv(t)].items = @ \o items]
  IN  CASE v.t = String -> add(Pop(s, 1), <<v>>)
        [] v.t = UnixFD -> add([withRedir EXCEPT !.w.heap[Top(withRedir).v[1]].items = Append(@, Val(T("NOP"), v.v))], <<Str(v.v)>>)
        [] v.t = StringArray -> add(Pop(s, 1), SelectSeq(Obj(s.w, v).items, LAMBDA e : e.v # <<>>))
        [] OTHER -> Wrong(s)
Globbed(s, n) == (* the paths found, or an error when there are none *)
  LET base == Pop(s, n + 1)
      pieces == SubSeq(s.stack, Len(s.stack) - n, Len(s.stack) - 1)
      found == [i \in DOMAIN pieces |-> IF pieces[i].t.n = "meta" THEN <<"found">> ELSE pieces[i].v]
  IN  IF <<"nowhere">> \in Range(found) THEN Error1(s, "SystemError")
      ELSE Next1([base EXCEPT !.w.heap[Peek(base, 1).v[1]].items = Append(@, Str(FlattenSeq(found)))])
Failing(item) == item.v = <<"nowhere">>
Argument(s, i) ==
  CASE i.op = "NEW_CMD" -> Next1(Push([Pop(s, 1) EXCEPT !.w = Alloc(@, Object("array", <<Top(s)>>))], Val(StringArray, <<NewKey(s.w)>>)))
    [] i.op = "NEW_REDIR" -> Next1(NewRedir(s))
    [] i.op = "ADD_CMD_ARG" -> Next1(AddArg(s))
    [] i.op = "ADD_GLOBBING" -> Globbed(s, i.n[1])
    [] i.op = "ADD_REDIR_OP" -> Next1([Pop(s, 1) EXCEPT !.w.heap[Peek(s, 1).v[1]].items = Append(@, Val(T(i.v[1]), Top(s).v))])
    [] OTHER -> IF \E j \in DOMAIN Obj(s.w, Top(s)).items : Failing(Obj(s.w, Top(s)).items[j]) THEN Error1(s, "SystemError")
                ELSE Next1([s EXCEPT !.w.heap[Top(s).v[1]].on = TRUE])
Arguments1 ==
  /\ Running({"NEW_CMD", "NEW_REDIR", "ADD_CMD_ARG", "ADD_GLOBBING", "ADD_REDIR_OP", "DO_REDIR"})
  /\ m' = Argument(m, Current(m))
CallCommand(s, argv, redir) ==
  LET items == Obj(s.w, argv).items
      args == [i \in DOMAIN items |-> items[i].v]
      name == items[1].v[1]
      rest == [SetStatus(s, "0") EXCEPT !.w.heap[argv.v[1]].items = Tail(items)]
      logged == [s EXCEPT !.w.log = Append(@, [what |-> "cmd", argv |-> args, ctx |-> InForce(s, redir)])]
      status == IF name = "false" THEN "1" ELSE "0"
      shown(v) == IF v = Null THEN Val(T("null"), <<>>) ELSE v
  IN  CASE "cmd:" \o name \in DOMAIN s.w.globals ->
             Enter(rest, "cmd:" \o name, <<Num(0), shown(redir), argv, Num(Len(items) - 1)>>)
        [] name = "exit" -> Throw(s, Val(T("Shell Exit"), <<IF Len(items) > 1 THEN items[2].v[1] ELSE "0">>))
        [] name = "missing" -> Error1(s, "SystemError")
        [] OTHER -> Next1(SetStatus(Push(logged, Bool(status = "0")), status))
CallCmd ==
  /\ Running({"CALL_CMD"})
  /\ m' = CallCommand(Pop(m, 2), Peek(m, 1), Top(m))

(* Children.                                                                  *)
Fork(s, i) ==
  LET places == IF i.op = "FORK" THEN <<s.pc + 1, i.l[1]>> ELSE i.l
      starts == Front(places)
      t == CASE i.op = "PIPELINE" -> Boolean [] i.op = "PIPELINE_LP" -> T("pipe%%") [] OTHER -> i.t
      parent == [m |-> s, todo |-> Tail(starts), merge |-> Last(places), t |-> t]
  IN  [s EXCEPT !.pc = Head(starts), !.w.log = <<>>, !.parents = Append(@, parent)]
Children ==
  /\ Running({"FORK", "PIPELINE", "PIPELINE_LP", "PIPELINE_ASYNC"})
  /\ m' = Fork(m, Current(m))
Halt ==
  /\ Running({"HALT"})
  /\ m' = Ends(m, "wrong", IF "?" \in DOMAIN m.w.globals THEN m.w.globals["?"].v[1] ELSE "0")

Next ==
  /\ \/ Load \/ Variables \/ Shuffle \/ Environment \/ Construction \/ Native \/ Call \/ Return1
     \/ Jump1 \/ Exceptions \/ Types1 \/ Arguments1 \/ CallCmd \/ Children \/ Halt
  /\ UNCHANGED program
=============================================================================
