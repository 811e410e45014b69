------------------------------ MODULE Bytecode ------------------------------
(***************************************************************************)
(* Statements of the language that steer the control flow, the rules of    *)
(* the type checker for them (FlowContext), and the code the generator     *)
(* makes of them.  A statement is [k, num, type, kids]:                    *)
(*                                                                         *)
(*   cmd       a command with the status num                               *)
(*   fail      an operation, or exit, that raises an exception of the type *)
(*             and leaves the status num                                   *)
(*   throw, break, continue, return                                        *)
(*   block     of the statements kids                                      *)
(*   loop      num times round the block kids[1]                           *)
(*   try       kids: the block, its catch's, and at the end its finally    *)
(*   catch     of the type, with a block; finally, with a block            *)
(*   operand   an operator whose first operand is a value and whose second *)
(*             one has the block in it                                     *)
(*   call      of a function with the block kids[1] as its body            *)
(*   native    a native method that calls such a function back             *)
(*   subshell  of the block; type says which process goes on               *)
(***************************************************************************)
EXTENDS Integers, SequencesExt

Node(k, num, type, kids) == [k |-> k, num |-> num, type |-> type, kids |-> kids]

IsFinally(n) == n.k = "finally"
HasFinally(n) == n.kids # <<>> /\ IsFinally(Last(n.kids))
Catches(n) == SelectSeq(Tail(n.kids), LAMBDA c : c.k = "catch")

RECURSIVE IsNothing(_)
\* The type Nothing: control never gets to the end.
IsNothing(n) ==
  CASE n.k \in {"throw", "break", "continue", "return"} -> TRUE
    [] n.k = "block" -> n.kids # <<>> /\ IsNothing(Last(n.kids))
    [] n.k = "catch" -> IsNothing(n.kids[1])
    [] n.k = "try" ->
         IsNothing(n.kids[1]) /\ \A i \in DOMAIN Catches(n) : IsNothing(Catches(n)[i])
    [] OTHER -> FALSE

-----------------------------------------------------------------------------
(* FlowContext: how deep the innermost try, finally, loop and child are *)

Outside == [depth |-> 1, try |-> 0, finally |-> 0, loop |-> 0, child |-> 0, inFunc |-> FALSE]
InFunc == [Outside EXCEPT !.inFunc = TRUE]

Into(flow, level) == [flow EXCEPT ![level] = flow.depth, !.depth = @ + 1]

RECURSIVE Accepted(_, _)
\* The type checker accepts the statement where the flow is.
Accepted(n, flow) ==
  CASE n.k \in {"break", "continue"} ->
         /\ flow.loop # 0
         /\ flow.finally =< flow.loop
         /\ flow.child =< flow.loop
    [] n.k = "throw" -> flow.finally = 0
    [] n.k = "return" -> flow.finally = 0 /\ flow.child = 0 /\ flow.inFunc
    [] n.k = "block" ->
         /\ \A i \in DOMAIN n.kids : Accepted(n.kids[i], flow)
         /\ \A i \in 1 .. Len(n.kids) - 1 : ~IsNothing(n.kids[i])
    [] n.k = "loop" -> Accepted(n.kids[1], Into(flow, "loop"))
    [] n.k = "try" ->
         /\ Len(n.kids) > 1
         /\ n.kids[1].kids # <<>>
         /\ \A i \in DOMAIN n.kids :
              Accepted(n.kids[i], Into(flow, IF IsFinally(n.kids[i]) THEN "finally" ELSE "try"))
         /\ HasFinally(n) => ~IsNothing(Last(n.kids).kids[1]) /\ Last(n.kids).kids[1].kids # <<>>
    [] n.k \in {"call", "native"} -> Accepted(n.kids[1], InFunc)
    [] n.k = "subshell" -> Accepted(n.kids[1], Into(flow, "child"))
    [] n.k \in {"catch", "finally", "operand"} -> Accepted(n.kids[1], flow)
    [] OTHER -> TRUE

IsLeavingBlock(flow) == flow.try > flow.loop

-----------------------------------------------------------------------------
(***************************************************************************)
(* Code with labels.  An instruction has a label where the program has an  *)
(* offset; "LABEL" marks one.  A label is the path of its statement and a  *)
(* number.                                                                 *)
(***************************************************************************)
I(op) == <<[op |-> op]>>
INum(op, num) == <<[op |-> op, num |-> num]>>
IType(op, type) == <<[op |-> op, type |-> type]>>
ITo(op, to) == <<[op |-> op, to |-> to]>>
Mark(label) == <<[op |-> "LABEL", label |-> label]>>

\* A CatchBuilder, and the mark for the address it has.
CatchException(begin, end, type, dest) ==
  [ins |-> Mark(dest),
   entries |-> <<[begin |-> begin, end |-> end, type |-> type, dest |-> dest]>>]

Plain(ins) == [ins |-> ins, entries |-> <<>>]

Joined(cs) ==
  [ins |-> FlattenSeq([i \in DOMAIN cs |-> cs[i].ins]),
   entries |-> FlattenSeq([i \in DOMAIN cs |-> cs[i].entries])]

\* What a code builder knows where a statement is: the labels of the innermost loop and
\* of the finally blocks around, the number of loops, and the flow.
Builder == [loop |-> <<>>, finally |-> <<>>, loops |-> 0, flow |-> Outside]

EnterFinally(label) == ITo("ENTER_FINALLY", label)

EnterMultiFinally_outermost(ctx) ==
  FlattenSeq([i \in DOMAIN ctx.finally |-> EnterFinally(ctx.finally[i])])

EnterMultiFinally(ctx) ==
  FlattenSeq([i \in DOMAIN ctx.finally |-> EnterFinally(Reverse(ctx.finally)[i])])

BreakContinue(n, ctx) ==
  Plain((IF IsLeavingBlock(ctx.flow) THEN EnterMultiFinally(ctx) ELSE <<>>)
        \o ITo("GOTO", <<ctx.loop, IF n.k = "break" THEN 1 ELSE 0>>))

RECURSIVE Generate(_, _, _)

GenerateLoop(n, path, ctx) ==
  LET breakLabel == <<path, 1>>
      continueLabel == <<path, 0>>
      inside == [ctx EXCEPT !.loop = path, !.loops = @ + 1, !.flow = Into(@, "loop")]
      d == ctx.loops + 1
  IN Joined(<<Plain(INum("INIT_LOOP", d)),
              Plain(Mark(continueLabel)),
              Plain(<<[op |-> "LOOP", num |-> d, times |-> n.num, to |-> breakLabel]>>),
              Generate(n.kids[1], Append(path, 1), inside),
              Plain(IF IsNothing(n.kids[1]) THEN <<>> ELSE ITo("GOTO", continueLabel)),
              Plain(Mark(breakLabel))>>)

\* visitTryNode
GenerateTry(n, path, ctx) ==
  LET finallyLabel == <<path, 0>>
      beginLabel == <<path, 1>>
      endLabel == <<path, 2>>
      mergeLabel == <<path, 3>>
      inside == [ctx EXCEPT !.finally = IF HasFinally(n) THEN Append(@, finallyLabel) ELSE @,
                            !.flow = Into(@, "try")]
      leave(block) ==
        Plain(IF IsNothing(block) THEN <<>>
              ELSE (IF HasFinally(n) THEN EnterFinally(finallyLabel) ELSE <<>>)
                   \o ITo("GOTO", mergeLabel))
      catch(i) ==
        Joined(<<CatchException(beginLabel, endLabel, Catches(n)[i].type, <<path, 3 + i>>),
                 Plain(I("POP")),
                 Generate(Catches(n)[i], Append(path, 1 + i), inside),
                 leave(Catches(n)[i])>>)
      finally ==
        Joined(<<Plain(Mark(finallyLabel)),
                 CatchException(beginLabel, finallyLabel, "_Root", <<path, 3 + Len(n.kids)>>),
                 Generate(Last(n.kids), Append(path, Len(n.kids)),
                          [ctx EXCEPT !.flow = Into(@, "finally")]),
                 Plain(I("EXIT_FINALLY"))>>)
  IN Joined(<<Plain(Mark(beginLabel)),
              Generate(n.kids[1], Append(path, 1), inside),
              Plain(Mark(endLabel)),
              leave(n.kids[1]),
              Joined([i \in DOMAIN Catches(n) |-> catch(i)]),
              IF HasFinally(n) THEN finally ELSE Plain(<<>>),
              Plain(Mark(mergeLabel))>>)

GenerateSubshell(n, path, ctx) ==
  LET begin == <<path, 0>>
      end == <<path, 1>>
      merge == <<path, 2>>
  IN Joined(<<Plain(Mark(begin)),
              Plain(<<[op |-> "FORK", as |-> n.type, to |-> merge]>>),
              Generate(n.kids[1], Append(path, 1), [ctx EXCEPT !.flow = Into(@, "child")]),
              Plain(Mark(end)),
              CatchException(begin, end, "_ProcGuard", <<path, 3>>),
              Plain(I("HALT")),
              Plain(Mark(merge)),
              Plain(I("POP"))>>)

Generate(n, path, ctx) ==
  CASE n.k = "cmd" -> Plain(INum("CMD", n.num))
    [] n.k = "fail" -> Plain(<<[op |-> "RAISE", type |-> n.type, num |-> n.num]>>)
    [] n.k = "throw" -> Plain(I("PUSH") \o IType("THROW", n.type))
    [] n.k = "return" -> Plain(EnterMultiFinally(ctx) \o I("RETURN"))
    [] n.k \in {"break", "continue"} -> BreakContinue(n, ctx)
    [] n.k = "block" ->
         Joined([i \in DOMAIN n.kids |-> Generate(n.kids[i], Append(path, i), ctx)])
    [] n.k \in {"catch", "finally"} -> Generate(n.kids[1], Append(path, 1), ctx)
    [] n.k = "loop" -> GenerateLoop(n, path, ctx)
    [] n.k = "try" -> GenerateTry(n, path, ctx)
    [] n.k = "operand" ->
         Joined(<<Plain(I("PUSH")), Generate(n.kids[1], Append(path, 1), ctx), Plain(I("POP"))>>)
    [] n.k = "call" -> Plain(<<[op |-> "CALL", fn |-> path]>>)
    [] n.k = "native" -> Plain(<<[op |-> "CALLBACK", fn |-> path]>>)
    [] n.k = "subshell" -> GenerateSubshell(n, path, ctx)

\* finalizeCodeBuilder: labels become offsets.
Finalize(c) ==
  LET offset(label) ==
        LET m == CHOOSE i \in DOMAIN c.ins : c.ins[i].op = "LABEL" /\ c.ins[i].label = label
        IN 1 + Len(SelectSeq(SubSeq(c.ins, 1, m), LAMBDA x : x.op # "LABEL"))
      emitted == SelectSeq(c.ins, LAMBDA x : x.op # "LABEL")
      resolved(x) == IF "to" \in DOMAIN x THEN [x EXCEPT !.to = offset(@)] ELSE x
  IN [ins |-> <<>> \o [i \in DOMAIN emitted |-> resolved(emitted[i])],
      entries |-> <<>> \o [i \in DOMAIN c.entries |->
                     [type |-> c.entries[i].type,
                      begin |-> offset(c.entries[i].begin),
                      end |-> offset(c.entries[i].end),
                      dest |-> offset(c.entries[i].dest)]]]

RECURSIVE FunctionsIn(_, _)
\* The functions of a statement, each with its path.
FunctionsIn(n, path) ==
  (IF n.k \in {"call", "native"} THEN {<<path, n>>} ELSE {})
  \cup UNION {FunctionsIn(n.kids[i], Append(path, i)) : i \in DOMAIN n.kids}

\* A function whose end can be reached ends with a return the type checker adds; the
\* toplevel always has one.
FunctionCode(n, path) ==
  Finalize(Joined(<<Generate(n.kids[1], Append(path, 1), Builder),
                    Plain(IF path # <<>> /\ IsNothing(n.kids[1]) THEN <<>> ELSE I("RETURN"))>>))

\* The code of the function n and of those inside it.
Compile(n, path) ==
  LET fs == FunctionsIn(n, path)
  IN [p \in {f[1] : f \in fs} |-> FunctionCode((CHOOSE f \in fs : f[1] = p)[2], p)]
=============================================================================
