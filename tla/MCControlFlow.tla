---------------------------- MODULE MCControlFlow ----------------------------
(* Instances of ControlFlow for TLC: small programs, and their code. *)
EXTENDS ControlFlow, SourceSemantics, TLC

Cmd(num) == Node("cmd", num, "", <<>>)
Block(ns) == Node("block", 0, "", ns)
Fail(type) == Node("fail", 1, type, <<>>)
Exit == Node("fail", 9, "_ShellExit", <<>>)
Throws(type) == Node("throw", 0, type, <<>>)
Jump(k) == Node(k, 0, "", <<>>)
Loop(times, ns) == Node("loop", times, "", <<Block(ns)>>)
Catch(type, n) == Node("catch", 0, type, <<Block(<<n>>)>>)
Finally(ns) == Node("finally", 0, "", <<Block(ns)>>)
Try(ns, catches, finally) == Node("try", 0, "", <<Block(ns)>> \o catches \o finally)
Call(ns) == Node("call", 0, "", <<Block(ns)>>)
Native(ns) == Node("native", 0, "", <<Block(ns)>>)
Operand(ns) == Node("operand", 0, "", <<Block(ns)>>)
Subshell(who, ns) == Node("subshell", 0, who, <<Block(ns)>>)

\* Base types: arithmetic errors, overflows and system errors are Errors, an exit is not.
MCError == {"ArithmeticError", "OutOfRangeError", "StackOverflowError", "SystemError", "_ShellExit"}
MCSuper ==
  [t \in MCError |-> {t, "_Root", "_ProcGuard"} \cup IF t = "_ShellExit" THEN {} ELSE {"Error"}]

MCHandled == {1, 2}
MCSig == {1, 2, 3}
MCHandlerPath(s) == <<0, s, 1>>
\* No handler for signal 3: the VM only takes note of it, as of SIGCHLD.
MCHandler == [s \in MCSig |-> IF s \in MCHandled THEN MCHandlerPath(s) ELSE NoHandler]
MCHandlerBody(s) ==
  IF s = 1 THEN Call(<<Cmd(101), Call(<<Cmd(102)>>)>>)
  ELSE Call(<<Cmd(Raises), Fail("ArithmeticError")>>)

\* The code of every program has that of the handlers.
HandlerCode ==
  Compile(MCHandlerBody(1), MCHandlerPath(1)) @@ Compile(MCHandlerBody(2), MCHandlerPath(2))
\* (A sequence that is concatenated or merged is one TLC keeps.)
\* A program that never ends promises nothing.
RECURSIVE LoopsForever(_)
LoopsForever(n) ==
  \/ n.k = "loop" /\ n.num = 0
  \/ \E i \in DOMAIN n.kids : LoopsForever(n.kids[i])
PromiseOfAll(programs) ==
  <<>> \o [i \in DOMAIN programs |->
             IF LoopsForever(programs[i]) THEN Start ELSE Outcome(programs[i])]
CodeOfAll(programs) == <<>> \o [i \in DOMAIN programs |-> Compile(programs[i], <<>>) @@ HandlerCode]

-----------------------------------------------------------------------------
Steps ==
  <<Cmd(1), Fail("ArithmeticError"), Throws("OutOfRangeError"), Exit,
    Jump("break"), Jump("continue"), Jump("return"),
    Call(<<Fail("ArithmeticError")>>), Native(<<Fail("ArithmeticError")>>)>>

CatchLists ==
  <<<<>>,
    <<Catch("OutOfRangeError", Cmd(2)), Catch("Error", Cmd(3))>>,
    <<Catch("ArithmeticError", Cmd(2))>>,
    <<Catch("ArithmeticError", Fail("OutOfRangeError"))>>,
    <<Catch("ArithmeticError", Jump("break"))>>,
    <<Catch("ArithmeticError", Jump("return"))>>>>

FinallyLists ==
  <<<<>>,
    <<Finally(<<Cmd(4)>>)>>,
    <<Finally(<<Cmd(4), Fail("ArithmeticError")>>)>>,
    <<Finally(<<Loop(2, <<Cmd(4), Jump("break")>>), Call(<<Cmd(5)>>)>>)>>>>

\* Where a try can be.
Places(t) ==
  <<Loop(2, <<t, Cmd(6)>>),
    Call(<<t, Cmd(6)>>),
    Native(<<Loop(2, <<t>>), Cmd(6)>>),
    Try(<<t, Cmd(6)>>, <<Catch("Error", Cmd(7))>>, <<Finally(<<Cmd(8)>>)>>),
    Try(<<Fail("ArithmeticError")>>, <<Catch("Error", t)>>, <<Finally(<<Cmd(8)>>)>>),
    Call(<<Loop(2, <<Try(<<t>>, <<>>, <<Finally(<<Cmd(8)>>)>>)>>), Cmd(6)>>),
    Try(<<Subshell("child", <<t>>)>>, <<>>, <<Finally(<<Cmd(8)>>)>>),
    Try(<<Cmd(6), Operand(<<Call(<<t>>)>>)>>, <<Catch("Error", Cmd(7))>>, <<>>)>>

\* The i-th choice of a step, catches and a finally.
TryAt(i) ==
  LET c == i \div Len(Steps)
      f == c \div Len(CatchLists)
  IN Try(<<Steps[(i % Len(Steps)) + 1]>>, CatchLists[(c % Len(CatchLists)) + 1], FinallyLists[f + 1])

TryCount == Len(Steps) * Len(CatchLists) * Len(FinallyLists)
Programs == FlattenSeq([i \in 1 .. TryCount |-> Places(TryAt(i - 1))])

RECURSIVE Nested(_, _)
Nested(k, n) == IF n = 0 THEN Cmd(1) ELSE Node(k, 0, "", <<Block(<<Nested(k, n - 1)>>)>>)

\* As deep as the limits of frames and of interpreters allow, and deeper.
Deep ==
  [n \in 1 .. 8 |->
     Try(<<IF n < 5 THEN Nested("native", n) ELSE Nested("call", n)>>,
         <<Catch("Error", Cmd(2))>>, <<Finally(<<Cmd(4)>>)>>)]

\* Subshells that the parent goes past, or cannot start.
Parents ==
  <<Try(<<Subshell("parent", <<Fail("ArithmeticError")>>)>>, <<>>, <<Finally(<<Cmd(1)>>)>>),
    Call(<<Cmd(1), Subshell("fails", <<Cmd(2)>>)>>)>>

\* Programs that end.
Ending ==
  LET all == Parents \o Deep \o Programs
      programs == [i \in DOMAIN all |-> Call(<<all[i], Cmd(9)>>)]
  IN SelectSeq(programs, LAMBDA n : Accepted(n.kids[1], Outside))

\* Programs that are interrupted by signals; the last one never ends.
Interrupted ==
  <<Call(<<Cmd(1), Try(<<Call(<<Fail("OutOfRangeError")>>)>>, <<>>, <<Finally(<<Cmd(2)>>)>>)>>),
    Call(<<Cmd(1), Subshell("child", <<Cmd(2)>>)>>),
    Call(<<Native(<<Cmd(1)>>),
           Loop(0, <<Try(<<Cmd(0)>>, <<Catch("ArithmeticError", Cmd(0))>>, <<>>)>>)>>)>>

Source == Interrupted \o Ending
SourceCode == CodeOfAll(Source)
SourcePromise == PromiseOfAll(Source)
SourceSignals == [i \in DOMAIN Interrupted |-> 3] \o [i \in DOMAIN Ending |-> 0]

\* (TLC evaluates a definition it gives a constant over and over, but those it names once.)
MCCode == SourceCode
MCPromise == SourcePromise
MCMaxSignals == SourceSignals

\* A try in a finally block.
MCTryInFinally ==
  <<Call(<<Try(<<Cmd(1)>>, <<>>,
               <<Finally(<<Try(<<Fail("ArithmeticError")>>, <<Catch("Error", Cmd(2))>>, <<>>)>>)>>),
           Cmd(9)>>)>>
MCTryInFinallyCode == CodeOfAll(MCTryInFinally)
MCTryInFinallyPromise == PromiseOfAll(MCTryInFinally)
MCNoSignals == [i \in DOMAIN MCTryInFinally |-> 0]
=============================================================================
