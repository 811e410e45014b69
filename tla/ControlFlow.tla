----------------------------- MODULE ControlFlow -----------------------------
(***************************************************************************)
(* The compiler and the virtual machine together: the machine runs the     *)
(* code of programs, signal handlers come between, and the outcome is the  *)
(* one the source promises.                                                *)
(***************************************************************************)
EXTENDS Interpreter

CONSTANT Promise   \* the outcome of each program, from SourceSemantics

\* Commands of signal handlers have statuses of their own, and a handler that is about to
\* raise an exception into the program has this one.
FirstHandlerStatus == 100
Raises == 199
ProgramLog == SelectSeq(log, LAMBDA entry : entry[1] < FirstHandlerStatus)

\* The scheduler runs the thread of the interpreter; nothing makes signals arrive.
LiveSpec == Spec /\ WF_vars(Step)

-----------------------------------------------------------------------------
\* The instruction that is about to be fetched.
AtOp(op) == phase \in {"run", "checked"} /\ Ins.op = op

\* Compiled code does what its statements say: the same commands in the same order, each
\* meeting the same $?, and the same end, whatever signals are handled in between (by
\* handlers that raise nothing).  It joins
\* visitTryNode, enterMultiFinally, handleException and EXIT_FINALLY.
RunsAsWritten ==
  LET promise == Promise[prog]
      uncaught == phase = "uncaught" /\ thrown = promise.type
  IN phase \in {"done", "uncaught", "child"} /\ (\A i \in DOMAIN log : log[i][1] # Raises) =>
       /\ ProgramLog = promise.log
       /\ CASE promise.end = "throw" -> uncaught
            [] promise.end = "child" -> phase = "child"
            [] OTHER -> phase = "done"

\* The assertion of EXIT_FINALLY (src/vm.cpp:1601): a return address is on the stack.
FinallyAssertion == phase # "assert"

\* A function returns with nothing left on its part of the operand stack, no operand
\* below it is ever taken, and EXIT_FINALLY finds what ENTER_FINALLY left: catch, finally
\* and the ways out of them push and pop alike.
StackBalanced ==
  /\ phase # "corrupt" /\ FinallyAssertion
  /\ AtOp("RETURN") => frame.stack = <<>>

\* A trampoline whose handler has not returned.
Handling(f) == f.pc =< 2 /\ IsTrampoline(f.fn)

\* No handler interrupts another one, in the shell or in a child forked by a handler: what
\* is above a trampoline that waits belongs to its handler (src/vm.cpp:1233).
HandlersApart ==
  /\ \A i, j \in DOMAIN frames :
       i < j /\ IsTrampoline(frames[j].frame.fn) => ~Handling(frames[i].frame)
  /\ IsTrampoline(frame.fn) => \A i \in DOMAIN frames : ~Handling(frames[i].frame)

\* Each interpreter returns to the native code that started it, neither sooner nor later:
\* the recursion of C++ functions and the depths in the saved frames agree
\* (VMState::checkVMReturn, src/state.h:219), within RecursionGuard's limit.
InterpretersNest ==
  /\ recDepth < MaxDepth
  /\ \A i \in DOMAIN frames : frames[i].recDepth \in 0 .. MaxDepth - 1
  /\ \A i \in DOMAIN frames :
       frames[i].recDepth \in IF i = 1 THEN {0}
                             ELSE {frames[i - 1].recDepth, frames[i - 1].recDepth + 1}
  /\ phase \in {"run", "checked"} =>
       frames # <<>> /\ frames[Len(frames)].recDepth = recDepth

\* SIGNAL is set as long as a signal is pending, so that popPendingSig finds one
\* (its assertion) and none is forgotten.
SignalFlag ==
  ("SIGNAL" \in eventDesc) <=> (pending # {})

\* The round-robin of popPendingSig: no signal is handled twice while another one waits.
NoStarvation ==
  [][\A s, t \in Sig : s \in pending \cap pending' /\ t \in pending \ pending'
       => t \notin passed[s]]_vars

\* A pending signal is taken as long as the script runs on.
PendingTaken ==
  \A s \in Sig :
    s \in pending ~> (s \notin pending \/ phase \notin {"run", "checked", "raise"})
=============================================================================
