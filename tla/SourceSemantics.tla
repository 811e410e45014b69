--------------------------- MODULE SourceSemantics ---------------------------
(***************************************************************************)
(* What a program promises to do, read from its statements alone: the      *)
(* reference the compiled code is compared with.  A finally block is       *)
(* entered once however its try is left; an exception raised in it does    *)
(* not replace an earlier one (src/CHANGELOG.md:311).                      *)
(***************************************************************************)
EXTENDS Bytecode, Limits

(***************************************************************************)
(* A run is the commands done so far with the status each has met, the     *)
(* status, the calls it is in, and how it ends: "ok", "break", "continue", *)
(* "return", "child" (the process is over) or "throw" with a type.         *)
(***************************************************************************)
Start == [log |-> <<>>, status |-> 0, frames |-> 1, depth |-> 0, end |-> "ok", type |-> "none"]

Fails(run, type, status) == [run EXCEPT !.end = "throw", !.type = type, !.status = status]
GoesOn(run) == [run EXCEPT !.end = "ok", !.type = "none"]
Ends(run, how) == [run EXCEPT !.end = how]

Does(run, num) ==
  [run EXCEPT !.status = num, !.log = IF num = 0 THEN @ ELSE Append(@, <<num, run.status>>)]

RECURSIVE Run(_, _), RunAll(_, _), RunLoop(_, _, _)

RunAll(ns, run) ==
  IF ns = <<>> \/ run.end # "ok" THEN run ELSE RunAll(Tail(ns), Run(Head(ns), run))

RunLoop(block, times, run) ==
  IF times = 0 THEN run
  ELSE LET after == Run(block, run)
       IN CASE after.end \in {"ok", "continue"} -> RunLoop(block, times - 1, GoesOn(after))
            [] after.end = "break" -> GoesOn(after)
            [] OTHER -> after

RunCatches(n, run) ==
  LET matching == {i \in DOMAIN Catches(n) : Catches(n)[i].type \in Super[run.type]}
      first == CHOOSE i \in matching : \A j \in matching : i =< j
  IN IF run.end # "throw" \/ matching = {}
     THEN run
     ELSE Run(Catches(n)[first].kids[1], GoesOn(run))

RunTry(n, run) ==
  LET before == RunCatches(n, Run(n.kids[1], run))
      after == Run(Last(n.kids).kids[1], GoesOn(before))
  IN IF before.end = "child" \/ ~HasFinally(n) THEN before
     ELSE IF after.end = "ok" \/ before.end = "throw"
     THEN [after EXCEPT !.end = before.end, !.type = before.type]
     ELSE after

\* A call of the function with the body, if the limits allow it.
RunCall(body, run, deeper) ==
  IF run.frames = MaxFrames \/ run.depth + deeper = MaxDepth
  THEN Fails(run, "StackOverflowError", 1)
  ELSE LET after == Run(body, [run EXCEPT !.frames = @ + 1, !.depth = @ + deeper])
           back == [after EXCEPT !.frames = run.frames, !.depth = run.depth]
       IN IF back.end = "return" THEN GoesOn(back) ELSE back

Run(n, run) ==
  CASE n.k = "cmd" -> Does(run, n.num)
    [] n.k = "fail" -> Fails(run, n.type, n.num)
    [] n.k = "throw" -> Fails(run, n.type, 1)
    [] n.k \in {"break", "continue", "return"} -> Ends(run, n.k)
    [] n.k = "block" -> RunAll(n.kids, run)
    [] n.k = "loop" -> RunLoop(n.kids[1], n.num, run)
    [] n.k = "try" -> RunTry(n, run)
    [] n.k = "operand" -> Run(n.kids[1], run)
    [] n.k = "call" -> RunCall(n.kids[1], run, 0)
    [] n.k = "native" -> RunCall(n.kids[1], run, 1)
    [] n.k = "subshell" -> CASE n.type = "parent" -> run
                             [] n.type = "child" -> Ends(Run(n.kids[1], run), "child")
                             [] OTHER -> Fails(run, "SystemError", 1)

\* The run of the body of a program.
Outcome(program) == Run(program.kids[1], Start)
=============================================================================
