----------------------------- MODULE Interpreter -----------------------------
(***************************************************************************)
(* The virtual machine of src/src/vm.cpp and src/src/state.h as far as the *)
(* control flow goes: frames, the operand stack, exceptions with `finally',*)
(* nested interpreters, subshells, and signal handlers.  An instruction is *)
(* one action; what commands and operators compute is left out.            *)
(***************************************************************************)
EXTENDS Integers, Sequences, FiniteSets, Limits

CONSTANTS
  Code,        \* programs; Code[i] is the CompiledCode of each function by its name
  MaxLoops,    \* bound on nested loops of one function
  Sig,         \* signals that arrive
  Handler,     \* SignalVector: the function that handles each signal, or NoHandler
  MaxSignals   \* bound on the signals that arrive while each program runs

\* Functions are named by the place of their source in the program; <<>> is the toplevel.
NoHandler == <<-1>>
Trampoline(s) == <<0, s>>

Operations ==
  {"CMD", "RAISE", "THROW", "PUSH", "POP", "GOTO", "INIT_LOOP", "LOOP", "CALL", "CALLBACK",
   "RETURN", "ENTER_FINALLY", "EXIT_FINALLY", "FORK", "HALT"}

\* The instruction x at pc, one of n, is one the code generator emits in the program code:
\* control does not fall off the end, and what it refers to exists.
WellFormed(x, pc, n, code) ==
  /\ x.op \in Operations
  /\ x.op \notin {"RAISE", "THROW", "GOTO", "RETURN", "EXIT_FINALLY", "HALT"} => pc + 1 =< n
  /\ x.op \in {"GOTO", "LOOP", "ENTER_FINALLY", "FORK"} => x.to \in 1 .. n
  /\ x.op \in {"CALL", "CALLBACK"} => x.fn \in DOMAIN code
  /\ x.op \in {"RAISE", "THROW"} => x.type \in Error
  /\ x.op \in {"CMD", "RAISE"} => x.num \in Int
  /\ x.op \in {"INIT_LOOP", "LOOP"} => x.num \in 1 .. MaxLoops

ASSUME CodeAssumption ==
  \A i \in DOMAIN Code :
    /\ <<>> \in DOMAIN Code[i]
    /\ NoHandler \notin DOMAIN Code[i]
    /\ \A s \in Sig : /\ Trampoline(s) \notin DOMAIN Code[i]
                      /\ Handler[s] # NoHandler => Handler[s] \in DOMAIN Code[i]
    /\ \A fn \in DOMAIN Code[i] :
         LET c == Code[i][fn]
             n == Len(c.ins)
         IN /\ n \in Nat \ {0}
            /\ \A pc \in 1 .. n : WellFormed(c.ins[pc], pc, n, Code[i])
            /\ DOMAIN c.entries \subseteq Nat
            /\ \A k \in DOMAIN c.entries : c.entries[k].dest \in 1 .. n

ASSUME InterpreterAssumption ==
  /\ MaxLoops \in Nat
  /\ MaxSignals \in [DOMAIN Code -> Nat]
  /\ Sig \subseteq Nat \ {0}
  /\ IsFiniteSet(Sig)

VARIABLES
  prog,         \* the program that runs
  phase,        \* what the thread is doing
  frame,        \* VMState::frame
  frames,       \* VMState::frames
  recDepth,     \* frame.recDepth
  thrown,       \* VMState::thrown
  savedThrown,  \* VMState::savedThrown
  isChild,      \* the process is a forked child
  exitStatus,   \* $?
  log,          \* the commands that have run, each with the $? it met
  eventDesc,    \* DSState::eventDesc
  pending,      \* DSState::pendingSigSet
  pendingIndex, \* SigSet::pendingIndex
  arrived,      \* number of signals that have arrived
  passed        \* history: signals handled while each signal has been pending

loopVars == <<phase, frame, frames, recDepth>>
throwVars == <<thrown, savedThrown>>
signalVars == <<eventDesc, pending, pendingIndex, arrived, passed>>
vars == <<prog, loopVars, throwVars, isChild, exitStatus, log, signalVars>>

(***************************************************************************)
(* phase is                                                                *)
(*   run       at the top of mainLoop                                      *)
(*   checked   there, after checkVMEvent                                   *)
(*   raise     in handleException                                          *)
(*   done      the toplevel has returned                                   *)
(*   uncaught  the toplevel has failed with `thrown'                       *)
(*   child     a child has ended its part of the code                      *)
(*   assert    an assertion has failed                                     *)
(*   corrupt   an operand below the bottom of the frame has been popped    *)
(***************************************************************************)
Phase == {"run", "checked", "raise", "done", "uncaught", "child", "assert", "corrupt"}

None == "none"
OBJECT == [kind |-> "object", num |-> 0]
NUMBER(index) == [kind |-> "number", num |-> index]

NewFrame(fn, status) ==
  [fn |-> fn, pc |-> 1, stack |-> <<>>, local |-> [d \in 1 .. MaxLoops |-> 0], status |-> status]

\* A saved frame remembers the recDepth it had.
Saved(f) == [frame |-> f, recDepth |-> recDepth]

TypeOK ==
  /\ phase \in Phase
  /\ recDepth \in 0 .. MaxDepth
  /\ Len(frames) \in 0 .. MaxFrames
  /\ thrown \in Error \cup {None}
  /\ savedThrown \in Error \cup {None}
  /\ eventDesc \subseteq {"SIGNAL", "MASK"}
  /\ pending \subseteq Sig
  /\ pendingIndex \in Nat \ {0}

Init ==
  /\ prog \in DOMAIN Code
  /\ phase = "run"
  /\ frame = NewFrame(<<>>, 0)
  /\ frames = <<[frame |-> NewFrame(NoHandler, 0), recDepth |-> 0]>>
  /\ recDepth = 0
  /\ thrown = None
  /\ savedThrown = None
  /\ isChild = FALSE
  /\ exitStatus = 0
  /\ log = <<>>
  /\ eventDesc = {}
  /\ pending = {}
  /\ pendingIndex = 1
  /\ arrived = 0
  /\ passed = [s \in Sig |-> {}]

-----------------------------------------------------------------------------
(* Code *)

\* signalTrampoline, for the signal and handler it is started with
SignalTrampoline(s) ==
  [ins |-> <<[op |-> "CALL", fn |-> Handler[s]], [op |-> "EXIT_SIG"], [op |-> "RETURN"]>>,
   entries |-> <<>>]

IsTrampoline(fn) == \E s \in Sig : fn = Trampoline(s)

CodeOf(fn) ==
  IF IsTrampoline(fn)
  THEN SignalTrampoline(fn[2])
  ELSE Code[prog][fn]

Ins == CodeOf(frame.fn).ins[frame.pc]

EventDue_unmasked == "SIGNAL" \in eventDesc

\* checkVMEvent has something to do.
EventDue == "SIGNAL" \in eventDesc /\ "MASK" \notin eventDesc

\* mainLoop fetches the instruction op.
Fetch(op) ==
  /\ phase = "checked" \/ (phase = "run" /\ ~EventDue)
  /\ Ins.op = op

\* Instructions that only work on the current frame.
Local(f) ==
  /\ frame' = f
  /\ phase' = "run"
  /\ UNCHANGED <<prog, frames, recDepth, throwVars, isChild, signalVars>>

Following == [frame EXCEPT !.pc = @ + 1]
Pushed(f, v) == [f EXCEPT !.stack = Append(@, v)]
Popped(f) == [f EXCEPT !.stack = SubSeq(@, 1, Len(@) - 1)]
Top(f) == f.stack[Len(f.stack)]

Halted(p) ==
  /\ phase' = p
  /\ UNCHANGED <<prog, frame, frames, recDepth, throwVars, isChild, exitStatus, log, signalVars>>

-----------------------------------------------------------------------------
(* Exceptions *)

\* setThrownObject: an exception saved by a finally block wins over the new one.
SetThrown(t) ==
  IF savedThrown # None
  THEN thrown' = savedThrown /\ savedThrown' = None
  ELSE thrown' = t /\ savedThrown' = None

\* throwObject, then vmerror.  f is the frame with the pc of the next instruction.
Throw(t, f, status) ==
  /\ phase' = "raise"
  /\ frame' = f
  /\ SetThrown(t)
  /\ exitStatus' = status
  /\ UNCHANGED <<prog, frames, recDepth, isChild, log, signalVars>>

\* The interpreter has come to the frame it was started with.
VMReturn(fs) == fs # <<>> => recDepth # fs[Len(fs)].recDepth

Matches(e) ==
  /\ frame.pc - 1 >= e.begin
  /\ frame.pc - 1 < e.end
  /\ e.type \in Super[thrown]

Matching ==
  LET es == CodeOf(frame.fn).entries
  IN {i \in DOMAIN es : Matches(es[i])}

Entry ==
  LET i == CHOOSE i \in Matching : \A k \in Matching : i =< k
  IN CodeOf(frame.fn).entries[i]

MainLoopFails_noGuard ==
  /\ recDepth' = recDepth - 1
  /\ phase' = IF recDepth = 0 THEN "uncaught" ELSE "raise"
  /\ UNCHANGED <<prog, frame, frames, throwVars, isChild, exitStatus, log, signalVars>>

\* mainLoop returns false: to the toplevel, or to native code, which gives up and leaves
\* the exception to the interpreter that called it.
MainLoopFails ==
  /\ recDepth' = IF recDepth = 0 THEN 0 ELSE recDepth - 1
  /\ phase' = IF recDepth = 0 THEN "uncaught" ELSE "raise"
  /\ UNCHANGED <<prog, frame, frames, throwVars, isChild, exitStatus, log, signalVars>>

\* The entry of a subshell stops the interpreter in handleException.
ProcGuard ==
  /\ phase = "raise"
  /\ ~VMReturn(frames)
  /\ Matching # {}
  /\ Entry.type = "_ProcGuard"
  /\ IF isChild THEN Halted("child") ELSE MainLoopFails

NotFound ==
  /\ phase = "raise"
  /\ VMReturn(frames)
  /\ MainLoopFails

Handled_keepOperands == [frame EXCEPT !.pc = Entry.dest]

\* Where the block of the entry starts: clearOperands has emptied the operand stack.
Handled == [frame EXCEPT !.pc = Entry.dest, !.stack = <<>>]

EnterBlock ==
  /\ phase = "raise"
  /\ ~VMReturn(frames)
  /\ Matching # {}
  /\ Entry.type # "_ProcGuard"
  /\ phase' = "run"
  /\ thrown' = None
  /\ IF Entry.type = "_Root"
     THEN savedThrown' = thrown /\ frame' = Handled
     ELSE UNCHANGED savedThrown /\ frame' = Pushed(Handled, OBJECT)
  /\ UNCHANGED <<prog, frames, recDepth, isChild, exitStatus, log, signalVars>>


\* A trampoline that is unwound ends the handling of its signal.
Unmasked(desc) == IF IsTrampoline(frame.fn) THEN desc \ {"MASK"} ELSE desc

UnwindFrame ==
  /\ phase = "raise"
  /\ ~VMReturn(frames)
  /\ Matching = {}
  /\ frame' = frames[Len(frames)].frame
  /\ frames' = SubSeq(frames, 1, Len(frames) - 1)
  /\ eventDesc' = Unmasked(eventDesc)
  /\ UNCHANGED <<prog, phase, recDepth, throwVars, isChild, exitStatus, log,
                 pending, pendingIndex, arrived, passed>>

HandleException == ProcGuard \/ NotFound \/ EnterBlock \/ UnwindFrame

-----------------------------------------------------------------------------
(* Calls *)

CALL ==
  /\ Fetch("CALL")
  /\ IF Len(frames) = MaxFrames
     THEN Throw("StackOverflowError", Following, 1)
     ELSE /\ frames' = Append(frames, Saved(Following))
          /\ frame' = NewFrame(Ins.fn, 0)
          /\ phase' = "run"
          /\ UNCHANGED <<prog, recDepth, throwVars, isChild, exitStatus, log, signalVars>>

\* A native method calls back: GUARD_RECURSION, prepareArguments (which forgets both
\* exceptions), and an interpreter of its own.
CALLBACK ==
  /\ Fetch("CALLBACK")
  /\ IF recDepth + 1 = MaxDepth
     THEN Throw("StackOverflowError", Following, 1)
     ELSE IF Len(frames) = MaxFrames
     THEN /\ phase' = "raise"
          /\ frame' = Following
          /\ thrown' = "StackOverflowError"
          /\ savedThrown' = None
          /\ exitStatus' = 1
          /\ UNCHANGED <<prog, frames, recDepth, isChild, log, signalVars>>
     ELSE /\ recDepth' = recDepth + 1
          /\ frames' = Append(frames, [frame |-> Following, recDepth |-> recDepth + 1])
          /\ frame' = NewFrame(Ins.fn, 0)
          /\ phase' = "run"
          /\ thrown' = None
          /\ savedThrown' = None
          /\ UNCHANGED <<prog, isChild, exitStatus, log, signalVars>>

RETURN_sameInterpreter ==
  /\ Fetch("RETURN")
  /\ frame' = frames[Len(frames)].frame
  /\ frames' = SubSeq(frames, 1, Len(frames) - 1)
  /\ phase' = IF Len(frames) = 1 THEN "done" ELSE "run"
  /\ UNCHANGED <<prog, recDepth, throwVars, isChild, exitStatus, log, signalVars>>

RETURN ==
  /\ Fetch("RETURN")
  /\ LET rest == SubSeq(frames, 1, Len(frames) - 1)
     IN /\ frame' = frames[Len(frames)].frame
        /\ frames' = rest
        /\ phase' = IF rest = <<>> THEN "done" ELSE "run"
        /\ recDepth' = IF rest # <<>> /\ VMReturn(rest) THEN recDepth - 1 ELSE recDepth
  /\ UNCHANGED <<prog, throwVars, isChild, exitStatus, log, signalVars>>

-----------------------------------------------------------------------------
(* The other instructions *)

\* A command: what is observed of a program.
CMD ==
  /\ Fetch("CMD")
  /\ Local(Following)
  /\ exitStatus' = Ins.num
  /\ log' = IF Ins.num = 0 THEN log ELSE Append(log, <<Ins.num, exitStatus>>)

\* An instruction that fails.
RAISE == Fetch("RAISE") /\ Throw(Ins.type, Following, Ins.num)

THROW == Fetch("THROW") /\ Throw(Ins.type, Popped(Following), 1)

PUSH == Fetch("PUSH") /\ Local(Pushed(Following, OBJECT)) /\ UNCHANGED <<exitStatus, log>>

POP ==
  /\ Fetch("POP")
  /\ IF frame.stack = <<>>
     THEN Halted("corrupt")
     ELSE Local(Popped(Following)) /\ UNCHANGED <<exitStatus, log>>

GOTO ==
  /\ Fetch("GOTO")
  /\ Local([frame EXCEPT !.pc = Ins.to])
  /\ UNCHANGED <<exitStatus, log>>

\* The initialisation of a loop.
INIT_LOOP ==
  /\ Fetch("INIT_LOOP")
  /\ Local([Following EXCEPT !.local[Ins.num] = 0])
  /\ UNCHANGED <<exitStatus, log>>

\* The condition of a loop that goes round Ins.times times (0: for ever), and its BRANCH.
LOOP ==
  /\ Fetch("LOOP")
  /\ Local(IF Ins.times = 0 THEN Following
           ELSE IF frame.local[Ins.num] < Ins.times
           THEN [Following EXCEPT !.local[Ins.num] = @ + 1]
           ELSE [frame EXCEPT !.pc = Ins.to])
  /\ UNCHANGED <<exitStatus, log>>

ENTER_FINALLY ==
  /\ Fetch("ENTER_FINALLY")
  /\ Local([Pushed(frame, NUMBER(frame.pc + 1)) EXCEPT !.pc = Ins.to])
  /\ UNCHANGED <<exitStatus, log>>

EXIT_FINALLY ==
  /\ Fetch("EXIT_FINALLY")
  /\ CASE savedThrown # None ->
            /\ thrown' = savedThrown
            /\ savedThrown' = None
            /\ frame' = Following
            /\ phase' = "raise"
            /\ UNCHANGED <<prog, frames, recDepth, isChild, exitStatus, log, signalVars>>
       [] savedThrown = None /\ (frame.stack = <<>> \/ Top(frame).kind # "number") ->
            Halted("assert")
       [] OTHER ->
            /\ Local([Popped(frame) EXCEPT !.pc = Top(frame).num])
            /\ UNCHANGED <<exitStatus, log>>

(***************************************************************************)
(* FORK of a subshell: this process goes on as the parent, as the child,   *)
(* whose pending signals, handlers and mask are cleared, or as a parent    *)
(* that could not fork or was interrupted while it waited.                 *)
(***************************************************************************)
FORK ==
  /\ Fetch("FORK")
  /\ CASE Ins.as = "parent" ->
            /\ Local([Pushed(frame, OBJECT) EXCEPT !.pc = Ins.to])
            /\ UNCHANGED <<exitStatus, log>>
       [] Ins.as = "fails" -> Throw("SystemError", Following, 1)
       [] OTHER ->
            /\ frame' = Following
            /\ phase' = "run"
            /\ isChild' = TRUE
            /\ eventDesc' = {}
            /\ pending' = {}
            /\ pendingIndex' = 1
            /\ passed' = [s \in Sig |-> {}]
            /\ UNCHANGED <<prog, frames, recDepth, throwVars, exitStatus, log, arrived>>

HALT == Fetch("HALT") /\ Halted("child")

-----------------------------------------------------------------------------
(* Signals *)

\* signalHandler.  A child has the default action for signals the script handles.
Arrive(s) ==
  /\ phase \in {"run", "checked", "raise"}
  /\ arrived < MaxSignals[prog]
  /\ isChild => Handler[s] = NoHandler
  /\ arrived' = arrived + 1
  /\ pending' = pending \cup {s}
  /\ eventDesc' = eventDesc \cup {"SIGNAL"}
  /\ UNCHANGED <<prog, loopVars, throwVars, isChild, exitStatus, log, pendingIndex, passed>>

SigMax == CHOOSE s \in Sig : \A t \in Sig : t =< s

NextPending_lowest(from) == CHOOSE s \in pending : \A t \in pending : s =< t

\* popPendingSig: the first pending signal from pendingIndex on, round and round.
NextPending(from) ==
  LET ahead == {s \in pending : s >= from}
      among == IF ahead # {} THEN ahead ELSE pending
  IN CHOOSE s \in among : \A t \in among : s =< t

StillSignaled_never(left) == {}
StillSignaled_always(left) == {"SIGNAL"}

\* popPendingSignal takes the flag back with the last signal.
StillSignaled(left) == IF left = {} THEN {} ELSE {"SIGNAL"}

\* checkVMEvent
CheckVMEvent ==
  /\ phase = "run"
  /\ EventDue
  /\ LET s == NextPending(pendingIndex)
         left == pending \ {s}
         desc == StillSignaled(left)
     IN /\ pending' = left
        /\ pendingIndex' = IF s = SigMax THEN 1 ELSE s + 1
        /\ passed' = [t \in Sig |-> IF t \in left THEN passed[t] \cup {s} ELSE {}]
        /\ CASE Handler[s] = NoHandler ->   \* SIGCHLD, or its handler has been removed
                  /\ eventDesc' = desc
                  /\ phase' = "checked"
                  /\ UNCHANGED <<frame, frames, throwVars, exitStatus>>
             [] Handler[s] # NoHandler /\ Len(frames) = MaxFrames ->
                  /\ eventDesc' = desc \cup {"MASK"}
                  /\ phase' = "raise"
                  /\ SetThrown("StackOverflowError")
                  /\ exitStatus' = 1
                  /\ UNCHANGED <<frame, frames>>
             [] OTHER ->                    \* kickSignalHandler
                  /\ eventDesc' = desc \cup {"MASK"}
                  /\ phase' = "checked"
                  /\ frames' = Append(frames, Saved(frame))
                  /\ frame' = NewFrame(Trampoline(s), exitStatus)
                  /\ UNCHANGED <<throwVars, exitStatus>>
  /\ UNCHANGED <<prog, recDepth, isChild, log, arrived>>

EXIT_SIG ==
  /\ Fetch("EXIT_SIG")
  /\ frame' = Following
  /\ phase' = "run"
  /\ exitStatus' = frame.status
  /\ eventDesc' = eventDesc \ {"MASK"}
  /\ UNCHANGED <<prog, frames, recDepth, throwVars, isChild, log, pending, pendingIndex,
                 arrived, passed>>

-----------------------------------------------------------------------------
Instruction ==
  \/ CMD \/ RAISE \/ THROW \/ PUSH \/ POP \/ GOTO \/ INIT_LOOP \/ LOOP
  \/ CALL \/ CALLBACK \/ RETURN \/ ENTER_FINALLY \/ EXIT_FINALLY \/ FORK \/ HALT

\* The program is over, one way or the other.
Over ==
  /\ phase \in {"done", "uncaught", "child", "assert", "corrupt"}
  /\ UNCHANGED vars

Step == Instruction \/ HandleException \/ CheckVMEvent \/ EXIT_SIG

Next == Step \/ (\E s \in Sig : Arrive(s)) \/ Over

Spec == Init /\ [][Next]_vars
=============================================================================
