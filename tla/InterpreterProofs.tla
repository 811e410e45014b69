-------------------------- MODULE InterpreterProofs --------------------------
(***************************************************************************)
(* The inductive invariant of the virtual machine, for any well-formed     *)
(* code, any signals and handlers and any limits: control stays in the     *)
(* code, interpreters nest, and signal handlers do not.                    *)
(***************************************************************************)
EXTENDS ControlFlow, SequenceTheorems, FiniteSetTheorems, WellFoundedInduction, TLAPS

-----------------------------------------------------------------------------
(* The invariant *)

FnName ==
  (UNION {DOMAIN Code[i] : i \in DOMAIN Code}) \cup {Trampoline(s) : s \in Sig} \cup {NoHandler}
Value == [kind : {"object", "number"}, num : Nat]
Frame ==
  [fn : FnName, pc : Nat \ {0}, stack : Seq(Value), local : [1 .. MaxLoops -> Int], status : Int]
SavedFrame == [frame : Frame, recDepth : Int]

\* What the variables hold, finer than TypeOK.
Shape ==
  /\ TypeOK
  /\ prog \in DOMAIN Code
  /\ frame \in Frame
  /\ frames \in Seq(SavedFrame)
  /\ isChild \in BOOLEAN
  /\ exitStatus \in Int

Size(fn) == Len(CodeOf(fn).ins)

\* A function that has code, or the trampoline of a signal that has a handler.
KnownFn(fn) ==
  \/ fn \in DOMAIN Code[prog]
  \/ \E s \in Sig : fn = Trampoline(s) /\ Handler[s] # NoHandler

\* The return addresses of a frame are in its code.
Inside(f) ==
  /\ KnownFn(f.fn)
  /\ \A i \in DOMAIN f.stack : f.stack[i].kind = "number" => f.stack[i].num \in 1 .. Size(f.fn)

\* So is its next instruction.
At(f) == Inside(f) /\ f.pc =< Size(f.fn)

\* Control does not leave the code of a function, nor will it when a frame is resumed.
InCode ==
  /\ \A i \in 2 .. Len(frames) : At(frames[i].frame)
  /\ phase \in {"run", "checked"} => At(frame)
  /\ phase = "raise" /\ frames # <<>> => Inside(frame)

\* A child gets no signal that has a handler.
ChildQuiet == isChild => \A s \in pending : Handler[s] = NoHandler

\* Signals are masked while a handler runs.
Masked ==
  ~isChild /\ (Handling(frame) \/ \E i \in DOMAIN frames : Handling(frames[i].frame))
    => "MASK" \in eventDesc

IInv ==
  Shape /\ InCode /\ InterpretersNest /\ SignalFlag /\ HandlersApart /\ ChildQuiet /\ Masked

-----------------------------------------------------------------------------
(* Data *)

(* Appending to a stack leaves what is below. *)
LEMMA PushedOn ==
  ASSUME NEW S, NEW s \in Seq(S), NEW e \in S
  PROVE  /\ Append(s, e) \in Seq(S)
         /\ Append(s, e) # <<>>
         /\ Len(Append(s, e)) = Len(s) + 1
         /\ \A i \in 1 .. Len(s) : Append(s, e)[i] = s[i]
         /\ Append(s, e)[Len(s) + 1] = e
  BY AppendProperties

(* What is left of a stack without its top. *)
LEMMA PrefixLemma ==
  ASSUME NEW S, NEW s \in Seq(S), NEW n \in Nat, n = Len(s) - 1
  PROVE  /\ SubSeq(s, 1, n) \in Seq(S)
         /\ Len(SubSeq(s, 1, n)) = n
         /\ \A i \in 1 .. n : SubSeq(s, 1, n)[i] = s[i]
<1>1. \A i \in 1 .. n : s[i] \in S
  OBVIOUS
<1>2. Len(SubSeq(s, 1, n)) = IF 1 =< n THEN n - 1 + 1 ELSE 0
  BY <1>1, SubSeqProperties
<1>3. SubSeq(s, 1, n) \in Seq(S) /\ \A i \in 1 .. n : SubSeq(s, 1, n)[i] = s[i]
  OBVIOUS
<1> QED
  BY <1>2, <1>3

(* The top of a stack can be removed, that of an empty one without effect. *)
LEMMA TakenOff ==
  ASSUME NEW S, NEW s \in Seq(S)
  PROVE  /\ SubSeq(s, 1, Len(s) - 1) \in Seq(S)
         /\ s # <<>> => Len(s) \in Nat \ {0} /\ Len(SubSeq(s, 1, Len(s) - 1)) = Len(s) - 1
         /\ s # <<>> => (SubSeq(s, 1, Len(s) - 1) = <<>> <=> Len(s) = 1)
         /\ s = <<>> => SubSeq(s, 1, Len(s) - 1) = <<>>
         /\ DOMAIN s = 1 .. Len(s)
         /\ \A i \in 1 .. Len(SubSeq(s, 1, Len(s) - 1)) :
              i \in 1 .. Len(s) /\ SubSeq(s, 1, Len(s) - 1)[i] = s[i]
<1>1. DOMAIN s = 1 .. Len(s)
  BY LenProperties
<1>2. CASE s = <<>>
  <2>1. SubSeq(s, 1, Len(s) - 1) = <<>>
    BY <1>2
  <2> QED
    BY <1>2, <1>1, <2>1
<1>3. CASE s # <<>>
  <2>1. Len(s) \in Nat \ {0}
    BY <1>3, EmptySeq, LenProperties
  <2>2. PICK n \in Nat : n = Len(s) - 1
    BY <2>1
  <2>3. /\ SubSeq(s, 1, n) \in Seq(S)
        /\ Len(SubSeq(s, 1, n)) = n
        /\ \A i \in 1 .. n : SubSeq(s, 1, n)[i] = s[i]
    BY <2>2, PrefixLemma
  <2>4. \A i \in 1 .. n : i \in 1 .. Len(s)
    BY <2>1, <2>2
  <2>5. SubSeq(s, 1, n) = <<>> <=> n = 0
    BY <2>3, EmptySeq, LenProperties
  <2>6. SubSeq(s, 1, n) = <<>> <=> Len(s) = 1
    BY <2>1, <2>2, <2>5
  <2>7. SubSeq(s, 1, Len(s) - 1) = SubSeq(s, 1, n)
    BY <2>2
  <2> DEFINE r == SubSeq(s, 1, Len(s) - 1)
  <2>8. /\ r \in Seq(S) /\ Len(r) = Len(s) - 1 /\ (r = <<>> <=> Len(s) = 1)
        /\ \A i \in 1 .. Len(r) : i \in 1 .. Len(s) /\ r[i] = s[i]
    BY <2>2, <2>3, <2>4, <2>6, <2>7
  <2> HIDE DEF r
  <2> QED
    BY <1>3, <1>1, <2>1, <2>8 DEF r
<1> QED
  BY <1>2, <1>3

(* A set of natural numbers has a least element, so that popPendingSig finds a signal. *)
LEMMA LeastLemma ==
  ASSUME NEW S, S \subseteq Nat, S # {}
  PROVE  \E x \in S : \A y \in S : x =< y
<1>1. IsWellFoundedOn(OpToRel(<, Nat), Nat)
  BY NatLessThanWellFounded
<1>2. PICK x \in S : \A y \in S : ~(y < x)
  <2>1. PICK x \in S : \A y \in S : ~(<<y, x>> \in OpToRel(<, Nat))
    BY <1>1, WFMin
  <2>2. \A y \in S : ~(y < x)
    BY <2>1 DEF OpToRel
  <2> QED
    BY <2>2
<1> QED
  BY <1>2

(* popPendingSig returns a pending signal. *)
LEMMA NextPendingLemma ==
  ASSUME pending \subseteq Sig, pending # {}, NEW from \in Nat
  PROVE  NextPending(from) \in pending
<1> DEFINE ahead == {s \in pending : s >= from}
           among == IF ahead # {} THEN ahead ELSE pending
<1>1. among \subseteq Nat /\ among # {} /\ among \subseteq pending
  BY InterpreterAssumption
<1>2. \E x \in among : \A y \in among : x =< y
  BY <1>1, LeastLemma
<1>3. NextPending(from) \in among
  BY <1>2 DEF NextPending
<1> QED
  BY <1>1, <1>3

-----------------------------------------------------------------------------
(* Frames *)

(* Operands can be pushed; a return address has to be one of the frame's code. *)
LEMMA PushedLemma ==
  ASSUME NEW f \in Frame, NEW v \in Value
  PROVE  /\ Pushed(f, v) \in Frame
         /\ Pushed(f, v).fn = f.fn
         /\ Pushed(f, v).pc = f.pc
         /\ Inside(f) /\ (v.kind = "number" => v.num \in 1 .. Size(f.fn)) => Inside(Pushed(f, v))
<1>1. f.stack \in Seq(Value)
  BY DEF Frame
<1>2. Append(f.stack, v) \in Seq(Value)
  BY <1>1, PushedOn
<1>3. /\ Pushed(f, v) \in Frame
      /\ Pushed(f, v).fn = f.fn
      /\ Pushed(f, v).pc = f.pc
      /\ Pushed(f, v).stack = Append(f.stack, v)
  BY <1>2 DEF Pushed, Frame
<1>4. ASSUME Inside(f), v.kind = "number" => v.num \in 1 .. Size(f.fn),
             NEW i \in DOMAIN Append(f.stack, v), Append(f.stack, v)[i].kind = "number"
      PROVE  Append(f.stack, v)[i].num \in 1 .. Size(f.fn)
  <2>1. i \in 1 .. Len(f.stack) \/ i = Len(f.stack) + 1
    BY <1>1, <1>2, PushedOn
  <2>2. CASE i = Len(f.stack) + 1
    BY <1>1, <1>4, <2>2, PushedOn
  <2>3. CASE i \in 1 .. Len(f.stack)
    <3>1. Append(f.stack, v)[i] = f.stack[i] /\ i \in DOMAIN f.stack
      BY <1>1, <2>3, PushedOn
    <3> QED
      BY <1>4, <3>1 DEF Inside
  <2> QED
    BY <2>1, <2>2, <2>3
<1> QED
  BY <1>3, <1>4 DEF Inside

(* The operand on top can be removed. *)
LEMMA PoppedLemma ==
  ASSUME NEW f \in Frame
  PROVE  /\ Popped(f) \in Frame
         /\ Popped(f).fn = f.fn
         /\ Popped(f).pc = f.pc
         /\ Inside(f) => Inside(Popped(f))
<1> DEFINE r == SubSeq(f.stack, 1, Len(f.stack) - 1)
<1>1. f.stack \in Seq(Value)
  BY DEF Frame
<1>2. r \in Seq(Value) /\ \A i \in 1 .. Len(r) : i \in 1 .. Len(f.stack) /\ r[i] = f.stack[i]
  BY <1>1, TakenOff
<1> HIDE DEF r
<1>3. /\ Popped(f) \in Frame
      /\ Popped(f).fn = f.fn
      /\ Popped(f).pc = f.pc
      /\ Popped(f).stack = r
  BY <1>2 DEF Popped, Frame, r
<1>4. \A i \in DOMAIN r : i \in DOMAIN f.stack /\ r[i] = f.stack[i]
  BY <1>1, <1>2
<1> QED
  BY <1>3, <1>4 DEF Inside

(* So can all of them. *)
LEMMA EmptiedLemma ==
  ASSUME NEW f \in Frame, NEW pc \in Nat \ {0}
  PROVE  LET g == [f EXCEPT !.pc = pc, !.stack = <<>>]
         IN /\ g \in Frame
            /\ g.fn = f.fn
            /\ g.pc = pc
            /\ Inside(f) => Inside(g)
<1> DEFINE g == [f EXCEPT !.pc = pc, !.stack = <<>>]
<1>1. <<>> \in Seq(Value)
  OBVIOUS
<1>2. g \in Frame
  BY <1>1 DEF Frame
<1>3. g.fn = f.fn /\ g.pc = pc /\ g.stack = <<>>
  BY DEF Frame
<1>4. DOMAIN g.stack = {}
  BY <1>3
<1> QED
  BY <1>2, <1>3, <1>4 DEF Inside

(* A jump changes the pc and nothing else. *)
LEMMA JumpLemma ==
  ASSUME NEW f \in Frame, NEW pc \in Nat \ {0}
  PROVE  LET g == [f EXCEPT !.pc = pc]
         IN /\ g \in Frame
            /\ g.fn = f.fn
            /\ g.pc = pc
            /\ g.status = f.status
            /\ Inside(f) => Inside(g)
<1> DEFINE g == [f EXCEPT !.pc = pc]
<1>1. g \in Frame /\ g.fn = f.fn /\ g.pc = pc /\ g.stack = f.stack /\ g.status = f.status
  BY DEF Frame
<1> QED
  BY <1>1 DEF Inside

(* A local variable does not matter to the control flow. *)
LEMMA LocalLemma ==
  ASSUME NEW f \in Frame, NEW d \in 1 .. MaxLoops, NEW v \in Int
  PROVE  LET g == [f EXCEPT !.local[d] = v]
         IN /\ g \in Frame
            /\ g.fn = f.fn
            /\ g.pc = f.pc
            /\ Inside(f) => Inside(g)
<1> DEFINE g == [f EXCEPT !.local[d] = v]
<1>1. g \in Frame /\ g.fn = f.fn /\ g.pc = f.pc /\ g.stack = f.stack
  BY DEF Frame
<1> QED
  BY <1>1 DEF Inside

(* A call starts with an empty operand stack. *)
LEMMA NewFrameLemma ==
  ASSUME prog \in DOMAIN Code, NEW fn, KnownFn(fn), NEW status \in Int
  PROVE  /\ NewFrame(fn, status) \in Frame
         /\ NewFrame(fn, status).fn = fn
         /\ NewFrame(fn, status).pc = 1
         /\ Inside(NewFrame(fn, status))
<1>1. fn \in FnName
  BY DEF KnownFn, FnName
<1>2. <<>> \in Seq(Value) /\ [d \in 1 .. MaxLoops |-> 0] \in [1 .. MaxLoops -> Int]
  OBVIOUS
<1>3. NewFrame(fn, status) \in Frame
  BY <1>1, <1>2 DEF NewFrame, Frame
<1>4. /\ NewFrame(fn, status).fn = fn
      /\ NewFrame(fn, status).pc = 1
      /\ NewFrame(fn, status).stack = <<>>
  BY DEF NewFrame
<1> QED
  BY <1>3, <1>4 DEF Inside

-----------------------------------------------------------------------------
(* Code *)

(* A trampoline calls its handler, ends the handling, and returns. *)
LEMMA TrampolineLemma ==
  ASSUME NEW s \in Sig
  PROVE  /\ CodeOf(Trampoline(s)) = SignalTrampoline(s)
         /\ Size(Trampoline(s)) = 3
         /\ CodeOf(Trampoline(s)).entries = <<>>
         /\ CodeOf(Trampoline(s)).ins[1].op = "CALL"
         /\ CodeOf(Trampoline(s)).ins[1].fn = Handler[s]
         /\ CodeOf(Trampoline(s)).ins[2].op = "EXIT_SIG"
         /\ CodeOf(Trampoline(s)).ins[3].op = "RETURN"
<1>1. CodeOf(Trampoline(s)) = SignalTrampoline(s)
  BY DEF CodeOf, IsTrampoline, Trampoline
<1> QED
  BY <1>1 DEF SignalTrampoline, Size

(* Every other function has the code of the program. *)
LEMMA FunctionLemma ==
  ASSUME prog \in DOMAIN Code, NEW fn \in DOMAIN Code[prog]
  PROVE  ~IsTrampoline(fn) /\ CodeOf(fn) = Code[prog][fn]
<1>1. ~IsTrampoline(fn)
  BY CodeAssumption DEF IsTrampoline
<1> QED
  BY <1>1 DEF CodeOf

(* What the instruction that is fetched looks like. *)
LEMMA InsLemma ==
  ASSUME prog \in DOMAIN Code, frame \in Frame, At(frame)
  PROVE  /\ Size(frame.fn) \in Nat
         /\ Ins.op \notin {"RAISE", "THROW", "GOTO", "RETURN", "EXIT_FINALLY", "HALT"}
              => frame.pc + 1 \in 1 .. Size(frame.fn)
         /\ Ins.op \in {"GOTO", "LOOP", "ENTER_FINALLY", "FORK"} => Ins.to \in 1 .. Size(frame.fn)
         /\ Ins.op \in {"CALL", "CALLBACK"} => Ins.fn \in DOMAIN Code[prog]
         /\ Ins.op \in {"RAISE", "THROW"} => Ins.type \in Error
         /\ Ins.op \in {"CMD", "RAISE"} => Ins.num \in Int
         /\ Ins.op \in {"INIT_LOOP", "LOOP"} => Ins.num \in 1 .. MaxLoops
         /\ Ins.op = "EXIT_SIG" => IsTrampoline(frame.fn) /\ frame.pc = 2
         /\ IsTrampoline(frame.fn) =>
              /\ Ins.op \in {"CALL", "EXIT_SIG", "RETURN"}
              /\ Ins.op = "CALL" => frame.pc = 1
              /\ Ins.op = "RETURN" => frame.pc = 3
<1>1. frame.pc \in Nat \ {0} /\ frame.pc =< Size(frame.fn)
  BY DEF At, Frame
<1>2. CASE frame.fn \in DOMAIN Code[prog]
  <2> DEFINE c == Code[prog][frame.fn]
  <2>1. CodeOf(frame.fn) = c /\ ~IsTrampoline(frame.fn)
    BY <1>2, FunctionLemma
  <2>2. Len(c.ins) \in Nat
    BY <1>2, CodeAssumption
  <2>3. frame.pc \in 1 .. Len(c.ins) /\ Ins = c.ins[frame.pc] /\ Size(frame.fn) = Len(c.ins)
    BY <1>1, <2>1, <2>2 DEF Ins, Size
  <2>4. WellFormed(c.ins[frame.pc], frame.pc, Len(c.ins), Code[prog])
    BY <1>2, <2>3, CodeAssumption
  <2> HIDE DEF c
  <2> QED
    BY <1>1, <2>1, <2>2, <2>3, <2>4 DEF WellFormed, Operations
<1>3. ASSUME NEW s \in Sig, frame.fn = Trampoline(s), Handler[s] # NoHandler
      PROVE  /\ Size(frame.fn) = 3
             /\ \/ (frame.pc = 1 /\ Ins.op = "CALL" /\ Ins.fn \in DOMAIN Code[prog])
                \/ (frame.pc = 2 /\ Ins.op = "EXIT_SIG")
                \/ (frame.pc = 3 /\ Ins.op = "RETURN")
  <2>1. Size(frame.fn) = 3 /\ frame.pc \in {1, 2, 3}
    BY <1>1, <1>3, TrampolineLemma
  <2>2. Handler[s] \in DOMAIN Code[prog]
    BY <1>3, CodeAssumption
  <2>3. CASE frame.pc = 1
    BY <1>3, <2>1, <2>2, <2>3, TrampolineLemma DEF Ins
  <2>4. CASE frame.pc = 2
    BY <1>3, <2>1, <2>4, TrampolineLemma DEF Ins
  <2>5. CASE frame.pc = 3
    BY <1>3, <2>1, <2>5, TrampolineLemma DEF Ins
  <2> QED
    BY <2>1, <2>3, <2>4, <2>5
<1>4. CASE \E s \in Sig : frame.fn = Trampoline(s) /\ Handler[s] # NoHandler
  <2>1. IsTrampoline(frame.fn)
    BY <1>4 DEF IsTrampoline
  <2>2. /\ Size(frame.fn) = 3
        /\ \/ (frame.pc = 1 /\ Ins.op = "CALL" /\ Ins.fn \in DOMAIN Code[prog])
           \/ (frame.pc = 2 /\ Ins.op = "EXIT_SIG")
           \/ (frame.pc = 3 /\ Ins.op = "RETURN")
    BY <1>3, <1>4
  <2> QED
    BY <2>1, <2>2
<1> QED
  BY <1>2, <1>4 DEF At, Inside, KnownFn

(* A catch or finally block is in the code of its function. *)
LEMMA EntryLemma ==
  ASSUME prog \in DOMAIN Code, frame \in Frame, Inside(frame), Matching # {}
  PROVE  Entry.dest \in 1 .. Size(frame.fn)
<1>1. frame.fn \in DOMAIN Code[prog]
  <2>1. ASSUME NEW s \in Sig, frame.fn = Trampoline(s)
        PROVE  FALSE
    BY <2>1, TrampolineLemma DEF Matching
  <2> QED
    BY <2>1 DEF Inside, KnownFn
<1> DEFINE c == Code[prog][frame.fn]
<1>2. CodeOf(frame.fn) = c
  BY <1>1, FunctionLemma
<1>3. /\ DOMAIN c.entries \subseteq Nat
      /\ \A k \in DOMAIN c.entries : c.entries[k].dest \in 1 .. Len(c.ins)
  BY <1>1, CodeAssumption
<1> HIDE DEF c
<1>4. Matching \subseteq DOMAIN c.entries
  BY <1>2 DEF Matching
<1>5. \E i \in Matching : \A k \in Matching : i =< k
  BY <1>3, <1>4, LeastLemma
<1>6. PICK i \in Matching : Entry = c.entries[i]
  BY <1>2, <1>5 DEF Entry
<1> QED
  BY <1>2, <1>3, <1>4, <1>6 DEF Size

-----------------------------------------------------------------------------
(* What steps do to the frames: nothing, push one, pop one *)

\* What the variables of signals hold.
SignalsSound ==
  /\ eventDesc \subseteq {"SIGNAL", "MASK"}
  /\ pending \subseteq Sig
  /\ pendingIndex \in Nat \ {0}
  /\ SignalFlag
  /\ ChildQuiet

ThrownSound == thrown \in Error \cup {None} /\ savedThrown \in Error \cup {None}

(* A step that leaves the saved frames alone. *)
LEMMA SameFramesLemma ==
  ASSUME IInv, prog' = prog, frames' = frames, recDepth' \in 0 .. MaxDepth - 1,
         isChild' \in BOOLEAN, SignalsSound', Masked',
         phase' \in Phase, ThrownSound', exitStatus' \in Int,
         frame' \in Frame, frame'.fn = frame.fn,
         phase' \in {"run", "checked"} \/ (phase' = "raise" /\ frames # <<>>) => Inside(frame'),
         phase' \in {"run", "checked"} =>
           /\ frame'.pc =< Size(frame.fn)
           /\ frames # <<>>
           /\ frames[Len(frames)].recDepth = recDepth'
  PROVE  IInv'
<1>1. Shape'
  <2>1. recDepth' \in 0 .. MaxDepth
    BY LimitsAssumption
  <2> QED
    BY <2>1 DEF IInv, Shape, TypeOK, ThrownSound, SignalsSound
<1>2. InCode'
  <2>1. (\A i \in 2 .. Len(frames) : At(frames[i].frame))'
    BY DEF IInv, InCode, At, Inside, KnownFn, Size, CodeOf
  <2>2. phase' \in {"run", "checked"} => At(frame')
    BY DEF At
  <2>3. phase' \in {"run", "checked"} => At(frame)'
    BY <2>2 DEF At, Inside, KnownFn, Size, CodeOf
  <2>4. phase' = "raise" /\ frames # <<>> => Inside(frame)'
    BY DEF Inside, KnownFn, Size, CodeOf
  <2> QED
    BY <2>1, <2>3, <2>4 DEF InCode
<1>3. InterpretersNest'
  <2>1. recDepth' < MaxDepth
    BY LimitsAssumption
  <2>2. \A i \in DOMAIN frames :
          /\ frames[i].recDepth \in 0 .. MaxDepth - 1
          /\ frames[i].recDepth \in IF i = 1 THEN {0}
                                  ELSE {frames[i - 1].recDepth, frames[i - 1].recDepth + 1}
    BY DEF IInv, InterpretersNest
  <2> QED
    BY <2>1, <2>2 DEF InterpretersNest
<1>4. HandlersApart'
  BY DEF IInv, HandlersApart, Handling, IsTrampoline
<1> QED
  BY <1>1, <1>2, <1>3, <1>4 DEF IInv, SignalsSound

(* A step of the current frame. *)
LEMMA SameSignalsLemma ==
  ASSUME IInv, prog' = prog, frames' = frames, recDepth' = recDepth, isChild' = isChild,
         eventDesc' = eventDesc, pending' = pending, pendingIndex' = pendingIndex,
         phase' \in Phase, ThrownSound', exitStatus' \in Int,
         frame' \in Frame, frame'.fn = frame.fn,
         phase' \in {"run", "checked", "raise"} => Inside(frame'),
         Handling(frame') => Handling(frame),
         phase' \in {"run", "checked"} =>
           /\ frame'.pc =< Size(frame.fn)
           /\ frames # <<>>
           /\ frames[Len(frames)].recDepth = recDepth
  PROVE  IInv'
<1>1. SignalsSound'
  BY DEF IInv, Shape, TypeOK, SignalsSound, SignalFlag, ChildQuiet
<1>2. Masked'
  BY DEF IInv, Masked, Handling, IsTrampoline
<1>3. recDepth \in 0 .. MaxDepth - 1 /\ isChild \in BOOLEAN
  BY LimitsAssumption DEF IInv, Shape, TypeOK, InterpretersNest
<1> QED
  BY <1>1, <1>2, <1>3, SameFramesLemma

(* The current frame is saved as f, and a new one of fn is wound. *)
LEMMA PushLemma ==
  ASSUME IInv, prog' = prog, isChild' = isChild, phase \in {"run", "checked"},
         phase' \in {"run", "checked"},
         ThrownSound', SignalsSound', exitStatus' \in Int, Len(frames) < MaxFrames,
         NEW f \in Frame, f.fn = frame.fn, At(f), Handling(f) => Handling(frame),
         NEW d \in {recDepth, recDepth + 1}, d < MaxDepth,
         frames' = Append(frames, [frame |-> f, recDepth |-> d]), recDepth' = d,
         NEW fn, KnownFn(fn), NEW status \in Int, frame' = NewFrame(fn, status),
         IsTrampoline(fn) =>
           /\ "MASK" \in eventDesc'
           /\ ~Handling(f)
           /\ \A i \in DOMAIN frames : ~Handling(frames[i].frame),
         ~IsTrampoline(fn) => ("MASK" \in eventDesc => "MASK" \in eventDesc')
  PROVE  IInv'
<1> DEFINE saved == [frame |-> f, recDepth |-> d]
           n == Len(frames)
<1>1. /\ frames \in Seq(SavedFrame) /\ n \in Nat /\ recDepth \in Nat
      /\ frames # <<>> /\ n > 0 /\ frames[n].recDepth = recDepth
      /\ DOMAIN frames = 1 .. n
  BY DEF IInv, Shape, InterpretersNest, TypeOK
<1>2. saved \in SavedFrame
  BY <1>1 DEF SavedFrame
<1>3. /\ frames' \in Seq(SavedFrame)
      /\ frames' # <<>>
      /\ Len(frames') = n + 1
      /\ DOMAIN frames' = 1 .. n + 1
      /\ \A i \in 1 .. n : frames'[i] = frames[i]
      /\ frames'[n + 1] = saved
  BY <1>1, <1>2, PushedOn
<1>4. frames'[n + 1].frame = f /\ frames'[n + 1].recDepth = d
  BY <1>3
<1>5. /\ frame' \in Frame /\ frame'.fn = fn /\ frame'.pc = 1 /\ Inside(frame')
  BY NewFrameLemma DEF IInv, Shape
<1> HIDE DEF saved, n
<1>6. Shape'
  <2>1. Len(frames') \in 0 .. MaxFrames
    BY <1>1, <1>3, LimitsAssumption DEF n
  <2>2. recDepth' \in 0 .. MaxDepth
    BY <1>1, LimitsAssumption
  <2> QED
    BY <1>1, <1>3, <1>5, <2>1, <2>2 DEF IInv, Shape, TypeOK, ThrownSound, SignalsSound, Phase
<1>7. InCode'
  <2>1. ASSUME NEW i \in 2 .. Len(frames')
        PROVE  At(frames'[i].frame)
    <3>1. i \in 2 .. n \/ i = n + 1
      BY <1>1, <1>3
    <3>2. CASE i \in 2 .. n
      BY <1>3, <3>2 DEF IInv, InCode, n
    <3>3. CASE i = n + 1
      BY <1>3, <1>4, <3>3
    <3> QED
      BY <3>1, <3>2, <3>3
  <2>2. (\A i \in 2 .. Len(frames) : At(frames[i].frame))'
    BY <2>1 DEF At, Inside, KnownFn, Size, CodeOf
  <2>3. 1 =< Size(fn)
    <3>1. CASE fn \in DOMAIN Code[prog]
      BY <3>1, FunctionLemma, CodeAssumption DEF Size, IInv, Shape
    <3>2. CASE \E s \in Sig : fn = Trampoline(s)
      BY <3>2, TrampolineLemma
    <3> QED
      BY <3>1, <3>2 DEF KnownFn
  <2>4. At(frame')
    BY <1>5, <2>3 DEF At
  <2>5. At(frame)'
    BY <2>4 DEF At, Inside, KnownFn, Size, CodeOf
  <2> QED
    BY <2>2, <2>5 DEF InCode
<1>8. InterpretersNest'
  <2>1. \A i \in 1 .. n :
          /\ frames[i].recDepth \in 0 .. MaxDepth - 1
          /\ frames[i].recDepth \in IF i = 1 THEN {0}
                                  ELSE {frames[i - 1].recDepth, frames[i - 1].recDepth + 1}
    BY <1>1 DEF IInv, InterpretersNest, n
  <2>2. ASSUME NEW i \in 1 .. n + 1
        PROVE  frames'[i].recDepth \in 0 .. MaxDepth - 1
    <3>1. CASE i = n + 1
      BY <1>1, <1>4, <3>1, LimitsAssumption
    <3>2. CASE i \in 1 .. n
      BY <1>3, <2>1, <3>2
    <3> QED
      BY <1>1, <3>1, <3>2
  <2>3. ASSUME NEW i \in 1 .. n + 1
        PROVE  frames'[i].recDepth \in IF i = 1 THEN {0}
                                     ELSE {frames'[i - 1].recDepth, frames'[i - 1].recDepth + 1}
    <3>1. CASE i = n + 1
      <4>1. i # 1 /\ i - 1 = n /\ frames'[n] = frames[n]
        BY <1>1, <1>3, <3>1
      <4> QED
        BY <1>1, <1>4, <3>1, <4>1
    <3>2. CASE i \in 1 .. n
      <4>1. frames'[i] = frames[i] /\ (i # 1 => i - 1 \in 1 .. n /\ frames'[i - 1] = frames[i - 1])
        BY <1>1, <1>3, <3>2
      <4> QED
        BY <2>1, <3>2, <4>1
    <3> QED
      BY <1>1, <3>1, <3>2
  <2> QED
    BY <1>3, <1>4, <2>2, <2>3 DEF InterpretersNest
<1>9. HandlersApart'
  <2>1. /\ \A i, j \in 1 .. n :
             i < j /\ IsTrampoline(frames[j].frame.fn) => ~Handling(frames[i].frame)
        /\ IsTrampoline(f.fn) => \A i \in 1 .. n : ~Handling(frames[i].frame)
    BY <1>1 DEF IInv, HandlersApart, n
  <2>2. ASSUME NEW i \in 1 .. n + 1, NEW j \in 1 .. n + 1, i < j,
               IsTrampoline(frames'[j].frame.fn)
        PROVE  ~Handling(frames'[i].frame)
    <3>1. i \in 1 .. n /\ frames'[i] = frames[i]
      BY <1>1, <1>3, <2>2
    <3>2. CASE j = n + 1
      <4>1. IsTrampoline(f.fn)
        BY <1>4, <2>2, <3>2
      <4> QED
        BY <2>1, <3>1, <4>1
    <3>3. CASE j \in 1 .. n
      BY <1>3, <2>1, <2>2, <3>1, <3>3
    <3> QED
      BY <1>1, <3>2, <3>3
  <2>3. ASSUME IsTrampoline(frame'.fn), NEW i \in 1 .. n + 1
        PROVE  ~Handling(frames'[i].frame)
    <3>1. CASE i = n + 1
      <4>1. ~Handling(f) /\ frames'[i].frame = f
        BY <1>4, <1>5, <2>3, <3>1
      <4> QED
        BY <4>1
    <3>2. CASE i \in 1 .. n
      BY <1>1, <1>3, <1>5, <2>3, <3>2 DEF n
    <3> QED
      BY <1>1, <3>1, <3>2
  <2> QED
    BY <1>3, <2>2, <2>3 DEF HandlersApart, Handling, IsTrampoline
<1>10. Masked'
  <2>1. CASE IsTrampoline(fn)
    BY <2>1 DEF Masked
  <2>2. ASSUME ~IsTrampoline(fn), ~isChild,
               Handling(frame') \/ \E i \in 1 .. n + 1 : Handling(frames'[i].frame)
        PROVE  "MASK" \in eventDesc
    <3>1. ~Handling(frame')
      BY <1>5, <2>2 DEF Handling
    <3>2. PICK i \in 1 .. n + 1 : Handling(frames'[i].frame)
      BY <2>2, <3>1
    <3>3. Handling(frame) \/ \E k \in DOMAIN frames : Handling(frames[k].frame)
      <4>1. CASE i = n + 1
        BY <1>3, <1>4, <3>2, <4>1
      <4>2. CASE i \in 1 .. n
        BY <1>1, <1>3, <3>2, <4>2 DEF n
      <4> QED
        BY <1>1, <4>1, <4>2
    <3> QED
      BY <2>2, <3>3 DEF IInv, Masked
  <2> QED
    BY <1>3, <2>1, <2>2 DEF Masked, Handling, IsTrampoline
<1> QED
  BY <1>6, <1>7, <1>8, <1>9, <1>10 DEF IInv, SignalsSound

(* The frame saved last is resumed, by a return or in search of a catch block. *)
LEMMA PopLemma ==
  ASSUME IInv, prog' = prog, isChild' = isChild, frames # <<>>,
         frame' = frames[Len(frames)].frame,
         frames' = SubSeq(frames, 1, Len(frames) - 1),
         recDepth' \in 0 .. MaxDepth - 1, exitStatus' \in Int, ThrownSound',
         pending' = pending, pendingIndex' = pendingIndex,
         eventDesc' \subseteq eventDesc, "SIGNAL" \in eventDesc => "SIGNAL" \in eventDesc',
         ~IsTrampoline(frame.fn) => eventDesc' = eventDesc,
         phase' \in Phase \ {"checked"},
         phase' = "run" => Len(frames) # 1 /\ frames[Len(frames) - 1].recDepth = recDepth'
  PROVE  IInv'
<1> DEFINE n == Len(frames)
<1>1. /\ frames \in Seq(SavedFrame) /\ n \in Nat \ {0}
      /\ DOMAIN frames = 1 .. n /\ n =< MaxFrames
  <2>1. frames \in Seq(SavedFrame) /\ Len(frames) \in 0 .. MaxFrames
    BY DEF IInv, Shape, TypeOK
  <2> QED
    BY <2>1, TakenOff, LimitsAssumption
<1>2. /\ frames' \in Seq(SavedFrame)
      /\ Len(frames') = n - 1
      /\ DOMAIN frames' = 1 .. n - 1
      /\ \A i \in 1 .. n - 1 : i \in 1 .. n /\ frames'[i] = frames[i]
  BY <1>1, TakenOff
<1>3. frames[n] \in SavedFrame
  BY <1>1
<1> HIDE DEF n
<1>4. Shape'
  <2>1. frame' \in Frame
    BY <1>3 DEF SavedFrame, n
  <2>2. Len(frames') \in 0 .. MaxFrames
    BY <1>1, <1>2, LimitsAssumption
  <2>3. recDepth' \in 0 .. MaxDepth
    BY LimitsAssumption
  <2> QED
    BY <1>2, <2>1, <2>2, <2>3 DEF IInv, Shape, TypeOK, ThrownSound
<1>5. InCode'
  <2>1. ASSUME NEW i \in 2 .. Len(frames')
        PROVE  At(frames'[i].frame)
    <3>1. i \in 2 .. n /\ frames'[i] = frames[i]
      BY <1>1, <1>2
    <3> QED
      BY <3>1 DEF IInv, InCode, n
  <2>2. (\A i \in 2 .. Len(frames) : At(frames[i].frame))'
    BY <2>1 DEF At, Inside, KnownFn, Size, CodeOf
  <2>3. n # 1 => At(frame')
    <3>1. n # 1 => n \in 2 .. Len(frames)
      BY <1>1 DEF n
    <3> QED
      BY <3>1 DEF IInv, InCode, n
  <2>4. n # 1 => At(frame)' /\ Inside(frame)'
    BY <2>3 DEF At, Inside, KnownFn, Size, CodeOf
  <2>5. phase' \notin {"run", "checked"} \/ n # 1
    BY DEF n
  <2>6. frames' # <<>> => n # 1
    BY <1>1, <1>2
  <2> QED
    BY <2>2, <2>4, <2>5, <2>6 DEF InCode
<1>6. InterpretersNest'
  <2>1. \A i \in 1 .. n :
          /\ frames[i].recDepth \in 0 .. MaxDepth - 1
          /\ frames[i].recDepth \in IF i = 1 THEN {0}
                                  ELSE {frames[i - 1].recDepth, frames[i - 1].recDepth + 1}
    BY <1>1 DEF IInv, InterpretersNest
  <2>2. ASSUME NEW i \in 1 .. n - 1
        PROVE  /\ frames'[i].recDepth \in 0 .. MaxDepth - 1
               /\ frames'[i].recDepth \in IF i = 1 THEN {0}
                                        ELSE {frames'[i - 1].recDepth, frames'[i - 1].recDepth + 1}
    <3>1. i \in 1 .. n /\ frames'[i] = frames[i]
      BY <1>2
    <3>2. i # 1 => i - 1 \in 1 .. n - 1 /\ frames'[i - 1] = frames[i - 1]
      BY <1>1, <1>2
    <3> QED
      BY <2>1, <3>1, <3>2
  <2>3. phase' = "run" => frames' # <<>> /\ frames'[Len(frames')].recDepth = recDepth'
    <3>1. n # 1 => n - 1 \in 1 .. n - 1
      BY <1>1
    <3>2. n # 1 => frames' # <<>> /\ frames'[n - 1] = frames[n - 1]
      BY <1>2, <3>1
    <3> QED
      BY <1>2, <3>2 DEF n
  <2>4. recDepth' < MaxDepth
    BY LimitsAssumption
  <2> QED
    BY <1>2, <2>2, <2>3, <2>4 DEF InterpretersNest
<1>7. \A i, j \in 1 .. n :
        i < j /\ IsTrampoline(frames[j].frame.fn) => ~Handling(frames[i].frame)
  BY <1>1 DEF IInv, HandlersApart
<1>8. HandlersApart'
  <2>1. ASSUME NEW i \in 1 .. n - 1, NEW j \in 1 .. n - 1, i < j,
               IsTrampoline(frames'[j].frame.fn)
        PROVE  ~Handling(frames'[i].frame)
    BY <1>2, <1>7, <2>1
  <2>2. ASSUME IsTrampoline(frame'.fn), NEW i \in 1 .. n - 1
        PROVE  ~Handling(frames'[i].frame)
    <3>1. i \in 1 .. n /\ n \in 1 .. n /\ i < n /\ frames'[i] = frames[i]
      BY <1>1, <1>2
    <3>2. IsTrampoline(frames[n].frame.fn)
      BY <2>2 DEF n
    <3> QED
      BY <1>7, <3>1, <3>2
  <2>3. \A i, j \in DOMAIN frames' :
          i < j /\ IsTrampoline(frames'[j].frame.fn) => ~Handling(frames'[i].frame)
    BY <1>2, <2>1
  <2>4. IsTrampoline(frame'.fn) => \A i \in DOMAIN frames' : ~Handling(frames'[i].frame)
    BY <1>2, <2>2
  <2> QED
    BY <2>3, <2>4 DEF HandlersApart, Handling, IsTrampoline
<1>9. Masked'
  <2>1. ASSUME ~isChild, Handling(frame') \/ \E i \in 1 .. n - 1 : Handling(frames'[i].frame)
        PROVE  "MASK" \in eventDesc'
    <3>1. PICK i \in 1 .. n : Handling(frames[i].frame)
      <4>1. CASE Handling(frame')
        BY <1>1, <4>1 DEF n
      <4>2. CASE \E i \in 1 .. n - 1 : Handling(frames'[i].frame)
        BY <1>2, <4>2
      <4> QED
        BY <2>1, <4>1, <4>2
    <3>2. "MASK" \in eventDesc
      BY <1>1, <2>1, <3>1 DEF IInv, Masked
    <3>3. ~IsTrampoline(frame.fn)
      BY <1>1, <3>1 DEF IInv, HandlersApart
    <3> QED
      BY <3>2, <3>3
  <2> QED
    BY <1>2, <2>1 DEF Masked, Handling, IsTrampoline
<1>10. SignalFlag' /\ ChildQuiet'
  BY DEF IInv, SignalFlag, ChildQuiet
<1> QED
  BY <1>4, <1>5, <1>6, <1>8, <1>9, <1>10 DEF IInv

-----------------------------------------------------------------------------
(* Instructions *)

(* What is known when an instruction is fetched. *)
LEMMA FetchLemma ==
  ASSUME IInv, NEW op, Fetch(op)
  PROVE  /\ phase \in {"run", "checked"}
         /\ Ins.op = op
         /\ prog \in DOMAIN Code /\ frame \in Frame /\ frame.pc \in Nat \ {0} /\ At(frame)
         /\ frames \in Seq(SavedFrame)
         /\ frames # <<>> /\ frames[Len(frames)].recDepth = recDepth
         /\ exitStatus \in Int /\ ThrownSound
<1>1. phase \in {"run", "checked"} /\ Ins.op = op
  BY DEF Fetch
<1>2. frame \in Frame /\ frame.pc \in Nat \ {0}
  BY DEF IInv, Shape, Frame
<1> QED
  BY <1>1, <1>2 DEF IInv, Shape, TypeOK, InCode, InterpretersNest, ThrownSound

(* The frame with the pc of the next instruction. *)
LEMMA FollowingLemma ==
  ASSUME frame \in Frame, frame.pc \in Nat \ {0}, Inside(frame)
  PROVE  /\ Following \in Frame
         /\ Following.fn = frame.fn
         /\ Following.pc = frame.pc + 1
         /\ Following.status = frame.status
         /\ Inside(Following)
         /\ Handling(Following) => Handling(frame)
<1>1. Following = [frame EXCEPT !.pc = frame.pc + 1]
  BY DEF Following, Frame
<1> QED
  BY <1>1, JumpLemma DEF Handling

(* An instruction that works on the current frame. *)
LEMMA LocalStepLemma ==
  ASSUME IInv, NEW op, Fetch(op), NEW f \in Frame, Local(f), exitStatus' \in Int,
         f.fn = frame.fn, Inside(f), f.pc =< Size(frame.fn), Handling(f) => Handling(frame)
  PROVE  IInv'
<1>1. /\ prog' = prog /\ frames' = frames /\ recDepth' = recDepth /\ isChild' = isChild
      /\ eventDesc' = eventDesc /\ pending' = pending /\ pendingIndex' = pendingIndex
      /\ thrown' = thrown /\ savedThrown' = savedThrown
      /\ phase' = "run" /\ frame' = f
  BY DEF Local, throwVars, signalVars
<1>2. ThrownSound' /\ phase' \in Phase
  BY <1>1, FetchLemma DEF ThrownSound, Phase
<1>3. frames # <<>> /\ frames[Len(frames)].recDepth = recDepth
  BY FetchLemma
<1> QED
  BY <1>1, <1>2, <1>3, SameSignalsLemma

(* An exception that is set, whatever finally block is running. *)
LEMMA SetThrownLemma ==
  ASSUME ThrownSound, NEW t \in Error, SetThrown(t)
  PROVE  ThrownSound'
  BY DEF SetThrown, ThrownSound

(* An instruction that raises an exception. *)
LEMMA ThrowLemma ==
  ASSUME IInv, NEW op, Fetch(op), NEW t \in Error, NEW f \in Frame, NEW status \in Int,
         Throw(t, f, status), f.fn = frame.fn, Inside(f), Handling(f) => Handling(frame)
  PROVE  IInv'
<1>1. /\ prog' = prog /\ frames' = frames /\ recDepth' = recDepth /\ isChild' = isChild
      /\ eventDesc' = eventDesc /\ pending' = pending /\ pendingIndex' = pendingIndex
      /\ phase' = "raise" /\ frame' = f /\ exitStatus' = status
  BY DEF Throw, signalVars
<1>2. ThrownSound'
  BY FetchLemma, SetThrownLemma DEF Throw
<1>3. phase' \in Phase
  BY <1>1 DEF Phase
<1> QED
  BY <1>1, <1>2, <1>3, SameSignalsLemma

(* The end of the program. *)
LEMMA HaltedLemma ==
  ASSUME IInv, NEW p \in {"child", "assert", "corrupt"}, Halted(p)
  PROVE  IInv'
<1>1. /\ prog' = prog /\ frames' = frames /\ recDepth' = recDepth /\ isChild' = isChild
      /\ eventDesc' = eventDesc /\ pending' = pending /\ pendingIndex' = pendingIndex
      /\ thrown' = thrown /\ savedThrown' = savedThrown /\ exitStatus' = exitStatus
      /\ phase' = p /\ frame' = frame
  BY DEF Halted, throwVars, signalVars
<1>2. ThrownSound' /\ exitStatus' \in Int /\ frame' \in Frame
  BY <1>1 DEF IInv, Shape, TypeOK, ThrownSound
<1>3. phase' \in Phase
  BY <1>1 DEF Phase
<1> QED
  BY <1>1, <1>2, <1>3, SameSignalsLemma

(* Instructions of a program's functions, which no trampoline has. *)
LEMMA ProgramInsLemma ==
  ASSUME IInv, NEW op, Fetch(op), op \notin {"CALL", "EXIT_SIG", "RETURN"}
  PROVE  ~IsTrampoline(frame.fn)
  BY FetchLemma, InsLemma

(* Operations without operands, and jumps. *)
LEMMA PlainLemma ==
  ASSUME IInv, CMD \/ GOTO \/ INIT_LOOP \/ LOOP
  PROVE  IInv'
<1>1. CASE CMD
  <2>1. Fetch("CMD") /\ Local(Following) /\ exitStatus' = Ins.num
    BY <1>1 DEF CMD
  <2>2. Ins.num \in Int /\ frame.pc + 1 =< Size(frame.fn)
    BY <2>1, FetchLemma, InsLemma
  <2> QED
    BY <2>1, <2>2, FetchLemma, FollowingLemma, LocalStepLemma DEF At
<1>2. CASE GOTO
  <2> DEFINE f == [frame EXCEPT !.pc = Ins.to]
  <2>1. Fetch("GOTO") /\ Local(f) /\ exitStatus' = exitStatus
    BY <1>2 DEF GOTO
  <2>2. Ins.to \in Nat \ {0} /\ Ins.to =< Size(frame.fn) /\ ~IsTrampoline(frame.fn)
    BY <2>1, FetchLemma, InsLemma, ProgramInsLemma
  <2>3. f \in Frame /\ f.fn = frame.fn /\ Inside(f) /\ f.pc = Ins.to
    BY <2>1, <2>2, FetchLemma, JumpLemma DEF At
  <2>4. ~Handling(f)
    BY <2>2, <2>3 DEF Handling
  <2> HIDE DEF f
  <2> QED
    BY <2>1, <2>2, <2>3, <2>4, FetchLemma, LocalStepLemma
<1>3. CASE INIT_LOOP
  <2> DEFINE f == [Following EXCEPT !.local[Ins.num] = 0]
  <2>1. Fetch("INIT_LOOP") /\ Local(f) /\ exitStatus' = exitStatus
    BY <1>3 DEF INIT_LOOP
  <2>2. Ins.num \in 1 .. MaxLoops /\ frame.pc + 1 =< Size(frame.fn) /\ ~IsTrampoline(frame.fn)
    BY <2>1, FetchLemma, InsLemma, ProgramInsLemma
  <2>3. /\ Following \in Frame /\ Following.fn = frame.fn
        /\ Following.pc = frame.pc + 1 /\ Inside(Following)
    BY <2>1, FetchLemma, FollowingLemma DEF At
  <2>4. f \in Frame /\ f.fn = frame.fn /\ Inside(f) /\ f.pc = frame.pc + 1
    <3>1. 0 \in Int
      OBVIOUS
    <3> QED
      BY <2>2, <2>3, <3>1, LocalLemma, Zenon
  <2>5. ~Handling(f)
    BY <2>2, <2>4 DEF Handling
  <2> HIDE DEF f
  <2> QED
    BY <2>1, <2>2, <2>4, <2>5, FetchLemma, LocalStepLemma
<1>4. CASE LOOP
  <2> DEFINE again == [Following EXCEPT !.local[Ins.num] = @ + 1]
             leave == [frame EXCEPT !.pc = Ins.to]
  <2>1. Fetch("LOOP") /\ exitStatus' = exitStatus
    BY <1>4 DEF LOOP
  <2>2. /\ Ins.num \in 1 .. MaxLoops /\ frame.pc + 1 =< Size(frame.fn) /\ ~IsTrampoline(frame.fn)
        /\ Ins.to \in Nat \ {0} /\ Ins.to =< Size(frame.fn)
    BY <2>1, FetchLemma, InsLemma, ProgramInsLemma
  <2>3. /\ Following \in Frame /\ Following.fn = frame.fn
        /\ Following.pc = frame.pc + 1 /\ Inside(Following)
    BY <2>1, FetchLemma, FollowingLemma DEF At
  <2>4. Following.local[Ins.num] + 1 \in Int
    <3>1. Following.local \in [1 .. MaxLoops -> Int]
      BY <2>3 DEF Frame
    <3>2. Following.local[Ins.num] \in Int
      BY <2>2, <3>1
    <3> QED
      BY <3>2
  <2>5. again \in Frame /\ again.fn = frame.fn /\ Inside(again) /\ again.pc = frame.pc + 1
    BY <2>2, <2>3, <2>4, LocalLemma
  <2>6. leave \in Frame /\ leave.fn = frame.fn /\ Inside(leave) /\ leave.pc = Ins.to
    BY <2>1, <2>2, FetchLemma, JumpLemma DEF At
  <2>7. Local(Following) \/ Local(again) \/ Local(leave)
    BY <1>4 DEF LOOP
  <2> HIDE DEF again, leave
  <2>8. PICK f \in {Following, again, leave} : Local(f)
    BY <2>7
  <2>9. f \in Frame /\ f.fn = frame.fn /\ Inside(f) /\ f.pc =< Size(frame.fn)
    BY <2>2, <2>3, <2>5, <2>6
  <2>10. ~Handling(f)
    BY <2>2, <2>9 DEF Handling
  <2> QED
    BY <2>1, <2>8, <2>9, <2>10, FetchLemma, LocalStepLemma
<1> QED
  BY <1>1, <1>2, <1>3, <1>4

(* Operations that raise an exception. *)
LEMMA RaiseLemma ==
  ASSUME IInv, RAISE \/ THROW
  PROVE  IInv'
<1>1. CASE RAISE
  <2>1. Fetch("RAISE") /\ Throw(Ins.type, Following, Ins.num)
    BY <1>1 DEF RAISE
  <2>2. Ins.type \in Error /\ Ins.num \in Int
    BY <2>1, FetchLemma, InsLemma
  <2> QED
    BY <2>1, <2>2, FetchLemma, FollowingLemma, ThrowLemma DEF At
<1>2. CASE THROW
  <2>1. Fetch("THROW") /\ Throw(Ins.type, Popped(Following), 1)
    BY <1>2 DEF THROW
  <2>2. Ins.type \in Error /\ ~IsTrampoline(frame.fn)
    BY <2>1, FetchLemma, InsLemma, ProgramInsLemma
  <2>3. Following \in Frame /\ Following.fn = frame.fn /\ Inside(Following)
    BY <2>1, FetchLemma, FollowingLemma DEF At
  <2>4. /\ Popped(Following) \in Frame /\ Popped(Following).fn = frame.fn
        /\ Inside(Popped(Following))
    BY <2>3, PoppedLemma
  <2>5. ~Handling(Popped(Following))
    BY <2>2, <2>4 DEF Handling
  <2>6. 1 \in Int
    OBVIOUS
  <2> QED
    BY <2>1, <2>2, <2>4, <2>5, <2>6, ThrowLemma
<1> QED
  BY <1>1, <1>2

(* Operands. *)
LEMMA OperandLemma ==
  ASSUME IInv, PUSH \/ POP
  PROVE  IInv'
<1>1. CASE PUSH
  <2>1. Fetch("PUSH") /\ Local(Pushed(Following, OBJECT)) /\ exitStatus' = exitStatus
    BY <1>1 DEF PUSH
  <2>2. frame.pc + 1 =< Size(frame.fn) /\ ~IsTrampoline(frame.fn)
    BY <2>1, FetchLemma, InsLemma, ProgramInsLemma
  <2>3. /\ Following \in Frame /\ Following.fn = frame.fn
        /\ Following.pc = frame.pc + 1 /\ Inside(Following)
    BY <2>1, FetchLemma, FollowingLemma DEF At
  <2>4. OBJECT \in Value /\ OBJECT.kind # "number"
    BY DEF OBJECT, Value
  <2>5. /\ Pushed(Following, OBJECT) \in Frame /\ Pushed(Following, OBJECT).fn = frame.fn
        /\ Pushed(Following, OBJECT).pc = frame.pc + 1 /\ Inside(Pushed(Following, OBJECT))
    BY <2>3, <2>4, PushedLemma
  <2>6. ~Handling(Pushed(Following, OBJECT))
    BY <2>2, <2>5 DEF Handling
  <2> QED
    BY <2>1, <2>2, <2>5, <2>6, FetchLemma, LocalStepLemma
<1>2. CASE POP
  <2>1. Fetch("POP")
    BY <1>2 DEF POP
  <2>2. CASE frame.stack = <<>>
    BY <1>2, <2>2, HaltedLemma DEF POP
  <2>3. CASE frame.stack # <<>>
    <3>1. Local(Popped(Following)) /\ exitStatus' = exitStatus
      BY <1>2, <2>3 DEF POP
    <3>2. frame.pc + 1 =< Size(frame.fn) /\ ~IsTrampoline(frame.fn)
      BY <2>1, FetchLemma, InsLemma, ProgramInsLemma
    <3>3. /\ Following \in Frame /\ Following.fn = frame.fn
          /\ Following.pc = frame.pc + 1 /\ Inside(Following)
      BY <2>1, FetchLemma, FollowingLemma DEF At
    <3>4. /\ Popped(Following) \in Frame /\ Popped(Following).fn = frame.fn
          /\ Popped(Following).pc = frame.pc + 1 /\ Inside(Popped(Following))
      BY <3>3, PoppedLemma
    <3>5. ~Handling(Popped(Following))
      BY <3>2, <3>4 DEF Handling
    <3> QED
      BY <2>1, <3>1, <3>2, <3>4, <3>5, FetchLemma, LocalStepLemma
  <2> QED
    BY <2>2, <2>3
<1> QED
  BY <1>1, <1>2

(* The way to a finally block and back. *)
LEMMA FinallyLemma ==
  ASSUME IInv, ENTER_FINALLY \/ EXIT_FINALLY
  PROVE  IInv'
<1>1. CASE ENTER_FINALLY
  <2> DEFINE g == Pushed(frame, NUMBER(frame.pc + 1))
             f == [g EXCEPT !.pc = Ins.to]
  <2>1. Fetch("ENTER_FINALLY") /\ Local(f) /\ exitStatus' = exitStatus
    BY <1>1 DEF ENTER_FINALLY
  <2>2. /\ frame.pc + 1 \in 1 .. Size(frame.fn) /\ ~IsTrampoline(frame.fn)
        /\ Ins.to \in Nat \ {0} /\ Ins.to =< Size(frame.fn)
    BY <2>1, FetchLemma, InsLemma, ProgramInsLemma
  <2>3. NUMBER(frame.pc + 1) \in Value /\ NUMBER(frame.pc + 1).num = frame.pc + 1
    BY <2>1, FetchLemma DEF NUMBER, Value
  <2>4. g \in Frame /\ g.fn = frame.fn /\ Inside(g)
    BY <2>1, <2>2, <2>3, FetchLemma, PushedLemma DEF At
  <2> HIDE DEF g
  <2>5. f \in Frame /\ f.fn = frame.fn /\ Inside(f) /\ f.pc = Ins.to
    BY <2>2, <2>4, JumpLemma
  <2>6. ~Handling(f)
    BY <2>2, <2>5 DEF Handling
  <2> HIDE DEF f
  <2> QED
    BY <2>1, <2>2, <2>5, <2>6, FetchLemma, LocalStepLemma
<1>2. CASE EXIT_FINALLY
  <2>1. Fetch("EXIT_FINALLY")
    BY <1>2 DEF EXIT_FINALLY
  <2>2. CASE savedThrown # None
    <3>1. /\ prog' = prog /\ frames' = frames /\ recDepth' = recDepth /\ isChild' = isChild
          /\ eventDesc' = eventDesc /\ pending' = pending /\ pendingIndex' = pendingIndex
          /\ thrown' = savedThrown /\ savedThrown' = None /\ exitStatus' = exitStatus
          /\ phase' = "raise" /\ frame' = Following
      BY <1>2, <2>2 DEF EXIT_FINALLY, signalVars
    <3>2. ThrownSound' /\ phase' \in Phase /\ exitStatus' \in Int
      BY <2>1, <3>1, FetchLemma DEF ThrownSound, Phase
    <3>3. /\ frame' \in Frame /\ frame'.fn = frame.fn /\ Inside(frame')
          /\ Handling(frame') => Handling(frame)
      BY <2>1, <3>1, FetchLemma, FollowingLemma DEF At
    <3> QED
      BY <3>1, <3>2, <3>3, SameSignalsLemma
  <2>3. CASE savedThrown = None /\ (frame.stack = <<>> \/ Top(frame).kind # "number")
    BY <1>2, <2>3, HaltedLemma DEF EXIT_FINALLY
  <2>4. CASE savedThrown = None /\ frame.stack # <<>> /\ Top(frame).kind = "number"
    <3> DEFINE f == [Popped(frame) EXCEPT !.pc = Top(frame).num]
    <3>1. Local(f) /\ exitStatus' = exitStatus
      BY <1>2, <2>4 DEF EXIT_FINALLY
    <3>2. ~IsTrampoline(frame.fn)
      BY <2>1, ProgramInsLemma
    <3>3. Top(frame).num \in 1 .. Size(frame.fn)
      <4>1. frame.stack \in Seq(Value) /\ frame.stack # <<>>
        BY <2>1, <2>4, FetchLemma DEF Frame
      <4>2. Len(frame.stack) \in DOMAIN frame.stack
        BY <4>1, TakenOff
      <4> QED
        BY <2>1, <2>4, <4>2, FetchLemma DEF At, Inside, Top
    <3>4. Popped(frame) \in Frame /\ Popped(frame).fn = frame.fn /\ Inside(Popped(frame))
      BY <2>1, FetchLemma, PoppedLemma DEF At
    <3>5. Top(frame).num \in Nat \ {0} /\ Top(frame).num =< Size(frame.fn)
      BY <2>1, <3>3, FetchLemma, InsLemma
    <3>6. f \in Frame /\ f.fn = frame.fn /\ Inside(f) /\ f.pc = Top(frame).num
      BY <3>4, <3>5, JumpLemma
    <3>7. ~Handling(f)
      BY <3>2, <3>6 DEF Handling
    <3> HIDE DEF f
    <3> QED
      BY <2>1, <3>1, <3>5, <3>6, <3>7, FetchLemma, LocalStepLemma
  <2> QED
    BY <2>2, <2>3, <2>4
<1> QED
  BY <1>1, <1>2

(* Calls, callbacks and returns. *)
LEMMA CallLemma ==
  ASSUME IInv, CALL
  PROVE  IInv'
<1>1. Fetch("CALL")
  BY DEF CALL
<1>2. /\ Following \in Frame /\ Following.fn = frame.fn /\ Following.pc = frame.pc + 1
      /\ Inside(Following) /\ (Handling(Following) => Handling(frame))
  BY <1>1, FetchLemma, FollowingLemma DEF At
<1>3. Ins.fn \in DOMAIN Code[prog] /\ frame.pc + 1 =< Size(frame.fn)
  BY <1>1, FetchLemma, InsLemma
<1>4. CASE Len(frames) = MaxFrames
  <2>1. Throw("StackOverflowError", Following, 1)
    BY <1>4 DEF CALL
  <2>2. "StackOverflowError" \in Error /\ 1 \in Int
    BY LimitsAssumption
  <2> QED
    BY <1>1, <1>2, <2>1, <2>2, ThrowLemma
<1>5. CASE Len(frames) # MaxFrames
  <2>1. /\ frames' = Append(frames, [frame |-> Following, recDepth |-> recDepth])
        /\ frame' = NewFrame(Ins.fn, 0) /\ phase' = "run"
        /\ prog' = prog /\ recDepth' = recDepth /\ isChild' = isChild
        /\ thrown' = thrown /\ savedThrown' = savedThrown /\ exitStatus' = exitStatus
        /\ eventDesc' = eventDesc /\ pending' = pending /\ pendingIndex' = pendingIndex
    BY <1>5 DEF CALL, Saved, throwVars, signalVars
  <2>2. ThrownSound' /\ exitStatus' \in Int
    BY <1>1, <2>1, FetchLemma DEF ThrownSound
  <2>3. SignalsSound'
    BY <2>1 DEF IInv, Shape, TypeOK, SignalsSound, SignalFlag, ChildQuiet
  <2>4. Len(frames) < MaxFrames /\ recDepth \in {recDepth, recDepth + 1} /\ recDepth < MaxDepth
    BY <1>5, LimitsAssumption DEF IInv, Shape, TypeOK, InterpretersNest
  <2>5. ~IsTrampoline(Ins.fn) /\ KnownFn(Ins.fn) /\ At(Following) /\ 0 \in Int
    BY <1>1, <1>2, <1>3, FetchLemma, FunctionLemma DEF KnownFn, At
  <2> QED
    BY <1>1, <1>2, <2>1, <2>2, <2>3, <2>4, <2>5, FetchLemma, PushLemma
<1> QED
  BY <1>4, <1>5

LEMMA CallbackLemma ==
  ASSUME IInv, CALLBACK
  PROVE  IInv'
<1>1. Fetch("CALLBACK")
  BY DEF CALLBACK
<1>2. /\ Following \in Frame /\ Following.fn = frame.fn /\ Following.pc = frame.pc + 1
      /\ Inside(Following) /\ (Handling(Following) => Handling(frame))
  BY <1>1, FetchLemma, FollowingLemma DEF At
<1>3. Ins.fn \in DOMAIN Code[prog] /\ frame.pc + 1 =< Size(frame.fn)
  BY <1>1, FetchLemma, InsLemma
<1>4. "StackOverflowError" \in Error /\ 1 \in Int
  BY LimitsAssumption
<1>5. CASE recDepth + 1 = MaxDepth
  BY <1>1, <1>2, <1>4, <1>5, ThrowLemma DEF CALLBACK
<1>6. CASE recDepth + 1 # MaxDepth /\ Len(frames) = MaxFrames
  <2>1. /\ prog' = prog /\ frames' = frames /\ recDepth' = recDepth /\ isChild' = isChild
        /\ eventDesc' = eventDesc /\ pending' = pending /\ pendingIndex' = pendingIndex
        /\ thrown' = "StackOverflowError" /\ savedThrown' = None /\ exitStatus' = 1
        /\ phase' = "raise" /\ frame' = Following
    BY <1>6 DEF CALLBACK, signalVars
  <2>2. ThrownSound' /\ phase' \in Phase
    BY <1>4, <2>1 DEF ThrownSound, Phase
  <2> QED
    BY <1>2, <1>4, <2>1, <2>2, SameSignalsLemma
<1>7. CASE recDepth + 1 # MaxDepth /\ Len(frames) # MaxFrames
  <2>1. /\ frames' = Append(frames, [frame |-> Following, recDepth |-> recDepth + 1])
        /\ frame' = NewFrame(Ins.fn, 0) /\ phase' = "run"
        /\ prog' = prog /\ recDepth' = recDepth + 1 /\ isChild' = isChild
        /\ thrown' = None /\ savedThrown' = None /\ exitStatus' = exitStatus
        /\ eventDesc' = eventDesc /\ pending' = pending /\ pendingIndex' = pendingIndex
    BY <1>7 DEF CALLBACK, signalVars
  <2>2. ThrownSound' /\ exitStatus' \in Int
    BY <1>1, <2>1, FetchLemma DEF ThrownSound
  <2>3. SignalsSound'
    BY <2>1 DEF IInv, Shape, TypeOK, SignalsSound, SignalFlag, ChildQuiet
  <2>4. Len(frames) < MaxFrames /\ recDepth + 1 < MaxDepth
    BY <1>7, LimitsAssumption DEF IInv, Shape, TypeOK, InterpretersNest
  <2>5. ~IsTrampoline(Ins.fn) /\ KnownFn(Ins.fn) /\ At(Following) /\ 0 \in Int
    BY <1>1, <1>2, <1>3, FetchLemma, FunctionLemma DEF KnownFn, At
  <2> QED
    BY <1>1, <1>2, <2>1, <2>2, <2>3, <2>4, <2>5, FetchLemma, PushLemma
<1> QED
  BY <1>5, <1>6, <1>7

(* A saved frame belongs to the same interpreter as the one above, or to the one below. *)
LEMMA NestLemma ==
  ASSUME IInv, frames # <<>>, Len(frames) # 1
  PROVE  /\ frames[Len(frames) - 1].recDepth \in 0 .. MaxDepth - 1
         /\ frames[Len(frames)].recDepth \in {frames[Len(frames) - 1].recDepth,
                                              frames[Len(frames) - 1].recDepth + 1}
         /\ SubSeq(frames, 1, Len(frames) - 1) # <<>>
         /\ Len(SubSeq(frames, 1, Len(frames) - 1)) = Len(frames) - 1
         /\ SubSeq(frames, 1, Len(frames) - 1)[Len(frames) - 1] = frames[Len(frames) - 1]
<1>1. /\ frames \in Seq(SavedFrame) /\ Len(frames) \in Nat \ {0, 1}
      /\ DOMAIN frames = 1 .. Len(frames)
      /\ SubSeq(frames, 1, Len(frames) - 1) # <<>>
  BY TakenOff DEF IInv, Shape
<1>2. /\ Len(SubSeq(frames, 1, Len(frames) - 1)) = Len(frames) - 1
      /\ \A i \in 1 .. Len(frames) - 1 : SubSeq(frames, 1, Len(frames) - 1)[i] = frames[i]
  BY <1>1, TakenOff
<1>3. /\ Len(frames) - 1 \in 1 .. Len(frames) - 1
      /\ Len(frames) - 1 \in DOMAIN frames
      /\ Len(frames) \in DOMAIN frames
  BY <1>1
<1>4. frames[Len(frames) - 1].recDepth \in 0 .. MaxDepth - 1
  BY <1>3 DEF IInv, InterpretersNest
<1>5. frames[Len(frames)].recDepth \in {frames[Len(frames) - 1].recDepth,
                                        frames[Len(frames) - 1].recDepth + 1}
  BY <1>1, <1>3 DEF IInv, InterpretersNest
<1> QED
  BY <1>1, <1>2, <1>3, <1>4, <1>5

LEMMA ReturnLemma ==
  ASSUME IInv, RETURN
  PROVE  IInv'
<1> DEFINE rest == SubSeq(frames, 1, Len(frames) - 1)
<1>1. Fetch("RETURN")
  BY DEF RETURN
<1>2. /\ frame' = frames[Len(frames)].frame /\ frames' = rest
      /\ phase' = IF rest = <<>> THEN "done" ELSE "run"
      /\ recDepth' = IF rest # <<>> /\ VMReturn(rest) THEN recDepth - 1 ELSE recDepth
      /\ prog' = prog /\ isChild' = isChild /\ exitStatus' = exitStatus
      /\ thrown' = thrown /\ savedThrown' = savedThrown
      /\ eventDesc' = eventDesc /\ pending' = pending /\ pendingIndex' = pendingIndex
  BY DEF RETURN, throwVars, signalVars
<1>3. /\ frames # <<>> /\ frames[Len(frames)].recDepth = recDepth
      /\ ThrownSound /\ exitStatus \in Int
  BY <1>1, FetchLemma
<1>4. recDepth \in 0 .. MaxDepth - 1
  BY LimitsAssumption DEF IInv, Shape, TypeOK, InterpretersNest
<1>5. /\ rest # <<>> => Len(frames) # 1
      /\ Len(frames) # 1 => rest # <<>>
  BY <1>3, TakenOff DEF IInv, Shape
<1>6. /\ recDepth' \in 0 .. MaxDepth - 1
      /\ phase' = "run" => Len(frames) # 1 /\ frames[Len(frames) - 1].recDepth = recDepth'
  <2>1. CASE rest = <<>>
    BY <1>2, <1>4, <2>1
  <2>2. CASE rest # <<>>
    <3>1. /\ frames[Len(frames) - 1].recDepth \in 0 .. MaxDepth - 1
          /\ recDepth \in {frames[Len(frames) - 1].recDepth,
                           frames[Len(frames) - 1].recDepth + 1}
          /\ rest[Len(rest)] = frames[Len(frames) - 1]
      BY <1>3, <1>5, <2>2, NestLemma
    <3>2. VMReturn(rest) <=> recDepth # frames[Len(frames) - 1].recDepth
      BY <2>2, <3>1 DEF VMReturn
    <3>3. recDepth' = frames[Len(frames) - 1].recDepth
      BY <1>2, <1>4, <2>2, <3>1, <3>2, LimitsAssumption
    <3> QED
      BY <1>5, <2>2, <3>1, <3>3
  <2> QED
    BY <2>1, <2>2
<1>7. phase' \in Phase \ {"checked"} /\ ThrownSound' /\ exitStatus' \in Int
  BY <1>2, <1>3 DEF Phase, ThrownSound
<1> QED
  BY <1>2, <1>3, <1>6, <1>7, PopLemma

(* A subshell: the child starts with no signal pending, handled or masked. *)
LEMMA ForkLemma ==
  ASSUME IInv, FORK
  PROVE  IInv'
<1>1. Fetch("FORK")
  BY DEF FORK
<1>2. /\ ~IsTrampoline(frame.fn) /\ frame.pc + 1 =< Size(frame.fn)
      /\ Ins.to \in Nat \ {0} /\ Ins.to =< Size(frame.fn)
  BY <1>1, FetchLemma, InsLemma, ProgramInsLemma
<1>3. /\ Following \in Frame /\ Following.fn = frame.fn /\ Following.pc = frame.pc + 1
      /\ Inside(Following) /\ (Handling(Following) => Handling(frame))
  BY <1>1, FetchLemma, FollowingLemma DEF At
<1>4. CASE Ins.as = "parent"
  <2> DEFINE g == Pushed(frame, OBJECT)
             f == [g EXCEPT !.pc = Ins.to]
  <2>1. Local(f) /\ exitStatus' = exitStatus
    BY <1>4 DEF FORK
  <2>2. OBJECT \in Value /\ OBJECT.kind # "number"
    BY DEF OBJECT, Value
  <2>3. g \in Frame /\ g.fn = frame.fn /\ Inside(g)
    BY <1>1, <2>2, FetchLemma, PushedLemma DEF At
  <2> HIDE DEF g
  <2>4. f \in Frame /\ f.fn = frame.fn /\ Inside(f) /\ f.pc = Ins.to
    BY <1>2, <2>3, JumpLemma
  <2>5. ~Handling(f)
    BY <1>2, <2>4 DEF Handling
  <2> HIDE DEF f
  <2> QED
    BY <1>1, <1>2, <2>1, <2>4, <2>5, FetchLemma, LocalStepLemma
<1>5. CASE Ins.as = "fails"
  <2>1. Throw("SystemError", Following, 1)
    BY <1>5 DEF FORK
  <2>2. "SystemError" \in Error /\ 1 \in Int
    BY LimitsAssumption
  <2> QED
    BY <1>1, <1>3, <2>1, <2>2, ThrowLemma
<1>6. CASE Ins.as \notin {"parent", "fails"}
  <2>1. /\ frame' = Following /\ phase' = "run" /\ isChild' = TRUE
        /\ eventDesc' = {} /\ pending' = {} /\ pendingIndex' = 1
        /\ prog' = prog /\ frames' = frames /\ recDepth' = recDepth
        /\ thrown' = thrown /\ savedThrown' = savedThrown /\ exitStatus' = exitStatus
    BY <1>6 DEF FORK, throwVars
  <2>2. SignalsSound' /\ Masked' /\ isChild' \in BOOLEAN
    BY <2>1 DEF SignalsSound, SignalFlag, ChildQuiet, Masked
  <2>3. ThrownSound' /\ phase' \in Phase /\ exitStatus' \in Int
    BY <1>1, <2>1, FetchLemma DEF ThrownSound, Phase
  <2>4. recDepth \in 0 .. MaxDepth - 1
    BY LimitsAssumption DEF IInv, Shape, TypeOK, InterpretersNest
  <2> QED
    BY <1>1, <1>2, <1>3, <2>1, <2>2, <2>3, <2>4, FetchLemma, SameFramesLemma
<1> QED
  BY <1>4, <1>5, <1>6

-----------------------------------------------------------------------------
(* Exceptions *)

(* handleException, whatever it finds. *)
LEMMA HandleExceptionLemma ==
  ASSUME IInv, HandleException
  PROVE  IInv'
<1>1. /\ phase = "raise" /\ prog \in DOMAIN Code /\ frame \in Frame
      /\ ThrownSound /\ exitStatus \in Int /\ isChild \in BOOLEAN
      /\ recDepth \in 0 .. MaxDepth - 1
  BY LimitsAssumption
     DEF HandleException, ProcGuard, NotFound, EnterBlock, UnwindFrame, IInv, Shape, TypeOK,
         ThrownSound, InterpretersNest
<1>2. ASSUME MainLoopFails
      PROVE  IInv'
  <2>1. /\ prog' = prog /\ frame' = frame /\ frames' = frames /\ isChild' = isChild
        /\ thrown' = thrown /\ savedThrown' = savedThrown /\ exitStatus' = exitStatus
        /\ eventDesc' = eventDesc /\ pending' = pending /\ pendingIndex' = pendingIndex
        /\ recDepth' \in 0 .. MaxDepth - 1 /\ phase' \in {"uncaught", "raise"}
    BY <1>1, <1>2, LimitsAssumption DEF MainLoopFails, throwVars, signalVars
  <2>2. SignalsSound' /\ Masked'
    BY <2>1 DEF IInv, Shape, TypeOK, SignalsSound, SignalFlag, ChildQuiet, Masked, Handling,
                IsTrampoline
  <2>3. ThrownSound' /\ phase' \in Phase
    BY <1>1, <2>1 DEF ThrownSound, Phase
  <2>4. frames # <<>> => Inside(frame)
    BY <1>1 DEF IInv, InCode
  <2> QED
    BY <1>1, <2>1, <2>2, <2>3, <2>4, SameFramesLemma
<1>3. CASE ProcGuard
  BY <1>2, <1>3, HaltedLemma DEF ProcGuard
<1>4. CASE NotFound
  BY <1>2, <1>4 DEF NotFound
<1>5. CASE EnterBlock
  <2>1. /\ frames # <<>> /\ frames[Len(frames)].recDepth = recDepth /\ Matching # {}
        /\ phase' = "run" /\ thrown' = None /\ (savedThrown' = thrown \/ savedThrown' = savedThrown)
        /\ frame' = Handled \/ frame' = Pushed(Handled, OBJECT)
        /\ prog' = prog /\ frames' = frames /\ recDepth' = recDepth /\ isChild' = isChild
        /\ exitStatus' = exitStatus
        /\ eventDesc' = eventDesc /\ pending' = pending /\ pendingIndex' = pendingIndex
    BY <1>5 DEF EnterBlock, VMReturn, signalVars
  <2>2. Inside(frame)
    BY <1>1, <2>1 DEF IInv, InCode
  <2>3. ~IsTrampoline(frame.fn)
    <3>1. ASSUME NEW s \in Sig, frame.fn = Trampoline(s)
          PROVE  FALSE
      BY <2>1, <3>1, TrampolineLemma DEF Matching
    <3> QED
      BY <3>1 DEF IsTrampoline
  <2>4. Entry.dest \in Nat \ {0} /\ Entry.dest =< Size(frame.fn)
    <3>1. Entry.dest \in 1 .. Size(frame.fn)
      BY <1>1, <2>1, <2>2, EntryLemma
    <3>2. Size(frame.fn) \in Nat
      <4>1. frame.fn \in DOMAIN Code[prog]
        BY <2>2, <2>3 DEF Inside, KnownFn, IsTrampoline
      <4> QED
        BY <1>1, <4>1, FunctionLemma, CodeAssumption DEF Size
    <3> QED
      BY <3>1, <3>2
  <2>5. Handled \in Frame /\ Handled.fn = frame.fn /\ Inside(Handled) /\ Handled.pc = Entry.dest
    BY <1>1, <2>2, <2>4, EmptiedLemma DEF Handled
  <2>6. OBJECT \in Value /\ OBJECT.kind # "number"
    BY DEF OBJECT, Value
  <2>7. /\ Pushed(Handled, OBJECT) \in Frame /\ Pushed(Handled, OBJECT).fn = frame.fn
        /\ Inside(Pushed(Handled, OBJECT)) /\ Pushed(Handled, OBJECT).pc = Entry.dest
    BY <2>5, <2>6, PushedLemma
  <2>8. frame' \in Frame /\ frame'.fn = frame.fn /\ Inside(frame') /\ frame'.pc = Entry.dest
    BY <2>1, <2>5, <2>7
  <2>9. ~Handling(frame')
    BY <2>3, <2>8 DEF Handling
  <2>10. ThrownSound' /\ phase' \in Phase
    BY <1>1, <2>1 DEF ThrownSound, Phase
  <2> QED
    BY <1>1, <2>1, <2>4, <2>8, <2>9, <2>10, SameSignalsLemma
<1>6. CASE UnwindFrame
  <2>1. /\ frames # <<>>
        /\ frame' = frames[Len(frames)].frame
        /\ frames' = SubSeq(frames, 1, Len(frames) - 1)
        /\ eventDesc' = Unmasked(eventDesc)
        /\ prog' = prog /\ phase' = phase /\ recDepth' = recDepth /\ isChild' = isChild
        /\ thrown' = thrown /\ savedThrown' = savedThrown /\ exitStatus' = exitStatus
        /\ pending' = pending /\ pendingIndex' = pendingIndex
    BY <1>6 DEF UnwindFrame, VMReturn, throwVars
  <2>2. ThrownSound' /\ phase' \in Phase \ {"checked"}
    BY <1>1, <2>1 DEF ThrownSound, Phase
  <2>3. /\ eventDesc' \subseteq eventDesc
        /\ "SIGNAL" \in eventDesc => "SIGNAL" \in eventDesc'
        /\ ~IsTrampoline(frame.fn) => eventDesc' = eventDesc
    BY <2>1 DEF Unmasked
  <2> QED
    BY <1>1, <2>1, <2>2, <2>3, PopLemma
<1> QED
  BY <1>3, <1>4, <1>5, <1>6 DEF HandleException

-----------------------------------------------------------------------------
(* Signals *)

(* A signal may arrive at any time. *)
LEMMA ArriveLemma ==
  ASSUME IInv, NEW s \in Sig, Arrive(s)
  PROVE  IInv'
<1>1. /\ phase \in {"run", "checked", "raise"}
      /\ isChild => Handler[s] = NoHandler
      /\ pending' = pending \cup {s} /\ eventDesc' = eventDesc \cup {"SIGNAL"}
      /\ pendingIndex' = pendingIndex
      /\ prog' = prog /\ phase' = phase /\ frame' = frame /\ frames' = frames
      /\ recDepth' = recDepth /\ isChild' = isChild /\ exitStatus' = exitStatus
      /\ thrown' = thrown /\ savedThrown' = savedThrown
  BY DEF Arrive, loopVars, throwVars
<1>2. SignalsSound'
  BY <1>1 DEF IInv, Shape, TypeOK, SignalsSound, SignalFlag, ChildQuiet
<1>3. Masked'
  BY <1>1 DEF IInv, Masked, Handling, IsTrampoline
<1>4. ThrownSound' /\ phase' \in Phase /\ exitStatus' \in Int /\ isChild' \in BOOLEAN
  BY <1>1 DEF IInv, Shape, TypeOK, ThrownSound
<1>5. recDepth' \in 0 .. MaxDepth - 1
  BY <1>1, LimitsAssumption DEF IInv, Shape, TypeOK, InterpretersNest
<1>6. /\ frame \in Frame
      /\ phase \in {"run", "checked"} \/ (phase = "raise" /\ frames # <<>>) => Inside(frame)
      /\ phase \in {"run", "checked"} =>
           /\ frame.pc =< Size(frame.fn)
           /\ frames # <<>>
           /\ frames[Len(frames)].recDepth = recDepth
  BY DEF IInv, Shape, InCode, At, InterpretersNest
<1> QED
  BY <1>1, <1>2, <1>3, <1>4, <1>5, <1>6, SameFramesLemma

(* A pending signal is taken: it is only noted, or its handler is started, which may fail. *)
LEMMA CheckVMEventLemma ==
  ASSUME IInv, CheckVMEvent
  PROVE  IInv'
<1>1. /\ phase = "run" /\ "SIGNAL" \in eventDesc /\ "MASK" \notin eventDesc
      /\ prog' = prog /\ recDepth' = recDepth /\ isChild' = isChild
  BY DEF CheckVMEvent, EventDue
<1>2. /\ prog \in DOMAIN Code /\ frame \in Frame /\ At(frame)
      /\ frames # <<>> /\ frames[Len(frames)].recDepth = recDepth
      /\ ThrownSound /\ exitStatus \in Int /\ isChild \in BOOLEAN
      /\ recDepth \in 0 .. MaxDepth - 1
      /\ pending \subseteq Sig /\ pending # {} /\ pendingIndex \in Nat
  BY <1>1, LimitsAssumption
     DEF IInv, Shape, TypeOK, InCode, InterpretersNest, ThrownSound, SignalFlag
<1> DEFINE s == NextPending(pendingIndex)
           left == pending \ {s}
           desc == StillSignaled(left)
<1>3. s \in pending /\ s \in Sig /\ s \in Nat \ {0}
  BY <1>2, NextPendingLemma, InterpreterAssumption
<1>4. /\ pending' = left /\ pendingIndex' = IF s = SigMax THEN 1 ELSE s + 1
      /\ \/ /\ Handler[s] = NoHandler
            /\ eventDesc' = desc /\ phase' = "checked"
            /\ UNCHANGED <<frame, frames, throwVars, exitStatus>>
         \/ /\ Handler[s] # NoHandler /\ Len(frames) = MaxFrames
            /\ eventDesc' = desc \cup {"MASK"} /\ phase' = "raise"
            /\ SetThrown("StackOverflowError") /\ exitStatus' = 1
            /\ UNCHANGED <<frame, frames>>
         \/ /\ Handler[s] # NoHandler /\ Len(frames) # MaxFrames
            /\ eventDesc' = desc \cup {"MASK"} /\ phase' = "checked"
            /\ frames' = Append(frames, Saved(frame))
            /\ frame' = NewFrame(Trampoline(s), exitStatus)
            /\ UNCHANGED <<throwVars, exitStatus>>
  BY Zenon DEF CheckVMEvent
<1>5. desc \subseteq {"SIGNAL"} /\ ("SIGNAL" \in desc <=> left # {})
  BY DEF StillSignaled
<1>6. isChild => Handler[s] = NoHandler
  BY <1>3 DEF IInv, ChildQuiet
<1>7. pendingIndex' \in Nat \ {0}
  BY <1>3, <1>4
<1>8. left \subseteq pending
  OBVIOUS
<1> HIDE DEF s, left, desc
<1>9. SignalsSound'
  BY <1>1, <1>2, <1>4, <1>5, <1>7, <1>8 DEF IInv, SignalsSound, SignalFlag, ChildQuiet
<1>10. ~isChild => ~Handling(frame) /\ \A i \in DOMAIN frames : ~Handling(frames[i].frame)
  BY <1>1 DEF IInv, Masked
<1>11. CASE Handler[s] = NoHandler
  <2>1. /\ frame' = frame /\ frames' = frames /\ thrown' = thrown /\ savedThrown' = savedThrown
        /\ exitStatus' = exitStatus /\ phase' = "checked"
    BY <1>4, <1>11 DEF throwVars
  <2>2. Masked'
    BY <1>1, <1>10, <2>1 DEF Masked, Handling, IsTrampoline
  <2>3. ThrownSound' /\ phase' \in Phase
    BY <1>2, <2>1 DEF ThrownSound, Phase
  <2> QED
    BY <1>1, <1>2, <1>9, <2>1, <2>2, <2>3, SameFramesLemma DEF At
<1>12. CASE Handler[s] # NoHandler /\ Len(frames) = MaxFrames
  <2>1. /\ frame' = frame /\ frames' = frames /\ SetThrown("StackOverflowError")
        /\ exitStatus' = 1 /\ phase' = "raise" /\ "MASK" \in eventDesc'
    BY <1>4, <1>12
  <2>2. Masked'
    BY <2>1 DEF Masked
  <2>3. ThrownSound' /\ phase' \in Phase /\ exitStatus' \in Int
    BY <1>2, <2>1, SetThrownLemma, LimitsAssumption DEF Phase
  <2> QED
    BY <1>1, <1>2, <1>9, <2>1, <2>2, <2>3, SameFramesLemma DEF At
<1>13. CASE Handler[s] # NoHandler /\ Len(frames) # MaxFrames
  <2>1. /\ frames' = Append(frames, [frame |-> frame, recDepth |-> recDepth])
        /\ frame' = NewFrame(Trampoline(s), exitStatus)
        /\ thrown' = thrown /\ savedThrown' = savedThrown
        /\ exitStatus' = exitStatus /\ phase' = "checked" /\ "MASK" \in eventDesc'
    BY <1>4, <1>13 DEF throwVars, Saved
  <2>2. ThrownSound' /\ exitStatus' \in Int
    BY <1>2, <2>1 DEF ThrownSound
  <2>3. Len(frames) < MaxFrames /\ recDepth \in {recDepth, recDepth + 1} /\ recDepth < MaxDepth
    BY <1>2, <1>13, LimitsAssumption DEF IInv, Shape, TypeOK
  <2>4. KnownFn(Trampoline(s)) /\ IsTrampoline(Trampoline(s))
    BY <1>3, <1>13 DEF KnownFn, IsTrampoline
  <2>5. ~Handling(frame) /\ \A i \in DOMAIN frames : ~Handling(frames[i].frame)
    BY <1>6, <1>10, <1>13
  <2> QED
    BY <1>1, <1>2, <1>9, <2>1, <2>2, <2>3, <2>4, <2>5, PushLemma
<1> QED
  BY <1>11, <1>12, <1>13

(* A handler has returned to its trampoline. *)
LEMMA ExitSigLemma ==
  ASSUME IInv, EXIT_SIG
  PROVE  IInv'
<1>1. Fetch("EXIT_SIG")
  BY DEF EXIT_SIG
<1>2. /\ frame' = Following /\ phase' = "run" /\ exitStatus' = frame.status
      /\ eventDesc' = eventDesc \ {"MASK"} /\ pending' = pending /\ pendingIndex' = pendingIndex
      /\ prog' = prog /\ frames' = frames /\ recDepth' = recDepth /\ isChild' = isChild
      /\ thrown' = thrown /\ savedThrown' = savedThrown
  BY DEF EXIT_SIG, throwVars
<1>3. IsTrampoline(frame.fn) /\ frame.pc = 2 /\ frame.pc + 1 =< Size(frame.fn)
  BY <1>1, FetchLemma, InsLemma
<1>4. /\ Following \in Frame /\ Following.fn = frame.fn /\ Following.pc = frame.pc + 1
      /\ Inside(Following)
  BY <1>1, FetchLemma, FollowingLemma DEF At
<1>5. ~Handling(frame') /\ \A i \in DOMAIN frames : ~Handling(frames[i].frame)
  BY <1>2, <1>3, <1>4 DEF IInv, HandlersApart, Handling
<1>6. Masked'
  BY <1>2, <1>5 DEF Masked, Handling, IsTrampoline
<1>7. SignalsSound'
  BY <1>2 DEF IInv, Shape, TypeOK, SignalsSound, SignalFlag, ChildQuiet
<1>8. ThrownSound' /\ phase' \in Phase /\ exitStatus' \in Int
  BY <1>1, <1>2, FetchLemma DEF ThrownSound, Phase, Frame
<1>9. recDepth \in 0 .. MaxDepth - 1 /\ isChild \in BOOLEAN
  BY LimitsAssumption DEF IInv, Shape, TypeOK, InterpretersNest
<1> QED
  BY <1>1, <1>2, <1>3, <1>4, <1>6, <1>7, <1>8, <1>9, FetchLemma, SameFramesLemma

-----------------------------------------------------------------------------
(* The theorems *)

LEMMA InitLemma ==
  ASSUME Init
  PROVE  IInv
<1>1. prog \in DOMAIN Code /\ KnownFn(<<>>) /\ ~IsTrampoline(<<>>)
  BY CodeAssumption, FunctionLemma DEF Init, KnownFn
<1>2. 0 \in Int
  OBVIOUS
<1>3. /\ frame \in Frame /\ frame.fn = <<>> /\ frame.pc = 1 /\ Inside(frame)
  BY <1>1, <1>2, NewFrameLemma DEF Init
<1>4. 1 =< Size(<<>>)
  BY <1>1, FunctionLemma, CodeAssumption DEF Size
<1> DEFINE bottom == NewFrame(NoHandler, 0)
<1>5. bottom \in Frame
  <2>1. <<>> \in Seq(Value) /\ [d \in 1 .. MaxLoops |-> 0] \in [1 .. MaxLoops -> Int]
    OBVIOUS
  <2> QED
    BY <2>1 DEF NewFrame, Frame, FnName
<1>6. ~Handling(bottom)
  BY DEF Handling, IsTrampoline, NewFrame, NoHandler, Trampoline
<1> HIDE DEF bottom
<1>7. /\ frames = <<[frame |-> bottom, recDepth |-> 0]>>
      /\ phase = "run" /\ recDepth = 0 /\ thrown = None /\ savedThrown = None
      /\ isChild = FALSE /\ exitStatus = 0
      /\ eventDesc = {} /\ pending = {} /\ pendingIndex = 1
  BY DEF Init, bottom
<1>8. [frame |-> bottom, recDepth |-> 0] \in SavedFrame
  BY <1>5 DEF SavedFrame
<1>9. /\ frames \in Seq(SavedFrame) /\ Len(frames) = 1 /\ DOMAIN frames = {1}
      /\ frames[1].recDepth = 0 /\ frames[1].frame = bottom /\ frames # <<>>
  BY <1>7, <1>8
<1>10. Shape
  <2>1. phase \in Phase /\ thrown \in Error \cup {None} /\ savedThrown \in Error \cup {None}
    BY <1>7 DEF Phase
  <2>2. recDepth \in 0 .. MaxDepth /\ Len(frames) \in 0 .. MaxFrames
    BY <1>7, <1>9, LimitsAssumption
  <2>3. /\ eventDesc \subseteq {"SIGNAL", "MASK"} /\ pending \subseteq Sig
        /\ pendingIndex \in Nat \ {0}
    BY <1>7
  <2>4. TypeOK
    BY <2>1, <2>2, <2>3 DEF TypeOK
  <2>5. isChild \in BOOLEAN
    BY <1>7, Zenon
  <2>6. exitStatus \in Int
    BY <1>7
  <2> QED
    BY <1>1, <1>3, <1>9, <2>4, <2>5, <2>6 DEF Shape
<1>11. InCode
  BY <1>3, <1>4, <1>7, <1>9 DEF InCode, At
<1>12. InterpretersNest
  BY <1>7, <1>9, LimitsAssumption DEF InterpretersNest
<1>13. HandlersApart
  BY <1>1, <1>3, <1>9 DEF HandlersApart
<1>14. Masked
  BY <1>1, <1>3, <1>6, <1>9 DEF Masked, Handling
<1>15. SignalFlag /\ ChildQuiet
  BY <1>7 DEF SignalFlag, ChildQuiet
<1> QED
  BY <1>10, <1>11, <1>12, <1>13, <1>14, <1>15 DEF IInv

LEMMA StepLemma ==
  ASSUME IInv, [Next]_vars
  PROVE  IInv'
<1>1. CASE UNCHANGED vars
  <2>1. /\ prog' = prog /\ phase' = phase /\ frame' = frame /\ frames' = frames
        /\ recDepth' = recDepth /\ thrown' = thrown /\ savedThrown' = savedThrown
        /\ isChild' = isChild /\ exitStatus' = exitStatus
        /\ eventDesc' = eventDesc /\ pending' = pending /\ pendingIndex' = pendingIndex
    BY <1>1 DEF vars, loopVars, throwVars, signalVars
  <2>2. Shape' /\ InterpretersNest' /\ SignalFlag' /\ ChildQuiet'
    BY <2>1 DEF IInv, Shape, TypeOK, InterpretersNest, SignalFlag, ChildQuiet
  <2>3. InCode'
    BY <2>1 DEF IInv, InCode, At, Inside, KnownFn, Size, CodeOf
  <2>4. HandlersApart' /\ Masked'
    BY <2>1 DEF IInv, HandlersApart, Masked, Handling, IsTrampoline
  <2> QED
    BY <2>2, <2>3, <2>4 DEF IInv
<1>2. CASE HALT
  BY <1>2, HaltedLemma DEF HALT
<1>3. CASE Instruction
  BY <1>2, <1>3, PlainLemma, RaiseLemma, OperandLemma, CallLemma, CallbackLemma, ReturnLemma,
     FinallyLemma, ForkLemma DEF Instruction
<1>4. CASE \E s \in Sig : Arrive(s)
  BY <1>4, ArriveLemma
<1>5. CASE Over
  BY <1>1, <1>5 DEF Over
<1>6. CASE Step
  BY <1>3, <1>6, HandleExceptionLemma, CheckVMEventLemma, ExitSigLemma DEF Step
<1> QED
  BY <1>1, <1>4, <1>5, <1>6 DEF Next

(* The invariant holds of every program that is well-formed, whatever signals arrive. *)
THEOREM MachineInvariance ==
  Spec => []IInv
<1> QED
  BY InitLemma, StepLemma, PTL DEF Spec

(* Types: among them, that the recursion of interpreters stays within its limit and never
   goes below the toplevel, and that only exceptions are thrown. *)
THEOREM MachineTyped ==
  Spec => []TypeOK
<1>1. IInv => TypeOK
  BY DEF IInv, Shape
<1> QED
  BY <1>1, MachineInvariance, PTL

(* Each interpreter returns to the native code that started it, also when an exception
   unwinds it. *)
THEOREM Nesting ==
  Spec => []InterpretersNest
<1>1. IInv => InterpretersNest
  BY DEF IInv
<1> QED
  BY <1>1, MachineInvariance, PTL

(* No signal handler is started while another one runs, whichever way that one ends, and
   not in a child that a handler has forked. *)
THEOREM HandlersKeptApart ==
  Spec => []HandlersApart
<1>1. IInv => HandlersApart
  BY DEF IInv
<1> QED
  BY <1>1, MachineInvariance, PTL

(* The flag that makes the VM look for signals is set exactly while one is pending. *)
THEOREM FlagMatchesPending ==
  Spec => []SignalFlag
<1>1. IInv => SignalFlag
  BY DEF IInv
<1> QED
  BY <1>1, MachineInvariance, PTL

(* Control never leaves the code of the function that runs: no jump, catch block, return
   address or resumed frame leads out of it. *)
THEOREM ControlInCode ==
  Spec => []InCode
<1>1. IInv => InCode
  BY DEF IInv
<1> QED
  BY <1>1, MachineInvariance, PTL

-----------------------------------------------------------------------------
(* The turn of each pending signal *)

(* The search starts at p: the signals between p and a, which comes up next, have not been *)
(* handled since a was there; where it has passed a, only those above a may have been.     *)
Turn(a, b, p) == IF p =< a THEN ~(p =< b /\ b =< a) ELSE a < b /\ b < p

RoundRobin ==
  /\ passed \in [Sig -> SUBSET Sig]
  /\ \A a \in Sig : a \notin pending => passed[a] = {}
  /\ \A a \in Sig : \A b \in passed[a] : Turn(a, b, pendingIndex)

(* What can be said of the signal that popPendingSig finds.                  *)
LEMMA Nearest ==
  ASSUME pending \subseteq Sig, pending # {}, NEW from \in Nat
  PROVE  LET s == NextPending(from)
         IN  /\ s \in pending
             /\ s >= from => \A t \in pending : t >= from => s =< t
             /\ s < from => \A t \in pending : t < from /\ s =< t
<1> DEFINE ahead == {s \in pending : s >= from}
           among == IF ahead # {} THEN ahead ELSE pending
<1>1. among \subseteq Nat /\ among # {} /\ among \subseteq pending
  BY InterpreterAssumption
<1>2. \E x \in among : \A y \in among : x =< y
  BY <1>1, LeastLemma
<1>3. NextPending(from) \in among /\ \A t \in among : NextPending(from) =< t
  BY <1>2 DEF NextPending
<1>4. pending \subseteq Nat /\ NextPending(from) \in pending
  BY <1>1, <1>3, InterpreterAssumption
<1> DEFINE s == NextPending(from)
<1>5. CASE ahead # {}
  <2>1. s \in ahead /\ \A t \in ahead : s =< t
    BY <1>3, <1>5
  <2>2. s >= from /\ \A t \in pending : t >= from => s =< t
    BY <2>1
  <2> HIDE DEF s
  <2>3. s \in pending /\ ~(s < from)
    BY <1>4, <2>1, <2>2
  <2> QED
    BY <2>2, <2>3 DEF s
<1>6. CASE ahead = {}
  <2>1. \A t \in pending : s =< t
    BY <1>3, <1>6
  <2>2. \A t \in pending : t < from
    BY <1>4, <1>6
  <2> QED
    BY <1>4, <2>1, <2>2
<1> QED
  BY <1>5, <1>6

(* A finite set of numbers has a greatest one: the one of least size without would keep    *)
(* none when an element is taken away.                                                     *)
LEMMA GreatestLemma ==
  ASSUME NEW U, U \subseteq Nat, IsFiniteSet(U), U # {}
  PROVE  \E x \in U : \A y \in U : y =< x
<1> DEFINE Topped(S) == \E x \in S : \A y \in S : y =< x
           Bad == {n \in Nat : \E S \in SUBSET U : S # {} /\ Cardinality(S) = n /\ ~Topped(S)}
<1>1. SUFFICES Bad = {}
  <2>1. Cardinality(U) \in Nat /\ U \in SUBSET U
    BY FS_CardinalityType
  <2> QED
    BY <1>1, <2>1
<1>2. SUFFICES ASSUME Bad # {} PROVE FALSE
  OBVIOUS
<1>3. PICK n \in Bad : \A k \in Bad : n =< k
  BY <1>2, LeastLemma
<1>4. PICK S \in SUBSET U : S # {} /\ Cardinality(S) = n /\ ~Topped(S)
  BY <1>3
<1>5. PICK x \in S : TRUE
  BY <1>4
<1> DEFINE R == S \ {x}
<1>6. n \in Nat /\ Cardinality(R) = n - 1 /\ Cardinality(R) \in Nat /\ R \in SUBSET U
  BY <1>3, <1>4, <1>5, FS_Subset, FS_RemoveElement, FS_CardinalityType
<1>7. R # {}
  BY <1>4, <1>5
<1>8. Cardinality(R) \notin Bad
  <2>1. ~(n =< n - 1)
    BY <1>6
  <2> QED
    BY <1>3, <1>6, <2>1
<1>9. Topped(R)
  BY <1>6, <1>7, <1>8
<1>10. PICK m \in R : \A y \in R : y =< m
  BY <1>9
<1>11. \A y \in S : y = x \/ y \in R
  OBVIOUS
<1>12. m \in Nat /\ x \in Nat /\ m \in S /\ S \subseteq Nat
  BY <1>4, <1>5, <1>10
<1>13. CASE m =< x
  <2>1. \A y \in S : y =< x
    BY <1>10, <1>11, <1>12, <1>13
  <2> QED
    BY <1>4, <1>5, <2>1
<1>14. CASE x =< m
  <2>1. \A y \in S : y =< m
    BY <1>10, <1>11, <1>12, <1>14
  <2> QED
    BY <1>4, <1>12, <2>1
<1> QED
  BY <1>12, <1>13, <1>14

LEMMA SigMaxLemma ==
  ASSUME Sig # {}
  PROVE  SigMax \in Sig /\ \A t \in Sig : t =< SigMax
<1>1. \E x \in Sig : \A y \in Sig : y =< x
  BY GreatestLemma, InterpreterAssumption
<1> QED
  BY <1>1 DEF SigMax

(* Taking a signal: it is none that has been handled since another one waits, and it has   *)
(* its place among those that have.                                                        *)
LEMMA TakenLemma ==
  ASSUME IInv, RoundRobin, CheckVMEvent
  PROVE  /\ RoundRobin'
         /\ \A s, t \in Sig : s \in pending \cap pending' /\ t \in pending \ pending'
              => t \notin passed[s]
<1> DEFINE p == pendingIndex
           s == NextPending(p)
           left == pending \ {s}
<1>1. /\ pending \subseteq Sig /\ pending # {} /\ p \in Nat \ {0} /\ Sig \subseteq Nat \ {0}
  BY InterpreterAssumption DEF CheckVMEvent, EventDue, IInv, Shape, TypeOK, SignalFlag
<1>2. /\ s \in pending
      /\ s >= p => \A t \in pending : t >= p => s =< t
      /\ s < p => \A t \in pending : t < p /\ s =< t
  BY <1>1, Nearest
<1>3. \A t \in Sig : t =< SigMax
  BY <1>1, SigMaxLemma
<1>4. /\ pending' = left
      /\ pendingIndex' = IF s = SigMax THEN 1 ELSE s + 1
      /\ passed' = [t \in Sig |-> IF t \in left THEN passed[t] \cup {s} ELSE {}]
  BY DEF CheckVMEvent
<1>5. passed \in [Sig -> SUBSET Sig] /\ \A a \in Sig : \A b \in passed[a] : Turn(a, b, p)
  BY DEF RoundRobin
<1> HIDE DEF s
<1>6. s \in Sig /\ s \in Nat /\ SigMax \in Nat
  BY <1>1, <1>2, SigMaxLemma
<1>7. \A a \in left : s \notin passed[a]
  <2> SUFFICES ASSUME NEW a \in left, s \in passed[a] PROVE FALSE
    OBVIOUS
  <2>1. Turn(a, s, p) /\ a \in Nat /\ a \in pending
    BY <1>1, <1>5
  <2>2. CASE p =< a
    BY <1>1, <1>2, <1>6, <2>1, <2>2 DEF Turn
  <2>3. CASE a < p
    BY <1>1, <1>2, <1>6, <2>1, <2>3 DEF Turn
  <2> QED
    BY <1>1, <2>1, <2>2, <2>3
<1>8. \A a \in left : \A b \in passed[a] \cup {s} : Turn(a, b, pendingIndex')
  <2> SUFFICES ASSUME NEW a \in left, NEW b \in passed[a] \cup {s}
               PROVE  Turn(a, b, pendingIndex')
    OBVIOUS
  <2>1. a \in Nat /\ a # s /\ a \in pending /\ a \in Sig /\ b \in Nat /\ b \in Sig /\ a >= 1
    BY <1>1, <1>5, <1>6
  <2>2. b = s \/ Turn(a, b, p)
    BY <1>5, <2>1
  <2>3. CASE p =< a
    <3>1. s >= p /\ s < a
      BY <1>1, <1>2, <1>6, <2>1, <2>3
    <3>2. pendingIndex' = s + 1
      BY <1>3, <1>4, <1>6, <2>1, <3>1
    <3> QED
      BY <1>1, <1>6, <2>1, <2>2, <2>3, <3>1, <3>2 DEF Turn
  <2>4. CASE a < p /\ s >= p
    <3>1. a < b /\ b < s + 1
      BY <1>1, <1>6, <2>1, <2>2, <2>4 DEF Turn
    <3>2. pendingIndex' = 1 \/ pendingIndex' = s + 1
      BY <1>4
    <3> QED
      BY <1>1, <1>6, <2>1, <2>4, <3>1, <3>2 DEF Turn
  <2>5. CASE a < p /\ s < p
    <3>1. s < a
      BY <1>2, <1>6, <2>1, <2>5
    <3>2. pendingIndex' = s + 1
      BY <1>3, <1>4, <1>6, <2>1, <3>1
    <3>3. b = s \/ a < b
      BY <2>2, <2>5, <1>1, <2>1 DEF Turn
    <3> QED
      BY <1>6, <2>1, <3>1, <3>2, <3>3 DEF Turn
  <2> QED
    BY <1>1, <1>6, <2>1, <2>3, <2>4, <2>5
<1>9. RoundRobin'
  <2>1. passed' \in [Sig -> SUBSET Sig]
    BY <1>4, <1>5, <1>6
  <2>2. \A a \in Sig : a \notin pending' => passed'[a] = {}
    BY <1>4
  <2>3. ASSUME NEW a \in Sig, NEW b \in passed'[a] PROVE Turn(a, b, pendingIndex')
    <3>1. a \in left /\ b \in passed[a] \cup {s}
      BY <1>4
    <3> QED
      BY <1>8, <3>1
  <2> QED
    BY <2>1, <2>2, <2>3 DEF RoundRobin
<1> QED
  BY <1>2, <1>4, <1>7, <1>9

(* A signal that arrives has seen none handled. *)
LEMMA ArrivedLemma ==
  ASSUME RoundRobin, NEW s \in Sig, Arrive(s)
  PROVE  RoundRobin' /\ pending \subseteq pending'
<1>1. pending' = pending \cup {s} /\ pendingIndex' = pendingIndex /\ passed' = passed
  BY DEF Arrive
<1> QED
  BY <1>1 DEF RoundRobin

(* A child that has been forked starts with no signal. *)
LEMMA ForkedLemma ==
  ASSUME FORK
  PROVE  \/ UNCHANGED <<pending, pendingIndex, passed>>
         \/ pending' = {} /\ passed' = [s \in Sig |-> {}]
<1>1. CASE Ins.as = "parent"
  BY <1>1, Zenon DEF FORK, Local, signalVars
<1>2. CASE Ins.as = "fails"
  BY <1>2, Zenon DEF FORK, Throw, signalVars
<1>3. CASE Ins.as \notin {"parent", "fails"}
  BY <1>3 DEF FORK
<1> QED
  BY <1>1, <1>2, <1>3

(* No other step of the machine looks at the pending signals. *)
LEMMA UntouchedLemma ==
  ASSUME \/ Instruction /\ ~FORK
         \/ HandleException
         \/ EXIT_SIG
         \/ Over
         \/ UNCHANGED vars
  PROVE  UNCHANGED <<pending, pendingIndex, passed>>
<1>1. CASE CMD \/ RAISE \/ THROW \/ PUSH \/ GOTO \/ INIT_LOOP \/ LOOP \/ ENTER_FINALLY \/ HALT
  BY <1>1, Zenon
     DEF CMD, RAISE, THROW, PUSH, GOTO, INIT_LOOP, LOOP, ENTER_FINALLY, HALT, Local, Throw,
         Halted, signalVars
<1>2. CASE POP
  BY <1>2 DEF POP, Local, Halted, signalVars
<1>3. CASE CALL
  BY <1>3 DEF CALL, Throw, signalVars
<1>4. CASE CALLBACK
  BY <1>4 DEF CALLBACK, Throw, signalVars
<1>5. CASE RETURN
  BY <1>5 DEF RETURN, signalVars
<1>6. CASE EXIT_FINALLY
  BY <1>6 DEF EXIT_FINALLY, Local, Halted, signalVars
<1>7. CASE HandleException
  BY <1>7 DEF HandleException, ProcGuard, NotFound, EnterBlock, UnwindFrame, MainLoopFails,
              Halted, signalVars
<1>8. CASE EXIT_SIG
  BY <1>8 DEF EXIT_SIG
<1>9. CASE Over \/ UNCHANGED vars
  BY <1>9 DEF Over, vars, signalVars
<1> QED
  BY <1>1, <1>2, <1>3, <1>4, <1>5, <1>6, <1>7, <1>8, <1>9 DEF Instruction

LEMMA RoundLemma ==
  ASSUME IInv, RoundRobin, [Next]_vars
  PROVE  /\ RoundRobin'
         /\ \A s, t \in Sig : s \in pending \cap pending' /\ t \in pending \ pending'
              => t \notin passed[s]
<1>1. CASE CheckVMEvent
  BY <1>1, TakenLemma
<1>2. CASE \E s \in Sig : Arrive(s)
  BY <1>2, ArrivedLemma
<1>3. CASE FORK
  <2>1. CASE UNCHANGED <<pending, pendingIndex, passed>>
    BY <2>1 DEF RoundRobin
  <2>2. CASE pending' = {} /\ passed' = [s \in Sig |-> {}]
    BY <2>2 DEF RoundRobin
  <2> QED
    BY <1>3, <2>1, <2>2, ForkedLemma
<1>4. CASE UNCHANGED <<pending, pendingIndex, passed>>
  BY <1>4 DEF RoundRobin
<1> QED
  BY <1>1, <1>2, <1>3, <1>4, UntouchedLemma DEF Next, Step

(* No signal is handled twice while another one waits (popPendingSig), whatever arrives    *)
(* and however handlers end.                                                               *)
THEOREM NoneStarves ==
  Spec => NoStarvation
<1>1. Init => RoundRobin
  BY DEF Init, RoundRobin
<1>2. IInv /\ RoundRobin /\ [Next]_vars => RoundRobin'
  BY RoundLemma
<1>3. IInv /\ RoundRobin /\ [Next]_vars
        => [\A s, t \in Sig : s \in pending \cap pending' /\ t \in pending \ pending'
              => t \notin passed[s]]_vars
  BY RoundLemma
<1> QED
  BY <1>1, <1>2, <1>3, MachineInvariance, PTL DEF Spec, NoStarvation
=============================================================================
