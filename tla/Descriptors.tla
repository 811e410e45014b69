----------------------------- MODULE Descriptors -----------------------------
(* The descriptor table of a shell process, as the system calls the shell     *)
(* makes on it see it: which file each descriptor refers to, and which        *)
(* descriptors a program started now would keep (close-on-exec is off).       *)
EXTENDS Integers, FiniteSets, Sequences, Folds

CONSTANTS
  MaxFd,   \* RLIMIT_NOFILE: descriptors are 0 .. MaxFd
  File,    \* what a descriptor can refer to
  Closed   \* a descriptor that refers to nothing

ASSUME DescriptorAssumption ==
  /\ MaxFd \in Nat /\ MaxFd > 2
  /\ Closed \notin File

Fd == 0 .. MaxFd
Std == 0 .. 2
None == -1
Table == [at : [Fd -> File \cup {Closed}], keep : SUBSET Fd]

IsOpen(t, f) == f \in Fd /\ t.at[f] # Closed
Free(t) == {f \in Fd : t.at[f] = Closed}
Lowest(t) == IF Free(t) = {} THEN None
             ELSE CHOOSE f \in Free(t) : \A g \in Free(t) : f <= g

(* open, pipe: a descriptor that was free; dup2: -1 and closed ones fail, a   *)
(* descriptor onto itself is left alone, the copy is kept by exec.            *)
Put(t, f, file, kept) ==
  [at |-> [t.at EXCEPT ![f] = file], keep |-> IF kept THEN t.keep \cup {f} ELSE t.keep \ {f}]
Dup2(t, from, to) ==
  IF ~IsOpen(t, from) \/ from = to THEN t ELSE Put(t, to, t.at[from], TRUE)
Close(t, f) == IF f \in Fd THEN Put(t, f, Closed, FALSE) ELSE t
CloseSet(t, fs) == [at |-> [f \in Fd |-> IF f \in fs THEN Closed ELSE t.at[f]],
                    keep |-> t.keep \ fs]
CloseOnExec(t, f) == [t EXCEPT !.keep = @ \ {f}]
Keep(t, f) == [t EXCEPT !.keep = @ \cup {f}]

(* fcntl(f, F_DUPFD_CLOEXEC, 0): the copy takes the lowest free number, which *)
(* may be one of 0 .. 2.                                                      *)
DupFd(t, f) ==
  LET g == Lowest(t) IN
  IF ~IsOpen(t, f) \/ g = None THEN [fd |-> None, t |-> t]
  ELSE [fd |-> g, t |-> Put(t, g, t.at[f], FALSE)]

(* pipe(): both ends, or neither.                                             *)
Pipe(t) ==
  LET r == Lowest(t)
      w == IF r = None THEN None ELSE Lowest(Put(t, r, "pipe", TRUE))
  IN  IF w = None THEN [r |-> None, w |-> None, t |-> t]
      ELSE [r |-> r, w |-> w, t |-> Put(Put(t, r, "pipe", TRUE), w, "pipe", TRUE)]
NoPipe(t) == [r |-> None, w |-> None, t |-> t]
=============================================================================
