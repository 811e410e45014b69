----------------------------- MODULE Redirection -----------------------------
(* How a shell process moves its descriptors about: the redirections of a     *)
(* command or a with block, descriptors passed to a command, UnixFD objects,  *)
(* pipelines, forks, and the restoring objects on the operand stack, which    *)
(* put everything back in the order the stack unwinds.                        *)
EXTENDS Descriptors, SequencesExt

CONSTANTS
  Obj,        \* UnixFD objects a script can have beside $STDIN
  RedirArg,   \* <<operation, argument>>: the redirections scripts write
  MaxOps,     \* redirections and passed descriptors of one command
  MaxDepth,   \* restorers on the stack at once
  MaxMade,    \* restorers, their operations, objects and forks in a whole run
  MaxLost     \* descriptors lost to forks that fail

VARIABLES
  table,   \* the descriptor table of the process
  fdOf,    \* UnixFdObject::fd of each object
  held,    \* objects a variable or a job of the script refers to
  stack,   \* the restoring objects on the operand stack, oldest first
  made,    \* restorers, their operations, objects and forks so far
  alive,   \* FALSE once the shell has given up: a pipe could not be made
  base,    \* restorers inherited over fork: the child exits before it drops them
  lost     \* history: descriptors nobody can close any more

redirVars == <<table, fdOf, held, stack, made, alive, base, lost>>

Stdin == "STDIN"
Object == Obj \cup {Stdin}
Path == {"file", "missing"}
Text == {"", "short", "long"}
NoFds == [i \in Std |-> None]

(* getChangedFD: the standard descriptors an operation changes.               *)
Changed ==
  [IN_2_FILE |-> {0}, OUT_2_FILE |-> {1}, OUT_2_FILE_APPEND |-> {1},
   ERR_2_FILE |-> {2}, ERR_2_FILE_APPEND |-> {2},
   MERGE_ERR_2_OUT_2_FILE |-> {1, 2}, MERGE_ERR_2_OUT_2_FILE_APPEND |-> {1, 2},
   MERGE_ERR_2_OUT |-> {2}, MERGE_OUT_2_ERR |-> {1}, HERE_STR |-> {0}, NOP |-> {}]

ASSUME RedirectionAssumption ==
  /\ {"in", "out", "err", "file", "pipe"} \subseteq File
  /\ RedirArg \subseteq (DOMAIN Changed) \X (Path \cup Object \cup Text)
  /\ \A e \in RedirArg : e[2] \in Text => e[1] \in {"MERGE_ERR_2_OUT", "MERGE_OUT_2_ERR", "HERE_STR", "NOP"}
  /\ MaxOps \in Nat

Restorer == [kind |-> "redir", done |-> FALSE, ops |-> <<>>, set |-> {}, old |-> NoFds,
             was |-> [i \in Std |-> Closed]]

Top == Last(stack)
CanPush == alive /\ Len(stack) < MaxDepth /\ made < MaxMade

RedirInit ==
  /\ table = [at |-> [f \in Fd |-> CASE f = 0 -> "in" [] f = 1 -> "out" [] f = 2 -> "err"
                                     [] OTHER -> Closed],
              keep |-> Std]
  /\ fdOf = [o \in Object |-> IF o = Stdin THEN 0 ELSE None]
  /\ held = {Stdin}
  /\ stack = <<>> /\ made = 0 /\ alive = TRUE /\ base = 0 /\ lost = {}

-----------------------------------------------------------------------------
(* What an operation leaves: the table, the descriptors nobody can close any  *)
(* more, and whether the shell is over.                                       *)
Done(t) == [ok |-> TRUE, t |-> t, lost |-> {}, over |-> FALSE]
Failed(t) == [Done(t) EXCEPT !.ok = FALSE]

(* redirectToFile: a path is opened at the lowest free descriptor, copied and *)
(* closed again; a UnixFD object is copied, at its end if it can seek.        *)
RedirectToFile(t, arg, append, target) ==
  LET f == Lowest(t)
      v == fdOf[arg]
  IN  IF arg \in Path
      THEN IF arg = "missing" \/ f = None THEN Failed(t)
           ELSE Done(Close(Dup2(Put(t, f, arg, TRUE), f, target), f))
      ELSE IF ~IsOpen(t, v) \/ (append /\ t.at[v] = "pipe") THEN Failed(t)
           ELSE Done(Dup2(t, v, target))

(* doIOHere: the read end becomes stdin; a long text is written by a process  *)
(* of its own, and when that cannot be forked both ends stay open. A pipe     *)
(* that cannot be made ends the shell.                                        *)
IOHere(t, arg, forked) ==
  LET p == Pipe(t)
      u == Dup2(p.t, p.r, 0)
  IN  CASE p.r = None -> [Failed(t) EXCEPT !.over = TRUE]
        [] p.r # None /\ arg = "long" /\ ~forked -> [Failed(u) EXCEPT !.lost = {p.r, p.w}]
        [] OTHER -> Done(Close(Close(u, p.r), p.w))

Merge(r, from, to) == IF r.ok THEN [r EXCEPT !.ok = IsOpen(r.t, from), !.t = Dup2(@, from, to)] ELSE r

(* redirectImpl.                                                              *)
RedirectImpl(t, op, arg, forked) ==
  CASE op = "IN_2_FILE" -> RedirectToFile(t, arg, FALSE, 0)
    [] op = "OUT_2_FILE" -> RedirectToFile(t, arg, FALSE, 1)
    [] op = "OUT_2_FILE_APPEND" -> RedirectToFile(t, arg, TRUE, 1)
    [] op = "ERR_2_FILE" -> RedirectToFile(t, arg, FALSE, 2)
    [] op = "ERR_2_FILE_APPEND" -> RedirectToFile(t, arg, TRUE, 2)
    [] op = "MERGE_ERR_2_OUT_2_FILE" -> Merge(RedirectToFile(t, arg, FALSE, 1), 1, 2)
    [] op = "MERGE_ERR_2_OUT_2_FILE_APPEND" -> Merge(RedirectToFile(t, arg, TRUE, 1), 1, 2)
    [] op = "MERGE_ERR_2_OUT" -> Merge(Done(t), 1, 2)
    [] op = "MERGE_OUT_2_ERR" -> Merge(Done(t), 2, 1)
    [] op = "HERE_STR" -> IOHere(t, arg, forked)
    [] op = "NOP" -> Done(t)

(* backupFDs: a copy of each standard descriptor in the set; a copy that      *)
(* cannot be made is -1.                                                      *)
Backup(r, i) == LET d == DupFd(r.t, i) IN [old |-> [r.old EXCEPT ![i] = d.fd], t |-> d.t]
BackupFDs(t, set) ==
  LET Step(r, i) == IF i \in set THEN Backup(r, i) ELSE r
  IN  Step(Step(Step([old |-> NoFds, t |-> t], 0), 1), 2)

(* The operations from left to right, up to the first that fails.             *)
ApplyOne(r, e, forked) ==
  LET q == RedirectImpl(r.t, e[1], e[2], forked)
  IN  IF r.ok THEN [q EXCEPT !.lost = @ \cup r.lost] ELSE r
Apply(t, ops, forked) ==
  LET after[i \in 0 .. Len(ops)] == IF i = 0 THEN Done(t) ELSE ApplyOne(after[i - 1], ops[i], forked)
  IN  after[Len(ops)]

(* restoreFDs, then close the copies.                                         *)
CopiesOf(e) == {e.old[i] : i \in Std} \ {None}
PutBack(t, e) ==
  LET Step(u, i) == IF i \in e.set THEN Dup2(u, e.old[i], i) ELSE u
  IN  Step(Step(Step(t, 0), 1), 2)
RestoreFDs_keepCopies(t, e) == PutBack(t, e)
RestoreFDs_closeFirst(t, e) == PutBack(CloseSet(t, CopiesOf(e)), e)
RestoreFDs(t, e) == CloseSet(PutBack(t, e), CopiesOf(e))

(* How often a stack of restorers and the script's variables refer to an      *)
(* object.                                                                    *)
Mentions(o, st) ==
  {p \in (1 .. Len(st)) \X (1 .. MaxOps) : p[2] \in DOMAIN st[p[1]].ops /\ st[p[1]].ops[p[2]][2] = o}
Refs(o, st) == (IF o \in held THEN 1 ELSE 0) + Cardinality(Mentions(o, st))

(* ~UnixFdObject: an object nothing refers to closes its descriptor, except   *)
(* a standard one.                                                            *)
Dropped(st) == {o \in Object : Refs(o, st) = 0 /\ fdOf[o] # None}
CloseDropped(t, dead) == CloseSet(t, {fdOf[o] : o \in dead} \ Std)

(* ~RedirObject, ~PipelineObject: put the descriptors back; a descriptor this *)
(* command passed and something else still refers to is close-on-exec again.  *)
Destroyed_stillPassed(t, e) == RestoreFDs(t, e)
Destroyed(t, e) ==
  LET again == {fdOf[o] : o \in {o \in Object : /\ <<"NOP", o>> \in ToSet(e.ops)
                                                /\ Refs(o, stack) > 1}} \ Std
      back == RestoreFDs(t, e)
  IN  [back EXCEPT !.keep = @ \ again]

Drop(t, rest, last) ==
  LET dead == Dropped(rest) IN
  /\ table' = CloseSet(CloseDropped(t, dead), last)
  /\ fdOf' = [o \in Object |-> IF o \in dead THEN None ELSE fdOf[o]]
  /\ stack' = rest

(* Pop the newest restorer of this process, then close what is left.          *)
PopRestorer(t, last) == Len(stack) > base /\ Drop(Destroyed(t, Top), Front(stack), last)

-----------------------------------------------------------------------------
(* NEW_REDIR, ADD_REDIR_OP, ADD_CMD_ARG with a UnixFD: while the arguments of *)
(* a command are evaluated they may run other commands.                       *)
NewRedir ==
  /\ CanPush
  /\ stack' = Append(stack, Restorer)
  /\ made' = made + 1
  /\ UNCHANGED <<table, fdOf, held, alive, base, lost>>

Building == alive /\ made < MaxMade /\ Len(stack) > base /\ Top.kind = "redir" /\ ~Top.done /\ Len(Top.ops) < MaxOps

AddRedirOp(op, arg) ==
  /\ Building
  /\ arg \in Object => arg \in held
  /\ stack' = [stack EXCEPT ![Len(stack)].ops = Append(@, <<op, arg>>),
                            ![Len(stack)].set = @ \cup Changed[op]]
  /\ made' = made + 1
  /\ UNCHANGED <<table, fdOf, held, alive, base, lost>>

AddCmdArg(o) ==
  /\ Building /\ o \in held
  /\ table' = IF fdOf[o] > 2 THEN Keep(table, fdOf[o]) ELSE table
  /\ stack' = [stack EXCEPT ![Len(stack)].ops = Append(@, <<"NOP", o>>)]
  /\ made' = made + 1
  /\ UNCHANGED <<fdOf, held, alive, base, lost>>

(* DO_REDIR: save what will change, then change it; an operation that fails   *)
(* raises, and the restorer leaves with the exception. A pipe that cannot be  *)
(* made for a here string ends the shell.                                     *)
DoRedir(forked) ==
  /\ alive /\ Len(stack) > base /\ Top.kind = "redir" /\ ~Top.done /\ Top.ops # <<>>
  /\ Cardinality(lost) < MaxLost \/ forked
  /\ LET saved == BackupFDs(table, Top.set)
         r == Apply(saved.t, Top.ops, forked)
         e == [Top EXCEPT !.done = TRUE, !.old = saved.old, !.was = [i \in Std |-> table.at[i]]]
     IN  /\ lost' = lost \cup r.lost
         /\ alive' = ~r.over
         /\ \/ /\ r.ok \/ r.over
               /\ stack' = Append(Front(stack), e)
               /\ table' = r.t /\ UNCHANGED fdOf
            \/ /\ ~r.ok /\ ~r.over
               /\ Drop(Destroyed(r.t, e), Front(stack), {})
  /\ UNCHANGED <<made, held, base>>

(* The command is over, or the with block, the function or the pipeline whose *)
(* restorer this is: RECLAIM_LOCAL, RETURN or the end of a builtin command.   *)
EndCommand ==
  /\ alive /\ stack # <<>> /\ Top.done
  /\ PopRestorer(table, {})
  /\ UNCHANGED <<made, held, alive, base, lost>>

(* exec with redirections but no command: they stay.                          *)
BuiltinExec ==
  /\ alive /\ Len(stack) > base /\ Top.kind = "redir" /\ Top.done /\ Top.set # {}
  /\ stack' = [stack EXCEPT ![Len(stack)].set = {}]
  /\ UNCHANGED <<made, table, fdOf, held, alive, base, lost>>

(* forkAndExec: the self pipe, the fork, and, in the parent, the restoring of *)
(* the redirections, before what the child writes is read and the read end    *)
(* closed. A fork that fails leaves both ends of the pipe open, and its error *)
(* takes the restorer away.                                                   *)
ForkAndExec(forked) ==
  LET p == Pipe(table) IN
  /\ alive /\ Len(stack) > base /\ Top.kind = "redir" /\ Top.done /\ p.r # None
  /\ \/ /\ forked
        /\ PopRestorer(Close(p.t, p.w), {p.r})
        /\ UNCHANGED lost
     \/ /\ ~forked /\ Cardinality(lost) < MaxLost
        /\ PopRestorer(CloseOnExec(p.t, p.w), {})
        /\ lost' = lost \cup {p.r, p.w}
  /\ UNCHANGED <<made, held, alive, base>>

(* An exception that no handler above the newest restorer takes.              *)
Unwind ==
  /\ alive /\ PopRestorer(table, {})
  /\ UNCHANGED <<made, held, alive, base, lost>>

-----------------------------------------------------------------------------
(* PipeSet: the pipes of an asynchronous or substituted command.              *)
UseIn == {"IN_PIPE", "COPROC"}
UseOut == {"STR", "OUT_PIPE", "COPROC"}
ForkKind == UseIn \cup UseOut \cup {"JOB"}
PipeSet(kind) ==
  LET i == IF kind \in UseIn THEN Pipe(table) ELSE NoPipe(table)
      o == IF kind \in UseOut THEN Pipe(i.t) ELSE NoPipe(i.t)
  IN  [in |-> i, out |-> o, t |-> o.t,
       made |-> (kind \in UseIn => i.r # None) /\ (kind \in UseOut => o.r # None)]

NewObjects(n) == {f \in [1 .. n -> {o \in Obj : Refs(o, stack) = 0}] : n = 2 => f[1] # f[2]}

(* newFD, attachAsyncJob: the parent closes the ends of the child; the ends   *)
(* it keeps become objects of the job, close-on-exec, except those of a       *)
(* command substitution, which it reads and closes.                           *)
ForkParent(kind) ==
  LET ps == PipeSet(kind)
      mine == CASE kind = "IN_PIPE" -> <<ps.in.w>>
                [] kind = "OUT_PIPE" -> <<ps.out.r>>
                [] kind = "COPROC" -> <<ps.in.w, ps.out.r>>
                [] OTHER -> <<>>
      shut == CloseSet(ps.t, {ps.in.r, ps.out.w} \cup (IF kind = "STR" THEN {ps.out.r} ELSE {}))
  IN  /\ alive /\ ps.made /\ made + Len(mine) <= MaxMade
      /\ made' = made + Len(mine)
      /\ \E os \in NewObjects(Len(mine)) :
           /\ fdOf' = [o \in Object |-> IF o \in ToSet(os) THEN mine[CHOOSE k \in DOMAIN os : os[k] = o]
                                        ELSE fdOf[o]]
           /\ held' = held \cup ToSet(os)
           /\ table' = [shut EXCEPT !.keep = @ \ (ToSet(mine) \ Std)]
      /\ UNCHANGED <<stack, alive, base, lost>>

(* The child: its ends become the standard descriptors; stdin of a background *)
(* job without job control is /dev/null.                                      *)
ForkChild(kind) ==
  LET ps == PipeSet(kind)
      n == Lowest(ps.t)
      in == IF kind = "JOB" /\ n # None
            THEN Close(Dup2(Put(ps.t, n, "file", TRUE), n, 0), n)
            ELSE Dup2(ps.t, ps.in.r, 0)
  IN  /\ alive /\ ps.made /\ made < MaxMade
      /\ table' = CloseSet(Dup2(in, ps.out.w, 1), {ps.in.r, ps.in.w, ps.out.r, ps.out.w})
      /\ made' = made + 1
      /\ base' = Len(stack)
      /\ UNCHANGED <<fdOf, held, stack, alive, lost>>

ForkFails(kind) ==
  LET ps == PipeSet(kind) IN
  /\ alive /\ ps.made /\ Cardinality(lost) < MaxLost
  /\ table' = ps.t
  /\ lost' = lost \cup ({ps.in.r, ps.in.w, ps.out.r, ps.out.w} \ {None})
  /\ UNCHANGED <<made, fdOf, held, stack, alive, base>>

(* callPipeline with the last command in this process: its stdin is saved in  *)
(* the job, then the read end takes its place.                                *)
LastPipe ==
  LET p == Pipe(table)
      d == DupFd(p.t, 0)
      e == [Restorer EXCEPT !.kind = "pipe", !.done = TRUE, !.was = [i \in Std |-> table.at[i]],
                            !.old = [NoFds EXCEPT ![0] = d.fd], !.set = {0}]
  IN  /\ CanPush /\ p.r # None
      /\ table' = Close(Close(Dup2(d.t, p.r, 0), p.r), p.w)
      /\ stack' = Append(stack, e)
      /\ made' = made + 1
      /\ UNCHANGED <<fdOf, held, alive, base, lost>>

(* tryToPipe, forkAndExec: "pipe creation failed" ends the shell.             *)
NoPipeLeft ==
  /\ alive /\ \E kind \in ForkKind : ~PipeSet(kind).made
  /\ alive' = FALSE
  /\ UNCHANGED <<made, table, fdOf, held, stack, base, lost>>

-----------------------------------------------------------------------------
(* UnixFD objects: UnixFD(path), $fd.dup(), $fd.close(), and a variable that  *)
(* goes away.                                                                 *)
FdInit(o) ==
  LET f == Lowest(table) IN
  /\ alive /\ made < MaxMade /\ o \in Obj /\ Refs(o, stack) = 0 /\ f # None
  /\ table' = Put(table, f, "file", FALSE)
  /\ fdOf' = [fdOf EXCEPT ![o] = f] /\ held' = held \cup {o}
  /\ made' = made + 1
  /\ UNCHANGED <<stack, alive, base, lost>>

FdDup(p, o) ==
  LET d == DupFd(table, fdOf[p]) IN
  /\ alive /\ made < MaxMade /\ p \in held /\ o \in Obj /\ Refs(o, stack) = 0 /\ d.fd # None
  /\ table' = d.t
  /\ fdOf' = [fdOf EXCEPT ![o] = d.fd] /\ held' = held \cup {o}
  /\ made' = made + 1
  /\ UNCHANGED <<stack, alive, base, lost>>

FdClose(o) ==
  /\ alive /\ o \in held /\ fdOf[o] # None
  /\ table' = Close(table, fdOf[o])
  /\ fdOf' = [fdOf EXCEPT ![o] = None]
  /\ UNCHANGED <<made, held, stack, alive, base, lost>>

DropVariable(o) ==
  LET left == Refs(o, stack) - 1 IN
  /\ alive /\ o \in held \cap Obj
  /\ held' = held \ {o}
  /\ table' = IF left = 0 /\ fdOf[o] > 2 THEN Close(table, fdOf[o]) ELSE table
  /\ fdOf' = IF left = 0 THEN [fdOf EXCEPT ![o] = None] ELSE fdOf
  /\ UNCHANGED <<made, stack, alive, base, lost>>

RedirNext ==
  \/ NewRedir \/ EndCommand \/ BuiltinExec \/ Unwind \/ LastPipe \/ NoPipeLeft
  \/ \E e \in RedirArg : AddRedirOp(e[1], e[2])
  \/ \E o \in Object : AddCmdArg(o) \/ FdInit(o) \/ FdClose(o) \/ DropVariable(o)
  \/ \E p, o \in Object : FdDup(p, o)
  \/ \E forked \in BOOLEAN : DoRedir(forked) \/ ForkAndExec(forked)
  \/ \E kind \in ForkKind : ForkParent(kind) \/ ForkChild(kind) \/ ForkFails(kind)


-----------------------------------------------------------------------------
(* Every descriptor above the standard ones has exactly one owner - a copy    *)
(* that a restorer keeps, a UnixFD object, or nobody since a fork failed -    *)
(* and no owner keeps the number of a descriptor that is closed: what one     *)
(* owner closes is never a descriptor another one uses by now.                *)
Owners(f) == {<<"saved", p[1], p[2]>> : p \in {p \in (1 .. Len(stack)) \X Std : stack[p[1]].old[p[2]] = f}}
             \cup {<<"object", o>> : o \in {o \in Object : fdOf[o] = f}}
             \cup {<<"lost", x>> : x \in lost \cap {f}}
DescriptorsOwned ==
  alive => \A f \in Fd \ Std : Cardinality(Owners(f)) = IF IsOpen(table, f) THEN 1 ELSE 0

(* Beside the standard descriptors, a program started in this state keeps     *)
(* only descriptors that some command line still being run has passed, or     *)
(* that a failed fork has left behind: neither the copies of the restorers,   *)
(* nor the pipes of jobs, nor the script's own files reach it.                *)
Passed == {fdOf[o] : o \in {o \in Object : \E i \in 1 .. Len(stack) : <<"NOP", o>> \in ToSet(stack[i].ops)}}
InheritsOnlyPassed == alive => table.keep \ Std \subseteq Passed \cup lost

(* Whatever happened in between - nested redirections, pipelines, files       *)
(* opened and closed, exec inside - the end of a command, or the exception    *)
(* that leaves it, puts back the files its redirections replaced, provided    *)
(* that the standard descriptors were open when it began and that the copies  *)
(* could be made. Only a standard descriptor that was closed inside may stay  *)
(* closed, when the pipe of forkAndExec has taken its number.                 *)
Before == IF Top.done THEN Top.was ELSE [i \in Std |-> table.at[i]]
Copies == IF Top.done THEN Top.old ELSE BackupFDs(table, Top.set).old
Saved == (\A i \in Std : Before[i] # Closed) /\ (\A i \in Top.set : Copies[i] # None)
RestoredAsBefore ==
  [][Len(stack') < Len(stack) /\ Saved =>
       \A i \in Top.set : table'.at[i] = Before[i] \/ (i = Lowest(table) /\ ForkAndExec(TRUE))]_redirVars
=============================================================================
