------------------------------ MODULE Children ------------------------------
(***************************************************************************)
(* The operating system's side of job control, as the shell in             *)
(* src/src/job.cpp uses it: the shell's child processes, the reports that  *)
(* waitpid(2) hands out, process groups, kill(2) and the delivery of       *)
(* SIGCHLD.  The kernel is not part of the repository; this module is the  *)
(* environment of JobControl.                                              *)
(***************************************************************************)
EXTENDS Integers

CONSTANTS
  Pid,          \* process ids a child of the shell may get
  NoPid,        \* the pid of a process that is no more (-1 in the source)
  ExitCode      \* exit statuses of the commands

\* 0 and 1 are never the pid of a child; -1 stands for "no process".
ASSUME PidAssumption ==
  /\ Pid \subseteq (Nat \ {0, 1})
  /\ NoPid = -1
  /\ ExitCode \subseteq 0 .. 255

VARIABLES
  proc,         \* what the kernel knows of each pid as a child of the shell
  event,        \* the stop or continue report waitpid has not handed out yet
  code,         \* the wait status of a zombie
  pgid          \* process group of each child; ShellGroup: the shell's own

kernelVars == <<proc, event, code, pgid>>

ShellGroup == 0

ProcState == {"free", "running", "stopped", "dying", "zombie"}
EventKind == {"none", "stopped", "continued"}

EXIT_OK   == 0
SIGKILL   == 9
SIGTSTP   == 20
SIGNALED(sig) == sig + 128

WaitStatus == {EXIT_OK, SIGNALED(SIGKILL), SIGNALED(SIGTSTP)} \cup ExitCode

KernelTypeOK ==
  /\ proc \in [Pid -> ProcState]
  /\ event \in [Pid -> EventKind]
  /\ code \in [Pid -> WaitStatus]
  /\ pgid \in [Pid -> Pid \cup {ShellGroup}]

KernelInit ==
  /\ proc = [p \in Pid |-> "free"]
  /\ event = [p \in Pid |-> "none"]
  /\ code = [p \in Pid |-> EXIT_OK]
  /\ pgid = [p \in Pid |-> ShellGroup]

Children == {p \in Pid : proc[p] # "free"}

\* A pid fork(2) may hand out: not in use, and not the id of a live group.
FreshPid(p) == proc[p] = "free" /\ \A q \in Children : pgid[q] # p

(***************************************************************************)
(* waitpid.  `op` is a WaitOp of the source: BLOCKING is no option,        *)
(* BLOCK_UNTRACED is WUNTRACED, NONBLOCKING is WUNTRACED | WCONTINUED |    *)
(* WNOHANG.                                                                *)
(***************************************************************************)
Reportable(p, op) ==
  \/ proc[p] = "zombie"
  \/ event[p] = "stopped" /\ op \in {"BLOCK_UNTRACED", "NONBLOCKING"}
  \/ event[p] = "continued" /\ op = "NONBLOCKING"

\* The report for p.  A zombie's earlier stop or continue report is gone.
Report(p) ==
  IF proc[p] = "zombie"
  THEN [pid |-> p, kind |-> "exited", status |-> code[p]]
  ELSE [pid |-> p, kind |-> event[p], status |-> SIGNALED(SIGTSTP)]

\* waitpid has returned Report(p): the zombie is reaped and nothing of it is
\* kept, or the event is consumed.
Reaped(p) ==
  /\ proc' = IF proc[p] = "zombie" THEN [proc EXCEPT ![p] = "free"] ELSE proc
  /\ event' = [event EXCEPT ![p] = "none"]
  /\ code' = [code EXCEPT ![p] = EXIT_OK]
  /\ pgid' = IF proc[p] = "zombie" THEN [pgid EXCEPT ![p] = ShellGroup] ELSE pgid

(***************************************************************************)
(* fork(2) and setpgid(2): the pids in `ps` become running children of     *)
(* process group `group`.                                                  *)
(***************************************************************************)
Forked(ps, group) ==
  /\ proc' = [p \in Pid |-> IF p \in ps THEN "running" ELSE proc[p]]
  /\ event' = [p \in Pid |-> IF p \in ps THEN "none" ELSE event[p]]
  /\ pgid' = [p \in Pid |-> IF p \in ps THEN group ELSE pgid[p]]
  /\ UNCHANGED code

(***************************************************************************)
(* kill(2) on every pid in `ps`.  A fatal signal is acted on later, by     *)
(* ChildExit; SIGCONT resumes a stopped process at once, which is when the *)
(* kernel makes the WCONTINUED report available.  A SIGSTOP is a ChildStop *)
(* at any later time.                                                      *)
(***************************************************************************)
Killed(ps) ==
  /\ proc' = [p \in Pid |-> IF p \in ps /\ proc[p] \in {"running", "stopped"}
                            THEN "dying" ELSE proc[p]]
  /\ UNCHANGED <<event, code, pgid>>

Continued(ps) ==
  LET woken == {p \in ps : proc[p] = "stopped"}
  IN /\ proc' = [p \in Pid |-> IF p \in woken THEN "running" ELSE proc[p]]
     /\ event' = [p \in Pid |-> IF p \in woken THEN "continued" ELSE event[p]]
     /\ UNCHANGED <<code, pgid>>

(***************************************************************************)
(* Steps of the children.  Each one also sends SIGCHLD to the shell, which *)
(* the composing module adds.                                              *)
(***************************************************************************)
ChildExit(p) ==
  /\ proc[p] \in {"running", "dying"}
  /\ proc' = [proc EXCEPT ![p] = "zombie"]
  /\ \E status \in IF proc[p] = "dying" THEN {SIGNALED(SIGKILL)} ELSE ExitCode :
       code' = [code EXCEPT ![p] = status]
  /\ event' = [event EXCEPT ![p] = "none"]
  /\ UNCHANGED pgid

ChildStop(p) ==
  /\ proc[p] = "running"
  /\ proc' = [proc EXCEPT ![p] = "stopped"]
  /\ event' = [event EXCEPT ![p] = "stopped"]
  /\ UNCHANGED <<code, pgid>>

\* SIGCONT from somewhere else than this shell.
ChildContinue(p) == proc[p] = "stopped" /\ Continued({p})

=============================================================================
