----------------------------- MODULE JobControl -----------------------------
(***************************************************************************)
(* Job control of one shell process: the instructions, builtin commands    *)
(* and methods that fork, wait for, signal and detach jobs, over JobTable. *)
(* The shell has one thread; its steps here are the stretches between two  *)
(* calls of waitpid, and every step of a child or of SIGCHLD may come in   *)
(* between.  `frame` is the C++ call stack of the operation in progress.   *)
(***************************************************************************)
EXTENDS JobTable

CONSTANTS
  JobControl,   \* BOOLEAN: RuntimeOption::MONITOR
  MaxWaitArgs,  \* bound on the arguments of one `wait' or `bg'
  Script        \* the operations the script uses

Operation == {"exec", "subst", "pipeline", "async", "disown", "lastPipe", "forkFails",
              "child", "poll", "jobWait", "raise", "detach", "wait", "waitIds",
              "kill", "killPid", "signalKill", "fg", "bg", "exit", "stop"}

ASSUME ControlAssumption ==
  /\ JobControl \in BOOLEAN
  /\ MaxWaitArgs \in Nat \ {0}
  /\ Script \subseteq Operation

VARIABLES
  table,        \* DSState::jobTable
  held,         \* jobs some variable of the script holds a reference to
  pipes,        \* jobs of live PipelineObjects
  root,         \* isRootShell()
  frame,        \* operation in progress
  pendingCHLD,  \* SIGCHLD in DSState::pendingSigSet
  kernelCHLD    \* SIGCHLD raised while a SignalGuard blocks every signal

shellVars == <<table, held, pipes, root, frame, pendingCHLD, kernelCHLD>>
vars == <<kernelVars, shellVars>>

(***************************************************************************)
(* Frames.  pc is                                                          *)
(*   idle    at the top of the VM's loop                                   *)
(*   proc    in JobObject::wait, of the unattached `job', at process idx   *)
(*   enter   at the top of waitForJobImpl(job, op)                         *)
(*   impl    in the loop of waitForJobImpl(job, op)                        *)
(*   any     in the loop of waitForAny                                     *)
(*   anyEnd  after that loop, the SignalGuard still alive                  *)
(*   abort   stopped by a failed assertion                                 *)
(* fn is the operation as long as it goes on after its pc; `return' is the *)
(* waitForAny most operations end with, after which they return the status *)
(* ret and the errno err of job's wait.  todo are the `wait' targets left, *)
(* ids the `bg' arguments left.                                            *)
(***************************************************************************)
Idle == [pc |-> "idle", fn |-> "none", job |-> NoJob, op |-> "BLOCKING", idx |-> 1,
         todo |-> <<>>, ids |-> <<>>, ret |-> 0, err |-> "none"]

Abort == [Idle EXCEPT !.pc = "abort"]

Fn == {"none", "run", "subst", "fg", "bg", "poll", "jobWait", "pipe",
       "waitAll", "waitOne", "wait", "waitAnyOf", "return"}

Target == [job : Job, offset : {0} \cup Offset]

Frame == [pc : {"idle", "proc", "enter", "impl", "any", "anyEnd", "abort"},
          fn : Fn,
          job : Job \cup {NoJob},
          op : {"BLOCKING", "BLOCK_UNTRACED", "NONBLOCKING"},
          idx : Offset,
          todo : Seq(Target),
          ids : Seq(JobId),
          ret : {-1, 0, 127} \cup WaitStatus,
          err : {"none", "EINTR", "ECHILD", "stale"}]

TypeOK ==
  /\ KernelTypeOK
  /\ table \in Table
  /\ held \subseteq Job
  /\ pipes \subseteq Job
  /\ root \in BOOLEAN
  /\ frame \in Frame
  /\ pendingCHLD \in BOOLEAN
  /\ kernelCHLD \in BOOLEAN

Init ==
  /\ KernelInit
  /\ table = EmptyTable
  /\ held = {}
  /\ pipes = {}
  /\ root = TRUE
  /\ frame = Idle
  /\ pendingCHLD = FALSE
  /\ kernelCHLD = FALSE

-----------------------------------------------------------------------------
(* Helpers *)

\* A SignalGuard is alive: in waitForAny, and all through waitForAll.
SignalsBlocked == frame.pc \in {"any", "anyEnd"} \/ frame.fn \in {"waitAll", "waitOne"}

\* The wait operation of a foreground job.
ForegroundOp == IF root /\ JobControl THEN "BLOCK_UNTRACED" ELSE "BLOCKING"

\* The wait operation of the wait builtin and Job#wait.
WaitOp == IF JobControl THEN "BLOCK_UNTRACED" ELSE "BLOCKING"

\* Handles for a new JobObject.
FreeJob(j) == table.job[j] = Unused

\* Proc::fork refuses when jobTable.size() >= UINT16_MAX.
CanFork == FreeIds(table) # {}

\* The process group Proc::fork puts the processes ps of one job in.
Group(ps) == IF JobControl /\ root THEN ps[1] ELSE ShellGroup

\* Pids the kernel may give the processes of one pipeline.
PidSeqs == {ps \in UNION {[1 .. n -> Pid] : n \in Offset} :
              IsInjective(ps) /\ \A i \in DOMAIN ps : FreshPid(ps[i])}

\* The waitForAny frame that ends operation fn and returns (ret, err).  Entering
\* waitForAny blocks every signal and forgets the pending SIGCHLD.
AnyFrame(fn, job, ret, err) ==
  [Idle EXCEPT !.pc = "any", !.fn = fn, !.job = job, !.ret = ret, !.err = err]

EnterAny(fn, job, ret, err) ==
  /\ frame' = AnyFrame(fn, job, ret, err)
  /\ pendingCHLD' = FALSE
  /\ kernelCHLD' = FALSE

NotifyParent_dropBlocked ==
  /\ pendingCHLD' = (pendingCHLD \/ ~SignalsBlocked)
  /\ UNCHANGED kernelCHLD

\* A child has changed its state: signalHandler runs, or the kernel keeps SIGCHLD
\* until the SignalGuard is gone.
NotifyParent ==
  /\ pendingCHLD' = (pendingCHLD \/ ~SignalsBlocked)
  /\ kernelCHLD' = (kernelCHLD \/ SignalsBlocked)

UnblockSignals ==
  /\ pendingCHLD' = (pendingCHLD \/ kernelCHLD)
  /\ kernelCHLD' = FALSE

-----------------------------------------------------------------------------
(* Steps of the environment *)

KernelStep(A) ==
  /\ A
  /\ NotifyParent
  /\ UNCHANGED <<table, held, pipes, root, frame>>

Exit(p) == KernelStep(ChildExit(p))
Stop(p) == KernelStep(ChildStop(p))
Continue(p) == KernelStep(ChildContinue(p))

-----------------------------------------------------------------------------
(* Starting jobs *)

\* The JobObject of a set of freshly forked processes.
Created(j, ps) == [table EXCEPT !.job[j] = NewJob(ps)]

StartJob(j, ps) ==
  /\ frame = Idle
  /\ CanFork
  /\ FreeJob(j)
  /\ Forked(Range(ps), Group(ps))
  /\ UNCHANGED root

\* VM::forkAndExec and VM::forkAndEval for a command substitution: one process,
\* waited for in the foreground.  The object of j is created only when the
\* process has to be attached; until then the Proc on the stack is its process.
ForkAndExec(j, ps, fn) ==
  /\ StartJob(j, ps)
  /\ Len(ps) = 1
  /\ fn \in {"run", "subst"}
  /\ table' = Created(j, ps)
  /\ frame' = [Idle EXCEPT !.pc = "proc", !.fn = fn, !.job = j, !.op = ForegroundOp]
  /\ UNCHANGED <<held, pipes, pendingCHLD, kernelCHLD>>

\* VM::callPipeline with attachAsyncJob, ForkKind::NONE.
ForegroundPipeline(j, ps) ==
  /\ StartJob(j, ps)
  /\ Len(ps) > 1
  /\ table' = Created(j, ps)
  /\ frame' = [Idle EXCEPT !.pc = "proc", !.fn = "run", !.job = j, !.op = ForegroundOp]
  /\ UNCHANGED <<held, pipes, pendingCHLD, kernelCHLD>>

\* attachAsyncJob, the other kinds: COPROC, JOB (ref), DISOWN (ref and disown),
\* IN_PIPE and OUT_PIPE (disown).  ref: the script gets the Job object.
AsyncJob(j, ps, disown, ref) ==
  /\ StartJob(j, ps)
  /\ table' = Attach(Created(j, ps), j, disown)
  /\ held' = IF ref THEN held \cup {j} ELSE held
  /\ UNCHANGED <<pipes, frame, pendingCHLD, kernelCHLD>>

\* VM::callPipeline, lastPipe: the shell itself is the last command; the
\* PipelineObject on the VM's stack waits for the others when it is destroyed.
LastPipe(j, ps) ==
  /\ StartJob(j, ps)
  /\ table' = Attach(Created(j, ps), j, FALSE)
  /\ pipes' = pipes \cup {j}
  /\ UNCHANGED <<held, frame, pendingCHLD, kernelCHLD>>

\* VM::callPipeline, fork failed after the processes ps: they are killed, and
\* attached to nothing.
PipelineForkFails(ps) ==
  /\ frame = Idle
  /\ CanFork
  /\ proc' = [p \in Pid |-> IF p \in Range(ps) THEN "dying" ELSE proc[p]]
  /\ event' = [p \in Pid |-> IF p \in Range(ps) THEN "none" ELSE event[p]]
  /\ pgid' = [p \in Pid |-> IF p \in Range(ps) THEN Group(ps) ELSE pgid[p]]
  /\ UNCHANGED <<code, shellVars>>

\* Proc::fork in the child: it has no children of its own and none of the
\* jobs is its own.  From here on the model follows the child.
EnterChild ==
  /\ frame = Idle
  /\ CanFork
  /\ table' = Collected(DetachAll(table), held \cup pipes)
  /\ root' = FALSE
  /\ pendingCHLD' = FALSE
  /\ kernelCHLD' = FALSE
  /\ proc' = [p \in Pid |-> "free"]
  /\ event' = [p \in Pid |-> "none"]
  /\ code' = [p \in Pid |-> EXIT_OK]
  /\ pgid' = [p \in Pid |-> ShellGroup]
  /\ UNCHANGED <<held, pipes, frame>>

-----------------------------------------------------------------------------
(* JobObject::wait on an unattached job *)

\* Proc::wait: a process known to be stopped is only looked at.
ProcWaitOp(pr, op) == IF pr.state = "STOPPED" THEN "NONBLOCKING" ELSE op

\* What the callers do after JobObject::wait has returned (ret, err): attach the
\* job unless it has ended; forkAndEval then goes on, the others call waitForAny.
FinishForeground_neverAttach(T, ret, err) ==
  /\ table' = IF frame.fn = "subst" THEN Collected(T, held \cup pipes) ELSE T
  /\ IF frame.fn = "subst"
     THEN frame' = Idle /\ UNCHANGED <<pendingCHLD, kernelCHLD>>
     ELSE EnterAny("return", frame.job, ret, err)

FinishForeground(T, ret, err) ==
  /\ table' = IF Available(T, frame.job) THEN Attach(T, frame.job, FALSE)
              ELSE IF frame.fn = "subst" THEN Collected(T, held \cup pipes) ELSE T
  /\ IF frame.fn = "subst"
     THEN frame' = Idle /\ UNCHANGED <<pendingCHLD, kernelCHLD>>
     ELSE EnterAny("return", frame.job, ret, err)

\* waitpid(pid) has a report for process idx.
ProcWait ==
  LET j == frame.job
      pr == table.job[j].procs[frame.idx]
      p == pr.pid
      new == UpdateProc(pr, Report(p))
      T == [table EXCEPT !.job[j].procs[frame.idx] = new]
      last == frame.idx = Len(T.job[j].procs)
  IN /\ frame.pc = "proc"
     /\ Reportable(p, ProcWaitOp(pr, frame.op))
     /\ Reaped(p)
     /\ IF last
        THEN FinishForeground([T EXCEPT !.job[j] = UpdateJob(@)], new.exitStatus, "none")
        ELSE /\ table' = T
             /\ frame' = [frame EXCEPT !.idx = @ + 1]
             /\ UNCHANGED <<pendingCHLD, kernelCHLD>>
     /\ UNCHANGED <<held, pipes, root>>

\* SIGINT has no SA_RESTART: waitpid(pid) fails with EINTR.
ProcWaitInterrupted ==
  /\ frame.pc = "proc"
  /\ FinishForeground(table, -1, "EINTR")
  /\ UNCHANGED <<kernelVars, held, pipes, root>>

-----------------------------------------------------------------------------
(* JobTable::waitForAny *)

\* waitpid(-1, NONBLOCKING) returns p.
AnyReap(p) ==
  /\ frame.pc = "any"
  /\ Reportable(p, "NONBLOCKING")
  /\ Reaped(p)
  /\ IF FindsDeleted(table, p)
     THEN frame' = Abort /\ UNCHANGED table
     ELSE table' = UpdateProcState(table, Report(p)) /\ UNCHANGED frame
  /\ UNCHANGED <<held, pipes, root, pendingCHLD, kernelCHLD>>

\* It returns 0, or -1 for ECHILD.
AnyNothing ==
  /\ frame.pc = "any"
  /\ \A p \in Pid : ~Reportable(p, "NONBLOCKING")
  /\ frame' = [frame EXCEPT !.pc = "anyEnd"]
  /\ UNCHANGED <<kernelVars, table, held, pipes, root, pendingCHLD, kernelCHLD>>

\* Remove the ended jobs, unblock the signals and return to the caller.
AnyDone ==
  /\ frame.pc = "anyEnd"
  /\ CASE frame.fn = "fg" ->
            /\ table' = RemoveTerminatedJobs(table)
            /\ frame' = [frame EXCEPT !.pc = "enter", !.op = "BLOCK_UNTRACED"]
            /\ UNCHANGED kernelVars
            /\ UnblockSignals
       [] frame.fn = "bg" ->
            \* the remaining arguments, then waitForAny again
            /\ table' = RemoveTerminatedJobs(table)
            /\ Continued(UNION {SendTargets(table', FindJob(table', frame.ids[i])) :
                                i \in {k \in DOMAIN frame.ids :
                                         FindJob(table', frame.ids[k]) # NoJob}})
            /\ EnterAny("none", NoJob, 0, "none")
       [] OTHER ->
            /\ table' = Collected(RemoveTerminatedJobs(table), held \cup pipes)
            /\ frame' = Idle
            /\ UNCHANGED kernelVars
            /\ UnblockSignals
  /\ UNCHANGED <<held, pipes, root>>

\* VM::checkVMEvent with SIGCHLD pending.
CheckVMEvent ==
  /\ frame = Idle
  /\ pendingCHLD
  /\ EnterAny("none", NoJob, 0, "none")
  /\ UNCHANGED <<kernelVars, table, held, pipes, root>>

-----------------------------------------------------------------------------
(* JobTable::waitForJob, waitForAll and their callers *)

NextJob_same(T, after) ==
  LET rest == {i \in JobId : i >= after /\ FindJob(T, i) # NoJob}
  IN IF rest = {} THEN NoJob ELSE T.jobs[Min(rest)]

\* In waitForAll: the next job of the vector that is not disowned.
NextJob(T, after) ==
  LET rest == {i \in JobId : i > after /\ FindJob(T, i) # NoJob}
  IN IF rest = {} THEN NoJob ELSE T.jobs[Min(rest)]

EnterFrame(fn, j, op, todo, err) ==
  [Idle EXCEPT !.pc = "enter", !.fn = fn, !.job = j, !.op = op, !.todo = todo,
               !.err = err]

TargetStatus_ofJob(T, t, status) == status

\* Status of `wait' for one target: that of its own process, when one was named.
TargetStatus(T, t, status) ==
  IF t.offset # 0 /\ T.job[t.job].procs[t.offset].state # "RUNNING"
  THEN T.job[t.job].procs[t.offset].exitStatus
  ELSE status

EndedTargets(T, ts) == {i \in DOMAIN ts : ~Available(T, ts[i].job)}

(***************************************************************************)
(* waitForJobImpl returns (status, err) with the table T.  waitForJob then *)
(* removes the ended jobs; waitForAll does so after its last job.          *)
(***************************************************************************)
Return(T, status, err) ==
  LET R == RemoveTerminatedJobs(T)
      next == NextJob(T, T.job[frame.job].jobID)
  IN CASE frame.fn \in {"poll", "fg"} ->
            /\ table' = Collected(R, held \cup pipes)
            /\ frame' = Idle
            /\ UNCHANGED <<pendingCHLD, kernelCHLD>>
       [] frame.fn \in {"jobWait", "pipe"} ->
            /\ table' = R
            /\ EnterAny("return", frame.job, status, err)
       [] frame.fn = "wait" ->
            /\ table' = R
            /\ IF status = -1 \/ Len(frame.todo) = 1
               THEN EnterAny("return", NoJob,
                             IF status = -1 THEN -1
                             ELSE TargetStatus(R, Head(frame.todo), status), err)
               ELSE /\ frame' = EnterFrame("wait", frame.todo[2].job, WaitOp,
                                           Tail(frame.todo), err)
                    /\ UNCHANGED <<pendingCHLD, kernelCHLD>>
       [] frame.fn = "waitAnyOf" ->
            /\ table' = R
            /\ IF status # -1 /\ EndedTargets(R, frame.todo) = {}
               THEN /\ frame' = [frame EXCEPT !.pc = "enter"]
                    /\ UNCHANGED <<pendingCHLD, kernelCHLD>>
               ELSE LET ended == EndedTargets(R, frame.todo)
                    IN EnterAny("return", NoJob,
                                IF status = -1 THEN -1
                                ELSE ExitStatus(R, frame.todo[Min(ended)].job), err)
       [] frame.fn \in {"waitAll", "waitOne"} ->
            IF status # -1 /\ frame.fn = "waitAll" /\ next # NoJob
            THEN /\ table' = T
                 /\ frame' = EnterFrame("waitAll", next, frame.op, <<>>, err)
                 /\ UNCHANGED <<pendingCHLD, kernelCHLD>>
            ELSE /\ table' = R
                 /\ EnterAny("return", NoJob, status, err)
       [] OTHER -> FALSE

\* The two early returns of waitForJobImpl, or its loop.
Enter ==
  LET j == frame.job
      jo == table.job[j]
  IN /\ frame.pc = "enter"
     /\ CASE j # NoJob /\ ~Available(table, j) ->
               IF jo.state = "UNCONTROLLED"
               THEN Return(table, -1, "ECHILD")
               ELSE Return(table, ExitStatus(table, j), "none")
          [] j # NoJob /\ Available(table, j) /\ frame.op = "BLOCK_UNTRACED"
               /\ LastStopped(jo) # 0 ->
               Return(table, jo.procs[LastStopped(jo)].exitStatus, frame.err)
          [] OTHER ->
               /\ frame' = [frame EXCEPT !.pc = "impl", !.ret = 0]
               /\ UNCHANGED <<table, pendingCHLD, kernelCHLD>>
     /\ UNCHANGED <<kernelVars, held, pipes, root>>

\* waitpid(-1, op) returns p in the loop of waitForJobImpl.
ImplReap(p) ==
  LET j == frame.job
      T == UpdateProcState(table, Report(p))
      mine == j # NoJob /\ UpdatedJob(table, p) = j
      pr == T.job[j].procs[UpdatedOffset(table, p)]
      allStopped == LastStopped(T.job[j])
  IN /\ frame.pc = "impl"
     /\ Reportable(p, frame.op)
     /\ Reaped(p)
     /\ CASE FindsDeleted(table, p) ->
               /\ frame' = Abort
               /\ UNCHANGED <<table, pendingCHLD, kernelCHLD>>
          [] ~FindsDeleted(table, p) /\ j = NoJob -> Return(T, 0, "none")
          [] ~FindsDeleted(table, p) /\ mine /\ pr.state = "STOPPED"
               /\ frame.op = "BLOCK_UNTRACED" /\ allStopped # 0 ->
               Return(T, T.job[j].procs[allStopped].exitStatus, "none")
          [] ~FindsDeleted(table, p) /\ j # NoJob /\ ~Available(T, j) ->
               Return(T, ExitStatus(T, j), "none")
          [] OTHER ->
               /\ table' = T
               /\ frame' = [frame EXCEPT !.ret = IF mine THEN pr.exitStatus ELSE @]
               /\ UNCHANGED <<pendingCHLD, kernelCHLD>>
     /\ UNCHANGED <<held, pipes, root>>

\* waitpid(-1) returns 0 for WNOHANG.
ImplNothing ==
  /\ frame.pc = "impl"
  /\ frame.op = "NONBLOCKING"
  /\ Children # {}
  /\ \A p \in Pid : ~Reportable(p, frame.op)
  /\ Return(table, frame.ret, "none")
  /\ UNCHANGED <<kernelVars, held, pipes, root>>

\* (waitpid(-1) does not fail with ECHILD here: the job that is waited for runs, and its
\* processes are children, by NoStatusLost.)

\* SIGINT interrupts a blocking waitpid(-1), unless a SignalGuard blocks it.
ImplInterrupted ==
  /\ frame.pc = "impl"
  /\ Children # {}
  /\ frame.op # "NONBLOCKING"
  /\ ~SignalsBlocked
  /\ Return(table, -1, "EINTR")
  /\ UNCHANGED <<kernelVars, held, pipes, root>>

\* What every operation that starts in a waitForJob leaves alone.
WaitFrame(f) ==
  /\ frame = Idle
  /\ frame' = f
  /\ UNCHANGED <<kernelVars, table, held, root, pendingCHLD, kernelCHLD>>

\* job_poll
JobPoll(j) ==
  j \in held /\ WaitFrame(EnterFrame("poll", j, "NONBLOCKING", <<>>, "none"))
  /\ UNCHANGED pipes

\* job_wait.  errno has the value some earlier call left there.
JobWait(j, errno) ==
  j \in held /\ WaitFrame(EnterFrame("jobWait", j, WaitOp, <<>>, errno))
  /\ UNCHANGED pipes

\* PipelineObject::~PipelineObject; the objects are on the VM's stack.
DestroyPipeline(j) ==
  /\ j \in pipes
  /\ pipes' = pipes \ {j}
  /\ WaitFrame(EnterFrame("pipe", j, ForegroundOp, <<>>, "none"))

\* builtin_wait without arguments: waitForAll under a SignalGuard.
WaitAll(fn) ==
  /\ frame = Idle
  /\ fn \in {"waitAll", "waitOne"}
  /\ LET first == NextJob(table, 0)
     IN IF first = NoJob
        THEN EnterAny("return", NoJob, 0, "none")
        ELSE /\ frame' = EnterFrame(fn, first, WaitOp, <<>>, "none")
             /\ pendingCHLD' = FALSE
             /\ UNCHANGED kernelCHLD
  /\ UNCHANGED <<kernelVars, table, held, pipes, root>>

\* parseProcOrJob for one argument of `wait': %id is a job that is not disowned,
\* a pid is looked up in the process table, and its job with `find'.
WaitArg == [id : JobId, pid : {NoPid}] \cup [id : {0}, pid : Pid]

ArgEntry(a) == FindProc(table, a.pid)
ArgFound(a) == IF a.id # 0 THEN FindJob(table, a.id) # NoJob ELSE ArgEntry(a) # NoPid
ArgTarget(a) ==
  IF a.id # 0
  THEN [job |-> FindJob(table, a.id), offset |-> 0]
  ELSE [job |-> FindJob(table, table.entries[ArgEntry(a)].jobId),
        offset |-> table.entries[ArgEntry(a)].offset]

\* builtin_wait with arguments.  The first argument not found ends it with 127;
\* the assertion on the job of a pid fails when that job is disowned.
WaitIds(args, fn) ==
  LET lost == {i \in DOMAIN args : ~ArgFound(args[i])}
      null == {i \in DOMAIN args : ArgFound(args[i]) /\ ArgTarget(args[i]).job = NoJob}
      targets == [i \in DOMAIN args |-> ArgTarget(args[i])]
  IN /\ frame = Idle
     /\ fn \in {"wait", "waitAnyOf"}
     /\ CASE lost = {} /\ null = {} ->
               /\ frame' = EnterFrame(fn, IF fn = "wait" THEN targets[1].job ELSE NoJob,
                                      WaitOp, targets, "none")
               /\ UNCHANGED <<pendingCHLD, kernelCHLD>>
          [] null # {} /\ (lost = {} \/ Min(null) < Min(lost)) ->
               /\ frame' = Abort
               /\ UNCHANGED <<pendingCHLD, kernelCHLD>>
          [] OTHER -> EnterAny("return", NoJob, 127, "none")
     /\ UNCHANGED <<kernelVars, table, held, pipes, root>>

-----------------------------------------------------------------------------
(* Signals to jobs *)

\* builtin_kill %id, and job_raise: a fatal signal, then waitForAny.
SendJob(j) ==
  /\ frame = Idle
  /\ Killed(SendTargets(table, j))
  /\ EnterAny("none", NoJob, 0, "none")
  /\ UNCHANGED <<table, held, pipes, root>>

KillJob(id) == FindJob(table, id) # NoJob /\ SendJob(FindJob(table, id))
JobRaise(j) == j \in held /\ SendJob(j)

\* builtin_kill pid: the entry found for it, or the pid itself.
KillPid(p) ==
  /\ frame = Idle
  /\ Killed({IF FindProc(table, p) = NoPid THEN p ELSE FindProc(table, p)})
  /\ EnterAny("none", NoJob, 0, "none")
  /\ UNCHANGED <<table, held, pipes, root>>

\* signal_kill, for a pid that is a child (kill fails for the others).
SignalKill(p) ==
  /\ frame = Idle
  /\ p \in Children
  /\ Killed({p})
  /\ EnterAny("none", NoJob, 0, "none")
  /\ UNCHANGED <<table, held, pipes, root>>

\* builtin_exit of an interactive shell: SIGHUP to the jobs that are not disowned.  The
\* shell goes on with its finally blocks and its termination hook.
HangUp ==
  /\ frame = Idle
  /\ Killed(UNION {SendTargets(table, FindJob(table, i)) :
                    i \in {k \in JobId : FindJob(table, k) # NoJob}})
  /\ UNCHANGED shellVars

\* builtin_fg_bg.  arg 0: no argument, the latest job; then waitForAny, and for fg
\* waitForJob.
NamedJob(arg) == IF arg = 0 THEN table.latest ELSE FindJob(table, arg)

Fg(arg) ==
  /\ frame = Idle
  /\ JobControl
  /\ NamedJob(arg) # NoJob
  /\ Continued(SendTargets(table, NamedJob(arg)))
  /\ EnterAny("fg", NamedJob(arg), 0, "none")
  /\ UNCHANGED <<table, held, pipes, root>>

Bg(arg, ids) ==
  /\ frame = Idle
  /\ JobControl
  /\ arg = 0 => ids = <<>>
  /\ IF NamedJob(arg) # NoJob
     THEN Continued(SendTargets(table, NamedJob(arg)))
     ELSE UNCHANGED kernelVars
  /\ frame' = [AnyFrame("bg", NoJob, 0, "none") EXCEPT !.ids = ids]
  /\ pendingCHLD' = FALSE
  /\ kernelCHLD' = FALSE
  /\ UNCHANGED <<table, held, pipes, root>>

\* job_detach
JobDetach(j) ==
  /\ frame = Idle
  /\ j \in held
  /\ table' = [table EXCEPT !.job[j].disown = TRUE]
  /\ UNCHANGED <<kernelVars, held, pipes, root, frame, pendingCHLD, kernelCHLD>>

\* The script drops its last reference to j.
DropReference(j) ==
  /\ frame = Idle
  /\ j \in held
  /\ held' = held \ {j}
  /\ table' = Collected(table, held' \cup pipes)
  /\ UNCHANGED <<kernelVars, pipes, root, frame, pendingCHLD, kernelCHLD>>

-----------------------------------------------------------------------------

Start ==
  \/ \E j \in Job, ps \in PidSeqs :
       \/ "exec" \in Script /\ ForkAndExec(j, ps, "run")
       \/ "subst" \in Script /\ ForkAndExec(j, ps, "subst")
       \/ "pipeline" \in Script /\ ForegroundPipeline(j, ps)
       \/ "async" \in Script /\ AsyncJob(j, ps, FALSE, TRUE)
       \/ "disown" \in Script /\ \E ref \in BOOLEAN : AsyncJob(j, ps, TRUE, ref)
       \/ "lastPipe" \in Script /\ LastPipe(j, ps)
  \/ "forkFails" \in Script /\ \E ps \in PidSeqs : PipelineForkFails(ps)
  \/ "child" \in Script /\ EnterChild

Command ==
  \/ \E j \in Job :
       \/ "poll" \in Script /\ JobPoll(j)
       \/ "jobWait" \in Script /\ \E errno \in {"none", "stale"} : JobWait(j, errno)
       \/ "raise" \in Script /\ JobRaise(j)
       \/ "detach" \in Script /\ JobDetach(j)
       \/ DestroyPipeline(j)
       \/ DropReference(j)
  \/ "wait" \in Script /\ \E fn \in {"waitAll", "waitOne"} : WaitAll(fn)
  \/ "waitIds" \in Script
     /\ \E n \in 1 .. MaxWaitArgs, fn \in {"wait", "waitAnyOf"} :
          \E args \in [1 .. n -> WaitArg] : WaitIds(args, fn)
  \/ "kill" \in Script /\ \E id \in JobId : KillJob(id)
  \/ "killPid" \in Script /\ \E p \in Pid : KillPid(p)
  \/ "signalKill" \in Script /\ \E p \in Pid : SignalKill(p)
  \/ "exit" \in Script /\ HangUp
  \/ "fg" \in Script /\ \E arg \in {0} \cup JobId : Fg(arg)
  \/ "bg" \in Script
     /\ \E arg \in {0} \cup JobId, n \in 0 .. MaxWaitArgs - 1 :
          \E ids \in [1 .. n -> JobId] : Bg(arg, ids)

Waiting ==
  \/ ProcWait
  \/ ProcWaitInterrupted
  \/ \E p \in Pid : AnyReap(p) \/ ImplReap(p)
  \/ AnyNothing
  \/ AnyDone
  \/ CheckVMEvent
  \/ Enter
  \/ ImplNothing
  \/ ImplInterrupted

Environment ==
  \E p \in Pid : Exit(p) \/ ("stop" \in Script /\ Stop(p)) \/ Continue(p)

\* The process is gone after a failed assertion.
Aborted == frame = Abort /\ UNCHANGED vars

Next == Start \/ Command \/ Waiting \/ Environment \/ Aborted

Spec == Init /\ [][Next]_vars
=============================================================================
