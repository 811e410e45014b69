---------------------------- MODULE JobWaitProofs ----------------------------
(***************************************************************************)
(* What the waits of job control promise, for any number of jobs,          *)
(* processes and pids: no child is forgotten, every SIGCHLD is announced,  *)
(* a status is recorded exactly when it is reaped, a signal reaches the    *)
(* whole group, and each wait returns the status it was asked for.  The    *)
(* inductive invariants are those of JobControlProperties, on top of the   *)
(* one of JobControlProofs.                                                *)
(***************************************************************************)
EXTENDS JobControlProofs

-----------------------------------------------------------------------------
(* What a step does to the table and to the children *)

\* U is T, maybe without its ended jobs, maybe without the JobObjects nothing in `refs'
\* refers to: what the operations leave of the table they have worked on.
Left(T, U, refs) ==
  U \in {T, RemoveTerminatedJobs(T), Collected(T, refs),
         Collected(RemoveTerminatedJobs(T), refs)}

References == held \cup pipes

\* A job is started on the processes ps: in the foreground, or as a job of the table.
Starts(j, ps) ==
  /\ RestInv
  /\ StartJob(j, ps)
  /\ \/ table' = Created(j, ps) /\ frame'.pc = "proc" /\ frame'.job = j
     \/ (\E disowned \in BOOLEAN : table' = Attach(Created(j, ps), j, disowned)) /\ frame' = frame

\* waitpid(-1) has reaped p, or has taken its report.
Reaps(p) ==
  /\ RestInv
  /\ \E op : Reportable(p, op)
  /\ Reaped(p)
  /\ frame'.pc # "proc"
  /\ IF FindsDeleted(table, p) THEN table' = table
     ELSE Left(UpdateProcState(table, Report(p)), table', References')

\* Nothing is reaped and no job is started.
Calm ==
  /\ RestInv
  /\ frame'.pc # "proc"
  /\ UNCHANGED kernelVars \/ \E ps : Killed(ps) \/ Continued(ps)
  /\ Left(table, table', References')

\* A child moves.
Moves(p) ==
  /\ ChildExit(p) \/ ChildStop(p) \/ ChildContinue(p)
  /\ NotifyParent
  /\ UNCHANGED <<table, held, pipes, root, frame>>

(* waitForJobImpl leaves the table T it returns with. *)
LEMMA ReturnLeft ==
  ASSUME NEW T, NEW status, NEW err, Return(T, status, err)
  PROVE  table' \in {T, RemoveTerminatedJobs(T), Collected(RemoveTerminatedJobs(T), References)}
  BY DEF Return, References

(* The steps of Start, Command, Waiting and Environment are of these kinds. *)
LEMMA StartKind ==
  ASSUME RestInv, Start
  PROVE  \/ \E j \in Job, ps \in PidSeqs : Starts(j, ps)
         \/ \E ps \in PidSeqs : PipelineForkFails(ps)
         \/ EnterChild
<1>1. ASSUME NEW j \in Job, NEW ps \in PidSeqs,
             (\E fn : ForkAndExec(j, ps, fn)) \/ ForegroundPipeline(j, ps)
      PROVE  Starts(j, ps)
  BY <1>1 DEF Starts, ForkAndExec, ForegroundPipeline, Idle
<1>2. ASSUME NEW j \in Job, NEW ps \in PidSeqs,
             (\E disown \in BOOLEAN : \E ref : AsyncJob(j, ps, disown, ref)) \/ LastPipe(j, ps)
      PROVE  Starts(j, ps)
  BY <1>2 DEF Starts, AsyncJob, LastPipe
<1> QED
  BY <1>1, <1>2 DEF Start

LEMMA CommandKind ==
  ASSUME RestInv, Command
  PROVE  Calm \/ \E j \in Job : JobDetach(j)
<1>1. ASSUME RestInv', table' \in {table, Collected(table, References')},
             UNCHANGED kernelVars \/ (\E ps : Killed(ps) \/ Continued(ps))
      PROVE  Calm
  BY <1>1 DEF Calm, Left, RestInv, RestFrame
<1>2. ASSUME \/ \E j : SendJob(j)
             \/ \E p : KillPid(p) \/ SignalKill(p)
             \/ \E arg : Fg(arg)
             \/ \E arg, ids : Bg(arg, ids)
      PROVE  Calm
  <2>1. UNCHANGED table /\ (UNCHANGED kernelVars \/ \E ps : Killed(ps) \/ Continued(ps))
    BY <1>2 DEF SendJob, KillPid, SignalKill, Fg, Bg
  <2> QED
    BY <1>1, <1>2, <2>1, SignalStep
<1>3. ASSUME \/ \E j \in Job : JobPoll(j) \/ DestroyPipeline(j)
             \/ \E j \in Job : \E errno : JobWait(j, errno)
             \/ \E fn : WaitAll(fn)
             \/ \E args, fn : WaitIds(args, fn)
      PROVE  Calm
  <2>1. UNCHANGED table /\ UNCHANGED kernelVars
    BY <1>3 DEF JobPoll, DestroyPipeline, JobWait, WaitFrame, WaitAll, WaitIds
  <2> QED
    BY <1>1, <1>3, <2>1, CommandWaitStep
<1>4. ASSUME HangUp
      PROVE  Calm
  <2>1. UNCHANGED table /\ \E ps : Killed(ps)
    BY <1>4 DEF HangUp, shellVars
  <2> QED
    BY <1>1, <1>4, <2>1, HangUpStep
<1>5. ASSUME NEW j \in Job, DropReference(j)
      PROVE  Calm
  <2>1. table' = Collected(table, References') /\ UNCHANGED kernelVars
    BY <1>5 DEF DropReference, References
  <2> QED
    BY <1>1, <1>5, <2>1, DropStep
<1> QED
  BY <1>2, <1>3, <1>4, <1>5 DEF Command, KillJob, JobRaise

LEMMA WaitingKind ==
  ASSUME RestInv, Waiting
  PROVE  Calm \/ \E p \in Pid : Reaps(p)
<1>1. ~ProcWait /\ ~ProcWaitInterrupted
  BY DEF RestInv, RestFrame, ProcWait, ProcWaitInterrupted
<1>2. ASSUME NEW p \in Pid, AnyReap(p) \/ ImplReap(p)
      PROVE  Reaps(p)
  <2>1. RestInv' /\ References' = References
    BY <1>2, AnyReapStep, ImplReapStep DEF AnyReap, ImplReap, References
  <2>2. frame'.pc # "proc"
    BY <2>1 DEF RestInv, RestFrame
  <2>3. Reaped(p) /\ \E op : Reportable(p, op)
    BY <1>2 DEF AnyReap, ImplReap
  <2>4. FindsDeleted(table, p) => table' = table
    BY <1>2 DEF AnyReap, ImplReap
  <2>5. ASSUME ~FindsDeleted(table, p)
        PROVE  Left(UpdateProcState(table, Report(p)), table', References')
    <3>1. PICK U : U = UpdateProcState(table, Report(p))
      OBVIOUS
    <3>2. table' = U \/ \E status, err : Return(U, status, err)
      BY <1>2, <2>5, <3>1 DEF AnyReap, ImplReap
    <3> QED
      BY <2>1, <3>1, <3>2, ReturnLeft DEF Left
  <2> QED
    BY <2>2, <2>3, <2>4, <2>5 DEF Reaps
<1>3. ASSUME RestInv', References' = References,
             UNCHANGED kernelVars \/ (\E ps : Killed(ps) \/ Continued(ps)),
             table' \in {table, RemoveTerminatedJobs(table),
                         Collected(RemoveTerminatedJobs(table), References)}
      PROVE  Calm
  BY <1>3 DEF Calm, Left, RestInv, RestFrame
<1>4. CASE AnyNothing
  BY <1>3, <1>4, AnyNothingStep DEF AnyNothing, References
<1>5. CASE CheckVMEvent
  BY <1>3, <1>5, CommandWaitStep DEF CheckVMEvent, References
<1>6. CASE AnyDone
  <2>1. References' = References
    BY <1>6 DEF AnyDone, References
  <2>2. /\ UNCHANGED kernelVars \/ (\E ps : Continued(ps))
        /\ table' \in {RemoveTerminatedJobs(table),
                       Collected(RemoveTerminatedJobs(table), References)}
    BY <1>6 DEF AnyDone, References
  <2> QED
    BY <1>3, <1>6, <2>1, <2>2, AnyDoneStep
<1>7. CASE Enter \/ ImplNothing \/ ImplInterrupted
  <2>1. References' = References /\ UNCHANGED kernelVars
    BY <1>7 DEF Enter, ImplNothing, ImplInterrupted, References
  <2>2. table' = table \/ \E status, err : Return(table, status, err)
    BY <1>7 DEF Enter, ImplNothing, ImplInterrupted
  <2> QED
    BY <1>3, <1>7, <2>1, <2>2, ReturnLeft, EnterStep, ImplEndStep
<1> QED
  BY <1>1, <1>2, <1>4, <1>5, <1>6, <1>7 DEF Waiting

LEMMA ForegroundKind ==
  ASSUME FgInv, Next
  PROVE  ProcWait \/ ProcWaitInterrupted \/ Environment
<1>1. frame # Idle /\ frame # Abort /\ frame.pc \notin {"any", "anyEnd", "enter", "impl"}
  BY DEF FgInv, Idle, Abort
<1>2. ~Start
  BY <1>1 DEF Start, ForkAndExec, ForegroundPipeline, AsyncJob, LastPipe, StartJob,
     PipelineForkFails, EnterChild
<1>3. ~Command
  BY <1>1 DEF Command, JobPoll, JobWait, WaitFrame, JobRaise, KillJob, SendJob, JobDetach,
     DestroyPipeline, DropReference, WaitAll, WaitIds, KillPid, SignalKill, HangUp, Fg, Bg
<1>4. Waiting => ProcWait \/ ProcWaitInterrupted
  BY <1>1 DEF Waiting, AnyReap, ImplReap, AnyNothing, AnyDone, CheckVMEvent, Enter,
     ImplNothing, ImplInterrupted
<1> QED
  BY <1>1, <1>2, <1>3, <1>4 DEF Next, Aborted

LEMMA StepKind ==
  ASSUME IInv, Next
  PROVE  \/ \E j \in Job, ps \in PidSeqs : Starts(j, ps)
         \/ \E ps \in PidSeqs : PipelineForkFails(ps)
         \/ EnterChild
         \/ \E j \in Job : JobDetach(j)
         \/ \E p \in Pid : Reaps(p)
         \/ Calm
         \/ \E p \in Pid : Moves(p)
         \/ FgInv /\ (ProcWait \/ ProcWaitInterrupted)
<1>1. CASE RestInv
  <2>1. CASE Environment
    BY <2>1 DEF Environment, Exit, Stop, Continue, KernelStep, Moves
  <2>2. CASE Aborted
    BY <1>1, <2>2 DEF Aborted, vars, shellVars, Calm, Left, RestInv, RestFrame
  <2> QED
    BY <1>1, <2>1, <2>2, StartKind, CommandKind, WaitingKind DEF Next
<1>2. CASE FgInv
  BY <1>2, ForegroundKind DEF Environment, Exit, Stop, Continue, KernelStep, Moves
<1> QED
  BY <1>1, <1>2, SplitLemma

-----------------------------------------------------------------------------
(* What those do to the jobs *)

\* Job j has the same processes in U as in T, and runs or has ended as in T.
SameJob(T, U, j) == U.job[j].state = T.job[j].state /\ U.job[j].procs = T.job[j].procs

(* The removal of the ended jobs and the end of JobObjects leave the jobs that run, and
   those something refers to. *)
LEMMA LeftLemma ==
  ASSUME NEW T, ConsistentTable(T), NEW U, NEW refs, Left(T, U, refs)
  PROVE  /\ ConsistentTable(U)
         /\ \A j \in Job : U.job[j] = Unused \/ SameJob(T, U, j)
         /\ \A j \in Job : j \in refs => SameJob(T, U, j)
         /\ \A j \in Job : AttachedIn(T, j) /\ Available(T, j) =>
              AttachedIn(U, j) /\ SameJob(T, U, j)
<1>1. PICK R : R = RemoveTerminatedJobs(T)
  OBVIOUS
<1>2. ConsistentTable(R) /\ SameJobs(T, R) /\ StillAttached(T, R)
  BY <1>1, RemoveTerminatedJobsLemma
<1>3. ASSUME NEW V, ConsistentTable(V), NEW C, C = Collected(V, refs)
      PROVE  /\ ConsistentTable(C)
             /\ \A j \in Job : C.job[j] \in {V.job[j], Unused}
             /\ \A j \in Job : AttachedIn(V, j) => AttachedIn(C, j) /\ C.job[j] = V.job[j]
             /\ \A j \in Job : j \in refs => C.job[j] = V.job[j]
  <2>1. \A j \in Job : j \in refs => C.job[j] = V.job[j]
    BY <1>3 DEF Collected, ConsistentTable, Table
  <2>2. C.jobs = V.jobs
    BY <1>3, CollectedLemma
  <2> QED
    BY <1>3, <2>1, <2>2, CollectedLemma DEF AttachedIn
<1>4. CASE U = T
  BY <1>4 DEF SameJob
<1>5. CASE U = R
  BY <1>2, <1>5 DEF SameJob, SameJobs, StillAttached
<1>6. CASE U = Collected(T, refs)
  BY <1>3, <1>6 DEF SameJob
<1>7. CASE U = Collected(R, refs)
  BY <1>2, <1>3, <1>7 DEF SameJob, SameJobs, StillAttached
<1> QED
  BY <1>1, <1>4, <1>5, <1>6, <1>7 DEF Left

(* The live processes of a job of the table have an entry of their own. *)
LEMMA EntryLemma ==
  ASSUME NEW T, ConsistentTable(T), NEW j \in Job, AttachedIn(T, j),
         NEW i \in DOMAIN T.job[j].procs, NEW p \in Pid, T.job[j].procs[i].pid = p
  PROVE  /\ T.entries[p] = [jobId |-> T.job[j].jobID, offset |-> i]
         /\ T.job[j].jobID \in JobId
         /\ T.jobs[T.job[j].jobID] = j
         /\ T.entries[p] # NoEntry /\ ~IsDeleted(T.entries[p])
         /\ FindProc(T, p) = p
<1>1. p # NoPid /\ 0 \notin JobId /\ NoJob \notin Job /\ -1 \notin JobId
  BY PidAssumption, JobAssumption DEF JobId
<1>2. T.entries[p] = [jobId |-> T.job[j].jobID, offset |-> i]
  BY <1>1 DEF ConsistentTable, ProcsRegisteredIn
<1>3. PICK id \in JobId : T.jobs[id] = j
  BY DEF AttachedIn
<1>4. T.job[j].jobID = id
  BY <1>1, <1>3 DEF ConsistentTable, IdsMatchIn
<1>5. T.entries[p] # NoEntry /\ ~IsDeleted(T.entries[p])
  BY <1>1, <1>2, <1>4 DEF NoEntry, IsDeleted
<1>6. T \in Table
  BY DEF ConsistentTable
<1> QED
  BY <1>2, <1>3, <1>4, <1>5, <1>6, FindProcLemma

(* A job with a live process runs, when it is one of the table. *)
LEMMA LiveRuns ==
  ASSUME NEW T, ConsistentTable(T), NEW j \in Job, AttachedIn(T, j), ProcPids(T, j) # {}
  PROVE  T.job[j].state = "RUNNING"
<1>1. PICK i \in DOMAIN T.job[j].procs : T.job[j].procs[i].pid # NoPid
  BY DEF ProcPids
<1>2. T.job[j].state # "TERMINATED"
  BY <1>1 DEF ConsistentTable, SoundJob, AllTerminated
<1>3. T.job[j].state # "UNCONTROLLED"
  BY JobAssumption DEF ConsistentTable, AttachedSoundIn, AttachedIn
<1>4. T.job[j] \in JobObject
  BY DEF ConsistentTable, Table
<1> QED
  BY <1>2, <1>3, <1>4 DEF JobObject

(* updateProcState changes the process the report is for, when it is one of the table,
   and nothing else, whatever entry findProc has found. *)
LEMMA UpdateExact ==
  ASSUME NEW T, ConsistentTable(T), NEW ret \in WaitReport, ~FindsDeleted(T, ret.pid),
         NEW U, U = UpdateProcState(T, ret), NEW j \in Job
  PROVE  /\ DOMAIN U.job[j].procs = DOMAIN T.job[j].procs
         /\ U.job[j].state \in {T.job[j].state, "TERMINATED"}
         /\ U.job[j] # T.job[j] => AttachedIn(T, j) /\ T.job[j].state = "RUNNING"
         /\ \A i \in DOMAIN T.job[j].procs :
              U.job[j].procs[i] =
                IF AttachedIn(T, j) /\ T.job[j].procs[i].pid = ret.pid
                THEN UpdateProc(T.job[j].procs[i], ret)
                ELSE T.job[j].procs[i]
<1>1. PICK q : q = FindProc(T, ret.pid)
  OBVIOUS
<1>2. ret.pid \in Pid
  BY DEF WaitReport
<1>3. \A i \in DOMAIN T.job[j].procs : AttachedIn(T, j) /\ T.job[j].procs[i].pid = ret.pid =>
        q = ret.pid /\ T.entries[q].offset = i /\ T.jobs[T.entries[q].jobId] = j
  <2> SUFFICES ASSUME NEW i \in DOMAIN T.job[j].procs, AttachedIn(T, j),
                      T.job[j].procs[i].pid = ret.pid
               PROVE  q = ret.pid /\ T.entries[q].offset = i /\ T.jobs[T.entries[q].jobId] = j
    OBVIOUS
  <2>1. /\ T.entries[ret.pid] = [jobId |-> T.job[j].jobID, offset |-> i]
        /\ T.jobs[T.job[j].jobID] = j
        /\ q = ret.pid
    BY <1>1, <1>2, EntryLemma
  <2> QED
    BY <2>1
<1>4. CASE q = NoPid
  <2>1. U = T
    BY <1>1, <1>4 DEF UpdateProcState
  <2>2. q # ret.pid
    BY <1>2, <1>4, PidAssumption
  <2> QED
    BY <1>3, <2>1, <2>2
<1>5. CASE q # NoPid
  <2>1. PICK e : e = T.entries[q]
    OBVIOUS
  <2>2. PICK m : m = T.jobs[e.jobId]
    OBVIOUS
  <2>3. PICK pr : pr = T.job[m].procs[e.offset]
    OBVIOUS
  <2>4. PICK new : new = UpdateProc(pr, ret)
    OBVIOUS
  <2>5. q \in Pid /\ e # NoEntry /\ ~IsDeleted(e) /\ T \in Table /\ e \in Entry
    <3>1. T \in Table
      BY DEF ConsistentTable
    <3>2. q \in Pid /\ T.entries[q] # NoEntry
      BY <1>1, <1>2, <1>5, <3>1, FindProcLemma
    <3> QED
      BY <1>1, <1>5, <2>1, <3>1, <3>2 DEF FindsDeleted, Table
  <2>6. m # NoJob /\ e.offset \in DOMAIN T.job[m].procs /\ pr.pid = q
    BY <2>1, <2>2, <2>3, <2>5 DEF ConsistentTable, EntriesMatchIn
  <2>7. e.jobId \in JobId /\ m \in Job
    BY <2>2, <2>5, <2>6, JobAssumption DEF Entry, IsDeleted, JobId, Table
  <2>8. /\ T.job[m] \in JobObject /\ SoundJob(T.job[m]) /\ AttachedIn(T, m)
        /\ q # NoPid /\ T.job[m].state = "RUNNING"
    <3>1. AttachedIn(T, m) /\ q # NoPid
      BY <2>2, <2>5, <2>7, PidAssumption DEF AttachedIn
    <3>2. ProcPids(T, m) # {}
      BY <2>3, <2>6, <3>1 DEF ProcPids
    <3> QED
      BY <2>5, <2>7, <3>1, <3>2, LiveRuns DEF ConsistentTable, Table
  <2>9. pr \in Proc /\ (pr.state = "TERMINATED" <=> pr.pid = NoPid)
    <3>1. T.job[m].procs \in Seq(Proc)
      BY <2>8 DEF JobObject
    <3> QED
      BY <2>3, <2>6, <2>8, <3>1, ElementOfSeq, LenProperties DEF SoundJob
  <2>10. /\ new \in Proc
         /\ new.state = "TERMINATED" <=> new.pid = NoPid
         /\ new.pid = NoPid \/ new.pid = pr.pid
         /\ pr.pid # ret.pid => new = pr
    BY <2>4, <2>9, UpdateProcLemma
  <2>11. Written(T.job[m], e.offset, new, WithProc(T.job[m], e.offset, new))
    BY <2>3, <2>6, <2>8, <2>9, <2>10, WithProcLemma
  <2>12. U = WriteProc(T, q, new)
    BY <1>1, <1>5, <2>1, <2>2, <2>3, <2>4 DEF UpdateProcState, ProcOf
  <2>13. U.job = [T.job EXCEPT ![m] = WithProc(T.job[m], e.offset, new)]
    BY <2>1, <2>2, <2>12 DEF WriteProc
  <2>14. CASE j # m
    <3>1. U.job[j] = T.job[j]
      BY <2>13, <2>14
    <3>2. \A i \in DOMAIN T.job[j].procs : ~(AttachedIn(T, j) /\ T.job[j].procs[i].pid = ret.pid)
      BY <1>3, <2>1, <2>2, <2>14
    <3> QED
      BY <3>1, <3>2
  <2>15. CASE j = m
    <3>1. U.job[j] = WithProc(T.job[m], e.offset, new)
      BY <2>5, <2>13, <2>15 DEF Table
    <3>2. \A i \in DOMAIN T.job[j].procs : T.job[j].procs[i].pid = ret.pid => i = e.offset
      BY <1>3, <2>1, <2>8, <2>15
    <3> QED
      BY <2>3, <2>4, <2>6, <2>8, <2>10, <2>11, <2>15, <3>1, <3>2, ZenonT(40) DEF Written
  <2> QED
    BY <2>14, <2>15
<1> QED
  BY <1>4, <1>5

-----------------------------------------------------------------------------
(* Every child that runs or is stopped belongs to a job *)

(* Only fork makes a child run. *)
LEMMA LiveLemma ==
  ASSUME KernelTypeOK,
         \/ UNCHANGED kernelVars
         \/ \E ps : Killed(ps) \/ Continued(ps)
         \/ \E p \in Pid : ChildExit(p) \/ ChildStop(p) \/ ChildContinue(p)
         \/ \E p \in Pid : Reaped(p)
  PROVE  Live' \subseteq Live
<1>1. CASE UNCHANGED kernelVars
  BY <1>1 DEF kernelVars, Live
<1>2. ASSUME NEW ps, Killed(ps) \/ Continued(ps)
      PROVE  Live' \subseteq Live
  BY <1>2 DEF Killed, Continued, Live
<1>3. ASSUME NEW p \in Pid, ChildExit(p) \/ ChildStop(p)
      PROVE  Live' \subseteq Live
  BY <1>3 DEF ChildExit, ChildStop, Live, KernelTypeOK
<1>4. ASSUME NEW p \in Pid, Reaped(p)
      PROVE  Live' \subseteq Live
  BY <1>4 DEF Reaped, Live, KernelTypeOK
<1> QED
  BY <1>1, <1>2, <1>3, <1>4 DEF ChildContinue

LEMMA KnownLeft ==
  ASSUME NEW T, ConsistentTable(T), NEW U, NEW refs, Left(T, U, refs),
         NEW ps, Known(T, {}, ps)
  PROVE  Known(U, {}, ps)
<1> SUFFICES ASSUME NEW p \in ps
             PROVE  \E j \in Job : AttachedIn(U, j) /\ p \in ProcPids(U, j)
  BY DEF Known
<1>1. PICK j \in Job : AttachedIn(T, j) /\ p \in ProcPids(T, j)
  BY DEF Known
<1>2. T.job[j].state = "RUNNING"
  BY <1>1, LiveRuns
<1>3. AttachedIn(U, j) /\ SameJob(T, U, j)
  BY <1>1, <1>2, LeftLemma DEF Available
<1> QED
  BY <1>1, <1>3 DEF SameJob, ProcPids

LEMMA KnownUpdate ==
  ASSUME NEW T, ConsistentTable(T), NEW ret \in WaitReport, ~FindsDeleted(T, ret.pid),
         NEW ps, Known(T, {}, ps), ret.kind = "exited" => ret.pid \notin ps
  PROVE  Known(UpdateProcState(T, ret), {}, ps)
<1>1. PICK U : U = UpdateProcState(T, ret)
  OBVIOUS
<1>2. U.jobs = T.jobs
  BY <1>1, UpdateProcStateLemma
<1> SUFFICES ASSUME NEW p \in ps
             PROVE  \E j \in Job : AttachedIn(U, j) /\ p \in ProcPids(U, j)
  BY <1>1 DEF Known
<1>3. PICK j \in Job : AttachedIn(T, j) /\ p \in ProcPids(T, j)
  BY DEF Known
<1>4. PICK i \in DOMAIN T.job[j].procs : T.job[j].procs[i].pid = p /\ p # NoPid
  BY <1>3 DEF ProcPids
<1>5. /\ i \in DOMAIN U.job[j].procs
      /\ U.job[j].procs[i] = IF p = ret.pid THEN UpdateProc(T.job[j].procs[i], ret)
                             ELSE T.job[j].procs[i]
  BY <1>1, <1>3, <1>4, UpdateExact
<1>6. U.job[j].procs[i].pid = p
  <2>1. CASE p = ret.pid
    <3>1. ret.kind # "exited"
      BY <2>1
    <3> QED
      BY <1>4, <1>5, <2>1, <3>1 DEF UpdateProc
  <2>2. CASE p # ret.pid
    BY <1>4, <1>5, <2>2
  <2> QED
    BY <2>1, <2>2
<1>7. AttachedIn(U, j)
  BY <1>2, <1>3 DEF AttachedIn
<1>8. p \in ProcPids(U, j)
  BY <1>4, <1>5, <1>6 DEF ProcPids
<1> QED
  BY <1>7, <1>8

LEMMA ReapsKnown ==
  ASSUME NEW p \in Pid, Reaps(p), Known(table, {}, Live)
  PROVE  Known(table', {}, Live')
<1>1. KernelTypeOK /\ ConsistentTable(table)
  BY DEF Reaps, RestInv, OwnRunning
<1>2. /\ Report(p) \in WaitReport
      /\ Report(p).pid = p
      /\ Report(p).kind = "exited" <=> proc[p] = "zombie"
  BY <1>1, ReportLemma DEF Reaps
<1>3. Live' \subseteq Live /\ (Report(p).kind = "exited" => p \notin Live')
  <2>1. proc[p] = "zombie" => p \notin Live
    BY DEF Live
  <2> QED
    BY <1>1, <1>2, <2>1, LiveLemma DEF Reaps
<1>4. Known(table, {}, Live')
  BY <1>3 DEF Known
<1>5. CASE FindsDeleted(table, p)
  BY <1>4, <1>5 DEF Reaps
<1>6. CASE ~FindsDeleted(table, p)
  <2>1. PICK U : U = UpdateProcState(table, Report(p))
    OBVIOUS
  <2>2. ConsistentTable(U)
    BY <1>1, <1>2, <1>6, <2>1, UpdateProcStateLemma
  <2>3. Known(U, {}, Live')
    BY <1>1, <1>2, <1>3, <1>4, <1>6, <2>1, KnownUpdate
  <2>4. Left(U, table', References')
    BY <1>6, <2>1 DEF Reaps
  <2> QED
    BY <2>2, <2>3, <2>4, KnownLeft
<1> QED
  BY <1>5, <1>6

(* A table in which job j has been attached, and the jobs of T are as they were. *)
LEMMA KnownAttach ==
  ASSUME NEW T, NEW j, NEW alive, FgOK(T, j, alive), NEW disowned \in BOOLEAN,
         NEW ps, Known(T, {j}, ps)
  PROVE  /\ Available(T, j) => Known(Attach(T, j, disowned), {}, ps)
         /\ ~Available(T, j) => Known(T, {}, ps)
<1>1. ASSUME Available(T, j)
      PROVE  Known(Attach(T, j, disowned), {}, ps)
  <2>1. PICK U : U = Attach(T, j, disowned)
    OBVIOUS
  <2>2. Attachable(T, j)
    BY <1>1 DEF FgOK, Attachable, Available
  <2>3. /\ SameJobs(T, U) /\ AttachedIn(U, j)
        /\ \A k \in Job : AttachedIn(T, k) => AttachedIn(U, k)
    BY <2>1, <2>2, AttachLemma
  <2> QED
    BY <2>1, <2>3 DEF Known, SameJobs, ProcPids
<1>2. ASSUME ~Available(T, j)
      PROVE  Known(T, {}, ps)
  <2>1. T.job[j].state = "TERMINATED" /\ SoundJob(T.job[j])
    BY <1>2 DEF FgOK, ConsistentTable, Available
  <2>2. ProcPids(T, j) = {}
    BY <2>1 DEF ProcPids, SoundJob, AllTerminated
  <2> QED
    BY <2>2 DEF Known
<1> QED
  BY <1>1, <1>2

LEMMA StartsKnown ==
  ASSUME NEW j \in Job, NEW ps \in PidSeqs, Starts(j, ps), Known(table, {}, Live)
  PROVE  Known(table', Foreground', Live')
<1>1. /\ FgOK(Created(j, ps), j, Children')
      /\ Created(j, ps).job[j] = NewJob(ps)
  BY CreatedLemma DEF Starts
<1>2. PICK T : T = Created(j, ps)
  OBVIOUS
<1>3. /\ T.jobs = table.jobs
      /\ \A k \in Job : k # j => T.job[k] = table.job[k]
  BY <1>2 DEF Created, Starts, RestInv, OwnRunning, ConsistentTable, Table
<1>4. Live' \subseteq Live \cup Range(ps)
  BY DEF Starts, StartJob, Forked, Live
<1>5. Range(ps) \subseteq ProcPids(T, j)
  <2>1. PICK jn : jn = NewJob(ps)
    OBVIOUS
  <2>2. /\ DOMAIN jn.procs = DOMAIN ps
        /\ \A i \in DOMAIN ps : jn.procs[i].pid = ps[i]
    BY <2>1, NewJobLemma
  <2>3. \A p \in Range(ps) : p # NoPid /\ \E i \in DOMAIN ps : ps[i] = p
    BY PidSeqsLemma, PidAssumption DEF Range
  <2> QED
    BY <1>1, <1>2, <2>1, <2>2, <2>3 DEF ProcPids
<1>6. Known(T, {j}, Live')
  <2> SUFFICES ASSUME NEW p \in Live'
               PROVE  \E k \in Job : (AttachedIn(T, k) \/ k \in {j}) /\ p \in ProcPids(T, k)
    BY DEF Known
  <2>1. CASE p \in Range(ps)
    BY <1>5, <2>1
  <2>2. CASE p \in Live
    <3>1. PICK k \in Job : AttachedIn(table, k) /\ p \in ProcPids(table, k)
      BY <2>2 DEF Known
    <3>2. k # j
      BY <3>1 DEF Starts, StartJob, FreeJob, Unused, ProcPids
    <3> QED
      BY <1>3, <3>1, <3>2 DEF AttachedIn, ProcPids
  <2> QED
    BY <1>4, <2>1, <2>2
<1>7. CASE table' = Created(j, ps) /\ frame'.pc = "proc" /\ frame'.job = j
  BY <1>2, <1>6, <1>7 DEF Foreground
<1>8. CASE \E disowned \in BOOLEAN : table' = Attach(Created(j, ps), j, disowned)
  <2>1. Available(T, j)
    BY <1>1, <1>2, NewJobLemma DEF Available
  <2>2. Known(table', {}, Live')
    BY <1>1, <1>2, <1>6, <1>8, <2>1, KnownAttach
  <2> QED
    BY <2>2 DEF Known
<1> QED
  BY <1>7, <1>8 DEF Starts

LEMMA ForegroundKnown ==
  ASSUME FgInv, ProcWait \/ ProcWaitInterrupted, Known(table, Foreground, Live)
  PROVE  Known(table', Foreground', Live')
<1>1. PICK j, k, jo : j = frame.job /\ k = frame.idx /\ jo = table.job[j]
  OBVIOUS
<1>2. Known(table, {j}, Live) /\ KernelTypeOK
  BY <1>1 DEF FgInv, Foreground
<1>3. ASSUME NEW T, NEW alive, FgOK(T, j, alive), NEW ret, NEW err, FinishForeground(T, ret, err),
             Known(T, {j}, Live')
      PROVE  Known(table', Foreground', Live')
  <2>1. CASE Available(T, j)
    <3>1. Known(Attach(T, j, FALSE), {}, Live')
      BY <1>3, <2>1, KnownAttach
    <3> QED
      BY <1>1, <1>3, <2>1, <3>1 DEF FinishForeground, Known
  <2>2. CASE ~Available(T, j)
    <3>1. Known(T, {}, Live') /\ ConsistentTable(T)
      BY <1>3, <2>2, KnownAttach DEF FgOK
    <3>2. table' = T \/ table' = Collected(T, References)
      BY <1>1, <1>3, <2>2 DEF FinishForeground, References
    <3>3. Known(table', {}, Live')
      BY <3>1, <3>2, KnownLeft DEF Left
    <3> QED
      BY <3>3 DEF Known
  <2> QED
    BY <2>1, <2>2
<1>4. CASE ProcWaitInterrupted
  <2>1. Live' \subseteq Live /\ FinishForeground(table, -1, "EINTR")
    BY <1>2, <1>4, LiveLemma DEF ProcWaitInterrupted
  <2>2. Known(table, {j}, Live')
    BY <1>2, <2>1 DEF Known
  <2> QED
    BY <1>1, <1>3, <2>1, <2>2 DEF FgInv
<1>5. CASE ProcWait
  <2>1. PICK p, new, jn, U :
          /\ FgWrite(j, k, p, new, jn, U)
          /\ KernelTypeOK' /\ FgOK(U, j, Children')
          /\ \/ k = Len(jo.procs) /\ FinishForeground(U, new.exitStatus, "none")
             \/ table' = U /\ frame' = [frame EXCEPT !.idx = @ + 1]
    BY <1>1, <1>5, ProcWaitShape
  <2>2. p \in Pid /\ Reaped(p) /\ (\E op : Reportable(p, op)) /\ p = jo.procs[k].pid
    BY <1>1, <2>1 DEF FgWrite
  <2>3. Live' \subseteq Live
    BY <1>2, <2>2, LiveLemma
  <2>4. j \in Job /\ table \in Table
    BY <1>1 DEF FgInv, FgOK, ConsistentTable
  <2>5. U.jobs = table.jobs /\ U.job[j] = jn /\ \A i \in Job : i # j => U.job[i] = table.job[i]
    BY <2>1, <2>4 DEF FgWrite, WithJob, Table
  <2>6. /\ DOMAIN jn.procs = DOMAIN jo.procs
        /\ \A i \in DOMAIN jo.procs : jn.procs[i] = IF i = k THEN new ELSE jo.procs[i]
    BY <1>1, <2>1 DEF FgWrite, Written
  <2>7. p \in Live' => new.pid = p
    <3>1. p \in Live' => proc[p] # "zombie"
      BY <2>3 DEF Live
    <3>2. proc[p] # "zombie" => Report(p).kind # "exited"
      BY <1>2, <2>2, ReportLemma
    <3>3. new = UpdateProc(jo.procs[k], Report(p))
      BY <1>1, <2>1 DEF FgWrite
    <3> QED
      BY <2>2, <3>1, <3>2, <3>3 DEF UpdateProc
  <2>8. Known(U, {j}, Live')
    <3> SUFFICES ASSUME NEW r \in Live'
                 PROVE  \E i \in Job : (AttachedIn(U, i) \/ i \in {j}) /\ r \in ProcPids(U, i)
      BY DEF Known
    <3>1. PICK i \in Job : (AttachedIn(table, i) \/ i = j) /\ r \in ProcPids(table, i)
      BY <1>2, <2>3 DEF Known
    <3>2. CASE i # j
      BY <2>5, <3>1, <3>2 DEF AttachedIn, ProcPids
    <3>3. CASE i = j
      <4>1. PICK n \in DOMAIN jo.procs : jo.procs[n].pid = r /\ r # NoPid
        BY <1>1, <3>1, <3>3 DEF ProcPids
      <4>2. n \in DOMAIN jn.procs /\ jn.procs[n].pid = r
        BY <2>2, <2>6, <2>7, <4>1
      <4>3. r \in ProcPids(U, j)
        BY <2>5, <4>1, <4>2 DEF ProcPids
      <4> QED
        BY <2>4, <4>3
    <3> QED
      BY <3>2, <3>3
  <2>9. CASE table' = U /\ frame' = [frame EXCEPT !.idx = @ + 1]
    <3>1. frame'.pc = "proc" /\ frame'.job = j
      BY <1>1, <2>9 DEF FgInv, FrameShape, Idle
    <3> QED
      BY <2>8, <2>9, <3>1 DEF Foreground
  <2> QED
    BY <1>3, <2>1, <2>8, <2>9
<1> QED
  BY <1>4, <1>5

LEMMA KnownStep ==
  ASSUME IInv, Next, Known(table, Foreground, Live)
  PROVE  Known(table', Foreground', Live')
<1>1. RestInv => Foreground = {}
  BY DEF RestInv, RestFrame, Foreground
<1>2. frame'.pc # "proc" => Foreground' = {}
  BY DEF Foreground
<1>3. ASSUME NEW j \in Job, NEW ps \in PidSeqs, Starts(j, ps)
      PROVE  Known(table', Foreground', Live')
  BY <1>1, <1>3, StartsKnown DEF Starts
<1>4. ASSUME NEW ps \in PidSeqs, PipelineForkFails(ps)
      PROVE  Known(table', Foreground', Live')
  <2>1. Live' \subseteq Live /\ Foreground' = Foreground /\ table' = table
    BY <1>4 DEF PipelineForkFails, shellVars, Live, Foreground
  <2> QED
    BY <2>1 DEF Known
<1>5. CASE EnterChild
  <2>1. Live' = {}
    BY <1>5 DEF EnterChild, Live
  <2> QED
    BY <2>1 DEF Known
<1>6. ASSUME NEW j \in Job, JobDetach(j)
      PROVE  Known(table', Foreground', Live')
  <2>1. Live' = Live /\ Foreground' = Foreground
    BY <1>6 DEF JobDetach, kernelVars, Live, Foreground
  <2>2. table \in Table
    BY DEF IInv, ConsistentTable
  <2>3. table'.jobs = table.jobs /\ \A k \in Job : table'.job[k].procs = table.job[k].procs
    BY <1>6, <2>2 DEF JobDetach, Table, JobObject
  <2> QED
    BY <2>1, <2>3 DEF Known, AttachedIn, ProcPids
<1>7. ASSUME NEW p \in Pid, Reaps(p)
      PROVE  Known(table', Foreground', Live')
  BY <1>1, <1>2, <1>7, ReapsKnown DEF Reaps
<1>8. CASE Calm
  <2>1. Live' \subseteq Live /\ ConsistentTable(table)
    BY <1>8, LiveLemma DEF Calm, RestInv, OwnRunning
  <2>2. Known(table, {}, Live')
    BY <1>1, <1>8, <2>1 DEF Known, Calm
  <2>3. Known(table', {}, Live')
    BY <1>8, <2>1, <2>2, KnownLeft DEF Calm
  <2> QED
    BY <1>2, <1>8, <2>3 DEF Calm
<1>9. ASSUME NEW p \in Pid, Moves(p)
      PROVE  Known(table', Foreground', Live')
  <2>1. Live' \subseteq Live /\ table' = table /\ Foreground' = Foreground
    BY <1>9, LiveLemma DEF Moves, Foreground, IInv
  <2> QED
    BY <2>1 DEF Known
<1> QED
  BY <1>3, <1>4, <1>5, <1>6, <1>7, <1>8, <1>9, StepKind, ForegroundKnown

-----------------------------------------------------------------------------
(* Every report is announced *)

\* waitpid has something to return.
Pending == \E p \in Pid : Reportable(p, "NONBLOCKING")

(* Only a step of a child, and SIGCONT, make something to report. *)
LEMMA PendingLemma ==
  ASSUME KernelTypeOK,
         \/ UNCHANGED kernelVars
         \/ \E ps : Killed(ps)
         \/ \E ps, group : Forked(ps, group)
         \/ \E ps : PipelineForkFails(ps)
         \/ \E p \in Pid : Reaped(p)
         \/ EnterChild
  PROVE  Pending' => Pending
<1>1. CASE UNCHANGED kernelVars
  BY <1>1 DEF kernelVars, Pending, Reportable
<1>2. ASSUME NEW ps, Killed(ps)
      PROVE  Pending' => Pending
  BY <1>2 DEF Killed, Pending, Reportable
<1>3. ASSUME NEW ps, (\E group : Forked(ps, group)) \/ PipelineForkFails(ps)
      PROVE  Pending' => Pending
  BY <1>3 DEF Forked, PipelineForkFails, Pending, Reportable
<1>4. ASSUME NEW p \in Pid, Reaped(p)
      PROVE  Pending' => Pending
  BY <1>4 DEF Reaped, Pending, Reportable, KernelTypeOK
<1>5. CASE EnterChild
  BY <1>5 DEF EnterChild, Pending, Reportable
<1> QED
  BY <1>1, <1>2, <1>3, <1>4, <1>5

(* Nothing has to be announced while the signals are blocked; and what was announced is, as
   long as nothing takes the SIGCHLD away. *)
LEMMA StillAnnounced ==
  ASSUME Announced,
         \/ frame'.pc \in {"any", "abort"}
         \/ frame'.fn \in {"waitAll", "waitOne"} /\ frame'.pc # "anyEnd"
         \/ /\ Pending' => Pending
            /\ ~SignalsBlocked /\ frame.pc # "abort" /\ frame'.pc # "anyEnd"
            /\ pendingCHLD' = pendingCHLD
         \/ /\ Pending' => Pending
            /\ UNCHANGED <<frame, pendingCHLD, kernelCHLD>>
  PROVE  Announced'
<1>1. CASE frame'.pc \in {"any", "abort"}
  BY <1>1 DEF Announced, SignalsBlocked
<1>2. CASE frame'.fn \in {"waitAll", "waitOne"} /\ frame'.pc # "anyEnd"
  BY <1>2 DEF Announced, SignalsBlocked
<1>3. CASE /\ Pending' => Pending
           /\ ~SignalsBlocked /\ frame.pc # "abort" /\ frame'.pc # "anyEnd"
           /\ pendingCHLD' = pendingCHLD
  BY <1>3 DEF Announced, Pending
<1>4. CASE /\ Pending' => Pending
           /\ UNCHANGED <<frame, pendingCHLD, kernelCHLD>>
  BY <1>4 DEF Announced, Pending, SignalsBlocked
<1> QED
  BY <1>1, <1>2, <1>3, <1>4

LEMMA ReturnAnnounced ==
  ASSUME Announced, Pending' => Pending, FrameShape, frame.pc \in {"enter", "impl"},
         NEW T, NEW status, NEW err, Return(T, status, err)
  PROVE  Announced'
<1>1. ASSUME NEW fn, NEW job, NEW ret, NEW er, EnterAny(fn, job, ret, er)
      PROVE  frame'.pc = "any"
  BY <1>1 DEF EnterAny, AnyFrame, Idle
<1>2. CASE frame.fn \in {"poll", "fg"}
  <2>1. frame'.pc = "idle" /\ pendingCHLD' = pendingCHLD /\ ~SignalsBlocked
    BY <1>2 DEF Return, Idle, SignalsBlocked
  <2> QED
    BY <2>1, StillAnnounced
<1>3. CASE frame.fn \in {"jobWait", "pipe"}
  BY <1>1, <1>3, StillAnnounced DEF Return
<1>4. CASE frame.fn = "wait"
  <2>1. frame'.pc = "any" \/ (frame'.pc = "enter" /\ pendingCHLD' = pendingCHLD)
    BY <1>1, <1>4 DEF Return, EnterFrame, Idle
  <2> QED
    BY <1>4, <2>1, StillAnnounced DEF SignalsBlocked
<1>5. CASE frame.fn = "waitAnyOf"
  <2>1. frame'.pc = "any" \/ (frame'.pc = "enter" /\ pendingCHLD' = pendingCHLD)
    BY <1>1, <1>5 DEF Return, FrameShape, Idle
  <2> QED
    BY <1>5, <2>1, StillAnnounced DEF SignalsBlocked
<1>6. CASE frame.fn \in {"waitAll", "waitOne"}
  <2>1. \/ frame'.pc = "any"
        \/ frame'.pc = "enter" /\ frame'.fn = "waitAll"
    BY <1>1, <1>6 DEF Return, EnterFrame, Idle
  <2> QED
    BY <2>1, StillAnnounced
<1> QED
  BY <1>2, <1>3, <1>4, <1>5, <1>6 DEF Return

LEMMA StartAnnounced ==
  ASSUME IInv, Start, Announced
  PROVE  Announced'
<1>1. frame = Idle
  BY DEF Start, ForkAndExec, ForegroundPipeline, AsyncJob, LastPipe, StartJob, PipelineForkFails,
       EnterChild
<1>2. ~SignalsBlocked /\ frame.pc # "abort"
  BY <1>1 DEF SignalsBlocked, Idle
<1>3. CASE EnterChild
  BY <1>3 DEF EnterChild, Announced, Reportable
<1>4. ASSUME NEW j \in Job, NEW ps \in PidSeqs,
             (\E fn : ForkAndExec(j, ps, fn)) \/ ForegroundPipeline(j, ps)
      PROVE  Announced'
  <2>1. frame'.pc = "proc" /\ pendingCHLD' = pendingCHLD /\ StartJob(j, ps)
    BY <1>4 DEF ForkAndExec, ForegroundPipeline, Idle
  <2>2. Pending' => Pending
    BY <2>1, PendingLemma DEF StartJob, IInv
  <2> QED
    BY <1>2, <2>1, <2>2, StillAnnounced
<1>5. ASSUME NEW j \in Job, NEW ps \in PidSeqs,
             (\E disown, ref : AsyncJob(j, ps, disown, ref)) \/ LastPipe(j, ps)
      PROVE  Announced'
  <2>1. UNCHANGED <<frame, pendingCHLD, kernelCHLD>> /\ StartJob(j, ps)
    BY <1>5 DEF AsyncJob, LastPipe
  <2>2. Pending' => Pending
    BY <2>1, PendingLemma DEF StartJob, IInv
  <2> QED
    BY <2>1, <2>2, StillAnnounced
<1>6. ASSUME NEW ps, PipelineForkFails(ps)
      PROVE  Announced'
  <2>1. UNCHANGED <<frame, pendingCHLD, kernelCHLD>>
    BY <1>6 DEF PipelineForkFails, shellVars
  <2>2. Pending' => Pending
    BY <1>6, PendingLemma DEF IInv
  <2> QED
    BY <2>1, <2>2, StillAnnounced
<1> QED
  BY <1>3, <1>4, <1>5, <1>6 DEF Start

LEMMA CommandAnnounced ==
  ASSUME IInv, Command, Announced
  PROVE  Announced'
<1>1. frame = Idle
  BY DEF Command, JobPoll, JobWait, WaitFrame, JobRaise, KillJob, SendJob, JobDetach,
       DestroyPipeline, DropReference, WaitAll, WaitIds, KillPid, SignalKill, HangUp, Fg, Bg
<1>2. ~SignalsBlocked /\ frame.pc # "abort"
  BY <1>1 DEF SignalsBlocked, Idle
<1>3. \A fn, job, ret, err : EnterAny(fn, job, ret, err) => frame'.pc = "any"
  BY DEF EnterAny, AnyFrame, Idle
<1>4. ASSUME \/ \E j : SendJob(j)
             \/ \E p : KillPid(p) \/ SignalKill(p)
             \/ \E arg : Fg(arg)
             \/ \E arg, ids : Bg(arg, ids)
      PROVE  Announced'
  <2>1. frame'.pc = "any"
    BY <1>3, <1>4 DEF SendJob, KillPid, SignalKill, Fg, Bg, AnyFrame, Idle
  <2> QED
    BY <2>1, StillAnnounced
<1>5. ASSUME NEW j \in Job,
             \/ JobPoll(j) \/ DestroyPipeline(j)
             \/ \E errno : JobWait(j, errno)
      PROVE  Announced'
  <2>1. frame'.pc = "enter" /\ UNCHANGED <<pendingCHLD, kernelVars>>
    BY <1>5 DEF JobPoll, DestroyPipeline, JobWait, WaitFrame, EnterFrame, Idle
  <2>2. Pending' => Pending
    BY <2>1, PendingLemma DEF IInv
  <2> QED
    BY <1>2, <2>1, <2>2, StillAnnounced
<1>6. ASSUME NEW fn, WaitAll(fn)
      PROVE  Announced'
  <2>1. \/ frame'.pc = "any"
        \/ frame'.pc = "enter" /\ frame'.fn \in {"waitAll", "waitOne"}
    BY <1>3, <1>6 DEF WaitAll, EnterFrame, Idle
  <2> QED
    BY <2>1, StillAnnounced
<1>7. ASSUME NEW args, NEW fn, WaitIds(args, fn)
      PROVE  Announced'
  <2>1. \/ frame'.pc \in {"any", "abort"}
        \/ frame'.pc = "enter" /\ pendingCHLD' = pendingCHLD
    BY <1>3, <1>7 DEF WaitIds, EnterFrame, Abort, Idle
  <2>2. Pending' => Pending
    BY <1>7, PendingLemma DEF WaitIds, IInv
  <2> QED
    BY <1>2, <2>1, <2>2, StillAnnounced
<1>8. ASSUME HangUp \/ \E j \in Job : JobDetach(j) \/ DropReference(j)
      PROVE  Announced'
  <2>1. /\ UNCHANGED <<frame, pendingCHLD, kernelCHLD>>
        /\ UNCHANGED kernelVars \/ \E ps : Killed(ps)
    BY <1>8 DEF HangUp, shellVars, JobDetach, DropReference
  <2>2. Pending' => Pending
    BY <2>1, PendingLemma DEF IInv
  <2> QED
    BY <2>1, <2>2, StillAnnounced
<1> QED
  BY <1>4, <1>5, <1>6, <1>7, <1>8 DEF Command, KillJob, JobRaise

LEMMA WaitingAnnounced ==
  ASSUME IInv, Waiting, Announced
  PROVE  Announced'
<1>1. KernelTypeOK /\ FrameShape
  BY DEF IInv
<1>2. \A fn, job, ret, err : EnterAny(fn, job, ret, err) => frame'.pc = "any"
  BY DEF EnterAny, AnyFrame, Idle
<1>3. ASSUME NEW T, NEW ret, NEW err, FinishForeground(T, ret, err), frame.pc = "proc",
             Pending' => Pending
      PROVE  Announced'
  <2>1. CASE frame.fn = "subst"
    <3>1. frame'.pc = "idle" /\ pendingCHLD' = pendingCHLD /\ ~SignalsBlocked
      BY <1>3, <2>1 DEF FinishForeground, Idle, SignalsBlocked
    <3> QED
      BY <1>3, <3>1, StillAnnounced
  <2>2. CASE frame.fn # "subst"
    BY <1>2, <1>3, <2>2, StillAnnounced DEF FinishForeground
  <2> QED
    BY <2>1, <2>2
<1>4. CASE ProcWaitInterrupted
  <2>1. Pending' => Pending
    BY <1>1, <1>4, PendingLemma DEF ProcWaitInterrupted
  <2> QED
    BY <1>3, <1>4, <2>1 DEF ProcWaitInterrupted
<1>5. CASE ProcWait
  <2>1. FgInv
    BY <1>5, SplitLemma DEF ProcWait, RestInv, RestFrame
  <2>2. PICK j, k, jo : j = frame.job /\ k = frame.idx /\ jo = table.job[j]
    OBVIOUS
  <2>3. PICK p, new, jn, U :
          /\ FgWrite(j, k, p, new, jn, U)
          /\ \/ FinishForeground(U, new.exitStatus, "none")
             \/ frame' = [frame EXCEPT !.idx = @ + 1] /\ UNCHANGED <<pendingCHLD, kernelCHLD>>
    BY <1>5, <2>1, <2>2, ProcWaitShape
  <2>4. Pending' => Pending
    BY <1>1, <2>3, PendingLemma DEF FgWrite
  <2>5. CASE frame' = [frame EXCEPT !.idx = @ + 1] /\ UNCHANGED <<pendingCHLD, kernelCHLD>>
    <3>1. frame'.pc = "proc" /\ frame'.fn = frame.fn /\ frame.pc = "proc"
      BY <1>1, <1>5, <2>5 DEF ProcWait, FrameShape, Idle
    <3> QED
      BY <2>4, <2>5, <3>1, StillAnnounced DEF SignalsBlocked
  <2> QED
    BY <1>3, <1>5, <2>3, <2>4, <2>5, ZenonT(30) DEF ProcWait
<1>6. ASSUME NEW p \in Pid, AnyReap(p)
      PROVE  Announced'
  <2>1. frame'.pc \in {"any", "abort"}
    BY <1>6 DEF AnyReap, Abort, Idle
  <2> QED
    BY <2>1, StillAnnounced
<1>7. ASSUME NEW p \in Pid, ImplReap(p)
      PROVE  Announced'
  <2>1. frame.pc = "impl" /\ Reaped(p)
    BY <1>7 DEF ImplReap
  <2>2. Pending' => Pending
    BY <1>1, <2>1, PendingLemma
  <2>3. \/ frame' = Abort
        \/ \E T, status, err : Return(T, status, err)
        \/ (\E r : frame' = [frame EXCEPT !.ret = r]) /\ UNCHANGED pendingCHLD
    BY <1>7 DEF ImplReap
  <2>4. CASE frame' = Abort
    BY <2>4, StillAnnounced DEF Abort, Idle
  <2>5. CASE \E T, status, err : Return(T, status, err)
    BY <1>1, <2>1, <2>2, <2>5, ReturnAnnounced
  <2>6. CASE (\E r : frame' = [frame EXCEPT !.ret = r]) /\ UNCHANGED pendingCHLD
    <3>1. frame'.pc = "impl" /\ frame'.fn = frame.fn
      BY <1>1, <2>1, <2>6 DEF FrameShape, Idle
    <3> QED
      BY <2>1, <2>2, <2>6, <3>1, StillAnnounced DEF SignalsBlocked
  <2> QED
    BY <2>3, <2>4, <2>5, <2>6
<1>8. CASE AnyNothing
  <2>1. ~Pending'
    BY <1>8 DEF AnyNothing, Pending, Reportable, kernelVars
  <2> QED
    BY <2>1 DEF Announced, Pending
<1>9. CASE AnyDone
  <2>1. frame.pc = "anyEnd"
    BY <1>9 DEF AnyDone
  <2>2. CASE frame.fn = "bg"
    BY <1>2, <1>9, <2>2, StillAnnounced DEF AnyDone
  <2>3. CASE frame.fn # "bg"
    <3>1. UNCHANGED kernelVars /\ pendingCHLD' = (pendingCHLD \/ kernelCHLD)
      BY <1>9, <2>3 DEF AnyDone, UnblockSignals
    <3>2. Pending' => Pending
      BY <1>1, <3>1, PendingLemma
    <3>3. frame'.pc # "anyEnd"
      <4>1. CASE frame.fn = "fg"
        BY <1>1, <1>9, <4>1 DEF AnyDone, Idle, FrameShape
      <4>2. CASE frame.fn # "fg"
        BY <1>9, <2>3, <4>2 DEF AnyDone, Idle
      <4> QED
        BY <4>1, <4>2
    <3> QED
      BY <2>1, <3>1, <3>2, <3>3 DEF Announced, Pending
  <2> QED
    BY <2>2, <2>3
<1>10. CASE CheckVMEvent
  BY <1>2, <1>10, StillAnnounced DEF CheckVMEvent
<1>11. CASE Enter
  <2>1. Pending' => Pending
    BY <1>1, <1>11, PendingLemma DEF Enter
  <2>2. \/ \E status, err : Return(table, status, err)
        \/ frame' = [frame EXCEPT !.pc = "impl", !.ret = 0] /\ UNCHANGED pendingCHLD
    BY <1>11 DEF Enter
  <2>3. CASE frame' = [frame EXCEPT !.pc = "impl", !.ret = 0] /\ UNCHANGED pendingCHLD
    <3>1. frame'.pc = "impl" /\ frame'.fn = frame.fn /\ frame.pc = "enter"
      BY <1>1, <1>11, <2>3 DEF Enter, FrameShape, Idle
    <3> QED
      BY <2>1, <2>3, <3>1, StillAnnounced DEF SignalsBlocked
  <2> QED
    BY <1>1, <1>11, <2>1, <2>2, <2>3, ReturnAnnounced DEF Enter
<1>12. CASE ImplNothing \/ ImplInterrupted
  <2>1. frame.pc = "impl" /\ \E status, err : Return(table, status, err)
    BY <1>12 DEF ImplNothing, ImplInterrupted
  <2>2. Pending' => Pending
    BY <1>1, <1>12, PendingLemma DEF ImplNothing, ImplInterrupted
  <2> QED
    BY <1>1, <2>1, <2>2, ReturnAnnounced
<1> QED
  BY <1>4, <1>5, <1>6, <1>7, <1>8, <1>9, <1>10, <1>11, <1>12 DEF Waiting

LEMMA AnnouncedStep ==
  ASSUME IInv, Next, Announced
  PROVE  Announced'
<1>1. CASE Environment
  <2>1. NotifyParent /\ UNCHANGED frame
    BY <1>1 DEF Environment, Exit, Stop, Continue, KernelStep
  <2> QED
    BY <2>1 DEF NotifyParent, Announced, SignalsBlocked
<1>2. CASE Aborted
  <2>1. frame' = Abort
    BY <1>2 DEF Aborted, vars, shellVars
  <2> QED
    BY <2>1, StillAnnounced DEF Abort, Idle
<1> QED
  BY <1>1, <1>2, StartAnnounced, CommandAnnounced, WaitingAnnounced DEF Next

(* No child of the shell is forgotten: one that runs or is stopped belongs to a job of the
   table, or to the one the shell waits for; and one that has something to report is
   announced by a pending SIGCHLD, so that checkVMEvent goes and reaps it. *)
THEOREM NoChildForgotten ==
  Spec => []ChildrenKnown
<1>1. Init => Known(table, Foreground, Live) /\ Announced
  BY DEF Init, KernelInit, Known, Live, Announced, Reportable
<1>2. IInv /\ Known(table, Foreground, Live) /\ Announced /\ [Next]_vars
        => (Known(table, Foreground, Live) /\ Announced)'
  <2> SUFFICES ASSUME IInv, Known(table, Foreground, Live), Announced, [Next]_vars
               PROVE  (Known(table, Foreground, Live) /\ Announced)'
    OBVIOUS
  <2>1. CASE Next
    BY <2>1, KnownStep, AnnouncedStep
  <2>2. CASE UNCHANGED vars
    BY <2>2 DEF vars, shellVars, kernelVars, Known, Foreground, Live, Announced, Reportable,
         SignalsBlocked, AttachedIn, ProcPids
  <2> QED
    BY <2>1, <2>2
<1>3. Known(table, Foreground, Live) /\ Announced => ChildrenKnown
  <2> SUFFICES ASSUME Known(table, Foreground, Live), Announced
               PROVE  ChildrenKnown
    OBVIOUS
  <2>1. ASSUME NEW p \in Live
        PROVE  \E j \in Job : /\ Attached(j) \/ (frame.pc = "proc" /\ frame.job = j)
                              /\ p \in ProcPids(table, j)
    BY DEF Known, Foreground, Attached
  <2> QED
    BY <2>1 DEF Live, Announced, ChildrenKnown
<1> QED
  BY <1>1, <1>2, <1>3, Invariance, PTL DEF Spec

-----------------------------------------------------------------------------
(* A signal to a job reaches its processes *)

\* The processes of the jobs that run are among `alive'.
RunAmong(T, alive) ==
  \A j \in Job : T.job[j].state = "RUNNING" =>
    \A i \in DOMAIN T.job[j].procs :
      T.job[j].procs[i].pid # NoPid => T.job[j].procs[i].pid \in alive

(* The groups may change for processes of no job that runs. *)
LEMMA GroupsElsewhere ==
  ASSUME NEW T, T \in Table, NEW group, NEW new, NEW alive, RunAmong(T, alive), GroupKept(T, group),
         \A p \in alive : new[p] = group[p]
  PROVE  GroupKept(T, new)
<1> SUFFICES ASSUME NEW j \in Job, T.job[j].state = "RUNNING",
                    NEW leader, leader = T.job[j].procs[1].pid,
                    leader # NoPid, new[leader] = leader,
                    NEW i \in DOMAIN T.job[j].procs, T.job[j].procs[i].pid # NoPid
             PROVE  new[T.job[j].procs[i].pid] = leader
  BY DEF GroupKept
<1>1. 1 \in DOMAIN T.job[j].procs
  <2>1. T.job[j].procs \in Seq(Proc)
    BY DEF Table, JobObject
  <2> QED
    BY <2>1, LenProperties
<1>2. leader \in alive /\ T.job[j].procs[i].pid \in alive
  BY <1>1 DEF RunAmong
<1> QED
  BY <1>2 DEF GroupKept

\* Jobs that run in U run in T, and their processes have kept their pids or have ended.
Fewer(T, U) ==
  \A j \in Job : U.job[j].state = "RUNNING" =>
    /\ T.job[j].state = "RUNNING"
    /\ DOMAIN U.job[j].procs = DOMAIN T.job[j].procs
    /\ \A i \in DOMAIN T.job[j].procs :
         U.job[j].procs[i].pid \in {T.job[j].procs[i].pid, NoPid}

(* Jobs and processes that end leave the others in their groups. *)
LEMMA GroupsFewer ==
  ASSUME NEW T, T \in Table, NEW U, NEW group, GroupKept(T, group), Fewer(T, U)
  PROVE  GroupKept(U, group)
<1> SUFFICES ASSUME NEW j \in Job, U.job[j].state = "RUNNING",
                    NEW leader, leader = U.job[j].procs[1].pid,
                    leader # NoPid, group[leader] = leader,
                    NEW i \in DOMAIN U.job[j].procs, U.job[j].procs[i].pid # NoPid
             PROVE  group[U.job[j].procs[i].pid] = leader
  BY DEF GroupKept
<1>1. /\ T.job[j].state = "RUNNING" /\ i \in DOMAIN T.job[j].procs
      /\ U.job[j].procs[i].pid = T.job[j].procs[i].pid
  BY DEF Fewer
<1>2. 1 \in DOMAIN T.job[j].procs
  <2>1. T.job[j].procs \in Seq(Proc)
    BY DEF Table, JobObject
  <2> QED
    BY <1>1, <2>1, LenProperties
<1>3. leader = T.job[j].procs[1].pid
  BY <1>2 DEF Fewer
<1> QED
  BY <1>1, <1>3 DEF GroupKept

LEMMA LeftFewer ==
  ASSUME NEW T, ConsistentTable(T), NEW U, NEW refs, Left(T, U, refs)
  PROVE  Fewer(T, U)
<1>1. \A j \in Job : U.job[j].state = "RUNNING" => SameJob(T, U, j)
  BY LeftLemma DEF Unused
<1> QED
  BY <1>1 DEF Fewer, SameJob

LEMMA StartsGroup ==
  ASSUME NEW j \in Job, NEW ps \in PidSeqs, Starts(j, ps), GroupKept(table, pgid)
  PROVE  GroupKept(table', pgid')
<1>1. /\ FgOK(Created(j, ps), j, Children')
      /\ Created(j, ps).job[j] = NewJob(ps)
  BY CreatedLemma DEF Starts
<1>2. PICK T : T = Created(j, ps)
  OBVIOUS
<1>3. table \in Table /\ RunAmong(table, Children)
  BY DEF Starts, RestInv, OwnRunning, ConsistentTable, RunAmong
<1>4. \A k \in Job : k # j => T.job[k] = table.job[k]
  BY <1>2, <1>3 DEF Created, Table
<1>5. /\ \A p \in Range(ps) : p \in Pid /\ p \notin Children
      /\ \A i \in DOMAIN ps : ps[i] \in Range(ps)
  BY PidSeqsLemma DEF FreshPid, Children, Range
<1>6. /\ \A p \in Children : pgid'[p] = pgid[p]
      /\ \A i \in DOMAIN ps : pgid'[ps[i]] = Group(ps)
  BY <1>5 DEF Starts, StartJob, Forked, Children
<1>7. GroupKept(table, pgid')
  BY <1>3, <1>6, GroupsElsewhere
<1>8. GroupKept(T, pgid')
  <2>1. PICK jn : jn = NewJob(ps)
    OBVIOUS
  <2>2. /\ DOMAIN jn.procs = DOMAIN ps
        /\ \A i \in DOMAIN ps : jn.procs[i].pid = ps[i]
    BY <2>1, NewJobLemma
  <2>3. 1 \in DOMAIN ps
    <3>1. PICK n \in Offset : ps \in [1 .. n -> Pid]
      BY PidSeqsLemma
    <3> QED
      BY <3>1, JobAssumption DEF Offset
  <2>4. \A i \in DOMAIN ps : pgid'[jn.procs[1].pid] = pgid'[jn.procs[i].pid]
    BY <1>6, <2>2, <2>3
  <2>5. T.job[j] = jn
    BY <1>1, <1>2, <2>1
  <2> QED
    BY <1>4, <1>7, <2>2, <2>4, <2>5 DEF GroupKept
<1>9. CASE table' = Created(j, ps)
  BY <1>2, <1>8, <1>9
<1>10. ASSUME NEW disowned \in BOOLEAN, table' = Attach(Created(j, ps), j, disowned)
       PROVE  GroupKept(table', pgid')
  <2>1. Attachable(T, j)
    BY <1>1, <1>2, NewJobLemma DEF FgOK, Attachable
  <2>2. SameJobs(T, table')
    BY <1>2, <1>10, <2>1, AttachLemma
  <2> QED
    BY <1>8, <2>2 DEF SameJobs, GroupKept
<1> QED
  BY <1>9, <1>10 DEF Starts

LEMMA ReapsGroup ==
  ASSUME NEW p \in Pid, Reaps(p), GroupKept(table, pgid)
  PROVE  GroupKept(table', pgid')
<1>1. KernelTypeOK /\ ConsistentTable(table) /\ table \in Table
  BY DEF Reaps, RestInv, OwnRunning, ConsistentTable
<1>2. /\ FindsDeleted(table, p) => OwnRunning(table, Children')
      /\ ~FindsDeleted(table, p) =>
           OwnRunning(UpdateProcState(table, Report(p)), Children')
  BY ReapOwnLemma DEF Reaps, RestInv
<1>3. \A q \in Children' : pgid'[q] = pgid[q]
  BY <1>1 DEF Reaps, Reaped, Children, KernelTypeOK
<1>4. CASE FindsDeleted(table, p)
  <2>1. RunAmong(table, Children') /\ table' = table
    BY <1>2, <1>4 DEF OwnRunning, RunAmong, Reaps
  <2> QED
    BY <1>1, <1>3, <2>1, GroupsElsewhere
<1>5. CASE ~FindsDeleted(table, p)
  <2>1. PICK U : U = UpdateProcState(table, Report(p))
    OBVIOUS
  <2>2. Report(p) \in WaitReport /\ Report(p).pid = p
    BY <1>1, ReportLemma DEF Reaps
  <2>3. Fewer(table, U) /\ ConsistentTable(U)
    <3>1. ConsistentTable(U) /\ OnlyEnded(table, U)
      BY <1>1, <1>5, <2>1, <2>2, UpdateProcStateLemma
    <3> QED
      BY <3>1 DEF OnlyEnded, Fewer
  <2>4. GroupKept(U, pgid)
    BY <1>1, <2>3, GroupsFewer
  <2>5. RunAmong(U, Children') /\ U \in Table
    BY <1>2, <1>5, <2>1, <2>3 DEF OwnRunning, RunAmong, ConsistentTable
  <2>6. GroupKept(U, pgid')
    BY <1>3, <2>4, <2>5, GroupsElsewhere
  <2>7. Fewer(U, table')
    BY <1>5, <2>1, <2>3, LeftFewer DEF Reaps
  <2> QED
    BY <2>5, <2>6, <2>7, GroupsFewer
<1> QED
  BY <1>4, <1>5

(* What becomes of the foreground job's table when the wait is over. *)
LEMMA FinishTable ==
  ASSUME NEW T, NEW alive, FgOK(T, frame.job, alive), NEW ret, NEW err,
         FinishForeground(T, ret, err)
  PROVE  /\ \A k \in Job : table'.job[k] = Unused \/ SameJob(T, table', k)
         /\ \A k \in Job : k \in References => SameJob(T, table', k)
         /\ frame.fn # "subst" => SameJob(T, table', frame.job)
<1>1. ConsistentTable(T) /\ frame.job \in Job
  BY DEF FgOK
<1>2. CASE Available(T, frame.job)
  <2>1. Attachable(T, frame.job)
    BY <1>2 DEF FgOK, Attachable, Available
  <2>2. SameJobs(T, table')
    BY <1>2, <2>1, AttachLemma DEF FinishForeground
  <2> QED
    BY <1>1, <2>2 DEF SameJobs, SameJob
<1>3. CASE ~Available(T, frame.job)
  <2>1. table' = IF frame.fn = "subst" THEN Collected(T, References) ELSE T
    BY <1>3 DEF FinishForeground, References
  <2> QED
    BY <1>1, <2>1, LeftLemma DEF Left, SameJob
<1> QED
  BY <1>2, <1>3

LEMMA ForegroundGroup ==
  ASSUME FgInv, ProcWait \/ ProcWaitInterrupted, GroupKept(table, pgid)
  PROVE  GroupKept(table', pgid')
<1>1. PICK j, k, jo : j = frame.job /\ k = frame.idx /\ jo = table.job[j]
  OBVIOUS
<1>2. KernelTypeOK /\ table \in Table /\ j \in Job
  BY <1>1 DEF FgInv, FgOK, ConsistentTable
<1>3. ASSUME NEW T, NEW alive, FgOK(T, j, alive), NEW ret, NEW err, FinishForeground(T, ret, err),
             GroupKept(T, pgid')
      PROVE  GroupKept(table', pgid')
  <2>1. \A m \in Job : table'.job[m] = Unused \/ SameJob(T, table', m)
    BY <1>1, <1>3, FinishTable
  <2>2. Fewer(T, table')
    BY <2>1 DEF Fewer, SameJob, Unused
  <2>3. T \in Table
    BY <1>3 DEF FgOK, ConsistentTable
  <2> QED
    BY <1>3, <2>2, <2>3, GroupsFewer
<1>4. CASE ProcWaitInterrupted
  <2>1. pgid' = pgid /\ FinishForeground(table, -1, "EINTR")
    BY <1>4 DEF ProcWaitInterrupted, kernelVars
  <2> QED
    BY <1>1, <1>3, <2>1 DEF FgInv
<1>5. CASE ProcWait
  <2>1. PICK p, new, jn, U :
          /\ FgWrite(j, k, p, new, jn, U)
          /\ KernelTypeOK' /\ FgOK(U, j, Children')
          /\ table' = U \/ FinishForeground(U, new.exitStatus, "none")
    BY <1>1, <1>5, ProcWaitShape
  <2>2. \A q \in Children' : pgid'[q] = pgid[q]
    BY <1>2, <2>1, ZenonT(30) DEF FgWrite, Reaped, Children, KernelTypeOK
  <2>3. U.job = [table.job EXCEPT ![j] = jn] /\ Written(jo, k, new, jn)
    BY <1>1, <2>1, ZenonT(30) DEF FgWrite, WithJob
  <2>4. new.pid \in {jo.procs[k].pid, NoPid}
    BY <1>1, <2>1, ZenonT(30) DEF FgWrite, UpdateProc
  <2>5. Fewer(table, U)
    <3>1. \A m \in Job : m # j => U.job[m] = table.job[m]
      BY <1>2, <2>3 DEF Table
    <3>2. U.job[j] = jn
      BY <1>2, <2>3 DEF Table
    <3>3. jn.state = "RUNNING" => jo.state = "RUNNING"
      BY <2>3 DEF Written
    <3>4. /\ DOMAIN jn.procs = DOMAIN jo.procs
          /\ \A i \in DOMAIN jo.procs : jn.procs[i].pid \in {jo.procs[i].pid, NoPid}
      BY <2>3, <2>4 DEF Written
    <3> QED
      BY <1>1, <3>1, <3>2, <3>3, <3>4 DEF Fewer
  <2>6. RunAmong(U, Children') /\ U \in Table
    BY <2>1 DEF FgOK, RunAmong, ConsistentTable
  <2>7. GroupKept(U, pgid')
    BY <1>2, <2>2, <2>5, <2>6, GroupsFewer, GroupsElsewhere
  <2> QED
    BY <1>3, <2>1, <2>7
<1> QED
  BY <1>4, <1>5

LEMMA GroupStep ==
  ASSUME IInv, Next, GroupKept(table, pgid)
  PROVE  GroupKept(table', pgid')
<1>1. table \in Table /\ ConsistentTable(table)
  BY DEF IInv, ConsistentTable
<1>2. ASSUME NEW ps \in PidSeqs, PipelineForkFails(ps)
      PROVE  GroupKept(table', pgid')
  <2>1. RunAmong(table, Children)
    BY <1>2, SplitLemma
    DEF PipelineForkFails, FgInv, Idle, RestInv, OwnRunning, RunAmong
  <2>2. \A p \in Range(ps) : p \notin Children
    BY PidSeqsLemma DEF FreshPid, Children, Range
  <2>3. (\A p \in Children : pgid'[p] = pgid[p]) /\ table' = table
    BY <1>2, <2>2 DEF PipelineForkFails, shellVars, Children
  <2> QED
    BY <1>1, <2>1, <2>3, GroupsElsewhere
<1>3. CASE EnterChild
  <2>1. RestInv
    BY <1>3, SplitLemma DEF EnterChild, FgInv, Idle
  <2>2. RunAmong(table', Children')
    BY <1>3, <2>1, EnterChildStep DEF RestInv, OwnRunning, RunAmong
  <2>3. Children' = {}
    BY <1>3 DEF EnterChild, Children
  <2> QED
    BY <2>2, <2>3 DEF RunAmong, GroupKept
<1>4. ASSUME NEW j \in Job, JobDetach(j)
      PROVE  GroupKept(table', pgid')
  <2>1. /\ pgid' = pgid
        /\ \A k \in Job : /\ table'.job[k].procs = table.job[k].procs
                          /\ table'.job[k].state = table.job[k].state
    BY <1>1, <1>4 DEF JobDetach, kernelVars, Table, JobObject
  <2> QED
    BY <2>1 DEF GroupKept
<1>5. CASE Calm
  <2>1. pgid' = pgid
    BY <1>5 DEF Calm, kernelVars, Killed, Continued
  <2>2. Fewer(table, table')
    BY <1>1, <1>5, LeftFewer DEF Calm
  <2> QED
    BY <1>1, <2>1, <2>2, GroupsFewer
<1>6. ASSUME NEW p \in Pid, Moves(p)
      PROVE  GroupKept(table', pgid')
  BY <1>6 DEF Moves, ChildExit, ChildStop, ChildContinue, Continued
<1> QED
  BY <1>2, <1>3, <1>4, <1>5, <1>6, StepKind, StartsGroup, ReapsGroup, ForegroundGroup

(* kill(-pgid), or one kill for each pid: either reaches every process of the job. *)
LEMMA SignalLemma ==
  ASSUME IInv, GroupKept(table, pgid), NEW j \in Job, SendJob(j), Available(table, j),
         table.job[j].procs[1].pid # NoPid, NEW p \in ProcPids(table, j)
  PROVE  proc'[p] \in {"dying", "zombie"}
<1>1. RestInv
  BY SplitLemma DEF SendJob, FgInv, Idle
<1>2. p \in Children
  BY <1>1 DEF RestInv, OwnRunning, Available, ProcPids
<1>3. PICK leader : leader = table.job[j].procs[1].pid
  OBVIOUS
<1>4. p \in SendTargets(table, j)
  <2>1. CASE pgid[leader] = leader
    <3>1. pgid[p] = leader
      BY <1>3, <2>1 DEF GroupKept, Available, ProcPids
    <3>2. SendTargets(table, j) = {q \in Children : pgid[q] = leader}
      BY <1>3, <2>1 DEF SendTargets
    <3> QED
      BY <1>2, <3>1, <3>2
  <2>2. CASE pgid[leader] # leader
    BY <1>3, <2>2 DEF SendTargets
  <2> QED
    BY <2>1, <2>2
<1> QED
  BY <1>2, <1>4 DEF SendJob, Killed, Children, IInv, KernelTypeOK, ProcState

(* `kill %id' and Job#raise reach every process of the job, whether it has a process group
   of its own or not, as long as its first process has not been reaped. *)
THEOREM SignalsReach ==
  Spec => SignalReachesGroup
<1>1. Init => GroupKept(table, pgid)
  BY DEF Init, EmptyTable, Unused, GroupKept
<1>2. IInv /\ GroupKept(table, pgid) /\ [Next]_vars => GroupKept(table, pgid)'
  <2> SUFFICES ASSUME IInv, GroupKept(table, pgid), [Next]_vars
               PROVE  GroupKept(table', pgid')
    OBVIOUS
  <2>1. CASE UNCHANGED vars
    BY <2>1 DEF vars, shellVars, kernelVars
  <2> QED
    BY <2>1, GroupStep
<1>3. IInv /\ GroupKept(table, pgid) =>
        [\A j \in Job :
           /\ \/ \E id \in JobId : FindJob(table, id) = j /\ KillJob(id)
              \/ JobRaise(j)
           /\ Available(table, j) /\ table.job[j].procs[1].pid # NoPid
           => \A p \in ProcPids(table, j) : proc'[p] \in {"dying", "zombie"}
        ]_vars
  BY SignalLemma DEF KillJob, JobRaise
<1> QED
  BY <1>1, <1>2, <1>3, Invariance, PTL DEF Spec, SignalReachesGroup

-----------------------------------------------------------------------------
(* A status is recorded exactly when it is reaped *)

(* A step that reaps no process of job j leaves the statuses of j. *)
LEMMA QuietRecorded ==
  ASSUME ConsistentTable(table), NEW j \in Job, table'.job[j] = Unused \/ SameJob(table, table', j),
         table.job[j].state = "RUNNING" =>
           \A i \in DOMAIN table.job[j].procs :
             table.job[j].procs[i].pid # NoPid => table.job[j].procs[i].pid \in Children'
  PROVE  StatusRecorded(j)
<1>1. CASE table'.job[j] = Unused
  BY <1>1 DEF StatusRecorded, Unused
<1>2. CASE SameJob(table, table', j)
  <2>1. ASSUME NEW i \in DOMAIN table.job[j].procs, table.job[j].state = "RUNNING",
               table.job[j].procs[i].state # "TERMINATED"
        PROVE  ~JustReaped(table.job[j].procs[i].pid)
    <3>1. table.job[j].procs[i].pid # NoPid
      BY <2>1 DEF ConsistentTable, SoundJob
    <3> QED
      BY <2>1, <3>1 DEF JustReaped, Children
  <2> QED
    BY <1>2, <2>1 DEF StatusRecorded, SameJob
<1> QED
  BY <1>1, <1>2

(* A step that takes the report for p, and updates with it the process of job j that has
   the pid p, if there is one. *)
LEMMA ReportRecorded ==
  ASSUME KernelTypeOK, ConsistentTable(table), NEW p \in Pid, NEW op, Reportable(p, op), Reaped(p),
         NEW j \in Job, NEW U, table'.job[j] = Unused \/ SameJob(U, table', j),
         table.job[j].state # "RUNNING" => U.job[j] = table.job[j],
         table.job[j].state = "RUNNING" =>
           \A i \in DOMAIN table.job[j].procs :
             U.job[j].procs[i] = IF table.job[j].procs[i].pid = p
                                 THEN UpdateProc(table.job[j].procs[i], Report(p))
                                 ELSE table.job[j].procs[i]
  PROVE  StatusRecorded(j)
<1>1. CASE table'.job[j] = Unused
  BY <1>1 DEF StatusRecorded, Unused
<1>2. CASE SameJob(U, table', j) /\ table.job[j].state # "RUNNING"
  BY <1>2 DEF StatusRecorded, SameJob
<1>3. CASE SameJob(U, table', j) /\ table.job[j].state = "RUNNING"
  <2> SUFFICES ASSUME NEW i \in DOMAIN table.job[j].procs,
                      NEW old, old = table.job[j].procs[i],
                      NEW new, new = U.job[j].procs[i]
               PROVE  /\ old.state # "TERMINATED" /\ JustReaped(old.pid) =>
                           new = [pid |-> NoPid, state |-> "TERMINATED", exitStatus |-> code[old.pid]]
                      /\ new.state = "TERMINATED" =>
                           new = old \/ (old.state # "TERMINATED" /\ JustReaped(old.pid))
    BY <1>3 DEF StatusRecorded, SameJob
  <2>1. old.state = "TERMINATED" <=> old.pid = NoPid
    BY DEF ConsistentTable, SoundJob
  <2>2. \A q \in Pid : JustReaped(q) <=> q = p /\ proc[p] = "zombie"
    BY DEF JustReaped, Reaped, KernelTypeOK
  <2>3. old.pid \in Pid \cup {NoPid}
    <3>1. table.job[j].procs \in Seq(Proc)
      BY DEF ConsistentTable, Table, JobObject
    <3>2. old \in Proc
      BY <3>1, ElementOfSeq, LenProperties
    <3> QED
      BY <3>2 DEF Proc
  <2>4. CASE old.pid = p
    <3>1. new = UpdateProc(old, Report(p)) /\ old.state # "TERMINATED"
      BY <1>3, <2>1, <2>4, PidAssumption
    <3>2. CASE proc[p] = "zombie"
      <4>1. new = [pid |-> NoPid, state |-> "TERMINATED", exitStatus |-> code[p]]
        BY <2>4, <3>1, <3>2 DEF UpdateProc, Report, NewProcState
      <4> QED
        BY <2>2, <2>4, <3>1, <3>2, <4>1
    <3>3. CASE proc[p] # "zombie"
      <4>1. event[p] \in {"stopped", "continued"}
        BY <3>3 DEF Reportable
      <4>2. new.state \in {"STOPPED", "RUNNING"}
        BY <2>4, <3>1, <3>3, <4>1 DEF UpdateProc, Report, NewProcState
      <4> QED
        BY <2>2, <2>4, <3>3, <4>2
    <3> QED
      BY <3>2, <3>3
  <2>5. CASE old.pid # p
    BY <1>3, <2>1, <2>2, <2>3, <2>5
  <2> QED
    BY <2>4, <2>5
<1> QED
  BY <1>1, <1>2, <1>3

(* What a step of the wait for the foreground job records. *)
LEMMA ForegroundRecorded ==
  ASSUME FgInv, ProcWait \/ ProcWaitInterrupted, NEW m \in Job
  PROVE  StatusRecorded(m)
<1>1. PICK j, k, jo : j = frame.job /\ k = frame.idx /\ jo = table.job[j]
  OBVIOUS
<1>2. /\ KernelTypeOK /\ ConsistentTable(table) /\ table \in Table /\ j \in Job
      /\ jo.state = "RUNNING" /\ k \in DOMAIN jo.procs
  BY <1>1 DEF FgInv, FgOK, Awaited, ConsistentTable
<1>3. CASE ProcWaitInterrupted
  <2>1. Children' = Children /\ FinishForeground(table, -1, "EINTR")
    BY <1>3 DEF ProcWaitInterrupted, kernelVars, Children
  <2>2. table'.job[m] = Unused \/ SameJob(table, table', m)
    BY <1>2, <2>1, FinishTable DEF FgInv
  <2> QED
    BY <1>2, <2>1, <2>2, QuietRecorded DEF FgInv, FgOK
<1>4. CASE ProcWait
  <2>1. PICK p, new, jn, U :
          /\ FgWrite(j, k, p, new, jn, U)
          /\ KernelTypeOK' /\ FgOK(U, j, Children')
          /\ table' = U \/ FinishForeground(U, new.exitStatus, "none")
    BY <1>1, <1>4, ProcWaitShape
  <2>2. table'.job[m] = Unused \/ SameJob(U, table', m)
    BY <1>1, <2>1, FinishTable DEF SameJob
  <2>3. U.job = [table.job EXCEPT ![j] = jn] /\ Written(jo, k, new, jn)
    BY <1>1, <2>1 DEF FgWrite, WithJob
  <2>4. CASE m # j
    <3>1. U.job[m] = table.job[m]
      BY <1>2, <2>3, <2>4 DEF Table
    <3>2. table.job[m].state = "RUNNING" =>
            \A i \in DOMAIN table.job[m].procs :
              table.job[m].procs[i].pid # NoPid => table.job[m].procs[i].pid \in Children'
      BY <2>1, <3>1 DEF FgOK
    <3> QED
      BY <1>2, <2>2, <3>1, <3>2, QuietRecorded DEF SameJob
  <2>5. CASE m = j
    <3>1. U.job[j] = jn
      BY <1>2, <2>3 DEF Table
    <3>2. p \in Pid /\ p = jo.procs[k].pid /\ new = UpdateProc(jo.procs[k], Report(p))
      BY <1>1, <2>1 DEF FgWrite
    <3>3. \A i \in DOMAIN jo.procs : jo.procs[i].pid = p => i = k
      <4>1. SoundJob(jo) /\ p # NoPid
        BY <1>1, <1>2, <3>2, PidAssumption DEF ConsistentTable
      <4> QED
        BY <1>2, <3>2, <4>1 DEF SoundJob
    <3>4. \A i \in DOMAIN jo.procs :
            jn.procs[i] = IF jo.procs[i].pid = p THEN UpdateProc(jo.procs[i], Report(p))
                          ELSE jo.procs[i]
      BY <1>2, <2>3, <3>2, <3>3 DEF Written
    <3>5. PICK op : Reportable(p, op)
      BY <2>1 DEF FgWrite
    <3>6. Reaped(p)
      BY <2>1 DEF FgWrite
    <3>7. /\ table.job[m].state = "RUNNING"
          /\ \A i \in DOMAIN table.job[m].procs :
               U.job[m].procs[i] = IF table.job[m].procs[i].pid = p
                                   THEN UpdateProc(table.job[m].procs[i], Report(p))
                                   ELSE table.job[m].procs[i]
      BY <1>1, <1>2, <2>5, <3>1, <3>4
    <3> QED
      BY <1>2, <2>2, <3>2, <3>5, <3>6, <3>7, ReportRecorded, ZenonT(30)
  <2> QED
    BY <2>4, <2>5
<1> QED
  BY <1>3, <1>4

(* What a report taken by waitpid(-1) records. *)
LEMMA ReapsRecorded ==
  ASSUME NEW p \in Pid, Reaps(p), NEW j \in Job
  PROVE  StatusRecorded(j)
<1>1. /\ KernelTypeOK /\ ConsistentTable(table)
      /\ table.job[j].state = "RUNNING" => AttachedIn(table, j)
  BY DEF Reaps, RestInv, OwnRunning
<1>2. PICK op : Reportable(p, op)
  BY DEF Reaps
<1>3. Report(p) \in WaitReport /\ Report(p).pid = p /\ Reaped(p)
  BY <1>1, <1>2, ReportLemma DEF Reaps
<1>4. CASE FindsDeleted(table, p)
  <2>1. ASSUME NEW i \in DOMAIN table.job[j].procs, table.job[j].state = "RUNNING"
        PROVE  table.job[j].procs[i].pid # p
    <3> SUFFICES ASSUME table.job[j].procs[i].pid = p
                 PROVE  FALSE
      OBVIOUS
    <3>1. AttachedIn(table, j)
      BY <1>1, <2>1
    <3>2. PICK T : T = table
      OBVIOUS
    <3>3. /\ T.entries[p] = [jobId |-> T.job[j].jobID, offset |-> i]
          /\ T.job[j].jobID \in JobId
          /\ FindProc(T, p) = p
      BY <1>1, <2>1, <3>1, <3>2, EntryLemma
    <3>4. ~IsDeleted(T.entries[p])
      BY <3>3 DEF IsDeleted, JobId
    <3> QED
      BY <1>4, <3>2, <3>3, <3>4 DEF FindsDeleted
  <2>2. table' = table
    BY <1>4 DEF Reaps
  <2> QED
    BY <1>1, <1>2, <1>3, <2>1, <2>2, ReportRecorded DEF SameJob
<1>5. CASE ~FindsDeleted(table, p)
  <2>1. PICK U : U = UpdateProcState(table, Report(p))
    OBVIOUS
  <2>2. /\ table.job[j].state # "RUNNING" => U.job[j] = table.job[j]
        /\ table.job[j].state = "RUNNING" =>
             \A i \in DOMAIN table.job[j].procs :
               U.job[j].procs[i] = IF table.job[j].procs[i].pid = p
                                   THEN UpdateProc(table.job[j].procs[i], Report(p))
                                   ELSE table.job[j].procs[i]
    BY <1>1, <1>3, <1>5, <2>1, UpdateExact
  <2>3. ConsistentTable(U) /\ Left(U, table', References')
    BY <1>1, <1>3, <1>5, <2>1, UpdateProcStateLemma DEF Reaps
  <2>4. table'.job[j] = Unused \/ SameJob(U, table', j)
    BY <2>3, LeftLemma
  <2> QED
    BY <1>1, <1>2, <1>3, <2>2, <2>4, ReportRecorded
<1> QED
  BY <1>4, <1>5

(* A job that starts changes no other one. *)
LEMMA StartsSame ==
  ASSUME NEW j \in Job, NEW ps \in PidSeqs, Starts(j, ps)
  PROVE  /\ SameJobs(Created(j, ps), table')
         /\ table.job[j] = Unused /\ HasProcs(table', j)
         /\ \A k \in Job : k # j => SameJob(table, table', k)
<1>1. PICK T : T = Created(j, ps)
  OBVIOUS
<1>2. FgOK(T, j, Children') /\ T.job[j] = NewJob(ps) /\ T.job[j].procs # <<>>
  BY <1>1, CreatedLemma, NewJobLemma DEF Starts
<1>3. SameJobs(T, table')
  <2>1. ASSUME NEW disowned \in BOOLEAN, table' = Attach(T, j, disowned)
        PROVE  SameJobs(T, table')
    <3>1. Attachable(T, j)
      BY <1>2, NewJobLemma DEF FgOK, Attachable
    <3> QED
      BY <2>1, <3>1, AttachLemma
  <2> QED
    BY <1>1, <2>1 DEF Starts, SameJobs
<1>4. \A k \in Job : k # j => T.job[k] = table.job[k]
  <2>1. table \in Table
    BY DEF Starts, RestInv, OwnRunning, ConsistentTable
  <2> QED
    BY <1>1, <2>1 DEF Created, Table
<1>5. table.job[j] = Unused
  BY DEF Starts, StartJob, FreeJob
<1> QED
  BY <1>1, <1>2, <1>3, <1>4, <1>5 DEF SameJobs, SameJob, HasProcs

LEMMA RecordedStep ==
  ASSUME IInv, Next, NEW j \in Job
  PROVE  StatusRecorded(j)
<1>1. KernelTypeOK /\ ConsistentTable(table) /\ table \in Table
  BY DEF IInv, ConsistentTable
<1>2. table.job[j].state = "RUNNING" =>
        \A i \in DOMAIN table.job[j].procs :
          table.job[j].procs[i].pid # NoPid => table.job[j].procs[i].pid \in Children
  BY SplitLemma DEF RestInv, OwnRunning, FgInv, FgOK
<1>3. ASSUME Children \subseteq Children', table'.job[j] = Unused \/ SameJob(table, table', j)
      PROVE  StatusRecorded(j)
  BY <1>1, <1>2, <1>3, QuietRecorded
<1>4. ASSUME NEW k \in Job, NEW ps \in PidSeqs, Starts(k, ps)
      PROVE  StatusRecorded(j)
  <2>1. Children \subseteq Children'
    BY <1>4 DEF Starts, StartJob, Forked, Children
  <2>2. CASE j # k
    BY <1>3, <1>4, <2>1, <2>2, StartsSame
  <2>3. CASE j = k
    BY <1>4, <2>3 DEF Starts, StartJob, FreeJob, Unused, StatusRecorded
  <2> QED
    BY <2>2, <2>3
<1>5. ASSUME NEW ps \in PidSeqs, PipelineForkFails(ps)
      PROVE  StatusRecorded(j)
  <2>1. Children \subseteq Children' /\ table' = table
    BY <1>5 DEF PipelineForkFails, shellVars, Children
  <2> QED
    BY <1>3, <2>1 DEF SameJob
<1>6. CASE EnterChild
  <2>1. RestInv
    BY <1>6, SplitLemma DEF EnterChild, FgInv, Idle
  <2>2. PICK D : D = DetachAll(table)
    OBVIOUS
  <2>3. /\ AttachedIn(table, j) => D.job[j].state = "UNCONTROLLED"
        /\ ~AttachedIn(table, j) => D.job[j] = table.job[j]
    BY <2>1, <2>2, DetachAllLemma DEF RestInv, OwnRunning
  <2>4. table'.job[j] \in {D.job[j], Unused}
    BY <1>6, <2>2 DEF EnterChild, Collected
  <2>5. AttachedIn(table, j) => table.job[j].state = "RUNNING"
    BY <1>6, <2>1, JobAssumption DEF RestInv, SettledIn, AttachedIn, EnterChild, Idle, Available
  <2>6. table.job[j].state = "RUNNING" => AttachedIn(table, j)
    BY <2>1 DEF RestInv, OwnRunning
  <2> QED
    <3>1. CASE AttachedIn(table, j)
      <4>1. table'.job[j].state = "UNCONTROLLED" \/ table'.job[j].procs = <<>>
        BY <2>3, <2>4, <3>1 DEF Unused
      <4> QED
        BY <2>5, <3>1, <4>1 DEF StatusRecorded
    <3>2. CASE ~AttachedIn(table, j)
      <4>1. table'.job[j] = table.job[j] \/ table'.job[j] = Unused
        BY <2>3, <2>4, <3>2
      <4> QED
        BY <2>6, <3>2, <4>1 DEF StatusRecorded, Unused
    <3> QED
      BY <3>1, <3>2
<1>7. ASSUME NEW k \in Job, JobDetach(k)
      PROVE  StatusRecorded(j)
  <2>1. Children' = Children
    BY <1>7 DEF JobDetach, kernelVars, Children
  <2>2. SameJob(table, table', j)
    BY <1>1, <1>7 DEF JobDetach, Table, JobObject, SameJob
  <2> QED
    BY <1>3, <2>1, <2>2
<1>8. CASE Calm
  <2>1. Children' = Children
    BY <1>1, <1>8, KilledLemma, ContinuedLemma DEF Calm, kernelVars, Children
  <2>2. table'.job[j] = Unused \/ SameJob(table, table', j)
    BY <1>1, <1>8, LeftLemma DEF Calm
  <2> QED
    BY <1>3, <2>1, <2>2
<1>9. ASSUME NEW p \in Pid, Moves(p)
      PROVE  StatusRecorded(j)
  <2>1. Children' = Children /\ table' = table
    BY <1>1, <1>9, ChildStepLemma DEF Moves
  <2> QED
    BY <1>3, <2>1 DEF SameJob
<1> QED
  BY <1>4, <1>5, <1>6, <1>7, <1>8, <1>9, StepKind, ReapsRecorded, ForegroundRecorded

(* A process becomes TERMINATED in its job in the step that reaps it and in no other, with
   the status waitpid gave for it; the statuses of an ended job do not change. *)
THEOREM StatusesRecorded ==
  Spec => ReapRecorded
<1>1. IInv /\ [Next]_vars => [\A j \in Job : StatusRecorded(j)]_vars
  BY RecordedStep
<1> QED
  BY <1>1, Invariance, PTL DEF Spec, ReapRecorded

-----------------------------------------------------------------------------
(* What a wait works on, and its frames, are sound *)

RetValue == {-1, 0, 127} \cup WaitStatus
ErrNo == {"none", "EINTR", "ECHILD", "stale"}

(* The arguments a wait has still to return the status of. *)
TodoSound(T, todo) ==
  /\ todo \in Seq(Target)
  /\ \A i \in DOMAIN todo : /\ HasProcs(T, todo[i].job)
                            /\ todo[i].offset \in {0} \cup DOMAIN T.job[todo[i].job].procs

LEMMA IdleSound ==
  ASSUME NEW T
  PROVE  FrameSound(T, Idle) /\ FrameSound(T, Abort)
<1>1. 1 \in Offset /\ <<>> \in Seq(Target) /\ <<>> \in Seq(JobId)
  BY JobAssumption DEF Offset
<1>2. Idle \in Frame /\ Abort \in Frame
  BY <1>1 DEF Idle, Abort, Frame, Fn
<1> QED
  BY <1>2 DEF FrameSound, Idle, Abort

LEMMA AnySound ==
  ASSUME NEW T, NEW fn \in Fn, NEW job \in Job \cup {NoJob}, NEW ret \in RetValue, NEW err \in ErrNo,
         fn = "fg" => JobControl /\ job # NoJob /\ HasProcs(T, job)
  PROVE  FrameSound(T, AnyFrame(fn, job, ret, err))
<1>1. PICK f : f = AnyFrame(fn, job, ret, err)
  OBVIOUS
<1>2. /\ f = [pc |-> "any", fn |-> fn, job |-> job, op |-> "BLOCKING", idx |-> 1,
              todo |-> <<>>, ids |-> <<>>, ret |-> ret, err |-> err]
  BY <1>1 DEF AnyFrame, Idle
<1>3. 1 \in Offset /\ <<>> \in Seq(Target) /\ <<>> \in Seq(JobId)
  BY JobAssumption DEF Offset
<1>4. f \in Frame
  BY <1>2, <1>3 DEF Frame, RetValue, ErrNo
<1> QED
  BY <1>1, <1>2, <1>4 DEF FrameSound

LEMMA EnterSound ==
  ASSUME NEW T, NEW fn \in Fn, NEW j \in Job \cup {NoJob}, j # NoJob => HasProcs(T, j),
         NEW op \in {"BLOCKING", "BLOCK_UNTRACED", "NONBLOCKING"},
         op = "NONBLOCKING" => fn = "poll", op = "BLOCK_UNTRACED" => JobControl,
         NEW todo, TodoSound(T, todo), NEW err \in ErrNo,
         fn = "wait" => todo # <<>> /\ j = todo[1].job,
         fn # "fg"
  PROVE  FrameSound(T, EnterFrame(fn, j, op, todo, err))
<1>1. PICK f : f = EnterFrame(fn, j, op, todo, err)
  OBVIOUS
<1>2. /\ f = [pc |-> "enter", fn |-> fn, job |-> j, op |-> op, idx |-> 1,
              todo |-> todo, ids |-> <<>>, ret |-> 0, err |-> err]
  BY <1>1 DEF EnterFrame, Idle
<1>3. 1 \in Offset /\ <<>> \in Seq(JobId)
  BY JobAssumption DEF Offset
<1>4. f \in Frame
  BY <1>2, <1>3 DEF Frame, RetValue, ErrNo, TodoSound
<1>5. OpSound(f)
  BY <1>2 DEF OpSound
<1> QED
  BY <1>1, <1>2, <1>4, <1>5 DEF FrameSound, TodoSound

\* The jobs have as many processes in U as in T.
SameProcs(T, U) == \A j \in Job : DOMAIN U.job[j].procs = DOMAIN T.job[j].procs

LEMMA HasProcsKept ==
  ASSUME NEW T \in Table, NEW U \in Table, SameProcs(T, U), NEW j, HasProcs(T, j)
  PROVE  HasProcs(U, j)
<1>1. j \in Job /\ T.job[j].procs \in Seq(Proc) /\ U.job[j].procs \in Seq(Proc)
  BY DEF HasProcs, Table, JobObject
<1>2. Len(U.job[j].procs) = Len(T.job[j].procs)
  <2>1. 1 .. Len(U.job[j].procs) = 1 .. Len(T.job[j].procs)
    BY <1>1, LenProperties DEF SameProcs
  <2>2. Len(U.job[j].procs) \in Nat /\ Len(T.job[j].procs) \in Nat
    BY <1>1, LenProperties
  <2> QED
    BY <2>1, <2>2
<1> QED
  BY <1>1, <1>2 DEF HasProcs

LEMMA TodoKept ==
  ASSUME NEW T \in Table, NEW U \in Table, SameProcs(T, U), NEW todo, TodoSound(T, todo)
  PROVE  TodoSound(U, todo)
<1>1. \A i \in DOMAIN todo : HasProcs(U, todo[i].job) /\ todo[i].job \in Job
  BY HasProcsKept DEF TodoSound, HasProcs
<1> QED
  BY <1>1 DEF TodoSound, SameProcs

(* The jobs the table names have processes. *)
LEMMA NamedHasProcs ==
  ASSUME NEW T, ConsistentTable(T)
  PROVE  /\ \A j \in Job : AttachedIn(T, j) => HasProcs(T, j)
         /\ \A id : FindJob(T, id) # NoJob => HasProcs(T, FindJob(T, id))
         /\ \A after : NextJob(T, after) \in Job \cup {NoJob}
                       /\ (NextJob(T, after) # NoJob => HasProcs(T, NextJob(T, after)))
<1>1. ASSUME NEW i \in JobId, T.jobs[i] # NoJob
      PROVE  HasProcs(T, T.jobs[i])
  BY <1>1 DEF ConsistentTable, AttachedSoundIn, Table, HasProcs
<1>2. \A j \in Job : AttachedIn(T, j) => HasProcs(T, j)
  BY <1>1, JobAssumption DEF AttachedIn
<1>3. \A id : FindJob(T, id) # NoJob => HasProcs(T, FindJob(T, id))
  BY <1>1 DEF FindJob
<1>4. ASSUME NEW after
      PROVE  NextJob(T, after) = NoJob \/ HasProcs(T, NextJob(T, after))
  <2>1. PICK rest : rest = {i \in JobId : i > after /\ FindJob(T, i) # NoJob}
    OBVIOUS
  <2>2. CASE rest = {}
    BY <2>1, <2>2 DEF NextJob
  <2>3. CASE rest # {}
    <3>1. rest \in SUBSET Nat
      BY <2>1 DEF JobId
    <3>2. Min(rest) \in JobId /\ FindJob(T, Min(rest)) # NoJob
      BY <2>1, <2>3, <3>1, MinLemma
    <3>3. T.jobs[Min(rest)] # NoJob
      BY <3>2 DEF FindJob
    <3> QED
      BY <1>1, <2>1, <2>3, <3>2, <3>3 DEF NextJob
  <2> QED
    BY <2>2, <2>3
<1> QED
  BY <1>2, <1>3, <1>4 DEF HasProcs

LEMMA StatusTyped ==
  ASSUME NEW T \in Table, NEW j, HasProcs(T, j)
  PROVE  /\ \A k \in DOMAIN T.job[j].procs : T.job[j].procs[k] \in Proc
         /\ \A k \in DOMAIN T.job[j].procs : T.job[j].procs[k].exitStatus \in WaitStatus
         /\ ExitStatus(T, j) \in WaitStatus
<1>1. T.job[j].procs \in Seq(Proc) /\ T.job[j].procs # <<>>
  BY DEF HasProcs, Table, JobObject
<1>2. \A k \in DOMAIN T.job[j].procs : T.job[j].procs[k] \in Proc
  BY <1>1, ElementOfSeq, LenProperties
<1>3. Len(T.job[j].procs) \in DOMAIN T.job[j].procs
  BY <1>1, LenProperties
<1> QED
  BY <1>2, <1>3 DEF ExitStatus, Proc

LEMMA LastStoppedLemma ==
  ASSUME NEW jo \in JobObject, LastStopped(jo) # 0
  PROVE  LastStopped(jo) \in DOMAIN jo.procs /\ jo.procs[LastStopped(jo)].state = "STOPPED"
<1>1. PICK stopped : stopped = {i \in DOMAIN jo.procs : jo.procs[i].state = "STOPPED"}
  OBVIOUS
<1>2. stopped # {} /\ LastStopped(jo) = Max(stopped)
  BY <1>1 DEF LastStopped
<1>3. PICK n \in Nat : DOMAIN jo.procs = 1 .. n
  <2>1. jo.procs \in Seq(Proc)
    BY DEF JobObject
  <2> QED
    BY <2>1, LenProperties
<1>4. stopped \in SUBSET (0 .. n)
  BY <1>1, <1>3
<1>5. Max(stopped) \in stopped
  BY <1>2, <1>4, MaxLemma
<1> QED
  BY <1>1, <1>2, <1>5

(* waitForJobImpl returns, with the table T, to the caller in `frame'. *)
LEMMA ReturnSound ==
  ASSUME ConsistentTable(table), FrameSound(table, frame), frame.pc \in {"enter", "impl"},
         NEW T, ConsistentTable(T), SameProcs(table, T),
         NEW status \in RetValue, NEW err \in ErrNo, Return(T, status, err)
  PROVE  FrameSound(table', frame')
<1>1. table \in Table /\ T \in Table
  BY DEF ConsistentTable
<1>2. PICK R : R = RemoveTerminatedJobs(T)
  OBVIOUS
<1>3. ConsistentTable(R) /\ R \in Table /\ SameProcs(T, R) /\ SameProcs(table, R)
  BY <1>2, RemoveTerminatedJobsLemma DEF SameJobs, SameProcs, ConsistentTable
<1>4. /\ frame \in Frame /\ OpSound(frame)
      /\ frame.job # NoJob => HasProcs(R, frame.job)
      /\ TodoSound(R, frame.todo)
  <2>1. frame \in Frame /\ OpSound(frame)
    BY DEF FrameSound
  <2>2. TodoSound(table, frame.todo)
    BY <2>1 DEF FrameSound, TodoSound, Frame
  <2>3. frame.job # NoJob => HasProcs(table, frame.job)
    BY DEF FrameSound
  <2> QED
    BY <1>1, <1>3, <2>1, <2>2, <2>3, HasProcsKept, TodoKept
<1>5. CASE frame.fn \in {"poll", "fg"}
  BY <1>5, IdleSound DEF Return
<1>6. CASE frame.fn \in {"jobWait", "pipe"}
  <2>1. frame' = AnyFrame("return", frame.job, status, err)
    BY <1>6 DEF Return, EnterAny
  <2> QED
    BY <1>4, <2>1, AnySound DEF Fn, Frame
<1>7. CASE frame.fn = "wait"
  <2>1. PICK todo : todo = frame.todo
    OBVIOUS
  <2>2. todo \in Seq(Target) /\ todo # <<>> /\ TodoSound(R, todo)
    BY <1>4, <1>7, <2>1 DEF FrameSound, TodoSound
  <2>3. CASE status = -1
    BY <1>7, <2>3, AnySound DEF Return, EnterAny, Fn, RetValue
  <2>4. CASE status # -1 /\ Len(todo) = 1
    <3>1. PICK t : t = Head(todo)
      OBVIOUS
    <3>2. t = todo[1] /\ 1 \in DOMAIN todo
      BY <2>2, <2>4, <3>1, LenProperties
    <3>3. HasProcs(R, t.job) /\ t.offset \in {0} \cup DOMAIN R.job[t.job].procs
      BY <2>2, <3>2 DEF TodoSound
    <3>4. TargetStatus(R, t, status) \in RetValue
      BY <1>3, <3>3, StatusTyped DEF TargetStatus, RetValue
    <3>5. frame' = AnyFrame("return", NoJob, TargetStatus(R, t, status), err)
      BY <1>2, <1>7, <2>1, <2>4, <3>1 DEF Return, EnterAny
    <3> QED
      BY <3>4, <3>5, AnySound DEF Fn
  <2>5. CASE status # -1 /\ Len(todo) # 1
    <3>1. PICK tail : tail = Tail(todo)
      OBVIOUS
    <3>2. /\ tail \in Seq(Target) /\ tail # <<>> /\ tail[1] = todo[2] /\ 2 \in DOMAIN todo
          /\ \A i \in DOMAIN tail : i + 1 \in DOMAIN todo /\ tail[i] = todo[i + 1]
      <4>1. /\ tail \in Seq(Target) /\ Len(tail) = Len(todo) - 1
            /\ \A i \in 1 .. Len(tail) : tail[i] = todo[i + 1]
        BY <2>2, <3>1, HeadTailProperties
      <4>2. Len(todo) \in Nat /\ DOMAIN todo = 1 .. Len(todo) /\ Len(todo) >= 2
        <5>1. Len(todo) \in Nat \ {0}
          BY <2>2, EmptySeq
        <5>2. DOMAIN todo = 1 .. Len(todo)
          BY <2>2, LenProperties
        <5> QED
          BY <2>5, <5>1, <5>2
      <4>3. DOMAIN tail = 1 .. Len(tail) /\ Len(tail) >= 1
        BY <4>1, <4>2, LenProperties
      <4> QED
        BY <4>1, <4>2, <4>3
    <3>3. TodoSound(R, tail) /\ HasProcs(R, todo[2].job)
      BY <2>2, <3>2 DEF TodoSound
    <3>4. frame' = EnterFrame("wait", todo[2].job, WaitOp, tail, err) /\ table' = R
      BY <1>2, <1>7, <2>1, <2>5, <3>1 DEF Return
    <3> QED
      BY <3>2, <3>3, <3>4, EnterSound DEF Fn, WaitOp, HasProcs
  <2> QED
    BY <2>3, <2>4, <2>5
<1>8. CASE frame.fn = "waitAnyOf"
  <2>1. PICK ended : ended = EndedTargets(R, frame.todo)
    OBVIOUS
  <2>2. CASE status = -1
    BY <1>8, <2>2, AnySound DEF Return, EnterAny, Fn, RetValue
  <2>3. CASE status # -1 /\ ended = {}
    <3>1. frame' = [frame EXCEPT !.pc = "enter"] /\ table' = R
      BY <1>2, <1>8, <2>1, <2>3 DEF Return
    <3>2. frame' \in Frame /\ OpSound(frame')
      BY <1>4, <3>1 DEF Frame, OpSound
    <3> QED
      BY <1>4, <1>8, <3>1, <3>2 DEF FrameSound, TodoSound, Frame
  <2>4. CASE status # -1 /\ ended # {}
    <3>1. ended \in SUBSET Nat /\ \A i \in ended : i \in DOMAIN frame.todo
      <4>1. frame.todo \in Seq(Target)
        BY <1>4 DEF TodoSound
      <4> QED
        BY <2>1, <4>1, LenProperties DEF EndedTargets
    <3>2. Min(ended) \in DOMAIN frame.todo
      BY <2>4, <3>1, MinLemma
    <3>3. ExitStatus(R, frame.todo[Min(ended)].job) \in WaitStatus
      BY <1>3, <1>4, <3>2, StatusTyped DEF TodoSound
    <3>4. frame' = AnyFrame("return", NoJob, ExitStatus(R, frame.todo[Min(ended)].job), err)
      BY <1>2, <1>8, <2>1, <2>4 DEF Return, EnterAny
    <3> QED
      BY <3>3, <3>4, AnySound DEF Fn, RetValue
  <2> QED
    BY <2>2, <2>3, <2>4
<1>9. CASE frame.fn \in {"waitAll", "waitOne"}
  <2>1. PICK next : next = NextJob(T, T.job[frame.job].jobID)
    OBVIOUS
  <2>2. CASE frame' = AnyFrame("return", NoJob, status, err)
    BY <2>2, AnySound DEF Fn
  <2>3. CASE next # NoJob /\ table' = T /\ frame' = EnterFrame("waitAll", next, frame.op, <<>>, err)
    <3>1. HasProcs(T, next) /\ next \in Job
      BY <2>1, <2>3, NamedHasProcs DEF HasProcs
    <3>2. TodoSound(T, <<>>)
      BY DEF TodoSound
    <3>3. /\ frame.op \in {"BLOCKING", "BLOCK_UNTRACED", "NONBLOCKING"}
          /\ frame.op # "NONBLOCKING" /\ (frame.op = "BLOCK_UNTRACED" => JobControl)
      BY <1>4, <1>9 DEF Frame, OpSound
    <3> QED
      BY <2>3, <3>1, <3>2, <3>3, EnterSound DEF Fn
  <2> QED
    BY <1>9, <2>1, <2>2, <2>3 DEF Return, EnterAny
<1> QED
  BY <1>5, <1>6, <1>7, <1>8, <1>9 DEF Return

(* A frame that stays is sound for what the step leaves of the table. *)
LEMMA KeptSound ==
  ASSUME NEW T \in Table, NEW U \in Table, SameProcs(T, U), NEW f, FrameSound(T, f), f.pc # "proc",
         f.pc = "impl" /\ f.job # NoJob => Available(U, f.job)
  PROVE  FrameSound(U, f)
<1>1. f \in Frame
  BY DEF FrameSound
<1>2. \A j : HasProcs(T, j) => HasProcs(U, j) /\ DOMAIN U.job[j].procs = DOMAIN T.job[j].procs
  BY HasProcsKept DEF HasProcs, SameProcs
<1> QED
  BY <1>1, <1>2 DEF FrameSound

(* What an argument of `wait' names, when it is found and its job is not disowned. *)
LEMMA ArgTargetSound ==
  ASSUME ConsistentTable(table), SettledIn(table), NEW a \in WaitArg, ArgFound(a),
         ArgTarget(a).job # NoJob
  PROVE  /\ ArgTarget(a) \in Target
         /\ HasProcs(table, ArgTarget(a).job)
         /\ ArgTarget(a).offset \in {0} \cup DOMAIN table.job[ArgTarget(a).job].procs
<1>1. table \in Table
  BY DEF ConsistentTable
<1>2. CASE a.id # 0
  <2>1. ArgTarget(a) = [job |-> FindJob(table, a.id), offset |-> 0]
    BY <1>2 DEF ArgTarget
  <2>2. HasProcs(table, FindJob(table, a.id))
    BY <2>1, NamedHasProcs
  <2> QED
    BY <2>1, <2>2 DEF Target, HasProcs
<1>3. CASE a.id = 0
  <2>1. PICK q : q = FindProc(table, a.pid)
    OBVIOUS
  <2>2. PICK e : e = table.entries[q]
    OBVIOUS
  <2>3. PICK m : m = FindJob(table, e.jobId)
    OBVIOUS
  <2>4. a.pid \in Pid
    BY <1>3 DEF WaitArg, JobId
  <2>5. q \in Pid /\ e # NoEntry
    <3>1. q # NoPid
      BY <1>3, <2>1 DEF ArgFound, ArgEntry
    <3> QED
      BY <1>1, <2>1, <2>2, <2>4, <3>1, FindProcLemma
  <2>6. e \in Entry /\ ~IsDeleted(e)
    BY <1>1, <2>2, <2>5 DEF Table, SettledIn
  <2>7. ArgTarget(a) = [job |-> m, offset |-> e.offset]
    BY <1>3, <2>1, <2>2, <2>3 DEF ArgTarget, ArgEntry
  <2>8. HasProcs(table, m) /\ m = table.jobs[e.jobId]
    <3>1. m # NoJob
      BY <2>7
    <3> QED
      BY <2>3, <3>1, NamedHasProcs DEF FindJob
  <2>9. e.offset \in DOMAIN table.job[m].procs
    BY <2>2, <2>5, <2>6, <2>8 DEF ConsistentTable, EntriesMatchIn
  <2> QED
    BY <2>6, <2>7, <2>8, <2>9 DEF Target, HasProcs, Entry
<1> QED
  BY <1>2, <1>3

LEMMA WaitIdsSound ==
  ASSUME RestInv, NEW n \in 1 .. MaxWaitArgs, NEW args \in [1 .. n -> WaitArg],
         NEW fn, WaitIds(args, fn)
  PROVE  FrameSound(table', frame')
<1>1. table' = table /\ frame = Idle /\ fn \in {"wait", "waitAnyOf"}
  BY DEF WaitIds
<1>2. ConsistentTable(table) /\ SettledIn(table)
  BY <1>1 DEF RestInv, OwnRunning, Idle
<1>3. PICK targets : targets = [i \in DOMAIN args |-> ArgTarget(args[i])]
  OBVIOUS
<1>4. CASE frame' = Abort
  BY <1>4, IdleSound
<1>5. CASE frame' = AnyFrame("return", NoJob, 127, "none")
  BY <1>5, AnySound, ZenonT(40) DEF Fn, RetValue, ErrNo
<1>6. CASE /\ frame' = EnterFrame(fn, IF fn = "wait" THEN targets[1].job ELSE NoJob,
                                  WaitOp, targets, "none")
           /\ \A i \in DOMAIN args : ArgFound(args[i]) /\ ArgTarget(args[i]).job # NoJob
  <2>1. n \in Nat \ {0} /\ DOMAIN args = 1 .. n
    BY ControlAssumption
  <2>2. \A i \in 1 .. n :
          /\ targets[i] \in Target
          /\ HasProcs(table, targets[i].job)
          /\ targets[i].offset \in {0} \cup DOMAIN table.job[targets[i].job].procs
    BY <1>2, <1>3, <1>6, <2>1, ArgTargetSound
  <2>3. targets \in [1 .. n -> Target]
    BY <1>3, <2>1, <2>2
  <2>4. targets \in Seq(Target) /\ targets # <<>>
    BY <2>1, <2>3, SeqDef
  <2>5. TodoSound(table, targets)
    BY <2>2, <2>3, <2>4 DEF TodoSound
  <2>6. HasProcs(table, targets[1].job) /\ targets[1].job \in Job
    BY <2>1, <2>2 DEF HasProcs
  <2> QED
    BY <1>1, <1>6, <2>4, <2>5, <2>6, EnterSound DEF Fn, ErrNo, WaitOp
<1>7. PICK lost, null :
        /\ lost = {i \in DOMAIN args : ~ArgFound(args[i])}
        /\ null = {i \in DOMAIN args : ArgFound(args[i]) /\ ArgTarget(args[i]).job = NoJob}
  OBVIOUS
<1>8. \/ lost = {} /\ null = {}
         /\ frame' = EnterFrame(fn, IF fn = "wait" THEN targets[1].job ELSE NoJob,
                                WaitOp, targets, "none")
      \/ frame' = Abort
      \/ frame' = AnyFrame("return", NoJob, 127, "none")
  BY <1>3, <1>7 DEF WaitIds, EnterAny
<1> QED
  BY <1>4, <1>5, <1>6, <1>7, <1>8

(* The commands of the script begin their waits soundly. *)
LEMMA CommandSound ==
  ASSUME RestInv, FrameSound(table, frame),
         held \subseteq Job, pipes \subseteq Job, \A j \in held \cup pipes : HasProcs(table, j),
         Command
  PROVE  FrameSound(table', frame')
<1>1. ConsistentTable(table) /\ table \in Table
  BY DEF RestInv, OwnRunning, ConsistentTable
<1>2. TodoSound(table, <<>>) /\ NoJob \in Job \cup {NoJob} /\ 0 \in RetValue /\ "none" \in ErrNo
  BY DEF TodoSound, RetValue, ErrNo
<1>3. ASSUME NEW fn, fn \in {"poll", "jobWait", "pipe"}, NEW j \in held \cup pipes, NEW err \in ErrNo,
             NEW op, frame' = EnterFrame(fn, j, op, <<>>, err), table' = table,
             \/ fn = "poll" /\ op = "NONBLOCKING"
             \/ op \in {WaitOp, ForegroundOp}
      PROVE  FrameSound(table', frame')
  <2>1. /\ op \in {"BLOCKING", "BLOCK_UNTRACED", "NONBLOCKING"}
        /\ op = "NONBLOCKING" => fn = "poll"
        /\ op = "BLOCK_UNTRACED" => JobControl
    BY <1>3 DEF WaitOp, ForegroundOp
  <2>2. j \in Job /\ HasProcs(table, j)
    BY <1>3
  <2> QED
    BY <1>2, <1>3, <2>1, <2>2, EnterSound DEF Fn
<1>4. ASSUME NEW j \in Job, JobPoll(j) \/ DestroyPipeline(j)
                            \/ \E errno \in {"none", "stale"} : JobWait(j, errno)
      PROVE  FrameSound(table', frame')
  BY <1>3, <1>4 DEF JobPoll, DestroyPipeline, JobWait, WaitFrame, ErrNo
<1>5. ASSUME frame' = AnyFrame("none", NoJob, 0, "none")
      PROVE  FrameSound(table', frame')
  BY <1>2, <1>5, AnySound DEF Fn
<1>6. ASSUME \/ \E j : SendJob(j)
             \/ \E p : KillPid(p) \/ SignalKill(p)
      PROVE  FrameSound(table', frame')
  BY <1>5, <1>6 DEF SendJob, KillPid, SignalKill, EnterAny
<1>7. ASSUME HangUp \/ \E j \in Job : JobDetach(j) \/ DropReference(j)
      PROVE  FrameSound(table', frame')
  BY <1>7, IdleSound DEF HangUp, shellVars, JobDetach, DropReference
<1>8. ASSUME NEW fn, WaitAll(fn)
      PROVE  FrameSound(table', frame')
  <2>1. PICK first : first = NextJob(table, 0)
    OBVIOUS
  <2>2. CASE first = NoJob
    BY <1>2, <1>8, <2>1, <2>2, AnySound DEF WaitAll, EnterAny, Fn
  <2>3. CASE first # NoJob
    <3>1. HasProcs(table, first) /\ first \in Job
      BY <1>1, <2>1, <2>3, NamedHasProcs DEF HasProcs
    <3>2. fn \in {"waitAll", "waitOne"} /\ table' = table
          /\ frame' = EnterFrame(fn, first, WaitOp, <<>>, "none")
      BY <1>8, <2>1, <2>3 DEF WaitAll
    <3> QED
      BY <1>2, <3>1, <3>2, EnterSound DEF Fn, WaitOp
  <2> QED
    BY <2>2, <2>3
<1>9. ASSUME NEW arg, Fg(arg)
      PROVE  FrameSound(table', frame')
  <2>1. PICK j : j = NamedJob(arg)
    OBVIOUS
  <2>2. /\ table' = table /\ JobControl /\ j # NoJob
        /\ frame' = AnyFrame("fg", j, 0, "none")
    BY <1>9, <2>1 DEF Fg, EnterAny
  <2>3. j \in Job /\ HasProcs(table, j)
    <3>1. CASE arg = 0
      <4>1. j \in Job /\ AttachedIn(table, j)
        BY <1>1, <2>1, <2>2, <3>1 DEF NamedJob, Table, ConsistentTable, LatestAttachedIn
      <4> QED
        BY <1>1, <4>1, NamedHasProcs
    <3>2. CASE arg # 0
      <4>1. HasProcs(table, j)
        BY <1>1, <2>1, <2>2, <3>2, NamedHasProcs DEF NamedJob
      <4> QED
        BY <4>1 DEF HasProcs
    <3> QED
      BY <3>1, <3>2
  <2> QED
    BY <1>2, <2>2, <2>3, AnySound DEF Fn
<1>10. ASSUME NEW arg, NEW n \in 0 .. MaxWaitArgs - 1, NEW ids \in [1 .. n -> JobId], Bg(arg, ids)
       PROVE  FrameSound(table', frame')
  <2>1. PICK f : f = AnyFrame("bg", NoJob, 0, "none")
    OBVIOUS
  <2>2. f.pc = "any" /\ f.fn = "bg" /\ f \in Frame
    <3>1. FrameSound(table, f)
      BY <1>2, <2>1, AnySound DEF Fn
    <3> QED
      BY <2>1, <3>1 DEF FrameSound, AnyFrame, Idle
  <2>3. frame' = [f EXCEPT !.ids = ids]
    BY <1>10, <2>1 DEF Bg
  <2>4. ids \in Seq(JobId)
    BY ControlAssumption, SeqDef
  <2> QED
    BY <2>2, <2>3, <2>4 DEF FrameSound, Frame
<1>11. ASSUME NEW n \in 1 .. MaxWaitArgs, NEW args \in [1 .. n -> WaitArg], NEW fn, WaitIds(args, fn)
       PROVE  FrameSound(table', frame')
  BY <1>11, WaitIdsSound
<1> QED
  BY <1>4, <1>6, <1>7, <1>8, <1>9, <1>10, <1>11 DEF Command, KillJob, JobRaise

(* The process a report of waitpid(-1) is recorded for is one of the job waited for. *)
LEMMA MineLemma ==
  ASSUME ConsistentTable(table), NEW p \in Pid, ~FindsDeleted(table, p),
         NEW j \in Job, UpdatedJob(table, p) = j
  PROVE  UpdatedOffset(table, p) \in DOMAIN table.job[j].procs
<1>1. PICK q : q = FindProc(table, p)
  OBVIOUS
<1>2. q # NoPid /\ table.jobs[table.entries[q].jobId] = j
  BY <1>1, JobAssumption DEF UpdatedJob
<1>3. q \in Pid /\ table.entries[q] # NoEntry
  BY <1>1, <1>2, FindProcLemma DEF ConsistentTable
<1>4. ~IsDeleted(table.entries[q])
  BY <1>1, <1>2 DEF FindsDeleted
<1> QED
  BY <1>1, <1>2, <1>3, <1>4 DEF ConsistentTable, EntriesMatchIn, UpdatedOffset

(* updateProcState and the removal of the ended jobs leave the jobs their processes. *)
LEMMA UpdateSame ==
  ASSUME KernelTypeOK, ConsistentTable(table), NEW p \in Pid, NEW op, Reportable(p, op),
         ~FindsDeleted(table, p), NEW U, U = UpdateProcState(table, Report(p))
  PROVE  ConsistentTable(U) /\ U \in Table /\ SameProcs(table, U)
<1>1. Report(p) \in WaitReport /\ Report(p).pid = p
  BY ReportLemma
<1>2. ConsistentTable(U) /\ OnlyEnded(table, U)
  BY <1>1, UpdateProcStateLemma
<1> QED
  BY <1>2 DEF ConsistentTable, OnlyEnded, SameProcs

LEMMA ImplReapSound ==
  ASSUME RestInv, FrameSound(table, frame), NEW p \in Pid, ImplReap(p)
  PROVE  FrameSound(table', frame')
<1>1. PICK j : j = frame.job
  OBVIOUS
<1>2. KernelTypeOK /\ ConsistentTable(table) /\ table \in Table
  BY DEF RestInv, OwnRunning, ConsistentTable
<1>3. /\ frame.pc = "impl" /\ frame \in Frame
      /\ j # NoJob => HasProcs(table, j) /\ j \in Job
  BY <1>1 DEF ImplReap, FrameSound, HasProcs
<1>4. CASE FindsDeleted(table, p)
  <2>1. frame' = Abort
    BY <1>4 DEF ImplReap
  <2> QED
    BY <2>1, IdleSound
<1>5. CASE ~FindsDeleted(table, p)
  <2>1. PICK U : U = UpdateProcState(table, Report(p))
    OBVIOUS
  <2>2. ConsistentTable(U) /\ U \in Table /\ SameProcs(table, U)
    BY <1>2, <1>5, <2>1, UpdateSame DEF ImplReap
  <2>3. j # NoJob => HasProcs(U, j)
    BY <1>2, <1>3, <2>2, HasProcsKept
  <2>4. ASSUME NEW status \in RetValue, Return(U, status, "none")
        PROVE  FrameSound(table', frame')
    <3>1. "none" \in ErrNo
      BY DEF ErrNo
    <3> QED
      BY <1>2, <1>3, <2>2, <2>4, <3>1, ReturnSound
  <2>5. PICK pr : pr = U.job[j].procs[UpdatedOffset(table, p)]
    OBVIOUS
  <2>6. \/ Return(U, 0, "none")
        \/ /\ j # NoJob /\ LastStopped(U.job[j]) # 0
           /\ Return(U, U.job[j].procs[LastStopped(U.job[j])].exitStatus, "none")
        \/ j # NoJob /\ Return(U, ExitStatus(U, j), "none")
        \/ /\ j = NoJob \/ Available(U, j)
           /\ table' = U
           /\ frame' = [frame EXCEPT !.ret = IF j # NoJob /\ UpdatedJob(table, p) = j
                                             THEN pr.exitStatus ELSE @]
    BY <1>1, <1>5, <2>1, <2>5 DEF ImplReap
  <2>7. CASE Return(U, 0, "none")
    BY <2>4, <2>7 DEF RetValue
  <2>8. CASE /\ j # NoJob /\ LastStopped(U.job[j]) # 0
             /\ Return(U, U.job[j].procs[LastStopped(U.job[j])].exitStatus, "none")
    <3>1. U.job[j] \in JobObject
      BY <1>3, <2>2, <2>8 DEF Table
    <3>2. LastStopped(U.job[j]) \in DOMAIN U.job[j].procs
      BY <2>8, <3>1, LastStoppedLemma
    <3>3. U.job[j].procs[LastStopped(U.job[j])].exitStatus \in WaitStatus
      BY <2>2, <2>3, <2>8, <3>2, StatusTyped
    <3> QED
      BY <2>4, <2>8, <3>3 DEF RetValue
  <2>9. CASE j # NoJob /\ Return(U, ExitStatus(U, j), "none")
    <3>1. ExitStatus(U, j) \in WaitStatus
      BY <2>2, <2>3, <2>9, StatusTyped
    <3> QED
      BY <2>4, <2>9, <3>1 DEF RetValue
  <2>10. CASE /\ j = NoJob \/ Available(U, j)
              /\ table' = U
              /\ frame' = [frame EXCEPT !.ret = IF j # NoJob /\ UpdatedJob(table, p) = j
                                                THEN pr.exitStatus ELSE @]
    <3>1. FrameSound(U, frame)
      BY <1>1, <1>2, <1>3, <2>2, <2>10, KeptSound
    <3>2. j # NoJob /\ UpdatedJob(table, p) = j => pr.exitStatus \in WaitStatus
      <4>1. SUFFICES ASSUME j # NoJob, UpdatedJob(table, p) = j
                     PROVE  pr.exitStatus \in WaitStatus
        OBVIOUS
      <4>2. UpdatedOffset(table, p) \in DOMAIN table.job[j].procs
        BY <1>2, <1>3, <1>5, <4>1, MineLemma
      <4>3. UpdatedOffset(table, p) \in DOMAIN U.job[j].procs
        BY <1>3, <2>2, <4>1, <4>2 DEF SameProcs
      <4> QED
        BY <2>2, <2>3, <2>5, <4>1, <4>3, StatusTyped
    <3>3. PICK ret : /\ ret \in {-1, 0, 127} \cup WaitStatus
                     /\ frame' = [frame EXCEPT !.ret = ret]
      <4>1. CASE j # NoJob /\ UpdatedJob(table, p) = j
        BY <2>10, <3>2, <4>1
      <4>2. CASE ~(j # NoJob /\ UpdatedJob(table, p) = j)
        BY <1>3, <2>10, <4>2 DEF Frame
      <4> QED
        BY <4>1, <4>2
    <3>4. frame' \in Frame
      BY <1>3, <3>3 DEF Frame
    <3>5. /\ frame'.pc = frame.pc /\ frame'.fn = frame.fn /\ frame'.job = frame.job
          /\ frame'.op = frame.op /\ frame'.todo = frame.todo
      BY <1>3, <3>3 DEF Frame
    <3> QED
      BY <1>3, <2>10, <3>1, <3>4, <3>5 DEF FrameSound, OpSound
  <2> QED
    BY <2>6, <2>7, <2>8, <2>9, <2>10
<1> QED
  BY <1>4, <1>5

LEMMA EnterStepSound ==
  ASSUME RestInv, FrameSound(table, frame), Enter
  PROVE  FrameSound(table', frame')
<1>1. PICK j : j = frame.job
  OBVIOUS
<1>2. ConsistentTable(table) /\ table \in Table /\ SameProcs(table, table)
  BY DEF RestInv, OwnRunning, ConsistentTable, SameProcs
<1>3. /\ frame.pc = "enter" /\ frame \in Frame /\ OpSound(frame)
      /\ j # NoJob => HasProcs(table, j) /\ j \in Job
  BY <1>1 DEF Enter, FrameSound, HasProcs
<1>4. ASSUME NEW status \in RetValue, NEW err \in ErrNo, Return(table, status, err)
      PROVE  FrameSound(table', frame')
  BY <1>2, <1>3, <1>4, ReturnSound
<1>5. \/ Return(table, -1, "ECHILD")
      \/ j # NoJob /\ Return(table, ExitStatus(table, j), "none")
      \/ /\ j # NoJob /\ LastStopped(table.job[j]) # 0
         /\ Return(table, table.job[j].procs[LastStopped(table.job[j])].exitStatus, frame.err)
      \/ /\ j = NoJob \/ Available(table, j)
         /\ frame' = [frame EXCEPT !.pc = "impl", !.ret = 0]
         /\ table' = table
  BY <1>1 DEF Enter
<1>6. CASE Return(table, -1, "ECHILD")
  BY <1>4, <1>6 DEF RetValue, ErrNo
<1>7. CASE j # NoJob /\ Return(table, ExitStatus(table, j), "none")
  <2>1. ExitStatus(table, j) \in WaitStatus
    BY <1>2, <1>3, <1>7, StatusTyped
  <2> QED
    BY <1>4, <1>7, <2>1 DEF RetValue, ErrNo
<1>8. CASE /\ j # NoJob /\ LastStopped(table.job[j]) # 0
           /\ Return(table, table.job[j].procs[LastStopped(table.job[j])].exitStatus, frame.err)
  <2>1. table.job[j] \in JobObject
    BY <1>2, <1>3, <1>8 DEF Table
  <2>2. table.job[j].procs[LastStopped(table.job[j])].exitStatus \in WaitStatus
    BY <1>2, <1>3, <1>8, <2>1, LastStoppedLemma, StatusTyped
  <2> QED
    BY <1>3, <1>4, <1>8, <2>2 DEF RetValue, ErrNo, Frame
<1>9. CASE /\ j = NoJob \/ Available(table, j)
           /\ frame' = [frame EXCEPT !.pc = "impl", !.ret = 0]
           /\ table' = table
  <2>1. frame' \in Frame /\ OpSound(frame')
    BY <1>3, <1>9 DEF Frame, OpSound
  <2> QED
    BY <1>1, <1>3, <1>9, <2>1 DEF FrameSound, Frame
<1> QED
  BY <1>5, <1>6, <1>7, <1>8, <1>9

LEMMA WaitingSound ==
  ASSUME RestInv, FrameSound(table, frame), Waiting
  PROVE  FrameSound(table', frame')
<1>1. KernelTypeOK /\ ConsistentTable(table) /\ table \in Table /\ frame \in Frame
  BY DEF RestInv, OwnRunning, ConsistentTable, FrameSound
<1>2. ~ProcWait /\ ~ProcWaitInterrupted
  BY DEF RestInv, RestFrame, ProcWait, ProcWaitInterrupted
<1>3. ASSUME NEW p \in Pid, AnyReap(p)
      PROVE  FrameSound(table', frame')
  <2>1. CASE FindsDeleted(table, p)
    BY <1>3, <2>1, IdleSound DEF AnyReap
  <2>2. CASE ~FindsDeleted(table, p)
    <3>1. PICK U : U = UpdateProcState(table, Report(p))
      OBVIOUS
    <3>2. U \in Table /\ SameProcs(table, U)
      BY <1>1, <1>3, <2>2, <3>1, UpdateSame DEF AnyReap
    <3>3. table' = U /\ frame' = frame /\ frame.pc = "any"
      BY <1>3, <2>2, <3>1 DEF AnyReap
    <3> QED
      BY <1>1, <3>2, <3>3, KeptSound
  <2> QED
    BY <2>1, <2>2
<1>4. CASE AnyNothing
  <2>1. frame' = [frame EXCEPT !.pc = "anyEnd"] /\ table' = table
    BY <1>4 DEF AnyNothing
  <2>2. frame' \in Frame
    BY <1>1, <2>1 DEF Frame
  <2> QED
    BY <1>1, <2>1, <2>2 DEF FrameSound, Frame
<1>5. CASE AnyDone
  <2>1. PICK R : R = RemoveTerminatedJobs(table)
    OBVIOUS
  <2>2. R \in Table /\ SameProcs(table, R)
    BY <1>1, <2>1, RemoveTerminatedJobsLemma DEF SameJobs, SameProcs, ConsistentTable
  <2>3. CASE frame.fn = "fg"
    <3>1. table' = R /\ frame' = [frame EXCEPT !.pc = "enter", !.op = "BLOCK_UNTRACED"]
      BY <1>5, <2>1, <2>3 DEF AnyDone
    <3>2. frame' \in Frame
      BY <1>1, <3>1 DEF Frame
    <3>3. JobControl /\ frame.job # NoJob /\ HasProcs(table, frame.job) /\ frame.todo = <<>>
      BY <2>3 DEF FrameSound
    <3>4. HasProcs(R, frame.job)
      BY <1>1, <2>2, <3>3, HasProcsKept
    <3> QED
      BY <1>1, <2>3, <3>1, <3>2, <3>3, <3>4 DEF FrameSound, OpSound, Frame
  <2>4. CASE frame.fn = "bg"
    <3>1. frame' = AnyFrame("none", NoJob, 0, "none")
      BY <1>5, <2>4 DEF AnyDone, EnterAny
    <3> QED
      BY <3>1, AnySound DEF Fn, RetValue, ErrNo
  <2>5. CASE frame.fn \notin {"fg", "bg"}
    BY <1>5, <2>5, IdleSound DEF AnyDone
  <2> QED
    BY <2>3, <2>4, <2>5
<1>6. CASE CheckVMEvent
  BY <1>6, AnySound DEF CheckVMEvent, EnterAny, Fn, RetValue, ErrNo
<1>7. ASSUME frame.pc = "impl", NEW status \in RetValue, NEW err \in ErrNo, Return(table, status, err)
      PROVE  FrameSound(table', frame')
  <2>1. SameProcs(table, table)
    BY DEF SameProcs
  <2> QED
    BY <1>1, <1>7, <2>1, ReturnSound
<1>8. CASE ImplNothing \/ ImplInterrupted
  BY <1>1, <1>7, <1>8 DEF ImplNothing, ImplInterrupted, RetValue, ErrNo, Frame
<1> QED
  BY <1>2, <1>3, <1>4, <1>5, <1>6, <1>8, ImplReapSound, EnterStepSound DEF Waiting

LEMMA StartSound ==
  ASSUME RestInv, Start
  PROVE  FrameSound(table', frame')
<1>1. ASSUME NEW j \in Job, NEW ps \in PidSeqs,
             \/ ForkAndExec(j, ps, "run")
             \/ ForkAndExec(j, ps, "subst")
             \/ ForegroundPipeline(j, ps)
      PROVE  FrameSound(table', frame')
  <2>1. PICK fn \in {"run", "subst"} :
          /\ StartJob(j, ps) /\ table' = Created(j, ps)
          /\ frame' = [Idle EXCEPT !.pc = "proc", !.fn = fn, !.job = j, !.op = ForegroundOp]
    BY <1>1 DEF ForkAndExec, ForegroundPipeline
  <2>2. /\ frame' = [pc |-> "proc", fn |-> fn, job |-> j, op |-> ForegroundOp, idx |-> 1,
                     todo |-> <<>>, ids |-> <<>>, ret |-> 0, err |-> "none"]
    BY <2>1 DEF Idle
  <2>3. 1 \in Offset /\ <<>> \in Seq(Target) /\ <<>> \in Seq(JobId)
    BY JobAssumption DEF Offset
  <2>4. frame' \in Frame /\ OpSound(frame')
    BY <2>2, <2>3 DEF Frame, Fn, OpSound, ForegroundOp
  <2>5. table'.job[j] = NewJob(ps)
    BY <2>1, CreatedLemma
  <2>6. \A i \in DOMAIN table'.job[j].procs : i >= 1 /\ table'.job[j].procs[i].state = "RUNNING"
    <3>1. PICK n \in Offset : ps \in [1 .. n -> Pid]
      BY PidSeqsLemma
    <3>2. PICK jn : jn = NewJob(ps)
      OBVIOUS
    <3>3. DOMAIN jn.procs = DOMAIN ps /\ \A i \in DOMAIN ps : jn.procs[i].state = "RUNNING"
      BY <3>2, NewJobLemma
    <3>4. n \in Nat
      BY <3>1, JobAssumption DEF Offset
    <3> QED
      BY <2>5, <3>1, <3>2, <3>3, <3>4
  <2>7. /\ frame'.pc = "proc" /\ frame'.fn \in {"run", "subst"} /\ frame'.idx = 1 /\ frame'.job = j
    BY <2>2
  <2> QED
    BY <2>4, <2>6, <2>7 DEF FrameSound
<1>2. ASSUME \/ \E j \in Job, ps \in PidSeqs :
                  LastPipe(j, ps) \/ \E disown \in BOOLEAN : \E ref : AsyncJob(j, ps, disown, ref)
             \/ \E ps \in PidSeqs : PipelineForkFails(ps)
             \/ EnterChild
      PROVE  FrameSound(table', frame')
  <2>1. frame' = Idle
    BY <1>2 DEF LastPipe, AsyncJob, StartJob, PipelineForkFails, EnterChild, shellVars
  <2> QED
    BY <2>1, IdleSound
<1> QED
  BY <1>1, <1>2 DEF Start

(* A process of the foreground job is waited for until it has ended, or, under job control,
   has been stopped. *)
LEMMA FgReportLemma ==
  ASSUME FrameSound(table, frame), frame.pc = "proc",
         NEW j, j = frame.job, NEW k \in DOMAIN table.job[j].procs, k = frame.idx, k \in Nat,
         NEW p, NEW new, NEW jn, NEW U, FgWrite(j, k, p, new, jn, U)
  PROVE  new.state = "TERMINATED" \/ (JobControl /\ new.state = "STOPPED")
<1>1. PICK pr : pr = table.job[j].procs[k]
  OBVIOUS
<1>2. pr.state = "RUNNING" /\ OpSound(frame) /\ frame.fn \in {"run", "subst"}
  BY <1>1 DEF FrameSound
<1>3. p = pr.pid /\ Reportable(p, frame.op) /\ new = UpdateProc(pr, Report(p))
  BY <1>1, <1>2 DEF FgWrite, ProcWaitOp
<1>4. frame.op # "NONBLOCKING"
  BY <1>2 DEF OpSound
<1>5. proc[p] = "zombie" \/ (JobControl /\ event[p] = "stopped")
  BY <1>2, <1>3, <1>4 DEF Reportable, OpSound
<1>6. new.state = NewProcState[Report(p).kind]
  BY <1>2, <1>3 DEF UpdateProc, Report
<1> QED
  BY <1>5, <1>6 DEF Report, NewProcState

(* The wait for the foreground job goes on with the next process, or ends. *)
LEMMA ForegroundSoundStep ==
  ASSUME FgInv, FrameSound(table, frame), ProcWait \/ ProcWaitInterrupted
  PROVE  FrameSound(table', frame')
<1>1. PICK j, k, jo : j = frame.job /\ k = frame.idx /\ jo = table.job[j]
  OBVIOUS
<1>2. /\ ConsistentTable(table) /\ table \in Table /\ frame \in Frame /\ j \in Job
      /\ frame.pc = "proc" /\ OpSound(frame) /\ frame.fn \in {"run", "subst"}
      /\ k \in DOMAIN jo.procs /\ k \in Nat
      /\ jo \in JobObject /\ SoundJob(jo)
  <2>1. ConsistentTable(table) /\ table \in Table /\ j \in Job /\ k \in DOMAIN jo.procs
    BY <1>1 DEF FgInv, FgOK, Awaited, ConsistentTable
  <2>2. frame.pc = "proc"
    BY DEF FgInv
  <2>3. frame \in Frame /\ OpSound(frame) /\ frame.fn \in {"run", "subst"}
    BY <2>2 DEF FrameSound
  <2>4. k \in Nat
    BY <1>1, <2>3, JobAssumption DEF Frame, Offset
  <2> QED
    BY <1>1, <2>1, <2>2, <2>3, <2>4 DEF ConsistentTable, Table
<1>3. ASSUME NEW T, NEW ret \in RetValue, NEW err \in ErrNo, FinishForeground(T, ret, err)
      PROVE  FrameSound(table', frame')
  <2>1. frame' = Idle \/ frame' = AnyFrame("return", j, ret, err)
    BY <1>1, <1>3 DEF FinishForeground, EnterAny
  <2> QED
    BY <1>2, <2>1, IdleSound, AnySound DEF Fn
<1>4. CASE ProcWaitInterrupted
  BY <1>3, <1>4 DEF ProcWaitInterrupted, RetValue, ErrNo
<1>5. CASE ProcWait
  <2>1. PICK p, new, jn, U :
          /\ FgWrite(j, k, p, new, jn, U)
          /\ FgOK(U, j, Children')
          /\ \/ FinishForeground(U, new.exitStatus, "none")
             \/ k # Len(jo.procs) /\ table' = U /\ frame' = [frame EXCEPT !.idx = @ + 1]
    BY <1>1, <1>5, ProcWaitShape
  <2>2. U.job = [table.job EXCEPT ![j] = jn] /\ Written(jo, k, new, jn)
    BY <1>1, <2>1 DEF FgWrite, WithJob
  <2>3. /\ jn \in JobObject /\ DOMAIN jn.procs = DOMAIN jo.procs /\ U.job[j] = jn
        /\ \A i \in DOMAIN jo.procs : jn.procs[i] = IF i = k THEN new ELSE jo.procs[i]
    BY <1>2, <2>2 DEF Written, Table
  <2>4. new \in Proc
    <3>1. jn.procs \in Seq(Proc)
      BY <2>3 DEF JobObject
    <3>2. jn.procs[k] \in Proc
      BY <1>2, <2>3, <3>1, ElementOfSeq, LenProperties
    <3> QED
      BY <1>2, <2>3, <3>2
  <2>5. CASE FinishForeground(U, new.exitStatus, "none")
    BY <1>3, <2>4, <2>5 DEF Proc, RetValue, ErrNo
  <2>6. CASE k # Len(jo.procs) /\ table' = U /\ frame' = [frame EXCEPT !.idx = @ + 1]
    <3>1. DOMAIN jo.procs = 1 .. Len(jo.procs) /\ Len(jo.procs) \in Nat /\ Len(jo.procs) =< MaxProcs
      BY <1>2, LenProperties DEF JobObject, SoundJob
    <3>2. frame.idx + 1 \in Offset /\ frame.idx = k /\ k \in Nat
      BY <1>1, <1>2, <2>6, <3>1, JobAssumption DEF Offset
    <3>3. frame' \in Frame /\ OpSound(frame')
      BY <1>2, <2>6, <3>2 DEF Frame, OpSound
    <3>4. new.state = "TERMINATED" \/ (JobControl /\ new.state = "STOPPED")
      BY <1>1, <1>2, <2>1, FgReportLemma
    <3>5. \A i \in DOMAIN jn.procs :
            IF i >= k + 1 THEN jn.procs[i].state = "RUNNING"
            ELSE jn.procs[i].state = "TERMINATED" \/ (JobControl /\ jn.procs[i].state = "STOPPED")
      <4>1. \A i \in DOMAIN jo.procs :
              IF i >= k THEN jo.procs[i].state = "RUNNING"
              ELSE jo.procs[i].state = "TERMINATED" \/ (JobControl /\ jo.procs[i].state = "STOPPED")
        BY <1>1, <1>2 DEF FrameSound
      <4>2. \A i \in DOMAIN jo.procs : i \in Nat
        BY <3>1
      <4> QED
        BY <2>3, <3>2, <3>4, <4>1, <4>2
    <3>6. /\ frame'.pc = "proc" /\ frame'.fn = frame.fn /\ frame'.job = j /\ frame'.idx = k + 1
          /\ table'.job[j] = jn
      BY <1>1, <1>2, <2>3, <2>6, <3>2 DEF Frame
    <3> QED
      BY <1>2, <3>3, <3>5, <3>6 DEF FrameSound
  <2> QED
    BY <2>1, <2>5, <2>6
<1> QED
  BY <1>4, <1>5

(* The script and the pipelines refer to jobs that exist, and to the one a step starts. *)
LEMMA ReferencesStep ==
  ASSUME RestInv \/ FgInv, Next, held \subseteq Job, pipes \subseteq Job,
         root \in BOOLEAN, pendingCHLD \in BOOLEAN, kernelCHLD \in BOOLEAN
  PROVE  /\ held' \subseteq Job /\ pipes' \subseteq Job
         /\ root' \in BOOLEAN /\ pendingCHLD' \in BOOLEAN /\ kernelCHLD' \in BOOLEAN
         /\ \A k \in References' : k \in References \/ \E ps \in PidSeqs : Starts(k, ps)
<1>1. ASSUME NEW j \in Job, NEW ps \in PidSeqs,
             \/ \E fn : ForkAndExec(j, ps, fn)
             \/ ForegroundPipeline(j, ps)
             \/ \E disown \in BOOLEAN : \E ref : AsyncJob(j, ps, disown, ref)
             \/ LastPipe(j, ps)
      PROVE  /\ held' \subseteq Job /\ pipes' \subseteq Job /\ References' \subseteq References \cup {j}
             /\ UNCHANGED <<root, pendingCHLD, kernelCHLD>>
  BY <1>1 DEF ForkAndExec, ForegroundPipeline, AsyncJob, LastPipe, StartJob, References
<1>2. ASSUME NEW j \in Job, NEW ps \in PidSeqs,
             \/ \E fn : ForkAndExec(j, ps, fn)
             \/ ForegroundPipeline(j, ps)
             \/ \E disown \in BOOLEAN : \E ref : AsyncJob(j, ps, disown, ref)
             \/ LastPipe(j, ps)
      PROVE  Starts(j, ps)
  <2>1. frame = Idle
    BY <1>2 DEF ForkAndExec, ForegroundPipeline, AsyncJob, LastPipe, StartJob
  <2>2. RestInv
    BY <2>1 DEF FgInv, Idle
  <2> QED
    BY <1>2, <2>2 DEF Starts, ForkAndExec, ForegroundPipeline, AsyncJob, LastPipe, Idle
<1>3. CASE Start
  <2>1. CASE \E ps \in PidSeqs : PipelineForkFails(ps)
    BY <2>1 DEF PipelineForkFails, shellVars, References
  <2>2. CASE EnterChild
    BY <2>2 DEF EnterChild, References
  <2> QED
    BY <1>1, <1>2, <1>3, <2>1, <2>2 DEF Start
<1>4. ASSUME NEW T, NEW status, NEW err, Return(T, status, err)
      PROVE  pendingCHLD' \in BOOLEAN /\ kernelCHLD' \in BOOLEAN
  BY <1>4 DEF Return, EnterAny
<1>5. CASE Command
  <2>1. ASSUME \/ \E j \in Job : JobPoll(j) \/ DestroyPipeline(j) \/ JobDetach(j) \/ DropReference(j)
               \/ \E j \in Job : \E errno : JobWait(j, errno)
               \/ HangUp
        PROVE  /\ held' \subseteq held /\ pipes' \subseteq pipes
               /\ UNCHANGED <<root, pendingCHLD, kernelCHLD>>
    BY <2>1 DEF JobPoll, DestroyPipeline, JobDetach, DropReference, JobWait, WaitFrame, HangUp,
       shellVars
  <2>2. ASSUME \/ \E j : SendJob(j)
               \/ \E p : KillPid(p) \/ SignalKill(p)
               \/ \E arg : Fg(arg)
               \/ \E arg, ids : Bg(arg, ids)
               \/ \E fn : WaitAll(fn)
               \/ \E args, fn : WaitIds(args, fn)
        PROVE  /\ UNCHANGED <<held, pipes, root>>
               /\ pendingCHLD' \in BOOLEAN /\ kernelCHLD' \in BOOLEAN
    BY <2>2, ZenonT(40) DEF SendJob, KillPid, SignalKill, Fg, Bg, WaitAll, WaitIds, EnterAny
  <2> QED
    BY <1>5, <2>1, <2>2 DEF Command, KillJob, JobRaise, References
<1>6. CASE Waiting
  <2>1. UNCHANGED <<held, pipes, root>>
    BY <1>6 DEF Waiting, ProcWait, ProcWaitInterrupted, AnyReap, ImplReap, AnyNothing, AnyDone,
       CheckVMEvent, Enter, ImplNothing, ImplInterrupted
  <2>2. ASSUME ProcWait \/ ProcWaitInterrupted
        PROVE  pendingCHLD' \in BOOLEAN /\ kernelCHLD' \in BOOLEAN
    BY <2>2 DEF ProcWait, ProcWaitInterrupted, FinishForeground, EnterAny
  <2>3. ASSUME AnyNothing \/ AnyDone \/ CheckVMEvent \/ \E p \in Pid : AnyReap(p)
        PROVE  pendingCHLD' \in BOOLEAN /\ kernelCHLD' \in BOOLEAN
    BY <2>3 DEF AnyNothing, AnyDone, CheckVMEvent, AnyReap, EnterAny, UnblockSignals
  <2>4. ASSUME Enter \/ ImplNothing \/ ImplInterrupted \/ \E p \in Pid : ImplReap(p)
        PROVE  pendingCHLD' \in BOOLEAN /\ kernelCHLD' \in BOOLEAN
    <3>1. \/ \E T, status, err : Return(T, status, err)
          \/ UNCHANGED <<pendingCHLD, kernelCHLD>>
      BY <2>4 DEF Enter, ImplNothing, ImplInterrupted, ImplReap
    <3> QED
      BY <1>4, <3>1
  <2>5. pendingCHLD' \in BOOLEAN /\ kernelCHLD' \in BOOLEAN
    BY <1>6, <2>2, <2>3, <2>4 DEF Waiting
  <2> QED
    BY <2>1, <2>5 DEF References
<1>7. CASE Environment
  BY <1>7 DEF Environment, Exit, Stop, Continue, KernelStep, NotifyParent, References
<1>8. CASE Aborted
  BY <1>8 DEF Aborted, vars, shellVars, References
<1> QED
  BY <1>3, <1>5, <1>6, <1>7, <1>8 DEF Next

LEMMA RefsKept ==
  ASSUME IInv, Next, NEW k, k \in References', k \in References, HasProcs(table, k)
  PROVE  HasProcs(table', k)
<1>1. KernelTypeOK /\ ConsistentTable(table) /\ table \in Table /\ k \in Job
  BY DEF IInv, ConsistentTable, HasProcs
<1>2. ASSUME SameJob(table, table', k)
      PROVE  HasProcs(table', k)
  BY <1>2 DEF SameJob, HasProcs
<1>3. ASSUME NEW j \in Job, NEW ps \in PidSeqs, Starts(j, ps)
      PROVE  HasProcs(table', k)
  <2>1. k # j
    BY <1>3, StartsSame DEF HasProcs, Unused
  <2> QED
    BY <1>1, <1>2, <1>3, <2>1, StartsSame
<1>4. ASSUME NEW ps \in PidSeqs, PipelineForkFails(ps)
      PROVE  HasProcs(table', k)
  BY <1>4 DEF PipelineForkFails, shellVars
<1>5. CASE EnterChild
  <2>1. table'.job[k] = DetachAll(table).job[k]
    BY <1>1, <1>5 DEF EnterChild, Collected, References
  <2>2. DetachAll(table).job[k].procs = table.job[k].procs
    BY <1>1 DEF DetachAll, Table, JobObject
  <2> QED
    BY <2>1, <2>2 DEF HasProcs
<1>6. ASSUME NEW j \in Job, JobDetach(j)
      PROVE  HasProcs(table', k)
  BY <1>1, <1>2, <1>6 DEF JobDetach, Table, JobObject, SameJob
<1>7. ASSUME NEW p \in Pid, Reaps(p)
      PROVE  HasProcs(table', k)
  <2>1. CASE FindsDeleted(table, p)
    BY <1>7, <2>1 DEF Reaps
  <2>2. CASE ~FindsDeleted(table, p)
    <3>1. PICK U : U = UpdateProcState(table, Report(p))
      OBVIOUS
    <3>2. PICK op : Reportable(p, op)
      BY <1>7 DEF Reaps
    <3>3. ConsistentTable(U) /\ U \in Table /\ SameProcs(table, U)
      BY <1>1, <2>2, <3>1, <3>2, UpdateSame
    <3>4. SameJob(U, table', k)
      BY <1>1, <1>7, <2>2, <3>1, <3>3, LeftLemma DEF Reaps
    <3>5. HasProcs(U, k)
      BY <1>1, <3>3, HasProcsKept
    <3> QED
      BY <3>4, <3>5 DEF SameJob, HasProcs
  <2> QED
    BY <2>1, <2>2
<1>8. CASE Calm
  BY <1>1, <1>2, <1>8, LeftLemma DEF Calm
<1>9. ASSUME NEW p \in Pid, Moves(p)
      PROVE  HasProcs(table', k)
  BY <1>9 DEF Moves
<1>10. CASE FgInv /\ (ProcWait \/ ProcWaitInterrupted)
  <2>1. PICK j : j = frame.job
    OBVIOUS
  <2>2. CASE ProcWaitInterrupted
    BY <1>2, <1>10, <2>2, FinishTable DEF ProcWaitInterrupted, FgInv, HasProcs
  <2>3. CASE ProcWait
    <3>1. PICK p, new, jn, U :
            /\ FgWrite(j, frame.idx, p, new, jn, U)
            /\ FgOK(U, j, Children')
            /\ table' = U \/ FinishForeground(U, new.exitStatus, "none")
      BY <1>10, <2>1, <2>3, ProcWaitShape
    <3>2. SameJob(U, table', k)
      BY <1>1, <2>1, <3>1, FinishTable DEF SameJob
    <3>3. /\ U.job = [table.job EXCEPT ![j] = jn]
          /\ DOMAIN jn.procs = DOMAIN table.job[j].procs
          /\ j \in Job
      BY <3>1 DEF FgWrite, WithJob, Written, FgOK
    <3>4. SameProcs(table, U) /\ U \in Table
      BY <1>1, <3>1, <3>3 DEF SameProcs, Table, FgOK, ConsistentTable
    <3>5. HasProcs(U, k)
      BY <1>1, <3>4, HasProcsKept
    <3> QED
      BY <3>2, <3>5 DEF SameJob, HasProcs
  <2> QED
    BY <1>10, <2>2, <2>3
<1> QED
  BY <1>3, <1>4, <1>5, <1>6, <1>7, <1>8, <1>9, <1>10, StepKind

LEMMA WaitInvStep ==
  ASSUME IInv, WaitInv, Next
  PROVE  WaitInv'
<1>1. /\ FrameSound(table, frame)
      /\ held \subseteq Job /\ pipes \subseteq Job
      /\ \A j \in References : HasProcs(table, j)
      /\ root \in BOOLEAN /\ pendingCHLD \in BOOLEAN /\ kernelCHLD \in BOOLEAN
  BY DEF WaitInv, References
<1>2. /\ held' \subseteq Job /\ pipes' \subseteq Job
      /\ root' \in BOOLEAN /\ pendingCHLD' \in BOOLEAN /\ kernelCHLD' \in BOOLEAN
      /\ \A k \in References' : k \in References \/ \E ps \in PidSeqs : Starts(k, ps)
  BY <1>1, SplitLemma, ReferencesStep
<1>3. \A k \in References' : HasProcs(table', k)
  <2>1. ASSUME NEW k \in References', NEW ps \in PidSeqs, Starts(k, ps)
        PROVE  HasProcs(table', k)
    BY <1>2, <2>1, StartsSame DEF References
  <2> QED
    BY <1>1, <1>2, <2>1, RefsKept
<1>4. FrameSound(table', frame')
  <2>1. CASE RestInv
    <3>1. CASE Environment
      BY <1>1, <3>1 DEF Environment, Exit, Stop, Continue, KernelStep
    <3>2. CASE Aborted
      BY <1>1, <3>2 DEF Aborted, vars, shellVars
    <3>3. CASE Command
      BY <1>1, <2>1, <3>3, CommandSound DEF References
    <3> QED
      BY <1>1, <2>1, <3>1, <3>2, <3>3, StartSound, WaitingSound DEF Next
  <2>2. CASE FgInv
    <3>1. CASE Environment
      BY <1>1, <3>1 DEF Environment, Exit, Stop, Continue, KernelStep
    <3> QED
      BY <1>1, <2>2, <3>1, ForegroundKind, ForegroundSoundStep
  <2> QED
    BY <2>1, <2>2, SplitLemma
<1> QED
  BY <1>2, <1>3, <1>4 DEF WaitInv, References

(* A wait knows the jobs it is for, and what it has to do with them, whatever it has reaped. *)
THEOREM WaitInvariance ==
  Spec => []WaitInv
<1>1. Init => WaitInv
  <2>1. Init => FrameSound(table, frame)
    BY IdleSound DEF Init
  <2> QED
    BY <2>1 DEF Init, WaitInv
<1>2. IInv /\ WaitInv /\ [Next]_vars => WaitInv'
  <2> SUFFICES ASSUME IInv, WaitInv, [Next]_vars
               PROVE  WaitInv'
    OBVIOUS
  <2>1. CASE UNCHANGED vars
    <3>1. UNCHANGED <<table, frame, held, pipes, root, pendingCHLD, kernelCHLD>>
      BY <2>1 DEF vars, shellVars
    <3> QED
      BY <3>1 DEF WaitInv
  <2> QED
    BY <2>1, WaitInvStep
<1> QED
  BY <1>1, <1>2, Invariance, PTL DEF Spec

(* Every variable keeps its type, the frames of the waits among them. *)
THEOREM TypeCorrect ==
  Spec => []TypeOK
<1>1. IInv /\ WaitInv => TypeOK
  BY DEF IInv, WaitInv, ConsistentTable, FrameSound, TypeOK
<1> QED
  BY <1>1, Invariance, WaitInvariance, PTL

-----------------------------------------------------------------------------
(* What the waits return *)

\* waitForJobImpl returns, to a wait for one job, when that wait has ended.
WaitReturn ==
  \E T, status, err :
    /\ Return(T, status, err)
    /\ ConsistentTable(T) /\ SameProcs(table, T)
    /\ frame.pc \in {"enter", "impl"}
    /\ frame.job # NoJob /\ frame.fn # "poll" => WaitEnded(T, frame.job, status)

LEMMA EnterEnds ==
  ASSUME RestInv, FrameSound(table, frame), Enter
  PROVE  (frame'.pc = "impl" /\ frame'.fn = frame.fn) \/ WaitReturn
<1>1. PICK j : j = frame.job
  OBVIOUS
<1>2. ConsistentTable(table) /\ table \in Table
  BY DEF RestInv, OwnRunning, ConsistentTable
<1>3. /\ frame.pc = "enter" /\ OpSound(frame) /\ frame \in Frame
      /\ j # NoJob => j \in Job
  BY <1>1 DEF Enter, FrameSound, HasProcs
<1>4. ASSUME NEW status, NEW err, Return(table, status, err), j # NoJob => WaitEnded(table, j, status)
      PROVE  WaitReturn
  BY <1>1, <1>2, <1>3, <1>4 DEF WaitReturn, SameProcs
<1>5. CASE j # NoJob /\ ~Available(table, j)
  <2>1. CASE table.job[j].state = "UNCONTROLLED"
    <3>1. Return(table, -1, "ECHILD")
      BY <1>1, <1>5, <2>1 DEF Enter
    <3> QED
      BY <1>4, <3>1 DEF WaitEnded
  <2>2. CASE table.job[j].state # "UNCONTROLLED"
    <3>1. Return(table, ExitStatus(table, j), "none")
      BY <1>1, <1>5, <2>2 DEF Enter
    <3>2. table.job[j].state = "TERMINATED"
      BY <1>2, <1>3, <1>5, <2>2 DEF Table, JobObject, Available
    <3> QED
      BY <1>4, <3>1, <3>2 DEF WaitEnded, ExitStatus
  <2> QED
    BY <2>1, <2>2
<1>6. CASE j # NoJob /\ Available(table, j) /\ frame.op = "BLOCK_UNTRACED"
           /\ LastStopped(table.job[j]) # 0
  <2>1. Return(table, table.job[j].procs[LastStopped(table.job[j])].exitStatus, frame.err)
    BY <1>1, <1>6 DEF Enter
  <2>2. JobControl
    BY <1>3, <1>6 DEF OpSound
  <2>3. /\ LastStopped(table.job[j]) \in DOMAIN table.job[j].procs
        /\ table.job[j].procs[LastStopped(table.job[j])].state = "STOPPED"
    <3>1. table.job[j] \in JobObject
      BY <1>2, <1>3, <1>6 DEF Table
    <3> QED
      BY <1>6, <3>1, LastStoppedLemma
  <2> QED
    BY <1>4, <1>6, <2>1, <2>2, <2>3 DEF WaitEnded, Available
<1>7. CASE /\ ~(j # NoJob /\ ~Available(table, j))
           /\ ~(j # NoJob /\ Available(table, j) /\ frame.op = "BLOCK_UNTRACED"
                /\ LastStopped(table.job[j]) # 0)
  <2>1. frame' = [frame EXCEPT !.pc = "impl", !.ret = 0]
    BY <1>1, <1>7 DEF Enter
  <2> QED
    BY <1>3, <2>1 DEF Frame
<1> QED
  BY <1>5, <1>6, <1>7

LEMMA ImplReapEnds ==
  ASSUME RestInv, FrameSound(table, frame), NEW p \in Pid, ImplReap(p)
  PROVE  frame' = Abort \/ (frame'.pc = "impl" /\ frame'.fn = frame.fn) \/ WaitReturn
<1>1. PICK j : j = frame.job
  OBVIOUS
<1>2. KernelTypeOK /\ ConsistentTable(table) /\ table \in Table
  BY DEF RestInv, OwnRunning, ConsistentTable
<1>3. /\ frame.pc = "impl" /\ OpSound(frame) /\ frame \in Frame
      /\ j # NoJob => j \in Job /\ table.job[j].state = "RUNNING"
  BY <1>1 DEF ImplReap, FrameSound, HasProcs, Available
<1>4. CASE FindsDeleted(table, p)
  BY <1>4 DEF ImplReap
<1>5. CASE ~FindsDeleted(table, p)
  <2>1. PICK U : U = UpdateProcState(table, Report(p))
    OBVIOUS
  <2>2. ConsistentTable(U) /\ U \in Table /\ SameProcs(table, U)
    BY <1>2, <1>5, <2>1, UpdateSame DEF ImplReap
  <2>3. j # NoJob => U.job[j] \in JobObject /\ U.job[j].state \in {"RUNNING", "TERMINATED"}
    <3>1. Report(p) \in WaitReport /\ Report(p).pid = p
      BY <1>2, ReportLemma DEF ImplReap
    <3>2. OnlyEnded(table, U)
      BY <1>2, <1>5, <2>1, <3>1, UpdateProcStateLemma
    <3> QED
      BY <1>3, <2>2, <3>2 DEF OnlyEnded, Table
  <2>4. ASSUME NEW status, Return(U, status, "none"), j # NoJob => WaitEnded(U, j, status)
        PROVE  WaitReturn
    BY <1>1, <1>3, <2>2, <2>4 DEF WaitReturn
  <2>5. \/ j = NoJob /\ Return(U, 0, "none")
        \/ /\ j # NoJob /\ LastStopped(U.job[j]) # 0 /\ frame.op = "BLOCK_UNTRACED"
           /\ Return(U, U.job[j].procs[LastStopped(U.job[j])].exitStatus, "none")
        \/ j # NoJob /\ ~Available(U, j) /\ Return(U, ExitStatus(U, j), "none")
        \/ \E ret : frame' = [frame EXCEPT !.ret = ret]
    BY <1>1, <1>5, <2>1 DEF ImplReap
  <2>6. CASE j = NoJob /\ Return(U, 0, "none")
    BY <2>4, <2>6
  <2>7. CASE /\ j # NoJob /\ LastStopped(U.job[j]) # 0 /\ frame.op = "BLOCK_UNTRACED"
             /\ Return(U, U.job[j].procs[LastStopped(U.job[j])].exitStatus, "none")
    <3>1. PICK i : i \in DOMAIN U.job[j].procs /\ U.job[j].procs[i].state = "STOPPED"
      BY <2>3, <2>7, LastStoppedLemma
    <3>2. U.job[j].state = "RUNNING"
      BY <1>3, <2>2, <2>3, <2>7, <3>1 DEF ConsistentTable, SoundJob, AllTerminated
    <3>3. JobControl
      BY <1>3, <2>7 DEF OpSound
    <3> QED
      BY <2>4, <2>7, <3>1, <3>2, <3>3 DEF WaitEnded
  <2>8. CASE j # NoJob /\ ~Available(U, j) /\ Return(U, ExitStatus(U, j), "none")
    BY <2>3, <2>4, <2>8 DEF WaitEnded, Available, ExitStatus
  <2>9. CASE \E ret : frame' = [frame EXCEPT !.ret = ret]
    BY <1>3, <2>9 DEF Frame
  <2> QED
    BY <2>5, <2>6, <2>7, <2>8, <2>9
<1> QED
  BY <1>4, <1>5

LEMMA ImplEnds ==
  ASSUME RestInv, FrameSound(table, frame), ImplNothing \/ ImplInterrupted
  PROVE  WaitReturn
<1>1. ConsistentTable(table) /\ SameProcs(table, table)
  BY DEF RestInv, OwnRunning, SameProcs
<1>2. CASE ImplNothing
  <2>1. frame.fn = "poll"
    BY <1>2 DEF ImplNothing, FrameSound, OpSound
  <2> QED
    BY <1>1, <1>2, <2>1 DEF ImplNothing, WaitReturn
<1>3. CASE ImplInterrupted
  BY <1>1, <1>3 DEF ImplInterrupted, WaitReturn, WaitEnded
<1> QED
  BY <1>2, <1>3

(* Only a wait that has ended goes on to the waitForAny before its return. *)
LEMMA EndKind ==
  ASSUME RestInv, FrameSound(table, frame), Next, frame'.fn = "return",
         (frame.pc # "any" /\ frame'.pc = "any") \/ frame.fn # "return",
         frame'.job # NoJob \/ frame # Idle
  PROVE  WaitReturn
<1>1. frame \in Frame
  BY DEF FrameSound
<1>2. frame' # frame
  OBVIOUS
<1>3. frame'.fn \notin {"none", "run", "subst", "fg", "bg", "poll", "jobWait", "pipe",
                        "waitAll", "waitOne", "wait", "waitAnyOf"}
  OBVIOUS
<1>4. frame' # Idle /\ frame' # Abort
  BY <1>3 DEF Idle, Abort
<1>5. ~Start
  BY <1>2, <1>3 DEF Start, ForkAndExec, ForegroundPipeline, AsyncJob, LastPipe,
     PipelineForkFails, EnterChild, shellVars, Idle
<1>6. ~Command
  <2>1. frame = Idle => frame'.job # NoJob
    OBVIOUS
  <2>2. \A j : ~SendJob(j)
    BY <1>3 DEF SendJob, EnterAny, AnyFrame, Idle
  <2>3. \A p : ~KillPid(p) /\ ~SignalKill(p)
    BY <1>3 DEF KillPid, SignalKill, EnterAny, AnyFrame, Idle
  <2>4. \A arg : ~Fg(arg) /\ \A ids : ~Bg(arg, ids)
    BY <1>3 DEF Fg, Bg, EnterAny, AnyFrame, Idle
  <2>5. \A fn : ~WaitAll(fn)
    BY <1>3, <2>1 DEF WaitAll, EnterAny, AnyFrame, EnterFrame, Idle
  <2>6. \A args, fn : ~WaitIds(args, fn)
    BY <1>3, <1>4, <2>1, ZenonT(40) DEF WaitIds, EnterAny, AnyFrame, EnterFrame, Idle
  <2>7. \A j : ~JobPoll(j) /\ ~DestroyPipeline(j) /\ \A errno : ~JobWait(j, errno)
    BY <1>3 DEF JobPoll, DestroyPipeline, JobWait, WaitFrame, EnterFrame, Idle
  <2>8. ~HangUp /\ \A j : ~JobDetach(j) /\ ~DropReference(j)
    BY <1>2 DEF HangUp, shellVars, JobDetach, DropReference
  <2> QED
    BY <2>2, <2>3, <2>4, <2>5, <2>6, <2>7, <2>8 DEF Command, KillJob, JobRaise
<1>7. ~ProcWait /\ ~ProcWaitInterrupted
  BY DEF RestInv, RestFrame, ProcWait, ProcWaitInterrupted
<1>8. \A p \in Pid : ~AnyReap(p)
  BY <1>2, <1>4 DEF AnyReap
<1>9. ~AnyNothing
  BY <1>1 DEF AnyNothing, Frame
<1>10. ~AnyDone
  <2>1. CASE frame.fn = "fg"
    BY <1>1, <1>3, <2>1 DEF AnyDone, Frame
  <2>2. CASE frame.fn = "bg"
    BY <1>3, <2>2 DEF AnyDone, EnterAny, AnyFrame, Idle
  <2>3. CASE frame.fn \notin {"fg", "bg"}
    BY <1>4, <2>3 DEF AnyDone
  <2> QED
    BY <2>1, <2>2, <2>3
<1>11. ~CheckVMEvent
  BY <1>3 DEF CheckVMEvent, EnterAny, AnyFrame, Idle
<1>12. ~(frame'.pc = "impl" /\ frame'.fn = frame.fn)
  OBVIOUS
<1>13. ~Environment /\ ~Aborted
  BY <1>2 DEF Environment, Exit, Stop, Continue, KernelStep, Aborted, vars, shellVars
<1>14. Enter => WaitReturn
  BY <1>12, EnterEnds
<1>15. \A p \in Pid : ImplReap(p) => WaitReturn
  BY <1>4, <1>12, ImplReapEnds
<1>16. ImplNothing \/ ImplInterrupted => WaitReturn
  BY ImplEnds
<1> QED
  BY <1>5, <1>6, <1>7, <1>8, <1>9, <1>10, <1>11, <1>13, <1>14, <1>15, <1>16 DEF Next, Waiting

(* What a wait for one job returns, by the time it does. *)
LEMMA WaitEndsStep ==
  ASSUME IInv, WaitInv, Next, frame.pc # "any", frame'.pc = "any", frame'.fn = "return",
         frame'.job # NoJob
  PROVE  WaitEnded(table', frame'.job, frame'.ret)
<1>1. FrameSound(table, frame) /\ frame \in Frame /\ ConsistentTable(table) /\ table \in Table
  BY DEF WaitInv, FrameSound, IInv, ConsistentTable
<1>2. ASSUME NEW T, NEW U, NEW j \in Job, SameJob(T, U, j), NEW ret, WaitEnded(T, j, ret)
      PROVE  WaitEnded(U, j, ret)
  BY <1>2 DEF SameJob, WaitEnded
<1>3. CASE RestInv
  <2>1. WaitReturn
    BY <1>1, <1>3, EndKind
  <2>2. PICK T, status, err :
          /\ Return(T, status, err) /\ ConsistentTable(T) /\ frame.pc \in {"enter", "impl"}
          /\ frame.job # NoJob /\ frame.fn # "poll" => WaitEnded(T, frame.job, status)
    BY <2>1 DEF WaitReturn
  <2>3. /\ frame.fn \in {"jobWait", "pipe"} /\ table' = RemoveTerminatedJobs(T)
        /\ frame'.job = frame.job /\ frame'.ret = status
    <3>1. /\ frame' # Idle
          /\ frame' # [frame EXCEPT !.pc = "enter"]
          /\ \A fn, j, op, todo, err1 : frame' # EnterFrame(fn, j, op, todo, err1)
      <4>1. frame' # Idle /\ \A fn, j, op, todo, err1 : frame' # EnterFrame(fn, j, op, todo, err1)
        <5>1. ASSUME NEW fn, NEW j, NEW op, NEW todo, NEW err1
              PROVE  EnterFrame(fn, j, op, todo, err1).pc = "enter"
          BY DEF Idle, EnterFrame
        <5>2. Idle.pc = "idle"
          BY DEF Idle
        <5> QED
          BY <5>1, <5>2
      <4>2. frame' # [frame EXCEPT !.pc = "enter"]
        BY <1>1 DEF Frame
      <4> QED
        BY <4>1, <4>2
    <3>2. \A fn, ret, err1 : frame' # AnyFrame(fn, NoJob, ret, err1)
      BY DEF AnyFrame, Idle
    <3>3. frame.fn \in {"jobWait", "pipe"}
      BY <2>2, <3>1, <3>2 DEF Return, EnterAny
    <3>4. table' = RemoveTerminatedJobs(T) /\ frame' = AnyFrame("return", frame.job, status, err)
      BY <2>2, <3>3 DEF Return, EnterAny
    <3> QED
      BY <3>3, <3>4 DEF AnyFrame, Idle
  <2>4. frame.job \in Job
    BY <1>1, <2>3 DEF Frame
  <2>5. SameJob(T, table', frame.job)
    BY <2>2, <2>3, <2>4, RemoveTerminatedJobsLemma DEF SameJobs, SameJob
  <2> QED
    BY <1>2, <2>2, <2>3, <2>4, <2>5
<1>4. CASE FgInv
  <2>1. PICK j, k, jo : j = frame.job /\ k = frame.idx /\ jo = table.job[j]
    OBVIOUS
  <2>2. /\ j \in Job /\ frame.pc = "proc" /\ OpSound(frame) /\ FgOK(table, j, Children)
        /\ jo \in JobObject /\ SoundJob(jo) /\ jo.state = "RUNNING"
        /\ k \in DOMAIN jo.procs
    BY <1>1, <1>4, <2>1 DEF FgInv, FgOK, Awaited, FrameSound, ConsistentTable, Table
  <2>3. ASSUME NEW T, NEW alive, FgOK(T, j, alive), NEW ret, NEW err, FinishForeground(T, ret, err)
        PROVE  frame'.job = j /\ frame'.ret = ret /\ SameJob(T, table', j)
    <3>1. frame.fn # "subst"
      BY <2>3 DEF FinishForeground, Idle
    <3>2. frame' = AnyFrame("return", j, ret, err)
      BY <2>1, <2>3, <3>1 DEF FinishForeground, EnterAny
    <3>3. SameJob(T, table', j)
      BY <2>1, <2>3, <3>1, FinishTable
    <3> QED
      BY <3>2, <3>3 DEF AnyFrame, Idle
  <2>4. CASE ProcWaitInterrupted
    BY <2>2, <2>3, <2>4 DEF ProcWaitInterrupted, WaitEnded
  <2>5. CASE ProcWait
    <3>1. PICK p, new, jn, U :
            /\ FgWrite(j, k, p, new, jn, U)
            /\ FgOK(U, j, Children')
            /\ jn.state = "RUNNING" => ~AllTerminated(jn.procs)
            /\ \/ k = Len(jo.procs) /\ FinishForeground(U, new.exitStatus, "none")
               \/ frame' = [frame EXCEPT !.idx = @ + 1]
      BY <1>4, <2>1, <2>5, ProcWaitShape
    <3>2. k = Len(jo.procs) /\ FinishForeground(U, new.exitStatus, "none")
      BY <1>1, <2>2, <3>1 DEF Frame
    <3>3. U.job = [table.job EXCEPT ![j] = jn] /\ Written(jo, k, new, jn)
      BY <2>1, <3>1 DEF FgWrite, WithJob
    <3>4. /\ U.job[j] = jn /\ DOMAIN jn.procs = DOMAIN jo.procs
          /\ \A i \in DOMAIN jo.procs : jn.procs[i] = IF i = k THEN new ELSE jo.procs[i]
          /\ jn.state \in {"RUNNING", "TERMINATED"}
          /\ jn.procs \in Seq(Proc)
      BY <1>1, <2>2, <3>3 DEF Written, Table, JobObject
    <3>5. CASE jn.state = "TERMINATED"
      <4>1. Len(jn.procs) = k
        <5>1. DOMAIN jn.procs = 1 .. Len(jn.procs) /\ DOMAIN jo.procs = 1 .. Len(jo.procs)
              /\ Len(jn.procs) \in Nat /\ Len(jo.procs) \in Nat
          BY <2>2, <3>4, LenProperties DEF JobObject
        <5>2. 1 .. Len(jn.procs) = 1 .. Len(jo.procs)
          BY <3>4, <5>1
        <5> QED
          BY <3>2, <5>1, <5>2
      <4>2. jn.procs[Len(jn.procs)].exitStatus = new.exitStatus
        BY <2>2, <3>4, <4>1
      <4>3. WaitEnded(U, j, new.exitStatus)
        BY <3>4, <3>5, <4>2 DEF WaitEnded
      <4> QED
        BY <1>2, <2>2, <2>3, <3>1, <3>2, <4>3
    <3>6. CASE jn.state = "RUNNING"
      <4>1. PICK i \in DOMAIN jn.procs : jn.procs[i].state # "TERMINATED"
        BY <3>1, <3>6 DEF AllTerminated
      <4>2. jn.procs[i].state = "STOPPED" /\ JobControl
        <5>1. \A m \in DOMAIN jo.procs :
                IF m >= k THEN jo.procs[m].state = "RUNNING"
                ELSE jo.procs[m].state = "TERMINATED" \/ (JobControl /\ jo.procs[m].state = "STOPPED")
          BY <1>1, <2>1, <2>2 DEF FrameSound
        <5>2. CASE i # k
          <6>1. ~(i >= k)
            <7>1. DOMAIN jo.procs = 1 .. Len(jo.procs) /\ Len(jo.procs) \in Nat
              BY <2>2, LenProperties DEF JobObject
            <7> QED
              BY <3>2, <3>4, <4>1, <5>2, <7>1
          <6> QED
            BY <3>4, <4>1, <5>1, <5>2, <6>1
        <5>3. CASE i = k
          <6>1. jn.procs[i] = new
            BY <2>2, <3>4, <5>3
          <6>2. k \in Nat
            BY <1>1, <2>1, JobAssumption DEF Frame, Offset
          <6>3. new.state = "TERMINATED" \/ (JobControl /\ new.state = "STOPPED")
            BY <1>1, <2>1, <2>2, <3>1, <6>2, FgReportLemma
          <6> QED
            BY <4>1, <6>1, <6>3
        <5> QED
          BY <5>2, <5>3
      <4>3. WaitEnded(U, j, new.exitStatus)
        BY <3>4, <3>6, <4>1, <4>2 DEF WaitEnded
      <4> QED
        BY <1>2, <2>2, <2>3, <3>1, <3>2, <4>3
    <3> QED
      BY <3>4, <3>5, <3>6
  <2> QED
    BY <1>1, <1>4, <2>2, <2>4, <2>5, ForegroundKind
    DEF Environment, Exit, Stop, Continue, KernelStep
<1> QED
  BY <1>3, <1>4, SplitLemma

(* The exit statuses of waitForJob and of waitForAll end every wait for one job. *)
THEOREM WaitsEnd ==
  Spec => WaitEndsWithJob
<1>1. IInv /\ WaitInv /\ [Next]_vars =>
        [frame.pc # "any" /\ frame'.pc = "any" /\ frame'.fn = "return" /\ frame'.job # NoJob =>
           WaitEnded(table', frame'.job, frame'.ret)
        ]_vars
  BY WaitEndsStep
<1> QED
  BY <1>1, Invariance, WaitInvariance, PTL DEF Spec, WaitEndsWithJob

LEMMA WaitIdsStep ==
  ASSUME IInv, WaitInv, Next, frame.fn \in {"wait", "waitAnyOf"}, frame'.fn = "return",
         frame'.ret # -1
  PROVE  IdsAnswered(table', frame.fn, frame.todo, frame'.ret)
<1>1. FrameSound(table, frame) /\ frame \in Frame /\ frame # Idle
  BY DEF WaitInv, FrameSound, Idle
<1>2. RestInv
  BY <1>1, SplitLemma DEF FgInv, FrameSound
<1>3. WaitReturn
  BY <1>1, <1>2, EndKind
<1>4. PICK T, status, err :
        /\ Return(T, status, err) /\ ConsistentTable(T) /\ SameProcs(table, T)
        /\ frame.pc \in {"enter", "impl"}
        /\ frame.job # NoJob /\ frame.fn # "poll" => WaitEnded(T, frame.job, status)
  BY <1>3 DEF WaitReturn
<1>5. PICK R : R = RemoveTerminatedJobs(T)
  OBVIOUS
<1>6. ConsistentTable(R) /\ R \in Table /\ SameJobs(T, R)
  BY <1>4, <1>5, RemoveTerminatedJobsLemma DEF ConsistentTable
<1>7. PICK todo : todo = frame.todo
  OBVIOUS
<1>8. CASE frame.fn = "wait"
  <2>1. PICK t : t = Head(todo)
    OBVIOUS
  <2>2. \A job, ret, err1 : AnyFrame("return", job, ret, err1).ret = ret
    BY DEF AnyFrame, Idle
  <2>3. \A j, op, rest, err1 : EnterFrame("wait", j, op, rest, err1).fn = "wait"
    BY DEF EnterFrame, Idle
  <2>4. /\ table' = R /\ status # -1 /\ Len(todo) = 1
        /\ frame'.ret = TargetStatus(R, t, status)
    <3>1. status # -1
      BY <1>4, <1>8, <2>2 DEF Return, EnterAny
    <3>2. Len(todo) = 1
      BY <1>4, <1>7, <1>8, <2>3, <3>1 DEF Return
    <3> QED
      BY <1>4, <1>5, <1>7, <1>8, <2>1, <2>2, <3>1, <3>2 DEF Return, EnterAny
  <2>5. /\ todo \in Seq(Target) /\ todo # <<>> /\ frame.job = todo[1].job /\ frame.job \in Job
    <3>1. todo \in Seq(Target) /\ todo # <<>> /\ frame.job = todo[1].job
      BY <1>1, <1>4, <1>7, <1>8 DEF FrameSound, Frame
    <3>2. todo[1] \in Target
      BY <2>4, <3>1, ElementOfSeq
    <3> QED
      BY <3>1, <3>2 DEF Target
  <2>6. t = todo[1] /\ t.job = frame.job /\ DOMAIN todo = {1}
    BY <2>1, <2>4, <2>5, LenProperties
  <2>7. WaitEnded(R, t.job, status)
    <3>1. WaitEnded(T, frame.job, status)
      BY <1>4, <1>8, <2>5, JobAssumption
    <3> QED
      BY <1>6, <2>5, <2>6, <3>1, ZenonT(40) DEF WaitEnded, SameJobs
  <2>8. PICK jo : jo = R.job[t.job]
    OBVIOUS
  <2>9. CASE jo.state = "TERMINATED" /\ status = jo.procs[Len(jo.procs)].exitStatus
    <3>1. EndedTargets(R, todo) # {}
      BY <2>6, <2>8, <2>9 DEF EndedTargets, Available
    <3>2. AllTerminated(jo.procs)
      BY <1>6, <2>5, <2>6, <2>8, <2>9 DEF ConsistentTable, SoundJob
    <3>3. t.offset # 0 => t.offset \in DOMAIN jo.procs
      <4>1. t.offset \in {0} \cup DOMAIN table.job[t.job].procs
        BY <1>1, <1>4, <1>7, <2>6 DEF FrameSound
      <4>2. DOMAIN jo.procs = DOMAIN table.job[t.job].procs
        BY <1>4, <1>6, <2>5, <2>6, <2>8 DEF SameJobs, SameProcs
      <4> QED
        BY <4>1, <4>2
    <3>4. frame'.ret = jo.procs[IF t.offset = 0 THEN Len(jo.procs) ELSE t.offset].exitStatus
      BY <2>4, <2>8, <2>9, <3>2, <3>3 DEF TargetStatus, AllTerminated
    <3> QED
      BY <1>7, <1>8, <2>4, <2>6, <2>8, <3>1, <3>4 DEF IdsAnswered
  <2>10. CASE JobControl /\ \E i \in DOMAIN jo.procs : jo.procs[i].state = "STOPPED"
    BY <1>7, <1>8, <2>4, <2>6, <2>8, <2>10 DEF IdsAnswered
  <2> QED
    BY <2>4, <2>7, <2>8, <2>9, <2>10 DEF WaitEnded
<1>9. CASE frame.fn = "waitAnyOf"
  <2>1. PICK ended : ended = EndedTargets(R, todo)
    OBVIOUS
  <2>2. \A job, ret, err1 : AnyFrame("return", job, ret, err1).ret = ret
    BY DEF AnyFrame, Idle
  <2>3. [frame EXCEPT !.pc = "enter"].fn = frame.fn
    BY <1>1 DEF Frame
  <2>4. table' = R /\ ended # {} /\ frame'.ret = ExitStatus(R, todo[Min(ended)].job)
    <3>1. table' = R
      BY <1>4, <1>5, <1>9 DEF Return
    <3>2. status # -1
      BY <1>4, <1>9, <2>2 DEF Return, EnterAny
    <3>3. ended # {}
      BY <1>4, <1>5, <1>7, <1>9, <2>1, <2>3, <3>2 DEF Return
    <3> QED
      BY <1>4, <1>5, <1>7, <1>9, <2>1, <2>2, <3>1, <3>2, <3>3 DEF Return, EnterAny
  <2>5. Min(ended) \in ended
    <3>1. todo \in Seq(Target)
      BY <1>1, <1>7 DEF Frame
    <3>2. ended \in SUBSET Nat
      BY <2>1, <3>1, LenProperties DEF EndedTargets
    <3> QED
      BY <2>4, <3>2, MinLemma
  <2> QED
    BY <1>7, <1>9, <2>1, <2>4, <2>5 DEF IdsAnswered
<1> QED
  BY <1>8, <1>9

(* `wait id ...' returns the status it was asked for, whatever other jobs it reaped. *)
THEOREM IdsAreAnswered ==
  Spec => WaitIdsStatus
<1>1. IInv /\ WaitInv /\ [Next]_vars =>
        [frame.fn \in {"wait", "waitAnyOf"} /\ frame'.fn = "return" /\ frame'.ret # -1 =>
           IdsAnswered(table', frame.fn, frame.todo, frame'.ret)
        ]_vars
  BY WaitIdsStep
<1> QED
  BY <1>1, Invariance, WaitInvariance, PTL DEF Spec, WaitIdsStatus
=============================================================================
