-------------------------- MODULE JobControlProofs --------------------------
(***************************************************************************)
(* The inductive invariant of JobControl, and what follows from it: the    *)
(* table, the process table and the children of the shell stay consistent, *)
(* for any number of jobs, processes and pids.                             *)
(***************************************************************************)
EXTENDS JobControlProperties, JobTableProofs

-----------------------------------------------------------------------------
(* The kernel *)

(* What waitpid returns is a report, an exit exactly for a zombie. *)
LEMMA ReportLemma ==
  ASSUME KernelTypeOK, NEW p \in Pid, NEW op, Reportable(p, op)
  PROVE  /\ Report(p) \in WaitReport
         /\ Report(p).pid = p
         /\ Report(p).kind = "exited" <=> proc[p] = "zombie"
<1>1. SIGNALED(SIGTSTP) \in WaitStatus /\ code[p] \in WaitStatus /\ event[p] \in EventKind
  BY DEF KernelTypeOK, WaitStatus
<1>2. CASE proc[p] = "zombie"
  BY <1>1, <1>2 DEF Report, WaitReport
<1>3. CASE proc[p] # "zombie"
  <2>1. event[p] \in {"stopped", "continued"}
    BY <1>3 DEF Reportable
  <2> QED
    BY <1>1, <1>3, <2>1 DEF Report, WaitReport
<1> QED
  BY <1>2, <1>3

(* Reaping takes the zombie, and nobody else, from the children. *)
LEMMA ReapedLemma ==
  ASSUME KernelTypeOK, NEW p \in Pid, Reaped(p)
  PROVE  /\ KernelTypeOK'
         /\ proc[p] = "zombie" => Children' = Children \ {p}
         /\ proc[p] # "zombie" => Children' = Children
<1>1. EXIT_OK \in WaitStatus /\ "none" \in EventKind /\ "free" \in ProcState
  BY DEF WaitStatus, EventKind, ProcState
<1>2. KernelTypeOK'
  BY <1>1 DEF KernelTypeOK, Reaped
<1>3. ASSUME proc[p] = "zombie"
      PROVE  Children' = Children \ {p}
  BY <1>3 DEF Reaped, Children, KernelTypeOK
<1>4. ASSUME proc[p] # "zombie"
      PROVE  Children' = Children
  BY <1>4 DEF Reaped, Children
<1> QED
  BY <1>2, <1>3, <1>4

(* No other step of the kernel loses a child. *)
LEMMA ForkedLemma ==
  ASSUME KernelTypeOK, NEW ps \in SUBSET Pid, NEW group \in Pid \cup {ShellGroup},
         Forked(ps, group)
  PROVE  KernelTypeOK' /\ Children' = Children \cup ps
  BY DEF KernelTypeOK, Forked, Children, ProcState, EventKind

LEMMA KilledLemma ==
  ASSUME KernelTypeOK, NEW ps, Killed(ps)
  PROVE  KernelTypeOK' /\ Children' = Children
  BY DEF KernelTypeOK, Killed, Children, ProcState

LEMMA ContinuedLemma ==
  ASSUME KernelTypeOK, NEW ps, Continued(ps)
  PROVE  KernelTypeOK' /\ Children' = Children
  BY DEF KernelTypeOK, Continued, Children, ProcState, EventKind

LEMMA ChildStepLemma ==
  ASSUME KernelTypeOK, NEW p \in Pid, ChildExit(p) \/ ChildStop(p) \/ ChildContinue(p)
  PROVE  KernelTypeOK' /\ Children' = Children
<1>1. CASE ChildExit(p)
  <2>1. PICK status \in WaitStatus : code' = [code EXCEPT ![p] = status]
    BY <1>1 DEF ChildExit, WaitStatus
  <2> QED
    BY <1>1, <2>1 DEF KernelTypeOK, ChildExit, Children, ProcState, EventKind
<1>2. CASE ChildStop(p)
  BY <1>2 DEF KernelTypeOK, ChildStop, Children, ProcState, EventKind
<1>3. CASE ChildContinue(p)
  BY <1>3, ContinuedLemma DEF ChildContinue
<1> QED
  BY <1>1, <1>2, <1>3

-----------------------------------------------------------------------------
(* The table while no job is waited for in the foreground *)

\* Every running job is one of the table, and its processes are among `alive'.
OwnRunning(T, alive) ==
  /\ ConsistentTable(T)
  /\ \A j \in Job : T.job[j].state = "RUNNING" =>
       /\ AttachedIn(T, j)
       /\ \A i \in DOMAIN T.job[j].procs :
            T.job[j].procs[i].pid # NoPid => T.job[j].procs[i].pid \in alive

(* A process that has been reaped was the one recorded as ended. *)
LEMMA UpdateOwnLemma ==
  ASSUME NEW T, NEW alive, OwnRunning(T, alive), NEW ret \in WaitReport,
         ~FindsDeleted(T, ret.pid), NEW rest,
         rest = IF ret.kind = "exited" THEN alive \ {ret.pid} ELSE alive
  PROVE  OwnRunning(UpdateProcState(T, ret), rest)
<1>1. PICK U : U = UpdateProcState(T, ret)
  OBVIOUS
<1>2. ConsistentTable(T)
  BY DEF OwnRunning
<1>3. /\ ConsistentTable(U)
      /\ U.jobs = T.jobs
      /\ OnlyEnded(T, U)
      /\ ret.kind = "exited" =>
           \A j \in Job : \A i \in DOMAIN U.job[j].procs :
             AttachedIn(U, j) => U.job[j].procs[i].pid # ret.pid
  BY <1>1, <1>2, UpdateProcStateLemma
<1>4. SUFFICES ASSUME NEW j \in Job, U.job[j].state = "RUNNING"
               PROVE  /\ AttachedIn(U, j)
                      /\ \A i \in DOMAIN U.job[j].procs :
                           U.job[j].procs[i].pid # NoPid => U.job[j].procs[i].pid \in rest
  BY <1>1, <1>3 DEF OwnRunning
<1>5. T.job[j].state = "RUNNING"
  BY <1>3, <1>4 DEF OnlyEnded
<1>6. AttachedIn(U, j)
  BY <1>3, <1>5 DEF OwnRunning, AttachedIn
<1>7. ASSUME NEW i \in DOMAIN U.job[j].procs, U.job[j].procs[i].pid # NoPid
      PROVE  U.job[j].procs[i].pid \in rest
  <2>1. i \in DOMAIN T.job[j].procs /\ U.job[j].procs[i].pid = T.job[j].procs[i].pid
    BY <1>3, <1>7 DEF OnlyEnded
  <2>2. U.job[j].procs[i].pid \in alive
    BY <1>5, <1>7, <2>1 DEF OwnRunning
  <2> QED
    BY <1>3, <1>6, <1>7, <2>2
<1> QED
  BY <1>6, <1>7

(* A process whose entry is deleted, or has none, belongs to no job that runs. *)
LEMMA DeletedOwnLemma ==
  ASSUME NEW T, NEW alive, OwnRunning(T, alive), NEW p \in Pid, FindsDeleted(T, p)
  PROVE  OwnRunning(T, alive \ {p})
<1>1. T \in Table /\ IdsMatchIn(T) /\ ProcsRegisteredIn(T)
  BY DEF OwnRunning, ConsistentTable
<1>2. ASSUME NEW j \in Job, NEW i \in DOMAIN T.job[j].procs, AttachedIn(T, j),
             T.job[j].procs[i].pid = p
      PROVE  FALSE
  <2>1. p # NoPid /\ 0 \notin JobId
    BY PidAssumption, JobAssumption DEF JobId
  <2>2. T.entries[p] = [jobId |-> T.job[j].jobID, offset |-> i]
    BY <1>1, <1>2, <2>1 DEF ProcsRegisteredIn
  <2>3. T.job[j].jobID # 0
    <3>1. PICK id \in JobId : T.jobs[id] = j
      BY <1>2 DEF AttachedIn
    <3> QED
      BY <1>1, <2>1, <3>1, JobAssumption DEF IdsMatchIn
  <2>4. T.entries[p] # NoEntry /\ ~IsDeleted(T.entries[p])
    <3>1. T.job[j].jobID \in 0 .. JobLimit
      BY <1>1 DEF Table, JobObject
    <3>2. T.entries[p].jobId = T.job[j].jobID
      BY <2>2
    <3> QED
      BY <2>3, <3>1, <3>2, JobAssumption DEF NoEntry, IsDeleted
  <2>5. FindProc(T, p) = p
    BY <1>1, <2>4, FindProcLemma
  <2> QED
    BY <2>4, <2>5 DEF FindsDeleted
<1> QED
  BY <1>2 DEF OwnRunning

(* The removal of the ended jobs leaves the running ones in the table. *)
LEMMA RemoveOwnLemma ==
  ASSUME NEW T, NEW alive, OwnRunning(T, alive)
  PROVE  /\ OwnRunning(RemoveTerminatedJobs(T), alive)
         /\ SettledIn(RemoveTerminatedJobs(T))
<1>1. PICK U : U = RemoveTerminatedJobs(T)
  OBVIOUS
<1>2. ConsistentTable(U) /\ SettledIn(U) /\ SameJobs(T, U) /\ StillAttached(T, U)
  BY <1>1, RemoveTerminatedJobsLemma DEF OwnRunning
<1>3. ASSUME NEW j \in Job, U.job[j].state = "RUNNING"
      PROVE  /\ AttachedIn(U, j)
             /\ \A i \in DOMAIN U.job[j].procs :
                  U.job[j].procs[i].pid # NoPid => U.job[j].procs[i].pid \in alive
  <2>1. T.job[j].state = "RUNNING" /\ U.job[j].procs = T.job[j].procs
    BY <1>2, <1>3 DEF SameJobs
  <2>2. AttachedIn(T, j) /\ Available(T, j)
    BY <2>1 DEF OwnRunning, Available
  <2> QED
    BY <1>2, <2>1, <2>2 DEF StillAttached, OwnRunning
<1> QED
  BY <1>1, <1>2, <1>3 DEF OwnRunning

(* Nor is a running job deleted with its last reference. *)
LEMMA CollectOwnLemma ==
  ASSUME NEW T, NEW alive, OwnRunning(T, alive), NEW refs
  PROVE  /\ OwnRunning(Collected(T, refs), alive)
         /\ SettledIn(T) => SettledIn(Collected(T, refs))
<1>1. PICK U : U = Collected(T, refs)
  OBVIOUS
<1>2. /\ ConsistentTable(U)
      /\ \A k \in Job : U.job[k] \in {T.job[k], Unused}
      /\ U.jobs = T.jobs
      /\ SettledIn(T) => SettledIn(U)
  BY <1>1, CollectedLemma DEF OwnRunning
<1>3. Unused.state # "RUNNING"
  BY DEF Unused
<1>4. ASSUME NEW j \in Job, U.job[j].state = "RUNNING"
      PROVE  U.job[j] = T.job[j] /\ (AttachedIn(T, j) => AttachedIn(U, j))
  BY <1>2, <1>3, <1>4 DEF AttachedIn
<1> QED
  BY <1>1, <1>2, <1>4 DEF OwnRunning

(* The frame of any operation, at rest, waiting or stopped, but for the foreground
   wait. *)
RestFrame(f) ==
  /\ DOMAIN f = DOMAIN Idle
  /\ f.pc \in {"idle", "enter", "impl", "any", "anyEnd", "abort"}

RestInv ==
  /\ KernelTypeOK
  /\ OwnRunning(table, Children)
  /\ RestFrame(frame)
  /\ frame.pc = "idle" => SettledIn(table)

(* The frames the operations build. *)
LEMMA FrameLemma ==
  /\ RestFrame(Idle) /\ Idle.pc = "idle"
  /\ RestFrame(Abort) /\ Abort.pc # "idle"
  /\ \A fn, job, ret, err : /\ RestFrame(AnyFrame(fn, job, ret, err))
                            /\ AnyFrame(fn, job, ret, err).pc # "idle"
  /\ \A fn, j, op, todo, err : /\ RestFrame(EnterFrame(fn, j, op, todo, err))
                               /\ EnterFrame(fn, j, op, todo, err).pc # "idle"
  BY DEF RestFrame, Idle, Abort, AnyFrame, EnterFrame

(* waitForJobImpl returns with the table T: the callers leave it settled when they
   come back to the VM's loop. *)
LEMMA ReturnLemma ==
  ASSUME NEW T, NEW alive, OwnRunning(T, alive), RestFrame(frame),
         NEW status, NEW err, Return(T, status, err)
  PROVE  /\ OwnRunning(table', alive)
         /\ RestFrame(frame')
         /\ frame'.pc = "idle" => SettledIn(table')
<1>1. PICK R : R = RemoveTerminatedJobs(T)
  OBVIOUS
<1>2. PICK C : C = Collected(R, held \cup pipes)
  OBVIOUS
<1>3. OwnRunning(R, alive) /\ SettledIn(R) /\ OwnRunning(C, alive) /\ SettledIn(C)
  BY <1>1, <1>2, RemoveOwnLemma, CollectOwnLemma
<1>4. RestFrame([frame EXCEPT !.pc = "enter"]) /\ [frame EXCEPT !.pc = "enter"].pc # "idle"
  BY DEF RestFrame, Idle
<1>5. \/ table' = C /\ frame' = Idle
      \/ table' \in {T, R} /\ RestFrame(frame') /\ frame'.pc # "idle"
  <2>1. CASE frame.fn \in {"poll", "fg"}
    BY <1>1, <1>2, <2>1 DEF Return
  <2>2. CASE frame.fn \in {"jobWait", "pipe"}
    BY <1>1, <2>2, FrameLemma DEF Return, EnterAny
  <2>3. CASE frame.fn = "wait"
    BY <1>1, <2>3, FrameLemma DEF Return, EnterAny
  <2>4. CASE frame.fn = "waitAnyOf"
    BY <1>1, <1>4, <2>4, FrameLemma DEF Return, EnterAny
  <2>5. CASE frame.fn \in {"waitAll", "waitOne"}
    BY <1>1, <2>5, FrameLemma DEF Return, EnterAny
  <2> QED
    BY <2>1, <2>2, <2>3, <2>4, <2>5 DEF Return
<1> QED
  BY <1>3, <1>5, FrameLemma

-----------------------------------------------------------------------------
(* The steps of the waits *)

LEMMA UnchangedKernelLemma ==
  ASSUME KernelTypeOK, UNCHANGED kernelVars
  PROVE  KernelTypeOK' /\ Children' = Children
  BY DEF KernelTypeOK, kernelVars, Children

(* A report for p, taken by waitpid(-1), is recorded in the table. *)
LEMMA ReapOwnLemma ==
  ASSUME KernelTypeOK, OwnRunning(table, Children), NEW p \in Pid, NEW op,
         Reportable(p, op), Reaped(p)
  PROVE  /\ KernelTypeOK'
         /\ FindsDeleted(table, p) => OwnRunning(table, Children')
         /\ ~FindsDeleted(table, p) =>
              OwnRunning(UpdateProcState(table, Report(p)), Children')
<1>1. /\ Report(p) \in WaitReport
      /\ Report(p).pid = p
      /\ Report(p).kind = "exited" <=> proc[p] = "zombie"
  BY ReportLemma
<1>2. /\ KernelTypeOK'
      /\ Children' = IF Report(p).kind = "exited" THEN Children \ {p} ELSE Children
  BY <1>1, ReapedLemma
<1>3. ASSUME FindsDeleted(table, p)
      PROVE  OwnRunning(table, Children')
  <2>1. OwnRunning(table, Children \ {p})
    BY <1>3, DeletedOwnLemma
  <2> QED
    BY <1>2, <2>1
<1>4. ASSUME ~FindsDeleted(table, p)
      PROVE  OwnRunning(UpdateProcState(table, Report(p)), Children')
  BY <1>1, <1>2, <1>4, UpdateOwnLemma
<1> QED
  BY <1>2, <1>3, <1>4

LEMMA AnyReapStep ==
  ASSUME RestInv, NEW p \in Pid, AnyReap(p)
  PROVE  RestInv'
<1>1. /\ KernelTypeOK'
      /\ FindsDeleted(table, p) => OwnRunning(table, Children')
      /\ ~FindsDeleted(table, p) =>
           OwnRunning(UpdateProcState(table, Report(p)), Children')
  BY ReapOwnLemma DEF RestInv, AnyReap
<1>2. frame.pc = "any" /\ RestFrame(frame)
  BY DEF RestInv, AnyReap
<1>3. CASE FindsDeleted(table, p)
  <2>1. frame' = Abort /\ table' = table
    BY <1>3 DEF AnyReap
  <2> QED
    BY <1>1, <1>3, <2>1, FrameLemma DEF RestInv
<1>4. CASE ~FindsDeleted(table, p)
  <2>1. frame' = frame /\ table' = UpdateProcState(table, Report(p))
    BY <1>4 DEF AnyReap
  <2> QED
    BY <1>1, <1>2, <1>4, <2>1 DEF RestInv
<1> QED
  BY <1>3, <1>4

LEMMA ImplReapStep ==
  ASSUME RestInv, NEW p \in Pid, ImplReap(p)
  PROVE  RestInv'
<1>1. /\ KernelTypeOK'
      /\ FindsDeleted(table, p) => OwnRunning(table, Children')
      /\ ~FindsDeleted(table, p) =>
           OwnRunning(UpdateProcState(table, Report(p)), Children')
  BY ReapOwnLemma DEF RestInv, ImplReap
<1>2. frame.pc = "impl" /\ RestFrame(frame)
  BY DEF RestInv, ImplReap
<1>3. CASE FindsDeleted(table, p)
  <2>1. frame' = Abort /\ table' = table
    BY <1>3 DEF ImplReap
  <2> QED
    BY <1>1, <1>3, <2>1, FrameLemma DEF RestInv
<1>4. CASE ~FindsDeleted(table, p)
  <2>1. PICK T : T = UpdateProcState(table, Report(p))
    OBVIOUS
  <2>2. \/ \E status, err : Return(T, status, err)
        \/ table' = T /\ \E r : frame' = [frame EXCEPT !.ret = r]
    BY <1>4, <2>1 DEF ImplReap
  <2>3. CASE \E status, err : Return(T, status, err)
    BY <1>1, <1>2, <1>4, <2>1, <2>3, ReturnLemma DEF RestInv
  <2>4. CASE table' = T /\ \E r : frame' = [frame EXCEPT !.ret = r]
    <3>1. RestFrame(frame') /\ frame'.pc = "impl"
      BY <1>2, <2>4 DEF RestFrame, Idle
    <3> QED
      BY <1>1, <1>4, <2>1, <2>4, <3>1 DEF RestInv
  <2> QED
    BY <2>2, <2>3, <2>4
<1> QED
  BY <1>3, <1>4

LEMMA EnterStep ==
  ASSUME RestInv, Enter
  PROVE  RestInv'
<1>1. KernelTypeOK' /\ Children' = Children
  BY UnchangedKernelLemma DEF RestInv, Enter
<1>2. \/ \E status, err : Return(table, status, err)
      \/ frame' = [frame EXCEPT !.pc = "impl", !.ret = 0] /\ table' = table
  BY DEF Enter
<1>3. CASE \E status, err : Return(table, status, err)
  BY <1>1, <1>3, ReturnLemma DEF RestInv
<1>4. CASE frame' = [frame EXCEPT !.pc = "impl", !.ret = 0] /\ table' = table
  <2>1. RestFrame(frame') /\ frame'.pc = "impl"
    BY <1>4 DEF RestInv, RestFrame, Idle
  <2> QED
    BY <1>1, <1>4, <2>1 DEF RestInv
<1> QED
  BY <1>2, <1>3, <1>4

LEMMA ImplEndStep ==
  ASSUME RestInv, ImplNothing \/ ImplInterrupted
  PROVE  RestInv'
<1>1. KernelTypeOK' /\ Children' = Children
  BY UnchangedKernelLemma DEF RestInv, ImplNothing, ImplInterrupted
<1>2. \E status, err : Return(table, status, err)
  BY DEF ImplNothing, ImplInterrupted
<1> QED
  BY <1>1, <1>2, ReturnLemma DEF RestInv

LEMMA AnyNothingStep ==
  ASSUME RestInv, AnyNothing
  PROVE  RestInv'
<1>1. KernelTypeOK' /\ Children' = Children
  BY UnchangedKernelLemma DEF RestInv, AnyNothing
<1>2. RestFrame(frame') /\ frame'.pc = "anyEnd" /\ table' = table
  BY DEF RestInv, AnyNothing, RestFrame, Idle
<1> QED
  BY <1>1, <1>2 DEF RestInv

LEMMA AnyDoneStep ==
  ASSUME RestInv, AnyDone
  PROVE  RestInv'
<1>1. PICK R : R = RemoveTerminatedJobs(table)
  OBVIOUS
<1>2. PICK C : C = Collected(R, held \cup pipes)
  OBVIOUS
<1>3. OwnRunning(R, Children) /\ OwnRunning(C, Children) /\ SettledIn(C)
  BY <1>1, <1>2, RemoveOwnLemma, CollectOwnLemma DEF RestInv
<1>4. KernelTypeOK' /\ Children' = Children
  <2>1. UNCHANGED kernelVars \/ \E ps : Continued(ps)
    BY DEF AnyDone
  <2> QED
    BY <2>1, UnchangedKernelLemma, ContinuedLemma DEF RestInv
<1>5. CASE frame.fn = "fg"
  <2>1. table' = R /\ RestFrame(frame') /\ frame'.pc = "enter"
    BY <1>1, <1>5 DEF RestInv, AnyDone, RestFrame, Idle
  <2> QED
    BY <1>3, <1>4, <2>1 DEF RestInv
<1>6. CASE frame.fn = "bg"
  <2>1. table' = R /\ RestFrame(frame') /\ frame'.pc # "idle"
    BY <1>1, <1>6, FrameLemma DEF AnyDone, EnterAny
  <2> QED
    BY <1>3, <1>4, <2>1 DEF RestInv
<1>7. CASE frame.fn \notin {"fg", "bg"}
  <2>1. table' = C /\ frame' = Idle
    BY <1>1, <1>2, <1>7 DEF AnyDone
  <2> QED
    BY <1>3, <1>4, <2>1, FrameLemma DEF RestInv
<1> QED
  BY <1>5, <1>6, <1>7

(* The steps that enter a wait, or send a signal and enter waitForAny, leave the table
   to the wait. *)
LEMMA EnterWaitStep ==
  ASSUME RestInv, KernelTypeOK', Children' = Children, UNCHANGED table,
         \/ frame' = Abort
         \/ \E fn, job, ret, err : frame' = AnyFrame(fn, job, ret, err)
         \/ \E fn, j, op, todo, err : frame' = EnterFrame(fn, j, op, todo, err)
         \/ \E ids : frame' = [AnyFrame("bg", NoJob, 0, "none") EXCEPT !.ids = ids]
  PROVE  RestInv'
<1>1. \A ids : LET f == [AnyFrame("bg", NoJob, 0, "none") EXCEPT !.ids = ids]
               IN RestFrame(f) /\ f.pc # "idle"
  BY DEF RestFrame, AnyFrame, Idle
<1>2. RestFrame(frame') /\ frame'.pc # "idle"
  <2>1. CASE frame' = Abort
    BY <2>1, FrameLemma
  <2>2. CASE \E fn, job, ret, err : frame' = AnyFrame(fn, job, ret, err)
    BY <2>2, FrameLemma
  <2>3. CASE \E fn, j, op, todo, err : frame' = EnterFrame(fn, j, op, todo, err)
    BY <2>3, FrameLemma
  <2>4. CASE \E ids : frame' = [AnyFrame("bg", NoJob, 0, "none") EXCEPT !.ids = ids]
    BY <1>1, <2>4
  <2> QED
    BY <2>1, <2>2, <2>3, <2>4
<1> QED
  BY <1>2 DEF RestInv

LEMMA CommandWaitStep ==
  ASSUME RestInv,
         \/ CheckVMEvent
         \/ \E j \in Job : JobPoll(j) \/ DestroyPipeline(j)
         \/ \E j \in Job : \E errno : JobWait(j, errno)
         \/ \E fn : WaitAll(fn)
         \/ \E args, fn : WaitIds(args, fn)
  PROVE  RestInv'
<1>1. UNCHANGED kernelVars /\ UNCHANGED table
  BY DEF CheckVMEvent, JobPoll, DestroyPipeline, JobWait, WaitFrame, WaitAll, WaitIds
<1>2. KernelTypeOK' /\ Children' = Children
  BY <1>1, UnchangedKernelLemma DEF RestInv
<1>3. \/ frame' = Abort
      \/ \E fn, job, ret, err : frame' = AnyFrame(fn, job, ret, err)
      \/ \E fn, j, op, todo, err : frame' = EnterFrame(fn, j, op, todo, err)
  <2>1. CASE CheckVMEvent
    BY <2>1 DEF CheckVMEvent, EnterAny
  <2>2. CASE \E j \in Job : JobPoll(j) \/ DestroyPipeline(j)
    BY <2>2 DEF JobPoll, DestroyPipeline, WaitFrame
  <2>3. CASE \E j \in Job : \E errno : JobWait(j, errno)
    BY <2>3 DEF JobWait, WaitFrame
  <2>4. CASE \E fn : WaitAll(fn)
    BY <2>4 DEF WaitAll, EnterAny
  <2>5. CASE \E args, fn : WaitIds(args, fn)
    BY <2>5 DEF WaitIds, EnterAny
  <2> QED
    BY <2>1, <2>2, <2>3, <2>4, <2>5
<1> QED
  BY <1>1, <1>2, <1>3, EnterWaitStep

LEMMA SignalStep ==
  ASSUME RestInv,
         \/ \E j : SendJob(j)
         \/ \E p : KillPid(p) \/ SignalKill(p)
         \/ \E arg : Fg(arg)
         \/ \E arg, ids : Bg(arg, ids)
  PROVE  RestInv'
<1>1. UNCHANGED table
  BY DEF SendJob, KillPid, SignalKill, Fg, Bg
<1>2. UNCHANGED kernelVars \/ (\E ps : Killed(ps)) \/ (\E ps : Continued(ps))
  BY DEF SendJob, KillPid, SignalKill, Fg, Bg
<1>3. KernelTypeOK' /\ Children' = Children
  BY <1>2, UnchangedKernelLemma, KilledLemma, ContinuedLemma DEF RestInv
<1>4. \/ \E fn, job, ret, err : frame' = AnyFrame(fn, job, ret, err)
      \/ \E ids : frame' = [AnyFrame("bg", NoJob, 0, "none") EXCEPT !.ids = ids]
  BY DEF SendJob, KillPid, SignalKill, Fg, Bg, EnterAny
<1> QED
  BY <1>1, <1>3, <1>4, EnterWaitStep

LEMMA HangUpStep ==
  ASSUME RestInv, HangUp
  PROVE  RestInv'
<1>1. UNCHANGED <<table, frame>> /\ \E ps : Killed(ps)
  BY DEF HangUp, shellVars
<1>2. KernelTypeOK' /\ Children' = Children
  BY <1>1, KilledLemma DEF RestInv
<1> QED
  BY <1>1, <1>2 DEF RestInv

-----------------------------------------------------------------------------
(* The steps on references, and the forks that leave no job *)

LEMMA DetachStep ==
  ASSUME RestInv, NEW j \in Job, JobDetach(j)
  PROVE  RestInv'
<1>1. KernelTypeOK' /\ Children' = Children /\ frame' = frame
  BY UnchangedKernelLemma DEF RestInv, JobDetach
<1>2. PICK jo : jo = table.job[j]
  OBVIOUS
<1>3. table \in Table /\ ConsistentTable(table) /\ jo \in JobObject /\ SoundJob(jo)
  BY <1>2 DEF RestInv, OwnRunning, ConsistentTable, Table
<1>4. PICK jn : jn = [jo EXCEPT !.disown = TRUE]
  OBVIOUS
<1>5. /\ jn \in JobObject
      /\ jn.state = jo.state /\ jn.jobID = jo.jobID /\ jn.procs = jo.procs
  BY <1>3, <1>4 DEF JobObject
<1>6. Replaceable(table, j, jn)
  <2>1. SoundJob(jn)
    BY <1>3, <1>5 DEF SoundJob
  <2> QED
    BY <1>2, <1>5, <2>1 DEF Replaceable
<1>7. WithJob(table, j, jn, table')
  BY <1>2, <1>3, <1>4 DEF JobDetach, WithJob, Table
<1>8. /\ ConsistentTable(table')
      /\ \A k \in Job : table'.job[k] = IF k = j THEN jn ELSE table.job[k]
      /\ table'.jobs = table.jobs
      /\ SettledIn(table) => SettledIn(table')
  BY <1>3, <1>6, <1>7, WithJobLemma
<1>9. \A k \in Job : /\ table'.job[k].state = table.job[k].state
                     /\ table'.job[k].procs = table.job[k].procs
  BY <1>2, <1>5, <1>8
<1>10. \A k \in Job : AttachedIn(table, k) => AttachedIn(table', k)
  BY <1>8 DEF AttachedIn
<1> QED
  BY <1>1, <1>8, <1>9, <1>10 DEF RestInv, OwnRunning

LEMMA DropStep ==
  ASSUME RestInv, NEW j \in Job, DropReference(j)
  PROVE  RestInv'
<1>1. KernelTypeOK' /\ Children' = Children /\ frame' = frame
  BY UnchangedKernelLemma DEF RestInv, DropReference
<1>2. \E refs : table' = Collected(table, refs)
  BY DEF DropReference
<1> QED
  BY <1>1, <1>2, CollectOwnLemma DEF RestInv

LEMMA PidSeqsLemma ==
  ASSUME NEW ps \in PidSeqs
  PROVE  /\ \E n \in Offset : ps \in [1 .. n -> Pid]
         /\ Range(ps) \in SUBSET Pid
         /\ Group(ps) \in Pid \cup {ShellGroup}
         /\ \A i, k \in DOMAIN ps : ps[i] = ps[k] => i = k
         /\ \A i \in DOMAIN ps : FreshPid(ps[i])
<1>1. PICK n \in Offset : ps \in [1 .. n -> Pid]
  BY DEF PidSeqs
<1>2. 1 \in 1 .. n
  BY JobAssumption DEF Offset
<1>3. Range(ps) \in SUBSET Pid
  BY <1>1 DEF Range
<1>4. Group(ps) \in Pid \cup {ShellGroup}
  BY <1>1, <1>2 DEF Group
<1> QED
  BY <1>1, <1>3, <1>4 DEF PidSeqs, IsInjective

LEMMA ForkFailsStep ==
  ASSUME RestInv, NEW ps \in PidSeqs, PipelineForkFails(ps)
  PROVE  RestInv'
<1>1. table' = table /\ frame' = frame
  BY DEF PipelineForkFails, shellVars
<1>2. Range(ps) \in SUBSET Pid /\ Group(ps) \in Pid \cup {ShellGroup}
  BY PidSeqsLemma
<1>3. KernelTypeOK' /\ Children \subseteq Children'
  BY <1>2 DEF RestInv, PipelineForkFails, KernelTypeOK, Children, ProcState, EventKind
<1> QED
  BY <1>1, <1>3 DEF RestInv, OwnRunning

LEMMA EnterChildStep ==
  ASSUME RestInv, EnterChild
  PROVE  RestInv'
<1>1. PICK D : D = DetachAll(table)
  OBVIOUS
<1>2. /\ ConsistentTable(D)
      /\ SettledIn(D)
      /\ \A k \in Job : AttachedIn(table, k) => D.job[k].state = "UNCONTROLLED"
      /\ \A k \in Job : ~AttachedIn(table, k) => D.job[k] = table.job[k]
  BY <1>1, DetachAllLemma DEF RestInv, OwnRunning
<1>3. \A k \in Job : D.job[k].state # "RUNNING"
  BY <1>2 DEF RestInv, OwnRunning
<1>4. OwnRunning(D, Children')
  BY <1>2, <1>3 DEF OwnRunning
<1>5. OwnRunning(table', Children') /\ SettledIn(table')
  BY <1>1, <1>2, <1>4, CollectOwnLemma DEF EnterChild
<1>6. KernelTypeOK'
  BY DEF EnterChild, KernelTypeOK, ProcState, EventKind, WaitStatus
<1> QED
  BY <1>5, <1>6 DEF RestInv, EnterChild

-----------------------------------------------------------------------------
(* A job that is about to be attached *)

\* Job j has been created with processes among `alive', or is the one the shell waits
\* for in the foreground; all the other running jobs are jobs of the table.
FgOK(T, j, alive) ==
  /\ ConsistentTable(T)
  /\ SettledIn(T)
  /\ FreeIds(T) # {}
  /\ j \in Job
  /\ T.job[j].jobID = 0
  /\ T.job[j].state \in {"RUNNING", "TERMINATED"}
  /\ T.job[j].procs # <<>>
  /\ \A i \in DOMAIN T.job[j].procs :
       T.job[j].procs[i].pid # NoPid => T.entries[T.job[j].procs[i].pid] = NoEntry
  /\ \A k \in Job : T.job[k].state = "RUNNING" =>
       /\ k = j \/ AttachedIn(T, k)
       /\ \A i \in DOMAIN T.job[k].procs :
            T.job[k].procs[i].pid # NoPid => T.job[k].procs[i].pid \in alive

(* attach makes it one of the table; a job that has ended needs no attach. *)
LEMMA AttachOwnLemma ==
  ASSUME NEW T, NEW j, NEW alive, FgOK(T, j, alive), NEW disowned \in BOOLEAN
  PROVE  /\ Available(T, j) => OwnRunning(Attach(T, j, disowned), alive)
                               /\ SettledIn(Attach(T, j, disowned))
         /\ ~Available(T, j) => OwnRunning(T, alive)
<1>1. ASSUME Available(T, j)
      PROVE  /\ OwnRunning(Attach(T, j, disowned), alive)
             /\ SettledIn(Attach(T, j, disowned))
  <2>1. PICK U : U = Attach(T, j, disowned)
    OBVIOUS
  <2>2. Attachable(T, j)
    BY <1>1 DEF FgOK, Attachable, Available
  <2>3. /\ ConsistentTable(U) /\ SameJobs(T, U) /\ AttachedIn(U, j) /\ SettledIn(U)
        /\ \A k \in Job : AttachedIn(T, k) => AttachedIn(U, k)
    BY <2>1, <2>2, AttachLemma DEF FgOK
  <2>4. ASSUME NEW k \in Job, U.job[k].state = "RUNNING"
        PROVE  /\ AttachedIn(U, k)
               /\ \A i \in DOMAIN U.job[k].procs :
                    U.job[k].procs[i].pid # NoPid => U.job[k].procs[i].pid \in alive
    <3>1. T.job[k].state = "RUNNING" /\ U.job[k].procs = T.job[k].procs
      BY <2>3, <2>4 DEF SameJobs
    <3> QED
      BY <2>3, <3>1 DEF FgOK
  <2> QED
    BY <2>1, <2>3, <2>4 DEF OwnRunning
<1>2. ASSUME ~Available(T, j)
      PROVE  OwnRunning(T, alive)
  BY <1>2 DEF FgOK, OwnRunning, Available
<1> QED
  BY <1>1, <1>2

(* A pid the kernel hands out has no entry: the entry of a live process names a child,
   and there is no other in a settled table. *)
LEMMA FreshEntryLemma ==
  ASSUME NEW T, NEW alive, OwnRunning(T, alive), SettledIn(T), NEW p \in Pid,
         p \notin alive
  PROVE  T.entries[p] = NoEntry
<1>1. T \in Table /\ EntriesMatchIn(T)
  BY DEF OwnRunning, ConsistentTable
<1>2. SUFFICES ASSUME T.entries[p] # NoEntry
               PROVE  FALSE
  OBVIOUS
<1>3. PICK e : e = T.entries[p]
  OBVIOUS
<1>4. e \in Entry /\ ~IsDeleted(e)
  BY <1>1, <1>2, <1>3 DEF Table, SettledIn
<1>5. e.jobId \in JobId
  BY <1>4, JobAssumption DEF Entry, IsDeleted, JobId
<1>6. PICK j : j = T.jobs[e.jobId]
  OBVIOUS
<1>7. /\ j # NoJob
      /\ e.offset \in DOMAIN T.job[j].procs
      /\ T.job[j].procs[e.offset].pid = p
  BY <1>1, <1>2, <1>3, <1>4, <1>6 DEF EntriesMatchIn
<1>8. j \in Job /\ T.job[j].state = "RUNNING"
  BY <1>1, <1>5, <1>6, <1>7 DEF Table, SettledIn, Available
<1>9. p # NoPid
  BY PidAssumption
<1> QED
  BY <1>7, <1>8, <1>9 DEF OwnRunning

LEMMA NewJobLemma ==
  ASSUME NEW ps \in PidSeqs, NEW jn, jn = NewJob(ps)
  PROVE  /\ jn \in JobObject /\ SoundJob(jn)
         /\ jn.jobID = 0 /\ jn.state = "RUNNING" /\ jn.procs # <<>>
         /\ DOMAIN jn.procs = DOMAIN ps
         /\ \A i \in DOMAIN ps : jn.procs[i].pid = ps[i] /\ jn.procs[i].state = "RUNNING"
<1>1. PICK n \in Offset : ps \in [1 .. n -> Pid]
  BY PidSeqsLemma
<1>2. n \in Nat /\ n =< MaxProcs /\ 1 \in 1 .. n
  BY JobAssumption DEF Offset
<1>3. PICK procs : procs = [i \in DOMAIN ps |->
                              [pid |-> ps[i], state |-> "RUNNING", exitStatus |-> EXIT_OK]]
  OBVIOUS
<1>4. jn = [state |-> "RUNNING", jobID |-> 0, disown |-> FALSE, procs |-> procs]
  BY <1>3 DEF NewJob
<1>5. DOMAIN procs = 1 .. n /\ DOMAIN ps = 1 .. n
  BY <1>1, <1>3
<1>6. EXIT_OK \in WaitStatus
  BY DEF WaitStatus
<1>7. \A i \in 1 .. n : /\ procs[i] \in Proc
                        /\ procs[i].pid = ps[i] /\ ps[i] \in Pid
                        /\ procs[i].state = "RUNNING"
  BY <1>1, <1>3, <1>5, <1>6 DEF Proc
<1>8. procs \in [1 .. n -> Proc]
  BY <1>3, <1>5, <1>7
<1>9. procs \in Seq(Proc) /\ Len(procs) = n
  BY <1>2, <1>5, <1>8, SeqDef, LenProperties
<1>10. 0 \in 0 .. JobLimit
  BY JobAssumption
<1>11. jn \in JobObject
  BY <1>4, <1>9, <1>10 DEF JobObject
<1>12. jn.procs = procs /\ jn.state = "RUNNING" /\ jn.jobID = 0
  BY <1>4
<1>13. SoundJob(jn)
  <2>1. \A i \in 1 .. n : procs[i].pid # NoPid
    BY <1>7, PidAssumption
  <2>2. \A i, k \in 1 .. n : procs[i].pid = procs[k].pid => i = k
    BY <1>5, <1>7, PidSeqsLemma
  <2> QED
    BY <1>2, <1>5, <1>7, <1>9, <1>12, <2>1, <2>2 DEF SoundJob
<1>14. jn.procs # <<>>
  BY <1>2, <1>9, <1>12
<1> QED
  BY <1>5, <1>7, <1>11, <1>12, <1>13, <1>14

(* A new job, on freshly forked processes, may be attached. *)
LEMMA CreatedLemma ==
  ASSUME RestInv, NEW j \in Job, NEW ps \in PidSeqs, StartJob(j, ps)
  PROVE  /\ KernelTypeOK'
         /\ FgOK(Created(j, ps), j, Children')
         /\ Created(j, ps).job[j] = NewJob(ps)
<1>1. KernelTypeOK' /\ Children' = Children \cup Range(ps)
  BY PidSeqsLemma, ForkedLemma DEF RestInv, StartJob
<1>2. SettledIn(table) /\ OwnRunning(table, Children) /\ table \in Table
  BY FrameLemma DEF RestInv, StartJob, OwnRunning, ConsistentTable
<1>3. PICK jn : jn = NewJob(ps)
  OBVIOUS
<1>4. /\ jn \in JobObject /\ SoundJob(jn)
      /\ jn.jobID = 0 /\ jn.state = "RUNNING" /\ jn.procs # <<>>
      /\ DOMAIN jn.procs = DOMAIN ps
      /\ \A i \in DOMAIN ps : jn.procs[i].pid = ps[i] /\ jn.procs[i].state = "RUNNING"
  BY <1>3, NewJobLemma
<1>5. PICK U : U = Created(j, ps)
  OBVIOUS
<1>6. WithJob(table, j, jn, U)
  BY <1>2, <1>3, <1>5 DEF Created, WithJob, Table
<1>7. Replaceable(table, j, jn)
  BY <1>4 DEF Replaceable, StartJob, FreeJob, Unused
<1>8. /\ ConsistentTable(U)
      /\ \A k \in Job : U.job[k] = IF k = j THEN jn ELSE table.job[k]
      /\ U.jobs = table.jobs /\ U.entries = table.entries
      /\ SettledIn(U)
  BY <1>2, <1>6, <1>7, WithJobLemma DEF OwnRunning
<1>9. FreeIds(U) # {}
  BY <1>8 DEF FreeIds, StartJob, CanFork
<1>10. \A i \in DOMAIN ps : ps[i] \in Pid /\ ps[i] \notin Children /\ ps[i] \in Range(ps)
  BY PidSeqsLemma DEF FreshPid, Children, Range
<1>11. \A i \in DOMAIN ps : U.entries[ps[i]] = NoEntry
  BY <1>2, <1>8, <1>10, FreshEntryLemma
<1>12. ASSUME NEW k \in Job, U.job[k].state = "RUNNING"
       PROVE  /\ k = j \/ AttachedIn(U, k)
              /\ \A i \in DOMAIN U.job[k].procs :
                   U.job[k].procs[i].pid # NoPid => U.job[k].procs[i].pid \in Children'
  <2>1. CASE k = j
    BY <1>1, <1>4, <1>8, <1>10, <2>1
  <2>2. CASE k # j
    <3>1. U.job[k] = table.job[k]
      BY <1>8, <2>2
    <3>2. AttachedIn(table, k) => AttachedIn(U, k)
      BY <1>8 DEF AttachedIn
    <3> QED
      BY <1>1, <1>2, <1>12, <3>1, <3>2 DEF OwnRunning
  <2> QED
    BY <2>1, <2>2
<1>13. FgOK(U, j, Children')
  BY <1>4, <1>8, <1>9, <1>11, <1>12 DEF FgOK
<1> QED
  BY <1>1, <1>3, <1>5, <1>8, <1>13

-----------------------------------------------------------------------------
(* The wait for a foreground job *)

\* The processes of job jo from idx on have not ended.
Awaited(jo, idx) ==
  /\ jo.state = "RUNNING"
  /\ idx \in DOMAIN jo.procs
  /\ \A i \in DOMAIN jo.procs : i >= idx => jo.procs[i].state # "TERMINATED"

FgInv ==
  /\ KernelTypeOK
  /\ FrameShape
  /\ frame.pc = "proc"
  /\ FgOK(table, frame.job, Children)
  /\ Awaited(table.job[frame.job], frame.idx)

LEMMA FinishLemma ==
  ASSUME NEW T, NEW alive, FgOK(T, frame.job, alive), NEW ret, NEW err,
         FinishForeground(T, ret, err)
  PROVE  /\ OwnRunning(table', alive)
         /\ RestFrame(frame')
         /\ frame'.pc = "idle" => SettledIn(table')
<1>1. SettledIn(T)
  BY DEF FgOK
<1>2. OwnRunning(table', alive) /\ SettledIn(table')
  <2>1. CASE Available(T, frame.job)
    BY <2>1, AttachOwnLemma DEF FinishForeground
  <2>2. CASE ~Available(T, frame.job)
    <3>1. OwnRunning(T, alive)
      BY <2>2, AttachOwnLemma
    <3>2. table' = T \/ table' = Collected(T, held \cup pipes)
      BY <2>2 DEF FinishForeground
    <3> QED
      BY <1>1, <3>1, <3>2, CollectOwnLemma
  <2> QED
    BY <2>1, <2>2
<1>3. frame' = Idle \/ frame' = AnyFrame("return", frame.job, ret, err)
  BY DEF FinishForeground, EnterAny
<1>4. RestFrame(frame')
  BY <1>3, FrameLemma
<1> QED
  BY <1>2, <1>4

LEMMA InterruptedStep ==
  ASSUME FgInv, ProcWaitInterrupted
  PROVE  RestInv'
<1>1. KernelTypeOK' /\ Children' = Children
  BY UnchangedKernelLemma DEF FgInv, ProcWaitInterrupted
<1>2. FgOK(table, frame.job, Children) /\ FinishForeground(table, -1, "EINTR")
  BY DEF FgInv, ProcWaitInterrupted
<1> QED
  BY <1>1, <1>2, FinishLemma DEF RestInv

\* Process k of job j, with pid p, has become new in U.
ProcUpdated(T, j, k, p, new, U) ==
  /\ \E jn : Written(T.job[j], k, new, jn) /\ WithJob(T, j, jn, U)
  /\ k \in DOMAIN T.job[j].procs
  /\ T.job[j].procs[k].pid = p
  /\ new.pid \in {p, NoPid}

(* The report for one process of the foreground job touches no other process. *)
LEMMA FgUpdateLemma ==
  ASSUME NEW T, NEW j, NEW alive, FgOK(T, j, alive), NEW k, NEW p \in Pid, NEW new, NEW U,
         ProcUpdated(T, j, k, p, new, U), NEW rest,
         rest = alive \/ (rest = alive \ {p} /\ new.pid = NoPid)
  PROVE  FgOK(U, j, rest)
<1>1. PICK jo : jo = T.job[j]
  OBVIOUS
<1>2. PICK jn : Written(jo, k, new, jn) /\ WithJob(T, j, jn, U)
  BY <1>1 DEF ProcUpdated
<1>3. /\ ConsistentTable(T) /\ SettledIn(T) /\ j \in Job
      /\ jo.jobID = 0 /\ jo.state \in {"RUNNING", "TERMINATED"}
  BY <1>1 DEF FgOK
<1>4. /\ jn \in JobObject /\ SoundJob(jn) /\ jn.jobID = 0
      /\ jn.state \in {"RUNNING", "TERMINATED"}
      /\ jn.state = "RUNNING" => jo.state = "RUNNING"
      /\ DOMAIN jn.procs = DOMAIN jo.procs
      /\ \A i \in DOMAIN jo.procs : jn.procs[i] = IF i = k THEN new ELSE jo.procs[i]
  BY <1>2, <1>3 DEF Written
<1>5. Replaceable(T, j, jn)
  BY <1>1, <1>3, <1>4 DEF Replaceable
<1>6. /\ ConsistentTable(U) /\ SettledIn(U)
      /\ \A i \in Job : U.job[i] = IF i = j THEN jn ELSE T.job[i]
      /\ U.jobs = T.jobs /\ U.entries = T.entries
  BY <1>2, <1>3, <1>5, WithJobLemma
<1>7. /\ k \in DOMAIN jo.procs /\ jo.procs[k].pid = p
      /\ new.pid \in {p, NoPid}
  BY <1>1 DEF ProcUpdated
<1>8. jn.procs # <<>>
  <2>1. DOMAIN jn.procs # {}
    BY <1>4, <1>7
  <2> QED
    BY <2>1
<1>9. ASSUME NEW i \in DOMAIN jn.procs, jn.procs[i].pid # NoPid
      PROVE  jn.procs[i].pid = jo.procs[i].pid /\ i \in DOMAIN jo.procs
  BY <1>4, <1>7, <1>9
<1>10. \A i \in DOMAIN jn.procs :
         jn.procs[i].pid # NoPid => U.entries[jn.procs[i].pid] = NoEntry
  BY <1>1, <1>6, <1>9 DEF FgOK
<1>11. FreeIds(U) # {}
  BY <1>6 DEF FgOK, FreeIds
<1>12. ASSUME NEW m \in Job, m # j, U.job[m].state = "RUNNING"
       PROVE  /\ AttachedIn(U, m)
              /\ \A i \in DOMAIN U.job[m].procs :
                   U.job[m].procs[i].pid # NoPid => U.job[m].procs[i].pid \in rest
  <2>1. U.job[m] = T.job[m] /\ T.job[m].state = "RUNNING"
    BY <1>6, <1>12
  <2>2. AttachedIn(T, m)
    BY <1>12, <2>1 DEF FgOK
  <2>3. AttachedIn(U, m)
    BY <1>6, <2>2 DEF AttachedIn
  <2>4. ASSUME NEW i \in DOMAIN T.job[m].procs, T.job[m].procs[i].pid # NoPid
        PROVE  T.job[m].procs[i].pid \in rest
    <3>1. T.job[m].procs[i].pid \in alive
      BY <2>1, <2>4 DEF FgOK
    <3>2. T.entries[T.job[m].procs[i].pid] = [jobId |-> T.job[m].jobID, offset |-> i]
      BY <1>3, <2>2, <2>4 DEF ConsistentTable, ProcsRegisteredIn
    <3>3. T.entries[p] = NoEntry
      BY <1>1, <1>7, PidAssumption DEF FgOK
    <3>4. T.job[m].jobID \in 0 .. JobLimit
      BY <1>3 DEF ConsistentTable, Table, JobObject
    <3>5. T.entries[T.job[m].procs[i].pid].jobId # NoEntry.jobId
      BY <3>2, <3>4, JobAssumption DEF NoEntry
    <3> QED
      BY <3>1, <3>3, <3>5
  <2> QED
    BY <2>1, <2>3, <2>4
<1>13. ASSUME U.job[j].state = "RUNNING"
       PROVE  \A i \in DOMAIN U.job[j].procs :
                U.job[j].procs[i].pid # NoPid => U.job[j].procs[i].pid \in rest
  <2>1. U.job[j] = jn /\ jo.state = "RUNNING" /\ SoundJob(jo)
    BY <1>1, <1>3, <1>4, <1>6, <1>13 DEF ConsistentTable
  <2>2. SUFFICES ASSUME NEW i \in DOMAIN jn.procs, jn.procs[i].pid # NoPid
                 PROVE  jn.procs[i].pid \in rest
    BY <2>1
  <2>3. i \in DOMAIN jo.procs /\ jn.procs[i].pid = jo.procs[i].pid
    BY <1>9, <2>2
  <2>4. jo.procs[i].pid \in alive
    BY <1>1, <1>3, <2>1, <2>2, <2>3 DEF FgOK
  <2>5. CASE i = k
    BY <1>4, <1>7, <2>2, <2>3, <2>4, <2>5
  <2>6. CASE i # k
    BY <1>7, <2>1, <2>2, <2>3, <2>4, <2>6 DEF SoundJob
  <2> QED
    BY <2>5, <2>6
<1> QED
  BY <1>3, <1>4, <1>6, <1>8, <1>10, <1>11, <1>12, <1>13 DEF FgOK

LEMMA ExceptLenLemma ==
  ASSUME NEW seq \in Seq(Proc), NEW i \in DOMAIN seq, NEW e \in Proc
  PROVE  Len([seq EXCEPT ![i] = e]) = Len(seq)
<1>1. i \in 1 .. Len(seq)
  BY LenProperties
<1> QED
  BY <1>1, ExceptSeq, Zenon

\* Process k of the foreground job j, with pid p, has been reaped or has reported; in U it
\* is `new', and j is jn.
FgWrite(j, k, p, new, jn, U) ==
  /\ p = table.job[j].procs[k].pid /\ p \in Pid
  /\ Reportable(p, ProcWaitOp(table.job[j].procs[k], frame.op))
  /\ Reaped(p)
  /\ new = UpdateProc(table.job[j].procs[k], Report(p))
  /\ Written(table.job[j], k, new, jn)
  /\ WithJob(table, j, jn, U)

(* waitpid(pid) for process k of the foreground job: the wait goes on with the next
   process, or is over. *)
LEMMA ProcWaitShape ==
  ASSUME FgInv, ProcWait, NEW j, j = frame.job, NEW k, k = frame.idx
  PROVE  \E p, new, jn, U :
           /\ FgWrite(j, k, p, new, jn, U)
           /\ KernelTypeOK' /\ FgOK(U, j, Children')
           /\ jn.state = "RUNNING" => ~AllTerminated(jn.procs)
           /\ \/ k = Len(table.job[j].procs) /\ FinishForeground(U, new.exitStatus, "none")
              \/ /\ k # Len(table.job[j].procs)
                 /\ table' = U
                 /\ frame' = [frame EXCEPT !.idx = @ + 1]
                 /\ UNCHANGED <<pendingCHLD, kernelCHLD>>
                 /\ jn.state = "RUNNING"
<1>3. PICK jo : jo = table.job[j]
  OBVIOUS
<1>4. PICK pr : pr = jo.procs[k]
  OBVIOUS
<1>5. PICK p : p = pr.pid
  OBVIOUS
<1>6. PICK new : new = UpdateProc(pr, Report(p))
  OBVIOUS
<1>7. PICK up : up = [jo EXCEPT !.procs[k] = new]
  OBVIOUS
<1>8. PICK T : T = [table EXCEPT !.job[j] = up]
  OBVIOUS
<1>9. PICK jn : jn = UpdateJob(up)
  OBVIOUS
<1>10. PICK U : U = [T EXCEPT !.job[j] = jn]
  OBVIOUS
<1>11. /\ FgOK(table, j, Children) /\ Awaited(jo, k)
       /\ j \in Job /\ table \in Table /\ jo \in JobObject /\ SoundJob(jo)
       /\ k \in DOMAIN jo.procs
  BY <1>3 DEF FgInv, FgOK, ConsistentTable, Table, Awaited
<1>12. /\ jo.procs \in Seq(Proc) /\ DOMAIN jo.procs = 1 .. Len(jo.procs)
       /\ Len(jo.procs) \in Nat
  BY <1>11, LenProperties DEF JobObject
<1>13. pr \in Proc /\ (pr.state = "TERMINATED" <=> pr.pid = NoPid)
  BY <1>4, <1>11, <1>12, ElementOfSeq DEF SoundJob
<1>14. p \in Pid
  <2>1. pr.state # "TERMINATED"
    BY <1>4, <1>11, <1>12 DEF Awaited
  <2> QED
    BY <1>5, <1>13, <2>1 DEF Proc
<1>15. Reaped(p) /\ Reportable(p, ProcWaitOp(pr, frame.op))
  <2>1. pr = table.job[frame.job].procs[frame.idx] /\ p = table.job[frame.job].procs[frame.idx].pid
    BY <1>3, <1>4, <1>5
  <2> QED
    BY <2>1, Zenon DEF ProcWait
<1>16. /\ Report(p) \in WaitReport
       /\ Report(p).pid = p
       /\ Report(p).kind = "exited" <=> proc[p] = "zombie"
  BY <1>14, <1>15, ReportLemma DEF FgInv
<1>17. /\ new \in Proc
       /\ new.state = "TERMINATED" <=> new.pid = NoPid
       /\ new.pid \in {p, NoPid}
       /\ Report(p).kind = "exited" => new.pid = NoPid
  BY <1>5, <1>6, <1>13, <1>16, UpdateProcLemma
<1>18. /\ KernelTypeOK'
       /\ Children' = Children \/ (Children' = Children \ {p} /\ new.pid = NoPid)
  BY <1>14, <1>15, <1>16, <1>17, ReapedLemma DEF FgInv
<1>19. Written(jo, k, new, jn)
  <2>1. jn = WithProc(jo, k, new)
    BY <1>7, <1>9 DEF WithProc
  <2>2. jo.state # "UNCONTROLLED"
    BY <1>11 DEF Awaited
  <2>3. new.pid = NoPid \/ new.pid = jo.procs[k].pid
    BY <1>4, <1>5, <1>17
  <2> QED
    BY <1>11, <1>17, <2>1, <2>2, <2>3, WithProcLemma
<1>20. T.job[j] = up /\ WithJob(table, j, up, T) /\ WithJob(table, j, jn, U)
  BY <1>8, <1>10, <1>11 DEF WithJob, Table
<1>21. FgOK(U, j, Children')
  <2>1. ProcUpdated(table, j, k, p, new, U)
    BY <1>3, <1>4, <1>5, <1>11, <1>17, <1>19, <1>20 DEF ProcUpdated
  <2> QED
    BY <1>11, <1>14, <1>18, <2>1, FgUpdateLemma
<1>22. Len(up.procs) = Len(jo.procs)
  <2>1. up.procs = [jo.procs EXCEPT ![k] = new]
    BY <1>7, <1>11 DEF JobObject
  <2> QED
    BY <1>11, <1>12, <1>17, <2>1, ExceptLenLemma
<1>23. FgWrite(j, k, p, new, jn, U)
  BY <1>3, <1>4, <1>5, <1>6, <1>14, <1>15, <1>19, <1>20, Zenon DEF FgWrite
<1>24. jn.state = "RUNNING" => ~AllTerminated(jn.procs)
  <2>1. up.state = jo.state /\ DOMAIN up = DOMAIN jo
    BY <1>7, <1>11 DEF JobObject
  <2>2. CASE up.state = "RUNNING" /\ AllTerminated(up.procs)
    <3>1. jn = [up EXCEPT !.state = "TERMINATED"]
      BY <1>9, <2>2 DEF UpdateJob
    <3>2. jn.state = "TERMINATED"
      BY <1>7, <1>11, <3>1 DEF JobObject
    <3> QED
      BY <3>2
  <2>3. CASE ~(up.state = "RUNNING" /\ AllTerminated(up.procs))
    BY <1>9, <2>3 DEF UpdateJob
  <2> QED
    BY <2>2, <2>3
<1>25. CASE k = Len(jo.procs)
  <2>1. FinishForeground(U, new.exitStatus, "none")
    <3>1. FinishForeground([T EXCEPT !.job[j] = UpdateJob(@)], new.exitStatus, "none")
      BY <1>3, <1>4, <1>5, <1>6, <1>7, <1>8, <1>20, <1>22, <1>25 DEF ProcWait
    <3>2. U = [T EXCEPT !.job[j] = UpdateJob(@)]
      BY <1>9, <1>10, <1>20
    <3> QED
      BY <3>1, <3>2
  <2> QED
    BY <1>3, <1>18, <1>21, <1>23, <1>24, <1>25, <2>1
<1>26. CASE k # Len(jo.procs)
  <2>1. table' = T /\ frame' = [frame EXCEPT !.idx = @ + 1] /\ UNCHANGED <<pendingCHLD, kernelCHLD>>
    BY <1>3, <1>4, <1>5, <1>6, <1>7, <1>8, <1>20, <1>22, <1>26 DEF ProcWait
  <2>2. k + 1 \in DOMAIN jo.procs /\ k \in Nat
    BY <1>11, <1>12, <1>26
  <2>3. ~AllTerminated(jn.procs)
    <3>1. jn.procs[k + 1] = jo.procs[k + 1] /\ k + 1 \in DOMAIN jn.procs
      BY <1>19, <2>2 DEF Written
    <3>2. jo.procs[k + 1].state # "TERMINATED"
      BY <1>11, <2>2 DEF Awaited
    <3> QED
      BY <3>1, <3>2 DEF AllTerminated
  <2>4. jn.state = "RUNNING"
    BY <1>11, <1>19, <2>3 DEF Written, Awaited
  <2>5. jn = up
    <3>1. CASE up.state = "RUNNING" /\ AllTerminated(up.procs)
      BY <1>9, <2>3, <3>1 DEF UpdateJob
    <3>2. CASE ~(up.state = "RUNNING" /\ AllTerminated(up.procs))
      BY <1>9, <3>2 DEF UpdateJob
    <3> QED
      BY <3>1, <3>2
  <2>6. U = T
    BY <1>8, <1>10, <1>11, <2>5 DEF Table
  <2> QED
    BY <1>3, <1>18, <1>21, <1>23, <1>24, <1>26, <2>1, <2>4, <2>6
<1> QED
  BY <1>25, <1>26

LEMMA ProcWaitStep ==
  ASSUME FgInv, ProcWait
  PROVE  RestInv' \/ FgInv'
<1>1. PICK j, k, jo : j = frame.job /\ k = frame.idx /\ jo = table.job[j]
  OBVIOUS
<1>2. PICK p, new, jn, U :
        /\ FgWrite(j, k, p, new, jn, U)
        /\ KernelTypeOK' /\ FgOK(U, j, Children')
        /\ \/ k = Len(jo.procs) /\ FinishForeground(U, new.exitStatus, "none")
           \/ /\ k # Len(jo.procs)
              /\ table' = U
              /\ frame' = [frame EXCEPT !.idx = @ + 1]
              /\ jn.state = "RUNNING"
  BY <1>1, ProcWaitShape
<1>3. CASE k = Len(jo.procs)
  BY <1>1, <1>2, <1>3, FinishLemma DEF RestInv
<1>4. CASE k # Len(jo.procs)
  <2>1. /\ Awaited(jo, k) /\ k \in DOMAIN jo.procs /\ jo.procs \in Seq(Proc)
        /\ j \in Job /\ table \in Table
    BY <1>1 DEF FgInv, Awaited, FgOK, ConsistentTable, Table, JobObject
  <2>2. DOMAIN jo.procs = 1 .. Len(jo.procs) /\ Len(jo.procs) \in Nat
    BY <2>1, LenProperties
  <2>3. Written(jo, k, new, jn) /\ table'.job[j] = jn
    BY <1>1, <1>2, <1>4, <2>1 DEF FgWrite, WithJob, Table
  <2>4. frame'.job = j /\ frame'.idx = k + 1 /\ frame'.pc = "proc" /\ FrameShape'
    BY <1>1, <1>2, <1>4 DEF FgInv, FrameShape, Idle
  <2>5. Awaited(jn, k + 1)
    <3>1. /\ k + 1 \in DOMAIN jn.procs /\ DOMAIN jn.procs = DOMAIN jo.procs
          /\ \A i \in DOMAIN jn.procs : i >= k + 1 => i >= k /\ i # k
          /\ \A i \in DOMAIN jn.procs : i # k => jn.procs[i] = jo.procs[i]
      BY <1>4, <2>1, <2>2, <2>3 DEF Written
    <3>2. \A i \in DOMAIN jn.procs : i >= k + 1 => jn.procs[i].state # "TERMINATED"
      BY <2>1, <3>1 DEF Awaited
    <3> QED
      BY <1>2, <1>4, <3>1, <3>2 DEF Awaited
  <2> QED
    BY <1>2, <1>4, <2>3, <2>4, <2>5 DEF FgInv
<1> QED
  BY <1>3, <1>4

-----------------------------------------------------------------------------
(* The steps that start a job *)

LEMMA ForegroundStep ==
  ASSUME RestInv, NEW j \in Job, NEW ps \in PidSeqs,
         \/ \E fn : ForkAndExec(j, ps, fn)
         \/ ForegroundPipeline(j, ps)
  PROVE  FgInv'
<1>1. /\ StartJob(j, ps)
      /\ table' = Created(j, ps)
      /\ \E fn, op : frame' = [Idle EXCEPT !.pc = "proc", !.fn = fn, !.job = j, !.op = op]
  BY DEF ForkAndExec, ForegroundPipeline
<1>2. /\ KernelTypeOK'
      /\ FgOK(table', j, Children')
      /\ table'.job[j] = NewJob(ps)
  BY <1>1, CreatedLemma
<1>3. FrameShape' /\ frame'.pc = "proc" /\ frame'.job = j /\ frame'.idx = 1
  BY <1>1 DEF FrameShape, Idle
<1>4. PICK jn : jn = NewJob(ps)
  OBVIOUS
<1>5. /\ jn.state = "RUNNING"
      /\ DOMAIN jn.procs = DOMAIN ps
      /\ \A i \in DOMAIN ps : jn.procs[i].state = "RUNNING"
  BY <1>4, NewJobLemma
<1>6. 1 \in DOMAIN ps
  <2>1. PICK n \in Offset : ps \in [1 .. n -> Pid]
    BY PidSeqsLemma
  <2> QED
    BY <2>1, JobAssumption DEF Offset
<1>7. Awaited(jn, 1)
  BY <1>5, <1>6 DEF Awaited
<1> QED
  BY <1>2, <1>3, <1>4, <1>7 DEF FgInv

LEMMA AsyncStep ==
  ASSUME RestInv, NEW j \in Job, NEW ps \in PidSeqs,
         \/ \E disown \in BOOLEAN : \E ref : AsyncJob(j, ps, disown, ref)
         \/ LastPipe(j, ps)
  PROVE  RestInv'
<1>1. /\ StartJob(j, ps)
      /\ \E disown \in BOOLEAN : table' = Attach(Created(j, ps), j, disown)
      /\ frame' = frame
  BY DEF AsyncJob, LastPipe
<1>2. /\ KernelTypeOK'
      /\ FgOK(Created(j, ps), j, Children')
      /\ Created(j, ps).job[j] = NewJob(ps)
  BY <1>1, CreatedLemma
<1>3. Available(Created(j, ps), j)
  BY <1>2, NewJobLemma DEF Available
<1>4. OwnRunning(table', Children') /\ SettledIn(table')
  BY <1>1, <1>2, <1>3, AttachOwnLemma
<1> QED
  BY <1>1, <1>2, <1>4 DEF RestInv

-----------------------------------------------------------------------------
(* The invariant *)

(* IInv, by whether a foreground job is waited for. *)
LEMMA SplitLemma ==
  IInv <=> RestInv \/ FgInv
<1>1. ASSUME IInv
      PROVE  \A k \in Job : table.job[k].state = "RUNNING" =>
               \A i \in DOMAIN table.job[k].procs :
                 table.job[k].procs[i].pid # NoPid => table.job[k].procs[i].pid \in Children
  <2> SUFFICES ASSUME NEW k \in Job, table.job[k].state = "RUNNING",
                      NEW i \in DOMAIN table.job[k].procs,
                      table.job[k].procs[i].pid # NoPid
               PROVE  table.job[k].procs[i].pid \in Children
    OBVIOUS
  <2>1. table.job[k] \in JobObject
    BY <1>1 DEF IInv, ConsistentTable, Table
  <2>2. table.job[k].procs[i] \in Proc
    BY <2>1, ElementOfSeq, LenProperties DEF JobObject
  <2>3. table.job[k].procs[i].pid \in Pid
    BY <2>2 DEF Proc
  <2> QED
    BY <1>1, <2>3 DEF IInv, NoStatusLost, Children
<1>2. ASSUME IInv, frame.pc = "proc"
      PROVE  FgInv
  <2>1. /\ frame.job \in Job
        /\ FreeIds(table) # {}
        /\ table.job[frame.job].jobID = 0
        /\ table.job[frame.job].state = "RUNNING"
        /\ frame.idx \in DOMAIN table.job[frame.job].procs
        /\ \A i \in DOMAIN table.job[frame.job].procs :
             /\ i >= frame.idx => table.job[frame.job].procs[i].state # "TERMINATED"
             /\ table.job[frame.job].procs[i].pid # NoPid =>
                  table.entries[table.job[frame.job].procs[i].pid] = NoEntry
    BY <1>2 DEF IInv, ForegroundSound
  <2>2. table.job[frame.job].procs # <<>>
    <3>1. DOMAIN table.job[frame.job].procs # {}
      BY <2>1
    <3> QED
      BY <3>1
  <2>3. \A k \in Job : table.job[k].state = "RUNNING" => k = frame.job \/ AttachedIn(table, k)
    BY <1>2 DEF IInv, RunningKnown, Attached
  <2>4. FgOK(table, frame.job, Children)
    BY <1>1, <1>2, <2>1, <2>2, <2>3 DEF FgOK, IInv
  <2>5. Awaited(table.job[frame.job], frame.idx)
    BY <2>1 DEF Awaited
  <2> QED
    BY <1>2, <2>4, <2>5 DEF FgInv, IInv
<1>3. ASSUME IInv, frame.pc # "proc"
      PROVE  RestInv
  <2>1. OwnRunning(table, Children)
    BY <1>1, <1>3 DEF IInv, RunningKnown, Attached, OwnRunning
  <2> QED
    BY <1>3, <2>1 DEF RestInv, RestFrame, IInv, FrameShape
<1>4. ASSUME RestInv
      PROVE  IInv
  <2>1. FrameShape /\ frame.pc # "proc" /\ ConsistentTable(table)
    BY <1>4 DEF RestInv, RestFrame, FrameShape, OwnRunning
  <2>2. NoStatusLost /\ RunningKnown /\ ForegroundSound
    BY <1>4, <2>1
    DEF RestInv, OwnRunning, NoStatusLost, RunningKnown, ForegroundSound, Attached, Children
  <2> QED
    BY <1>4, <2>1, <2>2 DEF RestInv, IInv
<1>5. ASSUME FgInv
      PROVE  IInv
  <2>1. ConsistentTable(table) /\ SettledIn(table)
    BY <1>5 DEF FgInv, FgOK
  <2>2. NoStatusLost /\ RunningKnown
    BY <1>5 DEF FgInv, FgOK, NoStatusLost, RunningKnown, Attached, Children
  <2>3. ForegroundSound
    BY <1>5 DEF FgInv, FgOK, Awaited, ForegroundSound
  <2> QED
    BY <1>5, <2>1, <2>2, <2>3 DEF FgInv, IInv
<1> QED
  BY <1>2, <1>3, <1>4, <1>5

LEMMA InitLemma ==
  Init => IInv
<1> SUFFICES ASSUME Init
             PROVE  RestInv
  BY SplitLemma
<1>1. KernelTypeOK
  BY DEF Init, KernelInit, KernelTypeOK, ProcState, EventKind, WaitStatus
<1>2. \A j \in Job : EmptyTable.job[j].state # "RUNNING"
  BY DEF EmptyTable, Unused
<1> QED
  BY <1>1, <1>2, EmptyTableLemma, FrameLemma DEF Init, RestInv, OwnRunning

LEMMA EnvironmentStep ==
  ASSUME KernelTypeOK, Environment
  PROVE  KernelTypeOK' /\ Children' = Children /\ UNCHANGED <<table, frame>>
<1>1. PICK p \in Pid : Exit(p) \/ Stop(p) \/ Continue(p)
  BY DEF Environment
<1> QED
  BY <1>1, ChildStepLemma DEF Exit, Stop, Continue, KernelStep

(* A step while no foreground job is waited for. *)
LEMMA RestStep ==
  ASSUME RestInv, Next
  PROVE  RestInv' \/ FgInv'
<1>1. CASE Start
  <2>1. ASSUME NEW j \in Job, NEW ps \in PidSeqs,
               ForkAndExec(j, ps, "run") \/ ForkAndExec(j, ps, "subst")
                 \/ ForegroundPipeline(j, ps)
        PROVE  FgInv'
    BY <2>1, ForegroundStep
  <2>2. ASSUME NEW j \in Job, NEW ps \in PidSeqs,
               \/ AsyncJob(j, ps, FALSE, TRUE)
               \/ \E ref \in BOOLEAN : AsyncJob(j, ps, TRUE, ref)
               \/ LastPipe(j, ps)
        PROVE  RestInv'
    BY <2>2, AsyncStep
  <2>3. ASSUME NEW ps \in PidSeqs, PipelineForkFails(ps)
        PROVE  RestInv'
    BY <2>3, ForkFailsStep
  <2>4. CASE EnterChild
    BY <2>4, EnterChildStep
  <2> QED
    BY <1>1, <2>1, <2>2, <2>3, <2>4 DEF Start
<1>2. CASE Command
  <2>1. ASSUME NEW j \in Job, JobDetach(j) \/ DropReference(j)
        PROVE  RestInv'
    BY <2>1, DetachStep, DropStep
  <2>2. ASSUME \/ \E j : SendJob(j)
               \/ \E p : KillPid(p) \/ SignalKill(p)
               \/ \E arg : Fg(arg)
               \/ \E arg, ids : Bg(arg, ids)
        PROVE  RestInv'
    BY <2>2, SignalStep
  <2>3. ASSUME \/ \E j \in Job : JobPoll(j) \/ DestroyPipeline(j)
               \/ \E j \in Job : \E errno : JobWait(j, errno)
               \/ \E fn : WaitAll(fn)
               \/ \E args, fn : WaitIds(args, fn)
        PROVE  RestInv'
    BY <2>3, CommandWaitStep
  <2>4. CASE HangUp
    BY <2>4, HangUpStep
  <2> QED
    BY <1>2, <2>1, <2>2, <2>3, <2>4 DEF Command, KillJob, JobRaise
<1>3. CASE Waiting
  <2>1. ~ProcWait /\ ~ProcWaitInterrupted
    BY DEF RestInv, RestFrame, ProcWait, ProcWaitInterrupted
  <2>2. ASSUME NEW p \in Pid, AnyReap(p) \/ ImplReap(p)
        PROVE  RestInv'
    BY <2>2, AnyReapStep, ImplReapStep
  <2>3. CASE AnyNothing \/ AnyDone \/ CheckVMEvent
    BY <2>3, AnyNothingStep, AnyDoneStep, CommandWaitStep
  <2>4. CASE Enter \/ ImplNothing \/ ImplInterrupted
    BY <2>4, EnterStep, ImplEndStep
  <2> QED
    BY <1>3, <2>1, <2>2, <2>3, <2>4 DEF Waiting
<1>4. CASE Environment
  BY <1>4, EnvironmentStep DEF RestInv
<1>5. CASE Aborted
  BY <1>5, UnchangedKernelLemma DEF Aborted, vars, shellVars, RestInv
<1> QED
  BY <1>1, <1>2, <1>3, <1>4, <1>5 DEF Next

(* A step while one is. *)
LEMMA FgStep ==
  ASSUME FgInv, Next
  PROVE  RestInv' \/ FgInv'
<1>1. frame # Idle /\ frame # Abort /\ frame.pc \notin {"any", "anyEnd", "enter", "impl"}
  BY DEF FgInv, Idle, Abort
<1>2. ~Start
  BY <1>1 DEF Start, ForkAndExec, ForegroundPipeline, AsyncJob, LastPipe, StartJob,
       PipelineForkFails, EnterChild
<1>3. ~Command
  BY <1>1 DEF Command, JobPoll, JobWait, WaitFrame, JobRaise, KillJob, SendJob, JobDetach,
       DestroyPipeline, DropReference, WaitAll, WaitIds, KillPid, SignalKill, HangUp, Fg,
       Bg
<1>4. CASE Waiting
  <2>1. ProcWait \/ ProcWaitInterrupted
    BY <1>1, <1>4 DEF Waiting, AnyReap, ImplReap, AnyNothing, AnyDone, CheckVMEvent, Enter,
         ImplNothing, ImplInterrupted
  <2> QED
    BY <2>1, ProcWaitStep, InterruptedStep
<1>5. CASE Environment
  BY <1>5, EnvironmentStep DEF FgInv, FrameShape
<1>6. ~Aborted
  BY <1>1 DEF Aborted
<1> QED
  BY <1>2, <1>3, <1>4, <1>5, <1>6 DEF Next

(* The table, the process table and the children agree in every state: the invariant
   behind every wait of job.cpp. *)
THEOREM Invariance ==
  Spec => []IInv
<1>1. Init => IInv
  BY InitLemma
<1>2. IInv /\ [Next]_vars => IInv'
  <2> SUFFICES ASSUME IInv, [Next]_vars
               PROVE  IInv'
    OBVIOUS
  <2>1. CASE Next
    <3>1. RestInv' \/ FgInv'
      BY <2>1, RestStep, FgStep, SplitLemma
    <3>2. (RestInv \/ FgInv)' => IInv'
      BY SplitLemma, PTL
    <3> QED
      BY <3>1, <3>2
  <2>2. CASE UNCHANGED vars
    BY <2>2 DEF vars, shellVars, kernelVars, IInv, KernelTypeOK, NoStatusLost, RunningKnown,
         Attached, ForegroundSound, FrameShape
  <2> QED
    BY <2>1, <2>2
<1> QED
  BY <1>1, <1>2, PTL DEF Spec

(* JobTable::jobs and the JobObjects agree on the ids (attach, removeTerminatedJobs,
   detachAll). *)
THEOREM IdsAgree ==
  Spec => []IdsMatch
<1>1. IInv => IdsMatch
  BY DEF IInv, ConsistentTable, IdsMatch
<1> QED
  BY <1>1, Invariance, PTL

(* Each entry of the process table names the process that has its pid. *)
THEOREM EntriesAgree ==
  Spec => []EntriesMatch
<1>1. IInv => EntriesMatch
  BY DEF IInv, ConsistentTable, EntriesMatch
<1> QED
  BY <1>1, Invariance, PTL

(* Every live process of a job of the table is registered, so that the status waitpid(-1)
   returns for it is recorded. *)
THEOREM ProcessesRegistered ==
  Spec => []ProcsRegistered
<1>1. IInv => ProcsRegistered
  BY DEF IInv, ConsistentTable, ProcsRegistered
<1> QED
  BY <1>1, Invariance, PTL

(* No wait reaps a process behind the back of the job it belongs to. *)
THEOREM StatusKept ==
  Spec => []NoStatusLost
<1>1. IInv => NoStatusLost
  BY DEF IInv
<1> QED
  BY <1>1, Invariance, PTL

(* The shell is back at the top of the VM's loop with no ended job in the table, and its
   latest job is one of the table. *)
THEOREM Settled ==
  Spec => []TableSettled
<1>1. IInv => TableSettled
  BY DEF IInv, ConsistentTable, TableSettled
<1> QED
  BY <1>1, Invariance, PTL

(* The vectors of jobs, the process table and the objects of the jobs agree whenever a step
   of the shell, of a child or of a signal ends. *)
THEOREM Agreement ==
  Spec => []TableAgrees
<1>1. IInv => TableAgrees
  BY DEF IInv, ConsistentTable, TableAgrees, IdsMatch, EntriesMatch, ProcsRegistered, TableSettled
<1> QED
  BY <1>1, Invariance, PTL

-----------------------------------------------------------------------------
(* Job ids across steps *)

-----------------------------------------------------------------------------
(* Jobs that leave the table *)

\* The processes of job j of T have ended, or are among `gone'.
Over(T, j, gone) ==
  \A k \in DOMAIN T.job[j].procs :
    T.job[j].procs[k].state = "TERMINATED" \/ T.job[j].procs[k].pid \in gone

\* Every job of T is still under its id in U, or is over and its id is free.
Kept(T, U, gone) ==
  \A i \in JobId : T.jobs[i] # NoJob =>
    \/ U.jobs[i] = T.jobs[i]
    \/ U.jobs[i] = NoJob /\ Over(T, T.jobs[i], gone)

\* Every job of T is still under its id in U.
Stays(T, U) == \A i \in JobId : T.jobs[i] # NoJob => U.jobs[i] = T.jobs[i]

Gone == {p \in Pid : JustReaped(p)}

(* attach puts a job under an id nobody has. *)
LEMMA AttachStays ==
  ASSUME NEW T, NEW j, NEW disowned
  PROVE  Stays(T, Attach(T, j, disowned))
<1>1. SUFFICES ASSUME NEW i \in JobId, T.jobs[i] # NoJob
               PROVE  Attach(T, j, disowned).jobs[i] = T.jobs[i]
  BY DEF Stays
<1>2. FindEmptyEntry(T) # i
  <2>1. FreeIds(T) \in SUBSET Nat
    BY DEF FreeIds, JobId
  <2>2. CASE FreeIds(T) = {}
    BY <2>2 DEF FindEmptyEntry, JobId
  <2>3. CASE FreeIds(T) # {}
    <3>1. FindEmptyEntry(T) \in FreeIds(T)
      BY <2>1, <2>3, MinLemma DEF FindEmptyEntry
    <3> QED
      BY <1>1, <3>1 DEF FreeIds
  <2> QED
    BY <2>2, <2>3
<1> QED
  BY <1>1, <1>2 DEF Attach

(* Nor does the end of a JobObject change the vector. *)
LEMMA CollectedJobs ==
  ASSUME NEW T, ConsistentTable(T), NEW refs
  PROVE  Collected(T, refs).jobs = T.jobs
  BY DEF ConsistentTable, Table, Collected

(* removeTerminatedJobs takes out jobs that are over. *)
LEMMA RemoveKeeps ==
  ASSUME NEW T, ConsistentTable(T)
  PROVE  Kept(T, RemoveTerminatedJobs(T), {})
<1>1. SUFFICES ASSUME NEW i \in JobId, T.jobs[i] # NoJob,
                      RemoveTerminatedJobs(T).jobs[i] # T.jobs[i]
               PROVE  /\ RemoveTerminatedJobs(T).jobs[i] = NoJob
                      /\ Over(T, T.jobs[i], {})
  BY DEF Kept
<1>2. i \in EndedIds(T) /\ RemoveTerminatedJobs(T).jobs[i] = NoJob
  BY <1>1 DEF RemoveTerminatedJobs
<1>3. T.jobs[i] \in Job /\ T.job[T.jobs[i]] \in JobObject
  BY <1>1 DEF ConsistentTable, Table
<1>4. T.job[T.jobs[i]].state = "TERMINATED"
  BY <1>1, <1>2, <1>3 DEF EndedIds, Available, ConsistentTable, AttachedSoundIn, JobObject
<1>5. AllTerminated(T.job[T.jobs[i]].procs)
  BY <1>3, <1>4 DEF ConsistentTable, SoundJob
<1> QED
  BY <1>2, <1>5 DEF Over, AllTerminated

(* updateProcState ends no process but the one waitpid has reaped. *)
LEMMA UpdateEnds ==
  ASSUME NEW T, ConsistentTable(T), KernelTypeOK, NEW p \in Pid, NEW op,
         Reportable(p, op), Reaped(p), ~FindsDeleted(T, p), NEW j \in Job,
         Over(UpdateProcState(T, Report(p)), j, {})
  PROVE  Over(T, j, Gone)
<1>1. PICK U : U = UpdateProcState(T, Report(p))
  OBVIOUS
<1>2. PICK q : q = FindProc(T, p)
  OBVIOUS
<1>3. /\ Report(p) \in WaitReport
      /\ Report(p).pid = p
      /\ Report(p).kind = "exited" <=> proc[p] = "zombie"
  BY ReportLemma
<1>4. CASE q = NoPid
  <2>1. U = T
    BY <1>1, <1>2, <1>3, <1>4 DEF UpdateProcState
  <2> QED
    BY <1>1, <2>1 DEF Over
<1>5. CASE q # NoPid
  <2>1. PICK e : e = T.entries[q]
    OBVIOUS
  <2>2. PICK m : m = T.jobs[e.jobId]
    OBVIOUS
  <2>3. PICK pr : pr = T.job[m].procs[e.offset]
    OBVIOUS
  <2>4. PICK new : new = UpdateProc(pr, Report(p))
    OBVIOUS
  <2>5. q \in Pid /\ e # NoEntry /\ ~IsDeleted(e) /\ T \in Table /\ e \in Entry
    <3>1. T \in Table
      BY DEF ConsistentTable
    <3>2. q \in Pid /\ T.entries[q] # NoEntry
      BY <1>2, <1>5, <3>1, FindProcLemma
    <3> QED
      BY <1>2, <1>5, <2>1, <3>1, <3>2 DEF FindsDeleted, Table
  <2>6. m # NoJob /\ e.offset \in DOMAIN T.job[m].procs /\ pr.pid = q
    BY <2>1, <2>2, <2>3, <2>5 DEF ConsistentTable, EntriesMatchIn
  <2>7. e.jobId \in JobId /\ m \in Job
    BY <2>2, <2>5, <2>6, JobAssumption DEF Entry, IsDeleted, JobId, Table
  <2>8. T.job[m] \in JobObject /\ SoundJob(T.job[m]) /\ T.job[m].state # "UNCONTROLLED"
    BY <2>2, <2>5, <2>6, <2>7 DEF ConsistentTable, Table, AttachedSoundIn
  <2>9. pr \in Proc /\ (pr.state = "TERMINATED" <=> pr.pid = NoPid)
    <3>1. T.job[m].procs \in Seq(Proc)
      BY <2>8 DEF JobObject
    <3> QED
      BY <2>3, <2>6, <2>8, <3>1, ElementOfSeq, LenProperties DEF SoundJob
  <2>10. /\ new \in Proc
         /\ new.state = "TERMINATED" <=> new.pid = NoPid
         /\ new.pid = pr.pid \/ (new.pid = NoPid /\ pr.pid = p)
    BY <1>3, <2>4, <2>9, UpdateProcLemma
  <2>11. Written(T.job[m], e.offset, new, WithProc(T.job[m], e.offset, new))
    BY <2>3, <2>6, <2>8, <2>9, <2>10, WithProcLemma
  <2>12. U = WriteProc(T, q, new)
    BY <1>1, <1>2, <1>3, <1>5, <2>1, <2>2, <2>3, <2>4 DEF UpdateProcState, ProcOf
  <2>13. U.job = [T.job EXCEPT ![m] = WithProc(T.job[m], e.offset, new)]
    BY <2>1, <2>2, <2>12 DEF WriteProc
  <2>14. CASE j # m
    BY <1>1, <2>13, <2>14 DEF Over
  <2>15. CASE j = m
    <3>1. U.job[j] = WithProc(T.job[m], e.offset, new)
      BY <2>5, <2>13, <2>15 DEF Table
    <3> SUFFICES ASSUME NEW k \in DOMAIN T.job[j].procs
                 PROVE  T.job[j].procs[k].state = "TERMINATED" \/ T.job[j].procs[k].pid \in Gone
      BY DEF Over
    <3>2. U.job[j].procs[k].state = "TERMINATED"
      BY <1>1, <2>11, <2>15, <3>1 DEF Over, Written
    <3>3. CASE k # e.offset
      BY <2>11, <2>15, <3>1, <3>2, <3>3 DEF Written
    <3>4. CASE k = e.offset
      <4>1. new.state = "TERMINATED" /\ new.pid = NoPid
        BY <2>10, <2>11, <2>15, <3>1, <3>2, <3>4 DEF Written
      <4>2. pr.pid = p
        BY <2>5, <2>6, <2>10, <4>1, PidAssumption
      <4>3. Report(p).kind = "exited"
        BY <1>3, <2>4, <2>6, <2>9, <4>1, <4>2, PidAssumption DEF UpdateProc, WaitReport, NewProcState
      <4>4. JustReaped(p)
        BY <1>3, <4>3 DEF Reaped, JustReaped, KernelTypeOK
      <4> QED
        BY <2>3, <2>15, <3>4, <4>2, <4>4 DEF Gone
    <3> QED
      BY <3>3, <3>4
  <2> QED
    BY <2>14, <2>15
<1> QED
  BY <1>4, <1>5

(* waitForJobImpl returns with the vector as it was, or without the jobs that are over. *)
LEMMA ReturnJobs ==
  ASSUME NEW T, ConsistentTable(T), NEW status, NEW err, Return(T, status, err)
  PROVE  table'.jobs \in {T.jobs, RemoveTerminatedJobs(T).jobs}
<1>1. PICK R : R = RemoveTerminatedJobs(T)
  OBVIOUS
<1>2. Collected(R, held \cup pipes).jobs = R.jobs
  BY <1>1, RemoveTerminatedJobsLemma, CollectedJobs
<1>3. table' \in {T, R, Collected(R, held \cup pipes)}
  BY <1>1 DEF Return
<1> QED
  BY <1>1, <1>2, <1>3

(* The jobs of T, in which no process has ended that was not reaped in this step, are kept
   by the removal of those that are over. *)
LEMMA ReapedKept ==
  ASSUME NEW T, NEW U, ConsistentTable(T), ConsistentTable(U), U.jobs = T.jobs,
         \A j \in Job : Over(U, j, {}) => Over(T, j, Gone),
         NEW V, V.jobs \in {U.jobs, RemoveTerminatedJobs(U).jobs}
  PROVE  Kept(T, V, Gone)
<1> SUFFICES ASSUME NEW i \in JobId, T.jobs[i] # NoJob, V.jobs[i] # T.jobs[i]
             PROVE  V.jobs[i] = NoJob /\ Over(T, T.jobs[i], Gone)
  BY DEF Kept
<1>1. V.jobs = RemoveTerminatedJobs(U).jobs
  OBVIOUS
<1>2. V.jobs[i] = NoJob /\ Over(U, U.jobs[i], {})
  BY <1>1, RemoveKeeps DEF Kept
<1>3. T.jobs[i] \in Job
  BY DEF ConsistentTable, Table
<1> QED
  BY <1>2, <1>3

-----------------------------------------------------------------------------
(* The steps *)

(* A step of a wait, while no foreground job is waited for. *)
LEMMA WaitingKeeps ==
  ASSUME RestInv, Waiting
  PROVE  Kept(table, table', Gone)
<1>1. ConsistentTable(table) /\ KernelTypeOK
  BY DEF RestInv, OwnRunning
<1>2. \A j \in Job : Over(table, j, {}) => Over(table, j, Gone)
  BY DEF Over
<1>3. ASSUME table'.jobs \in {table.jobs, RemoveTerminatedJobs(table).jobs}
      PROVE  Kept(table, table', Gone)
  BY <1>1, <1>2, <1>3, ReapedKept
<1>4. ASSUME NEW p \in Pid, AnyReap(p) \/ ImplReap(p)
      PROVE  Kept(table, table', Gone)
  <2>1. CASE FindsDeleted(table, p)
    BY <1>3, <1>4, <2>1 DEF AnyReap, ImplReap
  <2>2. CASE ~FindsDeleted(table, p)
    <3>1. PICK U : U = UpdateProcState(table, Report(p))
      OBVIOUS
    <3>2. PICK op : Reportable(p, op) /\ Reaped(p)
      BY <1>4 DEF AnyReap, ImplReap
    <3>3. Report(p) \in WaitReport /\ Report(p).pid = p
      BY <1>1, <3>2, ReportLemma
    <3>4. ConsistentTable(U) /\ U.jobs = table.jobs
      BY <1>1, <2>2, <3>1, <3>3, UpdateProcStateLemma
    <3>5. \A j \in Job : Over(U, j, {}) => Over(table, j, Gone)
      BY <1>1, <2>2, <3>1, <3>2, UpdateEnds
    <3>6. table' = U \/ \E status, err : Return(U, status, err)
      BY <1>4, <2>2, <3>1 DEF AnyReap, ImplReap
    <3>7. table'.jobs \in {U.jobs, RemoveTerminatedJobs(U).jobs}
      BY <3>4, <3>6, ReturnJobs
    <3> QED
      BY <1>1, <3>4, <3>5, <3>7, ReapedKept
  <2> QED
    BY <2>1, <2>2
<1>5. CASE AnyDone
  <2>1. Collected(RemoveTerminatedJobs(table), held \cup pipes).jobs
          = RemoveTerminatedJobs(table).jobs
    BY <1>1, RemoveTerminatedJobsLemma, CollectedJobs
  <2>2. table' \in {RemoveTerminatedJobs(table),
                    Collected(RemoveTerminatedJobs(table), held \cup pipes)}
    BY <1>5 DEF AnyDone
  <2> QED
    BY <1>3, <2>1, <2>2
<1>6. CASE Enter \/ ImplNothing \/ ImplInterrupted
  <2>1. table' = table \/ \E status, err : Return(table, status, err)
    BY <1>6 DEF Enter, ImplNothing, ImplInterrupted
  <2> QED
    BY <1>1, <1>3, <2>1, ReturnJobs
<1>7. CASE AnyNothing \/ CheckVMEvent
  BY <1>3, <1>7 DEF AnyNothing, CheckVMEvent
<1>8. ~ProcWait /\ ~ProcWaitInterrupted
  BY DEF RestInv, RestFrame, ProcWait, ProcWaitInterrupted
<1> QED
  BY <1>4, <1>5, <1>6, <1>7, <1>8 DEF Waiting

(* A step of the wait for a foreground job. *)
LEMMA ForegroundStays ==
  ASSUME FgInv, ProcWait \/ ProcWaitInterrupted
  PROVE  Stays(table, table')
<1>1. table \in Table
  BY DEF FgInv, FgOK, ConsistentTable
<1>2. ASSUME NEW T, "jobs" \in DOMAIN T, T.jobs = table.jobs,
             table' \in {T, Collected(T, held \cup pipes), Attach(T, frame.job, FALSE)}
      PROVE  Stays(table, table')
  <2>1. Collected(T, held \cup pipes).jobs = T.jobs
    BY <1>2 DEF Collected
  <2>2. Stays(T, Attach(T, frame.job, FALSE))
    BY AttachStays
  <2> QED
    BY <1>2, <2>1, <2>2 DEF Stays
<1>3. CASE ProcWaitInterrupted
  BY <1>1, <1>2, <1>3 DEF ProcWaitInterrupted, FinishForeground, Table
<1>4. CASE ProcWait
  <2>1. PICK new, T : /\ T = [table EXCEPT !.job[frame.job].procs[frame.idx] = new]
                      /\ \/ table' = T
                         \/ \E ret, err :
                              FinishForeground([T EXCEPT !.job[frame.job] = UpdateJob(@)], ret, err)
    BY <1>4 DEF ProcWait
  <2>2. "jobs" \in DOMAIN T /\ T.jobs = table.jobs
    BY <1>1, <2>1 DEF Table
  <2>3. PICK U : U = [T EXCEPT !.job[frame.job] = UpdateJob(@)]
    OBVIOUS
  <2>4. "jobs" \in DOMAIN U /\ U.jobs = table.jobs
    BY <2>2, <2>3
  <2>5. \/ table' = T
        \/ table' \in {U, Collected(U, held \cup pipes), Attach(U, frame.job, FALSE)}
    BY <2>1, <2>3 DEF FinishForeground
  <2> QED
    BY <1>2, <2>2, <2>4, <2>5
<1> QED
  BY <1>3, <1>4

(* A step that starts a job, in this shell. *)
LEMMA StartStays ==
  ASSUME table \in Table, Start, ~EnterChild
  PROVE  Stays(table, table')
<1>1. ASSUME NEW j \in Job, NEW ps
      PROVE  /\ Created(j, ps).jobs = table.jobs
             /\ \A disown : Stays(table, Attach(Created(j, ps), j, disown))
  <2>1. Created(j, ps).jobs = table.jobs
    BY DEF Created, Table
  <2> QED
    BY <2>1, AttachStays DEF Stays
<1>2. ASSUME NEW j \in Job, NEW ps,
             \/ \E fn : ForkAndExec(j, ps, fn)
             \/ ForegroundPipeline(j, ps)
      PROVE  Stays(table, table')
  <2>1. table' = Created(j, ps)
    BY <1>2 DEF ForkAndExec, ForegroundPipeline
  <2> QED
    BY <1>1, <2>1 DEF Stays
<1>3. ASSUME NEW j \in Job, NEW ps,
             \/ \E disown, ref : AsyncJob(j, ps, disown, ref)
             \/ LastPipe(j, ps)
      PROVE  Stays(table, table')
  <2>1. \E disown : table' = Attach(Created(j, ps), j, disown)
    BY <1>3 DEF AsyncJob, LastPipe
  <2> QED
    BY <1>1, <2>1
<1>4. ASSUME NEW ps, PipelineForkFails(ps)
      PROVE  Stays(table, table')
  BY <1>4 DEF PipelineForkFails, shellVars, Stays
<1> QED
  BY <1>2, <1>3, <1>4 DEF Start

(* A builtin command or a method, up to its wait. *)
LEMMA CommandStays ==
  ASSUME table \in Table, Command
  PROVE  Stays(table, table')
<1>1. ASSUME UNCHANGED table
      PROVE  Stays(table, table')
  BY <1>1 DEF Stays
<1>2. ASSUME NEW j \in Job, JobDetach(j) \/ DropReference(j)
      PROVE  Stays(table, table')
  <2>1. table'.jobs = table.jobs
    BY <1>2 DEF JobDetach, DropReference, Collected, Table
  <2> QED
    BY <2>1 DEF Stays
<1>3. ASSUME NEW j \in Job,
             \/ JobPoll(j) \/ JobRaise(j) \/ DestroyPipeline(j)
             \/ \E errno \in {"none", "stale"} : JobWait(j, errno)
      PROVE  UNCHANGED table
  BY <1>3 DEF JobPoll, JobRaise, SendJob, DestroyPipeline, JobWait, WaitFrame
<1>4. ASSUME \/ \E fn : WaitAll(fn)
             \/ \E args, fn : WaitIds(args, fn)
      PROVE  UNCHANGED table
  BY <1>4 DEF WaitAll, WaitIds
<1>5. ASSUME \/ \E id : KillJob(id)
             \/ \E p : KillPid(p) \/ SignalKill(p)
             \/ HangUp
             \/ \E arg : Fg(arg)
             \/ \E arg, ids : Bg(arg, ids)
      PROVE  UNCHANGED table
  BY <1>5 DEF KillJob, SendJob, KillPid, SignalKill, HangUp, Fg, Bg, shellVars
<1> QED
  BY <1>1, <1>2, <1>3, <1>4, <1>5 DEF Command

(* What a step may do to the ids of the table: a forked child detaches every job, anything
   else keeps them until the jobs are over. *)
LEMMA StepKeeps ==
  ASSUME IInv, [Next]_vars
  PROVE  EnterChild \/ Kept(table, table', Gone)
<1>1. table \in Table
  BY DEF IInv, ConsistentTable
<1>2. ASSUME Stays(table, table')
      PROVE  Kept(table, table', Gone)
  BY <1>2 DEF Stays, Kept
<1>3. CASE Start
  BY <1>1, <1>2, <1>3, StartStays
<1>4. CASE Command
  BY <1>1, <1>2, <1>4, CommandStays
<1>5. CASE Waiting
  <2>1. CASE FgInv
    <3>1. frame.pc = "proc"
      BY <2>1 DEF FgInv
    <3>2. ProcWait \/ ProcWaitInterrupted
      BY <1>5, <3>1 DEF Waiting, AnyReap, ImplReap, AnyNothing, AnyDone, CheckVMEvent, Enter,
           ImplNothing, ImplInterrupted, Idle
    <3> QED
      BY <1>2, <2>1, <3>2, ForegroundStays
  <2>2. CASE RestInv
    BY <1>5, <2>2, WaitingKeeps
  <2> QED
    BY <2>1, <2>2, SplitLemma
<1>6. CASE Environment
  <2>1. UNCHANGED table
    BY <1>6 DEF Environment, Exit, Stop, Continue, KernelStep
  <2> QED
    BY <1>2, <2>1 DEF Stays
<1>7. CASE Aborted \/ UNCHANGED vars
  <2>1. UNCHANGED table
    BY <1>7 DEF Aborted, vars, shellVars
  <2> QED
    BY <1>2, <2>1 DEF Stays
<1> QED
  BY <1>3, <1>4, <1>5, <1>6, <1>7 DEF Next

(* A job keeps its id until its last process has been reaped, or until the shell is the
   forked child: %id never names another job in between. *)
THEOREM IdsKept ==
  Spec => IdKeptUntilEnd
<1>1. IInv /\ [Next]_vars =>
        [\A i \in JobId :
           LET j == table.jobs[i]
           IN j # NoJob /\ table'.jobs[i] # j =>
                \/ table' = Collected(DetachAll(table), held \cup pipes)
                \/ /\ table'.jobs[i] = NoJob
                   /\ \A k \in DOMAIN table.job[j].procs :
                        LET pr == table.job[j].procs[k]
                        IN pr.state = "TERMINATED" \/ JustReaped(pr.pid)
        ]_vars
  BY StepKeeps DEF EnterChild, Kept, Over, Gone
<1> QED
  BY <1>1, Invariance, PTL DEF Spec, IdKeptUntilEnd
=============================================================================
