------------------------ MODULE JobControlProperties ------------------------
(***************************************************************************)
(* What JobControl has to guarantee.                                       *)
(***************************************************************************)
EXTENDS JobControl

-----------------------------------------------------------------------------
(* Safety *)

Attached(j) == AttachedIn(table, j)

\* The vector and the objects agree on the ids: a job of the table is under its own
\* jobID, and every JobObject with an id is in the table (attach, detachAll,
\* removeTerminatedJobs).
IdsMatch == IdsMatchIn(table)

\* The process table maps a pid to the process that has it, in a job of the table;
\* a stale entry would let updateProcState write another process's status.
EntriesMatch == EntriesMatchIn(table)

\* ... and every process of the table that has not ended has its entry: without it
\* its exit status would be reaped and dropped, and its job would never end.
ProcsRegistered == ProcsRegisteredIn(table)

\* A process the shell has not seen end is still a child: no waitpid has reaped it
\* behind the back of the table or of the foreground wait.
NoStatusLost ==
  \A j \in Job : \A i \in DOMAIN table.job[j].procs :
    table.job[j].state = "RUNNING" /\ table.job[j].procs[i].pid # NoPid =>
      proc[table.job[j].procs[i].pid] # "free"

\* A child that runs or is stopped belongs to a job of the table or to the job the
\* shell waits for in the foreground (only the children callPipeline killed when a
\* fork failed belong to nothing); and one that has something to report is announced:
\* while signals are not blocked, SIGCHLD is pending (clearPendingSignal comes before the
\* loop of waitForAny, and builtin_wait ends with waitForAny).
ChildrenKnown ==
  /\ \A p \in Pid : proc[p] \in {"running", "stopped"} =>
       \E j \in Job : /\ Attached(j) \/ (frame.pc = "proc" /\ frame.job = j)
                     /\ p \in ProcPids(table, j)
  /\ ~SignalsBlocked /\ frame.pc # "abort" /\ (\E p \in Pid : Reportable(p, "NONBLOCKING"))
       => pendingCHLD

\* At the top of the VM's loop the table holds available jobs only, nothing waits to
\* be removed, and the latest job is one of the table: what find, fg and the
\* assertions of updateProcState rely on.
TableSettled ==
  /\ frame.pc = "idle" => SettledIn(table)
  /\ LatestAttachedIn(table)

\* The vectors, the process table and the objects of the jobs agree whenever a step ends.
TableAgrees == IdsMatch /\ EntriesMatch /\ ProcsRegistered /\ TableSettled

-----------------------------------------------------------------------------
(* The inductive invariant behind the safety properties of the table *)

\* A job that runs is a job of the table or the one waited for in the foreground.
RunningKnown ==
  \A j \in Job : table.job[j].state = "RUNNING" =>
    Attached(j) \/ (frame.pc = "proc" /\ frame.job = j)

\* The job waited for in the foreground is not in the table, there is an id for it,
\* no entry of the process table stands in its way, and the processes still to be
\* waited for have not ended.
ForegroundSound ==
  frame.pc = "proc" =>
    /\ frame.job \in Job
    /\ FreeIds(table) # {}
    /\ LET jo == table.job[frame.job]
       IN /\ jo.jobID = 0
          /\ jo.state = "RUNNING"
          /\ frame.idx \in DOMAIN jo.procs
          /\ \A i \in DOMAIN jo.procs :
               /\ i >= frame.idx => jo.procs[i].state # "TERMINATED"
               /\ jo.procs[i].pid # NoPid => table.entries[jo.procs[i].pid] = NoEntry

FrameShape ==
  /\ DOMAIN frame = DOMAIN Idle
  /\ frame.pc \in {"idle", "proc", "enter", "impl", "any", "anyEnd", "abort"}

IInv ==
  /\ KernelTypeOK
  /\ ConsistentTable(table)
  /\ NoStatusLost
  /\ RunningKnown
  /\ ForegroundSound
  /\ FrameShape
  /\ frame.pc \in {"idle", "proc"} => SettledIn(table)

-----------------------------------------------------------------------------
(* The inductive invariants behind the properties of the waits *)

Live == {p \in Pid : proc[p] \in {"running", "stopped"}}

\* The job waited for in the foreground, which is not one of the table yet.
Foreground == IF frame.pc = "proc" THEN {frame.job} ELSE {}

\* The pids in `ps' are those of processes of the jobs of table T, or of the jobs in `own'.
Known(T, own, ps) ==
  \A p \in ps : \E j \in Job : (AttachedIn(T, j) \/ j \in own) /\ p \in ProcPids(T, j)

\* While waitForAny is leaving, what a child has reported since its last waitpid is
\* announced by the SIGCHLD its SignalGuard holds back.
Announced ==
  (\E p \in Pid : Reportable(p, "NONBLOCKING")) =>
    /\ ~SignalsBlocked /\ frame.pc # "abort" => pendingCHLD
    /\ frame.pc = "anyEnd" => pendingCHLD \/ kernelCHLD

\* The processes of a job that runs are all in the group of its first process, when that
\* process leads one.
GroupKept(T, group) ==
  \A j \in Job :
    LET procs == T.job[j].procs
        leader == procs[1].pid
    IN T.job[j].state = "RUNNING" /\ leader # NoPid /\ group[leader] = leader =>
         \A i \in DOMAIN procs : procs[i].pid # NoPid => group[procs[i].pid] = leader

HasProcs(T, j) == j \in Job /\ T.job[j].procs # <<>>

\* The operation a wait is for: waitpid is told not to block by job_poll alone, and a
\* process that stops is looked for under job control only.
OpSound(f) ==
  /\ f.op = "NONBLOCKING" => f.fn = "poll"
  /\ f.op = "BLOCK_UNTRACED" => JobControl

\* The jobs a wait still has to return the status of have processes, those its arguments
\* name among them.
FrameSound(T, f) ==
  /\ f \in Frame
  /\ f.fn = "fg" => JobControl /\ f.job # NoJob /\ f.todo = <<>>
  /\ (f.fn = "fg" \/ f.pc \in {"enter", "impl"}) /\ f.job # NoJob => HasProcs(T, f.job)
  /\ f.pc \in {"enter", "impl"} =>
       /\ OpSound(f)
       /\ \A i \in DOMAIN f.todo :
            /\ HasProcs(T, f.todo[i].job)
            /\ f.todo[i].offset \in {0} \cup DOMAIN T.job[f.todo[i].job].procs
       /\ f.fn = "wait" => f.todo # <<>> /\ f.job = f.todo[1].job
  /\ f.pc = "impl" /\ f.job # NoJob => Available(T, f.job)
  /\ f.pc = "proc" =>
       /\ f.fn \in {"run", "subst"}
       /\ OpSound(f)
       /\ \A i \in DOMAIN T.job[f.job].procs :
            LET state == T.job[f.job].procs[i].state
            IN IF i >= f.idx THEN state = "RUNNING"
               ELSE state = "TERMINATED" \/ (JobControl /\ state = "STOPPED")

\* ... and a job the script or a pipeline refers to is never deleted.
WaitInv ==
  /\ FrameSound(table, frame)
  /\ held \subseteq Job /\ pipes \subseteq Job
  /\ \A j \in held \cup pipes : HasProcs(table, j)
  /\ root \in BOOLEAN /\ pendingCHLD \in BOOLEAN /\ kernelCHLD \in BOOLEAN

-----------------------------------------------------------------------------
(* Action properties *)

JustReaped(p) == proc[p] = "zombie" /\ proc'[p] = "free"

\* What the step records of job j.  (A JobObject that the same step deletes takes its
\* statuses with it.)
StatusRecorded(j) ==
  /\ \A i \in DOMAIN table.job[j].procs :
       LET old == table.job[j].procs[i]
           new == table'.job[j].procs[i]
       IN table.job[j].state = "RUNNING" /\ table'.job[j].procs # <<>>
            /\ table'.job[j].state # "UNCONTROLLED" =>
            /\ old.state # "TERMINATED" /\ JustReaped(old.pid) =>
                 new = [pid |-> NoPid, state |-> "TERMINATED", exitStatus |-> code[old.pid]]
            /\ new.state = "TERMINATED" =>
                 new = old \/ (old.state # "TERMINATED" /\ JustReaped(old.pid))
  /\ table.job[j].procs # <<>> /\ table.job[j].state = "TERMINATED" =>
       table'.job[j] = Unused \/ table'.job[j].procs = table.job[j].procs

\* A process is recorded as terminated exactly when it is reaped, with the status
\* waitpid gave for it, whichever of the three loops has reaped it.  The statuses of an
\* ended job never change as long as somebody can ask for them (Job#status, Job#wait).
ReapRecorded == [][\A j \in Job : StatusRecorded(j)]_vars

\* A job keeps its id until its last process has been reaped (or until the shell is
\* the forked child), so %id never names another job in between.
IdKeptUntilEnd ==
  [][\A i \in JobId :
       LET j == table.jobs[i]
       IN j # NoJob /\ table'.jobs[i] # j =>
            \/ table' = Collected(DetachAll(table), held \cup pipes)
            \/ /\ table'.jobs[i] = NoJob
               /\ \A k \in DOMAIN table.job[j].procs :
                    LET pr == table.job[j].procs[k]
                    IN pr.state = "TERMINATED" \/ JustReaped(pr.pid)
    ]_vars

\* The wait for job j has ended, when it returns ret: in an error, with the exit status of
\* a job that has ended, or, under job control, with a process of the job stopped.
WaitEnded(T, j, ret) ==
  LET jo == T.job[j]
  IN \/ ret = -1
     \/ jo.state = "TERMINATED" /\ ret = jo.procs[Len(jo.procs)].exitStatus
     \/ /\ JobControl
        /\ jo.state = "RUNNING"
        /\ \E i \in DOMAIN jo.procs : jo.procs[i].state = "STOPPED"

\* Waiting for a job in the foreground, by Job#wait or in ~PipelineObject ends with an
\* error, with the ended job's exit status, or, under job control, with a process of
\* the job stopped.
WaitEndsWithJob ==
  [][frame.pc # "any" /\ frame'.pc = "any" /\ frame'.fn = "return" /\ frame'.job # NoJob =>
       WaitEnded(table', frame'.job, frame'.ret)
    ]_vars

\* What `wait' answers for the targets todo, with the table T.
IdsAnswered(T, fn, todo, ret) ==
  LET ended == EndedTargets(T, todo)
      t == todo[Len(todo)]
      procs == T.job[t.job].procs
      status == procs[IF t.offset = 0 THEN Len(procs) ELSE t.offset].exitStatus
  IN IF fn = "waitAnyOf"
     THEN \E i \in ended : ret = ExitStatus(T, todo[i].job)
     ELSE \/ ended # {} /\ ret = status
          \/ JobControl /\ \E i \in DOMAIN procs : procs[i].state = "STOPPED"

\* `wait id ...' returns the status of the last id, that of the process when the id is
\* a pid, once that job has ended (or, under job control, is stopped); `wait -n id ...'
\* returns the status of a job that has ended.  Reaping one job in the wait for
\* another must not lose the status of either.
WaitIdsStatus ==
  [][frame.fn \in {"wait", "waitAnyOf"} /\ frame'.fn = "return" /\ frame'.ret # -1 =>
       IdsAnswered(table', frame.fn, frame.todo, frame'.ret)
    ]_vars

\* `kill %id' and Job#raise reach every process of the job as long as its first
\* process has not been reaped.
SignalReachesGroup ==
  [][\A j \in Job :
       /\ \/ \E id \in JobId : FindJob(table, id) = j /\ KillJob(id)
          \/ JobRaise(j)
       /\ Available(table, j) /\ table.job[j].procs[1].pid # NoPid
       => \A p \in ProcPids(table, j) : proc'[p] \in {"dying", "zombie"}
    ]_vars

-----------------------------------------------------------------------------
(***************************************************************************)
(* Liveness.  The VM's loop checks the pending signals before every        *)
(* instruction, so a SIGCHLD that is pending again and again at its top is *)
(* taken (strong fairness); a waitpid that has something to return does    *)
(* so, and the kernel scans all the children, so none is passed over for   *)
(* ever.  That a child ends is an assumption on the commands of the script.*)
(***************************************************************************)
Fairness ==
  /\ WF_vars(ProcWait) /\ WF_vars(AnyNothing) /\ WF_vars(AnyDone) /\ WF_vars(Enter)
  /\ WF_vars(ImplNothing)
  /\ SF_vars(CheckVMEvent)
  /\ \A p \in Pid : /\ SF_vars(AnyReap(p)) /\ SF_vars(ImplReap(p))
                     /\ WF_vars(Exit(p))

LiveSpec == Spec /\ Fairness

\* No zombie stays: whatever the shell does when a child ends, it reaps it (or has
\* failed on an assertion).
ZombieReaped == \A p \in Pid : proc[p] = "zombie" ~> proc[p] # "zombie"

\* Every wait comes back when the children end.
WaitReturns == frame.pc # "idle" ~> frame.pc = "idle"

=============================================================================
