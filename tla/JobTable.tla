------------------------------ MODULE JobTable ------------------------------
(***************************************************************************)
(* The job table of src/src/job.h and src/src/job.cpp: Proc, JobObject,    *)
(* ProcTable and JobTable, as operators on one value T with the fields     *)
(*                                                                         *)
(*   job      every JobObject, by a handle                                 *)
(*   jobs     JobTable::jobs, the vector sorted by job id, as a map        *)
(*   entries  ProcTable::entries, the vector sorted by pid, as a map       *)
(*   deleted  ProcTable::deletedCount                                      *)
(*   latest   JobTable::latest                                             *)
(*                                                                         *)
(* A vector sorted by a key is the map from that key here; JobVectors has  *)
(* the vectors themselves and implements the maps.                         *)
(***************************************************************************)
EXTENDS Children, Sequences, FiniteSetsExt

CONSTANTS
  Job,          \* handles of JobObjects
  NoJob,        \* the null Job
  JobLimit,     \* UINT16_MAX, the largest job id
  MaxProcs      \* bound on the processes of one pipeline

ASSUME JobAssumption ==
  /\ NoJob \notin Job
  /\ JobLimit \in Nat \ {0}
  /\ MaxProcs \in Nat \ {0}

JobId == 1 .. JobLimit
Offset == 1 .. MaxProcs

Proc == [pid : Pid \cup {NoPid},
         state : {"RUNNING", "STOPPED", "TERMINATED"},
         exitStatus : WaitStatus]

JobObject == [state : {"RUNNING", "TERMINATED", "UNCONTROLLED"},
              jobID : 0 .. JobLimit,
              disown : BOOLEAN,
              procs : Seq(Proc)]

\* jobId = 0 marks a deleted entry; NoEntry: there is no entry for the pid.
Entry == [jobId : 0 .. JobLimit, offset : Offset]
NoEntry == [jobId |-> -1, offset |-> 0]

Table == [job : [Job -> JobObject],
          jobs : [JobId -> Job \cup {NoJob}],
          entries : [Pid -> Entry \cup {NoEntry}],
          deleted : Nat,
          latest : Job \cup {NoJob}]

\* A handle without a JobObject.
Unused == [state |-> "TERMINATED", jobID |-> 0, disown |-> FALSE, procs |-> <<>>]

EmptyTable ==
  [job |-> [j \in Job |-> Unused],
   jobs |-> [i \in JobId |-> NoJob],
   entries |-> [p \in Pid |-> NoEntry],
   deleted |-> 0,
   latest |-> NoJob]

-----------------------------------------------------------------------------
(* Proc and JobObject *)

\* JobObject::create on freshly forked processes.
NewJob(ps) ==
  [state |-> "RUNNING", jobID |-> 0, disown |-> FALSE,
   procs |-> [i \in DOMAIN ps |->
                [pid |-> ps[i], state |-> "RUNNING", exitStatus |-> EXIT_OK]]]

NewProcState == [exited |-> "TERMINATED", stopped |-> "STOPPED",
                 continued |-> "RUNNING"]

UpdateProc_noStatus(pr, ret) ==
  IF pr.state = "TERMINATED" \/ ret.pid # pr.pid
  THEN pr
  ELSE [pr EXCEPT !.pid = IF ret.kind = "exited" THEN NoPid ELSE @,
                  !.state = NewProcState[ret.kind]]

\* Proc::updateState
UpdateProc(pr, ret) ==
  IF pr.state = "TERMINATED" \/ ret.pid # pr.pid
  THEN pr
  ELSE [pid |-> IF ret.kind = "exited" THEN NoPid ELSE pr.pid,
        state |-> NewProcState[ret.kind],
        exitStatus |-> IF ret.kind = "continued" THEN pr.exitStatus ELSE ret.status]

AllTerminated(procs) == \A i \in DOMAIN procs : procs[i].state = "TERMINATED"

Available(T, j) == T.job[j].state = "RUNNING"

\* JobObject::updateState
UpdateJob(jo) ==
  IF jo.state = "RUNNING" /\ AllTerminated(jo.procs)
  THEN [jo EXCEPT !.state = "TERMINATED"]
  ELSE jo

\* A job whose process k has become pr.
WithProc(jo, k, pr) == UpdateJob([jo EXCEPT !.procs[k] = pr])

ExitStatus_first(T, j) == T.job[j].procs[1].exitStatus

\* JobObject::exitStatus
ExitStatus(T, j) == T.job[j].procs[Len(T.job[j].procs)].exitStatus

ProcPids(T, j) == {T.job[j].procs[i].pid : i \in DOMAIN T.job[j].procs} \ {NoPid}

\* findLastStopped: the offset of the last stopped process, 0 for nullptr.
LastStopped(jo) ==
  LET stopped == {i \in DOMAIN jo.procs : jo.procs[i].state = "STOPPED"}
      running == {i \in DOMAIN jo.procs : jo.procs[i].state = "RUNNING"}
  IN IF running # {} \/ stopped = {} THEN 0 ELSE Max(stopped)

(***************************************************************************)
(* JobObject::send: the pids that get the signal.  The pid of the first    *)
(* process is NoPid once it has terminated; getpgid(-1) fails with the     *)
(* same -1, the comparison holds, and the signal goes to kill(-(-1)), to   *)
(* process 1, which is no child of the shell.                              *)
(***************************************************************************)
SendTargets_notLeader(T, j) ==
  IF ~Available(T, j) THEN {} ELSE ProcPids(T, j) \ {T.job[j].procs[1].pid}

SendTargets(T, j) ==
  LET leader == T.job[j].procs[1].pid
  IN CASE ~Available(T, j) -> {}
       [] Available(T, j) /\ leader = NoPid -> {}
       [] Available(T, j) /\ leader # NoPid /\ pgid[leader] = leader ->
            {p \in Children : pgid[p] = leader}
       [] OTHER -> ProcPids(T, j)

-----------------------------------------------------------------------------
(* ProcTable *)

FindProc_upper(T, p) ==
  LET greater == {q \in Pid : q > p /\ T.entries[q] # NoEntry}
  IN IF greater = {} THEN NoPid ELSE Min(greater)

(***************************************************************************)
(* ProcTable::findProc: the pid of the entry it returns, NoPid for null.   *)
(* std::lower_bound finds the first entry whose pid is not less than p;    *)
(* whether it is p's own is not looked at.                                 *)
(***************************************************************************)
FindProc(T, p) ==
  LET notLess == {q \in Pid : q >= p /\ T.entries[q] # NoEntry}
  IN IF notLess = {} THEN NoPid ELSE Min(notLess)

\* ProcTable::add and addProc: skipped for a dead process and for a known pid.
AddProcs(T, procs, id) ==
  [p \in Pid |->
     LET mine == {i \in DOMAIN procs : procs[i].pid = p}
     IN IF id # 0 /\ mine # {} /\ T.entries[p] = NoEntry
        THEN [jobId |-> id, offset |-> Min(mine)]
        ELSE T.entries[p]]

IsDeleted(e) == e.jobId = 0
MarkDelete(e) == [jobId |-> 0, offset |-> e.offset]

-----------------------------------------------------------------------------
(* JobTable *)

FreeIds(T) == {i \in JobId : T.jobs[i] = NoJob}

FindEmptyEntry_offByOne(T) == IF FreeIds(T) = {} THEN 0 ELSE Min(FreeIds(T)) + 1

\* findEmptyEntry() + 1: the least id not in use.  With every id in use the
\* sum is UINT16_MAX + 1, which is 0 as an unsigned short.
FindEmptyEntry(T) == IF FreeIds(T) = {} THEN 0 ELSE Min(FreeIds(T))

\* JobTable::attach
Attach(T, j, disowned) ==
  LET id == FindEmptyEntry(T)
  IN IF T.job[j].jobID # 0
     THEN T
     ELSE [job |-> [T.job EXCEPT ![j].jobID = id, ![j].disown = @ \/ disowned],
           jobs |-> [i \in JobId |-> IF i = id THEN j ELSE T.jobs[i]],
           entries |-> AddProcs(T, T.job[j].procs, id),
           deleted |-> T.deleted,
           latest |-> IF disowned THEN T.latest ELSE j]

\* JobTable::find
FindJob(T, id) ==
  IF id \notin JobId THEN NoJob
  ELSE LET j == T.jobs[id]
       IN IF j = NoJob THEN NoJob ELSE IF T.job[j].disown THEN NoJob ELSE j

\* The assertion in JobTable::updateProcState fails: the entry found for p is
\* one that is already deleted.
FindsDeleted(T, p) == FindProc(T, p) # NoPid /\ IsDeleted(T.entries[FindProc(T, p)])

WriteProc_keepEntry(T, q, pr) ==
  LET e == T.entries[q]
  IN [T EXCEPT !.job[T.jobs[e.jobId]] = WithProc(@, e.offset, pr)]

\* The process of the entry of pid q becomes pr; the entry of one that has ended is
\* marked.
WriteProc(T, q, pr) ==
  LET e == T.entries[q]
      done == pr.state = "TERMINATED"
  IN [job |-> [T.job EXCEPT ![T.jobs[e.jobId]] = WithProc(@, e.offset, pr)],
      jobs |-> T.jobs,
      entries |-> IF done THEN [T.entries EXCEPT ![q] = MarkDelete(e)] ELSE T.entries,
      deleted |-> IF done THEN T.deleted + 1 ELSE T.deleted,
      latest |-> T.latest]

\* The process of the entry of pid q.
ProcOf(T, q) == T.job[T.jobs[T.entries[q].jobId]].procs[T.entries[q].offset]

\* JobTable::updateProcState, where ~FindsDeleted(T, ret.pid).
UpdateProcState(T, ret) ==
  LET q == FindProc(T, ret.pid)
  IN IF q = NoPid THEN T ELSE WriteProc(T, q, UpdateProc(ProcOf(T, q), ret))

\* The job and the process offset updateProcState returns for pid p.
UpdatedJob(T, p) ==
  IF FindProc(T, p) = NoPid THEN NoJob ELSE T.jobs[T.entries[FindProc(T, p)].jobId]
UpdatedOffset(T, p) == T.entries[FindProc(T, p)].offset

EndedIds_withStopped(T) ==
  {i \in JobId : /\ T.jobs[i] # NoJob
                 /\ \A k \in DOMAIN T.job[T.jobs[i]].procs :
                      T.job[T.jobs[i]].procs[k].state # "RUNNING"}

\* Ids of the jobs of the table that are not available any more.
EndedIds(T) == {i \in JobId : T.jobs[i] # NoJob /\ ~Available(T, T.jobs[i])}

\* ProcTable::batchedRemove
BatchedRemove(T) ==
  [p \in Pid |-> IF IsDeleted(T.entries[p]) THEN NoEntry ELSE T.entries[p]]

\* latest after the removal: the job of highest id that is not disowned, if
\* the former one has ended.
NewLatest(T) ==
  LET candidate == {i \in JobId \ EndedIds(T) : FindJob(T, i) # NoJob}
  IN CASE T.latest = NoJob -> NoJob
       [] T.latest # NoJob /\ Available(T, T.latest) -> T.latest
       [] OTHER -> IF candidate = {} THEN NoJob ELSE T.jobs[Max(candidate)]

\* JobTable::removeTerminatedJobs
RemoveTerminatedJobs(T) ==
  LET gone == {T.jobs[i] : i \in EndedIds(T)}
  IN IF T.deleted = 0 THEN T
     ELSE [job |-> [j \in Job |-> IF j \in gone
                                  THEN [T.job[j] EXCEPT !.jobID = 0, !.disown = TRUE]
                                  ELSE T.job[j]],
           jobs |-> [i \in JobId |-> IF i \in EndedIds(T) THEN NoJob ELSE T.jobs[i]],
           entries |-> BatchedRemove(T),
           deleted |-> 0,
           latest |-> IF EndedIds(T) = {} THEN T.latest ELSE NewLatest(T)]

\* JobTable::detachAll
DetachAll(T) ==
  LET attached == {T.jobs[i] : i \in JobId} \ {NoJob}
  IN [job |-> [j \in Job |-> IF j \in attached
                             THEN [T.job[j] EXCEPT !.jobID = 0, !.disown = TRUE,
                                                   !.state = "UNCONTROLLED"]
                             ELSE T.job[j]],
      jobs |-> [i \in JobId |-> NoJob],
      entries |-> [p \in Pid |-> NoEntry],
      deleted |-> 0,
      latest |-> NoJob]

\* ObjPtr: a JobObject is deleted with the last reference to it.  refs are the
\* jobs referred to from outside of the table.
Collected(T, refs) ==
  [T EXCEPT !.job = [j \in Job |-> IF \/ j \in refs
                                      \/ T.latest = j
                                      \/ \E i \in JobId : T.jobs[i] = j
                                   THEN T.job[j] ELSE Unused]]

-----------------------------------------------------------------------------
(* Consistency of a table *)

AttachedIn(T, j) == \E i \in JobId : T.jobs[i] = j

IdsMatchIn(T) ==
  /\ \A i \in JobId : T.jobs[i] # NoJob => T.job[T.jobs[i]].jobID = i
  /\ \A j \in Job : T.job[j].jobID # 0 => T.jobs[T.job[j].jobID] = j

EntriesMatchIn(T) ==
  \A p \in Pid :
    LET e == T.entries[p]
        j == T.jobs[e.jobId]
    IN e # NoEntry /\ ~IsDeleted(e) =>
         /\ j # NoJob
         /\ e.offset \in DOMAIN T.job[j].procs
         /\ T.job[j].procs[e.offset].pid = p

ProcsRegisteredIn(T) ==
  \A j \in Job : \A i \in DOMAIN T.job[j].procs :
    LET p == T.job[j].procs[i].pid
    IN AttachedIn(T, j) /\ p # NoPid =>
         T.entries[p] = [jobId |-> T.job[j].jobID, offset |-> i]

\* A process has a pid as long as it has not ended, and no other process of the job
\* has the same; a job has ended only when all its processes have.
SoundJob(jo) ==
  /\ Len(jo.procs) =< MaxProcs
  /\ \A i \in DOMAIN jo.procs : jo.procs[i].state = "TERMINATED" <=> jo.procs[i].pid = NoPid
  /\ \A i, k \in DOMAIN jo.procs :
       jo.procs[i].pid = jo.procs[k].pid /\ jo.procs[i].pid # NoPid => i = k
  /\ jo.state = "TERMINATED" => AllTerminated(jo.procs)

\* A job of the table is still the shell's own, and has processes.
AttachedSoundIn(T) ==
  \A i \in JobId : T.jobs[i] # NoJob =>
    /\ T.job[T.jobs[i]].procs # <<>>
    /\ T.job[T.jobs[i]].state # "UNCONTROLLED"

\* deletedCount is not 0 as long as there is something to remove.
DeletedCountedIn(T) ==
  /\ \A p \in Pid : IsDeleted(T.entries[p]) => T.deleted # 0
  /\ \A i \in JobId : T.jobs[i] # NoJob /\ ~Available(T, T.jobs[i]) => T.deleted # 0

\* The latest job is one of the table.
LatestAttachedIn(T) == T.latest # NoJob => AttachedIn(T, T.latest)

ConsistentTable(T) ==
  /\ T \in Table
  /\ IdsMatchIn(T)
  /\ EntriesMatchIn(T)
  /\ ProcsRegisteredIn(T)
  /\ \A j \in Job : SoundJob(T.job[j])
  /\ AttachedSoundIn(T)
  /\ DeletedCountedIn(T)
  /\ LatestAttachedIn(T)

\* Nothing waits to be removed.
SettledIn(T) ==
  /\ T.deleted = 0
  /\ \A p \in Pid : ~IsDeleted(T.entries[p])
  /\ \A i \in JobId : T.jobs[i] # NoJob => Available(T, T.jobs[i])

============
