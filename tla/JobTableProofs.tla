--------------------------- MODULE JobTableProofs ---------------------------
(***************************************************************************)
(* Every operation of JobTable keeps a table consistent.                   *)
(***************************************************************************)
EXTENDS JobTable, FiniteSetTheorems, WellFoundedInduction, SequenceTheorems, TLAPS

-----------------------------------------------------------------------------
(* Least elements *)

(* A non-empty set of naturals has a least element, which is what Min chooses: the
   bound lower_bound and findEmptyEntry return. *)
LEMMA MinLemma ==
  ASSUME NEW S \in SUBSET Nat, S # {}
  PROVE  Min(S) \in S /\ \A y \in S : Min(S) =< y
<1> DEFINE Below == {0 .. x : x \in S}
<1>1. \A x \in S : 0 .. x \in FiniteSubsetsOf(Nat)
  BY FS_Interval DEF FiniteSubsetsOf
<1>2. PICK A \in Below : \A B \in Below : <<B, A>> \notin StrictSubsetOrdering(Nat)
  <2>1. Below \subseteq FiniteSubsetsOf(Nat) /\ Below # {}
    BY <1>1
  <2> QED
    BY <2>1, FS_StrictSubsetOrderingWellFounded, WFMin, Zenon
<1>3. PICK x \in S : A = 0 .. x
  BY <1>2
<1>4. ASSUME NEW y \in S PROVE x =< y
  <2>1. 0 .. y \in Below
    OBVIOUS
  <2>2. <<0 .. y, A>> \notin StrictSubsetOrdering(Nat)
    BY <1>2, <2>1
  <2>3. CASE y < x
    <3>1. 0 .. y \subseteq 0 .. x /\ x \in 0 .. x /\ x \notin 0 .. y
      BY <2>3
    <3> QED
      BY <3>1, <2>2, <1>3 DEF StrictSubsetOrdering
  <2> QED
    BY <2>3
<1> QED
  BY <1>4 DEF Min

(* A non-empty set of naturals with an upper bound has a greatest element. *)
LEMMA MaxLemma ==
  ASSUME NEW n \in Nat, NEW S \in SUBSET (0 .. n), S # {}
  PROVE  Max(S) \in S /\ \A y \in S : Max(S) >= y
<1> DEFINE Down == {n - x : x \in S}
<1>1. Down \in SUBSET Nat /\ Down # {}
  OBVIOUS
<1>2. Min(Down) \in Down /\ \A d \in Down : Min(Down) =< d
  BY <1>1, MinLemma
<1>3. PICK x \in S : Min(Down) = n - x
  BY <1>2
<1>4. \A y \in S : n - x =< n - y
  BY <1>2, <1>3
<1>5. \A y \in S : x >= y
  BY <1>4
<1> QED
  BY <1>5 DEF Max

-----------------------------------------------------------------------------
(* Searches *)

(* findProc returns an entry of the table, and the one of the pid if there is one. *)
LEMMA FindProcLemma ==
  ASSUME NEW T \in Table, NEW p \in Pid
  PROVE  /\ FindProc(T, p) \in Pid \cup {NoPid}
         /\ FindProc(T, p) # NoPid => T.entries[FindProc(T, p)] # NoEntry
         /\ T.entries[p] # NoEntry => FindProc(T, p) = p
<1> DEFINE S == {q \in Pid : q >= p /\ T.entries[q] # NoEntry}
<1>1. S \in SUBSET Nat
  BY PidAssumption
<1>2. CASE S = {}
  <2>1. T.entries[p] = NoEntry
    BY <1>2, PidAssumption
  <2> QED
    BY <1>2, <2>1 DEF FindProc
<1>3. CASE S # {}
  <2>1. FindProc(T, p) = Min(S)
    BY <1>3 DEF FindProc
  <2>2. Min(S) \in S /\ \A q \in S : Min(S) =< q
    BY <1>1, <1>3, MinLemma
  <2>3. ASSUME T.entries[p] # NoEntry PROVE Min(S) = p
    <3>1. p \in S
      BY <2>3, PidAssumption
    <3>2. Min(S) =< p /\ Min(S) >= p /\ Min(S) \in Nat
      BY <3>1, <2>2, <1>1
    <3> QED
      BY <3>2, PidAssumption
  <2> QED
    BY <2>1, <2>2, <2>3
<1> QED
  BY <1>2, <1>3

(* findEmptyEntry returns an id that is not in use, if there is one. *)
LEMMA FindEmptyEntryLemma ==
  ASSUME NEW T \in Table, FreeIds(T) # {}
  PROVE  FindEmptyEntry(T) \in FreeIds(T)
<1>1. FreeIds(T) \in SUBSET Nat
  BY DEF FreeIds, JobId
<1> QED
  BY <1>1, MinLemma DEF FindEmptyEntry

-----------------------------------------------------------------------------
(* One job *)

\* The reports waitpid can give.
WaitReport == [pid : Pid, kind : {"exited", "stopped", "continued"}, status : WaitStatus]

(* updateState of a process: its pid is kept, or gone because it has exited. *)
LEMMA UpdateProcLemma ==
  ASSUME NEW pr \in Proc, NEW ret \in WaitReport,
         pr.state = "TERMINATED" <=> pr.pid = NoPid
  PROVE  LET new == UpdateProc(pr, ret)
         IN /\ new \in Proc
            /\ new.state = "TERMINATED" <=> new.pid = NoPid
            /\ new.pid = pr.pid \/ (new.pid = NoPid /\ pr.pid = ret.pid)
            /\ pr.pid = ret.pid /\ ret.kind = "exited" => new.pid = NoPid
            /\ pr.pid # ret.pid => new = pr
  BY PidAssumption DEF UpdateProc, Proc, WaitReport, NewProcState

\* Job new is jo with process k replaced by pr.
Written(jo, k, pr, new) ==
  /\ new \in JobObject
  /\ SoundJob(new)
  /\ new.jobID = jo.jobID
  /\ new.disown = jo.disown
  /\ DOMAIN new.procs = DOMAIN jo.procs
  /\ \A i \in DOMAIN jo.procs : new.procs[i] = IF i = k THEN pr ELSE jo.procs[i]
  /\ new.state \in {jo.state, "TERMINATED"}
  /\ new.state # jo.state => AllTerminated(new.procs)

(* Writing one process of a sound job, and updateState of the job, give a sound job. *)
LEMMA WithProcLemma ==
  ASSUME NEW jo \in JobObject, SoundJob(jo), jo.state # "UNCONTROLLED",
         NEW k \in DOMAIN jo.procs, NEW pr \in Proc,
         pr.state = "TERMINATED" <=> pr.pid = NoPid,
         pr.pid = NoPid \/ pr.pid = jo.procs[k].pid
  PROVE  Written(jo, k, pr, WithProc(jo, k, pr))
<1> DEFINE ps == [jo.procs EXCEPT ![k] = pr]
           upd == [jo EXCEPT !.procs[k] = pr]
           new == WithProc(jo, k, pr)
<1>1. jo.procs \in Seq(Proc) /\ DOMAIN jo.procs = 1 .. Len(jo.procs)
  BY LenProperties DEF JobObject
<1>2. /\ ps \in Seq(Proc) /\ Len(ps) = Len(jo.procs)
      /\ \A i \in 1 .. Len(jo.procs) : ps[i] = IF i = k THEN pr ELSE jo.procs[i]
      /\ DOMAIN ps = 1 .. Len(jo.procs)
  BY <1>1, ExceptSeq, LenProperties, Zenon
<1>3. /\ upd \in JobObject /\ upd.procs = ps /\ upd.state = jo.state
      /\ upd.jobID = jo.jobID /\ upd.disown = jo.disown
  BY <1>2 DEF JobObject
<1>4. /\ new \in JobObject /\ new.procs = ps
      /\ new.jobID = jo.jobID /\ new.disown = jo.disown
      /\ new.state = IF jo.state = "RUNNING" /\ AllTerminated(ps) THEN "TERMINATED"
                                                                   ELSE jo.state
  BY <1>3 DEF WithProc, UpdateJob, JobObject
<1> HIDE DEF ps, upd, new
<1>5. \A i \in DOMAIN ps : ps[i].state = "TERMINATED" <=> ps[i].pid = NoPid
  BY <1>1, <1>2 DEF SoundJob
<1>6. \A i, m \in DOMAIN ps : ps[i].pid = ps[m].pid /\ ps[i].pid # NoPid => i = m
  BY <1>1, <1>2 DEF SoundJob
<1>7. jo.state = "TERMINATED" => AllTerminated(ps)
  <2> SUFFICES ASSUME jo.state = "TERMINATED", NEW i \in DOMAIN ps
               PROVE  ps[i].state = "TERMINATED"
    BY DEF AllTerminated
  <2>1. \A m \in DOMAIN jo.procs : jo.procs[m].state = "TERMINATED" /\ jo.procs[m].pid = NoPid
    BY DEF SoundJob, AllTerminated
  <2> QED
    BY <1>1, <1>2, <2>1
<1>8. SoundJob(new)
  <2>1. new.procs = ps /\ (new.state = "TERMINATED" => AllTerminated(ps))
    BY <1>4, <1>7
  <2>2. Len(ps) =< MaxProcs
    BY <1>2 DEF SoundJob
  <2> QED
    BY <2>1, <2>2, <1>5, <1>6 DEF SoundJob
<1>9. new.state # jo.state => AllTerminated(new.procs)
  BY <1>4
<1> QED
  BY <1>1, <1>2, <1>4, <1>8, <1>9 DEF Written, new

-----------------------------------------------------------------------------
(* updateProcState *)

\* From T to U jobs have only ended, and processes only lost their pid.
OnlyEnded(T, U) ==
  \A j \in Job :
    /\ U.job[j].state \in {T.job[j].state, "TERMINATED"}
    /\ U.job[j].jobID = T.job[j].jobID
    /\ DOMAIN U.job[j].procs = DOMAIN T.job[j].procs
    /\ \A i \in DOMAIN T.job[j].procs :
         U.job[j].procs[i].pid \in {T.job[j].procs[i].pid, NoPid}

\* Entry e of pid q names a process of job j, which may become pr.
Writable(T, q, e, j, pr) ==
  /\ ConsistentTable(T)
  /\ q \in Pid /\ j \in Job /\ e \in Entry /\ e.jobId \in JobId
  /\ e = T.entries[q]
  /\ j = T.jobs[e.jobId]
  /\ e.offset \in DOMAIN T.job[j].procs
  /\ T.job[j].procs[e.offset].pid = q
  /\ pr \in Proc
  /\ pr.state = "TERMINATED" <=> pr.pid = NoPid
  /\ pr.pid \in {q, NoPid}

(* Writing one process through its entry keeps the table consistent. *)
LEMMA WriteProcLemma ==
  ASSUME NEW T, NEW q, NEW e, NEW j, NEW pr, Writable(T, q, e, j, pr)
  PROVE  LET U == WriteProc(T, q, pr)
         IN /\ ConsistentTable(U)
            /\ U.jobs = T.jobs
            /\ OnlyEnded(T, U)
            /\ U.job[j].procs[e.offset] = pr
<1>a. PICK jo : jo = T.job[j]
  OBVIOUS
<1>b. PICK jn : jn = WithProc(jo, e.offset, pr)
  OBVIOUS
<1>c. PICK U : U = WriteProc(T, q, pr)
  OBVIOUS
<1>1. /\ T.job \in [Job -> JobObject] /\ T.jobs \in [JobId -> Job \cup {NoJob}]
      /\ T.entries \in [Pid -> Entry \cup {NoEntry}] /\ T.deleted \in Nat
      /\ T.latest \in Job \cup {NoJob}
  BY DEF Writable, ConsistentTable, Table
<1>0. /\ q \in Pid /\ j \in Job /\ e \in Entry /\ e.jobId \in JobId
      /\ e = T.entries[q] /\ j = T.jobs[e.jobId]
  BY DEF Writable
<1>q. e.offset \in DOMAIN jo.procs /\ jo.procs[e.offset].pid = q
  BY <1>a DEF Writable
<1>r. pr \in Proc /\ (pr.state = "TERMINATED" <=> pr.pid = NoPid)
  BY DEF Writable
<1>s. pr.pid = NoPid \/ pr.pid = jo.procs[e.offset].pid
  BY <1>q DEF Writable
<1>d. /\ IdsMatchIn(T) /\ EntriesMatchIn(T) /\ ProcsRegisteredIn(T)
      /\ AttachedSoundIn(T) /\ DeletedCountedIn(T)
  BY DEF Writable, ConsistentTable
<1>e. \A k \in Job : SoundJob(T.job[k])
  BY DEF Writable, ConsistentTable
<1>2. /\ jo \in JobObject /\ SoundJob(jo) /\ jo.jobID = e.jobId
      /\ jo.state # "UNCONTROLLED"
  BY <1>a, <1>0, <1>1, JobAssumption DEF Writable, ConsistentTable, AttachedSoundIn, IdsMatchIn
<1>3. /\ U.job = [T.job EXCEPT ![j] = jn]
      /\ U.jobs = T.jobs
      /\ U.entries = IF pr.state = "TERMINATED" THEN [T.entries EXCEPT ![q] = MarkDelete(e)]
                                                ELSE T.entries
      /\ U.deleted = IF pr.state = "TERMINATED" THEN T.deleted + 1 ELSE T.deleted
      /\ U.latest = T.latest
      /\ U = [job |-> U.job, jobs |-> U.jobs, entries |-> U.entries,
              deleted |-> U.deleted, latest |-> U.latest]
  BY <1>0, <1>1, <1>a, <1>b, <1>c DEF WriteProc
<1>4. Written(jo, e.offset, pr, jn)
  BY <1>2, <1>b, <1>q, <1>r, <1>s, WithProcLemma
<1>5. /\ \A k \in Job : U.job[k] = IF k = j THEN jn ELSE T.job[k]
      /\ \A p \in Pid : U.entries[p] =
           IF p = q /\ pr.state = "TERMINATED" THEN MarkDelete(e) ELSE T.entries[p]
  BY <1>0, <1>a, <1>1, <1>3
<1>6. OnlyEnded(T, U)
  <2> SUFFICES ASSUME NEW k \in Job
               PROVE  /\ U.job[k].state \in {T.job[k].state, "TERMINATED"}
                      /\ U.job[k].jobID = T.job[k].jobID
                      /\ DOMAIN U.job[k].procs = DOMAIN T.job[k].procs
                      /\ \A i \in DOMAIN T.job[k].procs :
                           U.job[k].procs[i].pid \in {T.job[k].procs[i].pid, NoPid}
    BY DEF OnlyEnded
  <2>1. CASE k # j
    BY <2>1, <1>5
  <2>2. CASE k = j
    <3>1. U.job[k] = jn /\ T.job[k] = jo
      BY <2>2, <1>0, <1>a, <1>5
    <3>2. \A i \in DOMAIN jo.procs : jn.procs[i].pid \in {jo.procs[i].pid, NoPid}
      BY <1>q, <1>s, <1>4 DEF Written
    <3> QED
      BY <3>1, <3>2, <1>4 DEF Written
  <2> QED
    BY <2>1, <2>2
<1>7. U \in Table
  <2>1. U.job \in [Job -> JobObject]
    BY <1>0, <1>1, <1>3, <1>4 DEF Written
  <2>2. U.entries \in [Pid -> Entry \cup {NoEntry}]
    <3>1. MarkDelete(e) \in Entry
      BY <1>0, JobAssumption DEF MarkDelete, Entry
    <3> QED
      BY <1>1, <1>3, <3>1
  <2>3. U.deleted \in Nat
    BY <1>1, <1>3
  <2> QED
    BY <1>1, <1>3, <2>1, <2>2, <2>3 DEF Table
<1>8. IdsMatchIn(U)
  <2>1. \A k \in Job : U.job[k].jobID = T.job[k].jobID
    BY <1>6 DEF OnlyEnded
  <2>2. \A i \in JobId : T.jobs[i] # NoJob => T.jobs[i] \in Job
    BY <1>1
  <2> QED
    BY <2>1, <2>2, <1>d, <1>3 DEF IdsMatchIn
<1>9. EntriesMatchIn(U)
  <2> SUFFICES ASSUME NEW p \in Pid, U.entries[p] # NoEntry, ~IsDeleted(U.entries[p])
               PROVE  LET f == U.entries[p]
                          k == U.jobs[f.jobId]
                      IN /\ k # NoJob
                         /\ f.offset \in DOMAIN U.job[k].procs
                         /\ U.job[k].procs[f.offset].pid = p
    BY DEF EntriesMatchIn
  <2> PICK f : f = U.entries[p]
    OBVIOUS
  <2>1. f = T.entries[p] /\ ~(p = q /\ pr.state = "TERMINATED")
    BY <1>5 DEF MarkDelete, IsDeleted
  <2>2. f \in Entry /\ f.jobId \in JobId
    BY <2>1, <1>1 DEF Entry, IsDeleted, JobId
  <2> PICK k : k = T.jobs[f.jobId]
    OBVIOUS
  <2>3. k # NoJob /\ f.offset \in DOMAIN T.job[k].procs /\ T.job[k].procs[f.offset].pid = p
    BY <2>1, <1>d DEF EntriesMatchIn
  <2>4. k \in Job
    BY <2>2, <2>3, <1>1
  <2>5. f.offset \in DOMAIN U.job[k].procs
    BY <2>3, <2>4, <1>6 DEF OnlyEnded
  <2>6. U.job[k].procs[f.offset].pid = p
    <3>1. CASE k # j
      BY <3>1, <2>3, <2>4, <1>5
    <3>2. CASE k = j
      <4>1. U.job[k] = jn /\ T.job[k] = jo
        BY <3>2, <1>0, <1>a, <1>5
      <4>2. CASE f.offset = e.offset
        <5>1. p = q /\ pr.state # "TERMINATED"
          BY <4>1, <4>2, <2>1, <2>3, <1>q
        <5>2. pr.pid = p
          BY <5>1, <1>q, <1>r, <1>s
        <5> QED
          BY <4>1, <4>2, <5>2, <1>4, <1>q DEF Written
      <4>3. CASE f.offset # e.offset
        BY <4>1, <4>3, <2>3, <1>4 DEF Written
      <4> QED
        BY <4>2, <4>3
    <3> QED
      BY <3>1, <3>2
  <2> QED
    BY <2>3, <2>5, <2>6, <1>3
<1>10. ProcsRegisteredIn(U)
  <2> SUFFICES ASSUME NEW k \in Job, NEW i \in DOMAIN U.job[k].procs,
                      AttachedIn(U, k), U.job[k].procs[i].pid # NoPid
               PROVE  U.entries[U.job[k].procs[i].pid] = [jobId |-> U.job[k].jobID, offset |-> i]
    BY DEF ProcsRegisteredIn
  <2> PICK p : p = U.job[k].procs[i].pid
    OBVIOUS
  <2>1. AttachedIn(T, k)
    BY <1>3 DEF AttachedIn
  <2>2. /\ i \in DOMAIN T.job[k].procs /\ T.job[k].procs[i].pid = p
        /\ U.job[k].jobID = T.job[k].jobID
    BY <1>6 DEF OnlyEnded
  <2>3. T.entries[p] = [jobId |-> T.job[k].jobID, offset |-> i]
    BY <2>1, <2>2, <1>d DEF ProcsRegisteredIn
  <2>4. p \in Pid
    <3>1. T.job[k].procs \in Seq(Proc)
      BY <1>1 DEF JobObject
    <3>2. T.job[k].procs[i] \in Proc
      BY <3>1, <2>2, ElementOfSeq, LenProperties
    <3> QED
      BY <3>2, <2>2 DEF Proc
  <2>5. ~(p = q /\ pr.state = "TERMINATED")
    <3> SUFFICES ASSUME p = q, pr.state = "TERMINATED"
                 PROVE  FALSE
      OBVIOUS
    <3>1. e.jobId = T.job[k].jobID /\ e.offset = i
      BY <2>3, <1>0
    <3>2. k = j
      <4>1. PICK m \in JobId : T.jobs[m] = k
        BY <2>1 DEF AttachedIn
      <4>2. T.job[k].jobID = m
        BY <4>1, <1>d, JobAssumption DEF IdsMatchIn
      <4> QED
        BY <4>1, <4>2, <3>1, <1>0
    <3>3. U.job[k].procs[i] = pr
      BY <3>1, <3>2, <1>0, <1>4, <1>5, <1>q DEF Written
    <3> QED
      BY <3>3, <1>r
  <2> QED
    BY <2>2, <2>3, <2>4, <2>5, <1>5
<1>11. \A k \in Job : SoundJob(U.job[k])
  <2>1. SoundJob(jn)
    BY <1>4 DEF Written
  <2> QED
    BY <2>1, <1>e, <1>5
<1>12. AttachedSoundIn(U)
  <2> SUFFICES ASSUME NEW i \in JobId, U.jobs[i] # NoJob
               PROVE  /\ U.job[U.jobs[i]].procs # <<>>
                      /\ U.job[U.jobs[i]].state # "UNCONTROLLED"
    BY DEF AttachedSoundIn
  <2> PICK k : k = U.jobs[i]
    OBVIOUS
  <2>1. k \in Job /\ T.job[k].procs # <<>> /\ T.job[k].state # "UNCONTROLLED"
    BY <1>1, <1>3, <1>d DEF AttachedSoundIn
  <2>2. U.job[k].state # "UNCONTROLLED" /\ DOMAIN U.job[k].procs = DOMAIN T.job[k].procs
    BY <2>1, <1>6 DEF OnlyEnded
  <2>3. T.job[k].procs \in Seq(Proc) /\ U.job[k].procs \in Seq(Proc)
    BY <2>1, <1>1, <1>7 DEF JobObject, Table
  <2>4. U.job[k].procs # <<>>
    BY <2>1, <2>2, <2>3, EmptySeq, LenProperties
  <2> QED
    BY <2>2, <2>4
<1>13. DeletedCountedIn(U)
  <2>1. T.deleted # 0 \/ pr.state = "TERMINATED" => U.deleted # 0
    BY <1>1, <1>3
  <2>2. ASSUME NEW p \in Pid, IsDeleted(U.entries[p])
        PROVE  U.deleted # 0
    BY <2>1, <2>2, <1>5, <1>d DEF DeletedCountedIn
  <2>3. ASSUME NEW i \in JobId, U.jobs[i] # NoJob, ~Available(U, U.jobs[i])
        PROVE  U.deleted # 0
    <3> PICK k : k = U.jobs[i]
      OBVIOUS
    <3>1. k \in Job /\ k = T.jobs[i]
      BY <2>3, <1>1, <1>3
    <3>2. CASE ~Available(T, k)
      BY <2>1, <2>3, <3>1, <3>2, <1>d DEF DeletedCountedIn
    <3>3. CASE Available(T, k)
      <4>1. k = j
        BY <2>3, <3>1, <3>3, <1>5 DEF Available
      <4>2. jn.state # jo.state
        BY <4>1, <2>3, <3>3, <1>0, <1>a, <1>5 DEF Available
      <4>3. AllTerminated(jn.procs)
        BY <4>2, <1>4 DEF Written
      <4>4. pr.state = "TERMINATED"
        BY <4>3, <1>4, <1>q DEF Written, AllTerminated
      <4> QED
        BY <4>4, <2>1
    <3> QED
      BY <3>2, <3>3
  <2> QED
    BY <2>2, <2>3 DEF DeletedCountedIn
<1>16. LatestAttachedIn(U)
  BY <1>3 DEF Writable, ConsistentTable, LatestAttachedIn, AttachedIn
<1>14. ConsistentTable(U)
  BY <1>7, <1>8, <1>9, <1>10, <1>11, <1>12, <1>13, <1>16 DEF ConsistentTable
<1>15. U.job[j].procs[e.offset] = pr
  BY <1>0, <1>4, <1>5, <1>q DEF Written
<1> QED
  BY <1>c, <1>3, <1>6, <1>14, <1>15

(* updateProcState keeps the table consistent when it does not find a deleted entry,
   also when lower_bound has given it the entry of another process than the one
   waitpid has reported; and a pid that has exited is the pid of no job any more. *)
LEMMA UpdateProcStateLemma ==
  ASSUME NEW T, ConsistentTable(T), NEW ret \in WaitReport, ~FindsDeleted(T, ret.pid)
  PROVE  LET U == UpdateProcState(T, ret)
         IN /\ ConsistentTable(U)
            /\ U.jobs = T.jobs
            /\ OnlyEnded(T, U)
            /\ ret.kind = "exited" =>
                 \A j \in Job : \A i \in DOMAIN U.job[j].procs :
                   AttachedIn(U, j) => U.job[j].procs[i].pid # ret.pid
<1>a. PICK q : q = FindProc(T, ret.pid)
  OBVIOUS
<1>b. PICK U : U = UpdateProcState(T, ret)
  OBVIOUS
<1>1. T \in Table /\ ret.pid \in Pid /\ ret.pid # NoPid
  BY PidAssumption DEF ConsistentTable, WaitReport
<1>2. /\ q \in Pid \cup {NoPid}
      /\ q # NoPid => T.entries[q] # NoEntry /\ ~IsDeleted(T.entries[q])
      /\ T.entries[ret.pid] # NoEntry => q = ret.pid
  BY <1>a, <1>1, FindProcLemma DEF FindsDeleted
<1>3. ASSUME NEW k \in Job, NEW i \in DOMAIN T.job[k].procs, AttachedIn(T, k),
             T.job[k].procs[i].pid = ret.pid
      PROVE  T.entries[ret.pid] = [jobId |-> T.job[k].jobID, offset |-> i] /\ q = ret.pid
  <2>1. T.entries[ret.pid] = [jobId |-> T.job[k].jobID, offset |-> i]
    BY <1>1, <1>3 DEF ConsistentTable, ProcsRegisteredIn
  <2>2. T.job[k].jobID # -1
    BY <1>1, JobAssumption DEF Table, JobObject
  <2>3. T.entries[ret.pid] # NoEntry
    BY <2>1, <2>2 DEF NoEntry
  <2> QED
    BY <2>1, <2>3, <1>2
<1>4. CASE q = NoPid
  <2>1. U = T
    BY <1>4, <1>a, <1>b DEF UpdateProcState
  <2>2. OnlyEnded(T, T)
    BY DEF OnlyEnded
  <2>3. \A k \in Job : \A i \in DOMAIN T.job[k].procs :
          AttachedIn(T, k) => T.job[k].procs[i].pid # ret.pid
    BY <1>1, <1>3, <1>4
  <2> QED
    BY <1>b, <2>1, <2>2, <2>3
<1>5. CASE q # NoPid
  <2>a. PICK e : e = T.entries[q]
    OBVIOUS
  <2>b. PICK j : j = T.jobs[e.jobId]
    OBVIOUS
  <2>c. PICK pr : pr = UpdateProc(T.job[j].procs[e.offset], ret)
    OBVIOUS
  <2>1. q \in Pid /\ e \in Entry /\ e.jobId \in JobId /\ e # NoEntry /\ ~IsDeleted(e)
    BY <1>1, <1>2, <1>5, <2>a DEF Table, Entry, IsDeleted, JobId
  <2>2. /\ j # NoJob /\ e.offset \in DOMAIN T.job[j].procs
        /\ T.job[j].procs[e.offset].pid = q
    BY <2>1, <2>a, <2>b DEF ConsistentTable, EntriesMatchIn
  <2>3. j \in Job
    BY <1>1, <2>1, <2>2, <2>b DEF Table
  <2>4. T.job[j].procs[e.offset] \in Proc
    <3>1. T.job[j].procs \in Seq(Proc)
      BY <1>1, <2>3 DEF Table, JobObject
    <3> QED
      BY <3>1, <2>2, ElementOfSeq, LenProperties
  <2>5. T.job[j].procs[e.offset].state = "TERMINATED" <=> T.job[j].procs[e.offset].pid = NoPid
    BY <2>2, <2>3 DEF ConsistentTable, SoundJob
  <2>6. /\ pr \in Proc
        /\ pr.state = "TERMINATED" <=> pr.pid = NoPid
        /\ pr.pid = q \/ (pr.pid = NoPid /\ q = ret.pid)
        /\ q = ret.pid /\ ret.kind = "exited" => pr.pid = NoPid
    <3> PICK old : old = T.job[j].procs[e.offset]
      OBVIOUS
    <3>1. old \in Proc /\ (old.state = "TERMINATED" <=> old.pid = NoPid) /\ old.pid = q
      BY <2>2, <2>4, <2>5
    <3>2. pr = UpdateProc(old, ret)
      BY <2>c
    <3> QED
      BY <3>1, <3>2, UpdateProcLemma
  <2>7. Writable(T, q, e, j, pr)
    BY <2>1, <2>2, <2>3, <2>6, <2>a, <2>b DEF Writable
  <2>8. U = WriteProc(T, q, pr)
    BY <1>5, <1>a, <1>b, <2>a, <2>b, <2>c DEF UpdateProcState, ProcOf
  <2>9. /\ ConsistentTable(U) /\ U.jobs = T.jobs /\ OnlyEnded(T, U)
        /\ U.job[j].procs[e.offset] = pr
    BY <2>7, <2>8, WriteProcLemma
  <2>10. ASSUME ret.kind = "exited",
                NEW k \in Job, NEW i \in DOMAIN U.job[k].procs, AttachedIn(U, k),
                U.job[k].procs[i].pid = ret.pid
         PROVE  FALSE
    <3>1. AttachedIn(T, k)
      BY <2>9, <2>10 DEF AttachedIn
    <3>2. i \in DOMAIN T.job[k].procs /\ T.job[k].procs[i].pid = ret.pid
      BY <1>1, <2>9, <2>10 DEF OnlyEnded
    <3>3. e = [jobId |-> T.job[k].jobID, offset |-> i] /\ q = ret.pid
      BY <1>3, <3>1, <3>2, <2>a
    <3>4. k = j
      <4>1. PICK m \in JobId : T.jobs[m] = k
        BY <3>1 DEF AttachedIn
      <4>2. T.job[k].jobID = m
        BY <4>1, JobAssumption DEF ConsistentTable, IdsMatchIn
      <4> QED
        BY <4>1, <4>2, <3>3, <2>b
    <3> QED
      BY <1>1, <2>6, <2>9, <2>10, <3>3, <3>4
  <2> QED
    BY <1>b, <2>9, <2>10
<1> QED
  BY <1>4, <1>5

-----------------------------------------------------------------------------
(* attach *)

\* A job that runs, is not in the table and is not known by any of its pids.
Attachable(T, j) ==
  /\ ConsistentTable(T)
  /\ j \in Job
  /\ FreeIds(T) # {}
  /\ T.job[j].jobID = 0
  /\ T.job[j].state = "RUNNING"
  /\ T.job[j].procs # <<>>
  /\ \A i \in DOMAIN T.job[j].procs :
       T.job[j].procs[i].pid # NoPid => T.entries[T.job[j].procs[i].pid] = NoEntry

\* From T to U no job has changed but in its id.
SameJobs(T, U) ==
  \A k \in Job : U.job[k].state = T.job[k].state /\ U.job[k].procs = T.job[k].procs

(* The process table after the registration of the processes of job j under id. *)
LEMMA AddProcsLemma ==
  ASSUME NEW T, NEW j, Attachable(T, j), NEW id \in JobId, NEW E,
         E = AddProcs(T, T.job[j].procs, id)
  PROVE  /\ E \in [Pid -> Entry \cup {NoEntry}]
         /\ \A p \in Pid : T.entries[p] # NoEntry => E[p] = T.entries[p]
         /\ \A p \in Pid : T.entries[p] = NoEntry /\ E[p] # NoEntry =>
              \E i \in DOMAIN T.job[j].procs :
                T.job[j].procs[i].pid = p /\ E[p] = [jobId |-> id, offset |-> i]
         /\ \A i \in DOMAIN T.job[j].procs :
              T.job[j].procs[i].pid # NoPid =>
                E[T.job[j].procs[i].pid] = [jobId |-> id, offset |-> i]
<1>a. PICK ps : ps = T.job[j].procs
  OBVIOUS
<1> DEFINE Mine(p) == {i \in DOMAIN ps : ps[i].pid = p}
<1>1. /\ T.entries \in [Pid -> Entry \cup {NoEntry}]
      /\ T.job[j] \in JobObject /\ SoundJob(T.job[j])
  BY DEF Attachable, ConsistentTable, Table
<1>2. ps \in Seq(Proc) /\ DOMAIN ps = 1 .. Len(ps) /\ Len(ps) \in Nat /\ Len(ps) =< MaxProcs
  BY <1>a, <1>1, LenProperties DEF JobObject, SoundJob
<1>3. \A i, k \in DOMAIN ps : ps[i].pid = ps[k].pid /\ ps[i].pid # NoPid => i = k
  BY <1>a, <1>1 DEF SoundJob
<1>4. \A i \in DOMAIN ps : i \in Offset /\ ps[i].pid \in Pid \cup {NoPid}
  <2>1. \A i \in DOMAIN ps : ps[i] \in Proc
    BY <1>2, ElementOfSeq
  <2>2. \A i \in DOMAIN ps : i \in Offset
    BY <1>2, JobAssumption DEF Offset
  <2> QED
    BY <2>1, <2>2 DEF Proc
<1>5. \A p \in Pid : Mine(p) # {} => Min(Mine(p)) \in Mine(p)
  <2> SUFFICES ASSUME NEW p \in Pid, Mine(p) # {}
               PROVE  Min(Mine(p)) \in Mine(p)
    OBVIOUS
  <2>1. Mine(p) \in SUBSET Nat
    BY <1>2
  <2> QED
    BY <2>1, MinLemma, Zenon
<1>6. id # 0 /\ id \in 0 .. JobLimit
  BY JobAssumption DEF JobId
<1>7. \A p \in Pid :
        E[p] = IF Mine(p) # {} /\ T.entries[p] = NoEntry
               THEN [jobId |-> id, offset |-> Min(Mine(p))] ELSE T.entries[p]
  BY <1>a, <1>6 DEF AddProcs
<1>8. \A p \in Pid : Mine(p) # {} /\ T.entries[p] = NoEntry =>
        \E i \in DOMAIN ps : ps[i].pid = p /\ E[p] = [jobId |-> id, offset |-> i]
  BY <1>5, <1>7
<1> HIDE DEF Mine
<1>9. \A p \in Pid : T.entries[p] = NoEntry /\ E[p] # NoEntry =>
        \E i \in DOMAIN ps : ps[i].pid = p /\ E[p] = [jobId |-> id, offset |-> i]
  BY <1>7, <1>8
<1>10. ASSUME NEW p \in Pid PROVE E[p] \in Entry \cup {NoEntry}
  <2>1. CASE Mine(p) # {} /\ T.entries[p] = NoEntry
    <3>1. PICK i \in DOMAIN ps : E[p] = [jobId |-> id, offset |-> i]
      BY <2>1, <1>8
    <3>2. E[p] \in Entry
      BY <3>1, <1>4, <1>6 DEF Entry
    <3> QED
      BY <3>2
  <2>2. CASE ~(Mine(p) # {} /\ T.entries[p] = NoEntry)
    BY <2>2, <1>1, <1>7
  <2> QED
    BY <2>1, <2>2
<1>11. E \in [Pid -> Entry \cup {NoEntry}]
  <2>1. E = [p \in Pid |-> E[p]]
    BY DEF AddProcs
  <2> QED
    BY <2>1, <1>10
<1>12. ASSUME NEW i \in DOMAIN ps, ps[i].pid # NoPid
       PROVE  E[ps[i].pid] = [jobId |-> id, offset |-> i]
  <2>1. ps[i].pid \in Pid /\ T.entries[ps[i].pid] = NoEntry
    BY <1>a, <1>4, <1>12 DEF Attachable
  <2>2. Mine(ps[i].pid) # {}
    BY DEF Mine
  <2>3. PICK k \in DOMAIN ps : /\ ps[k].pid = ps[i].pid
                              /\ E[ps[i].pid] = [jobId |-> id, offset |-> k]
    BY <2>1, <2>2, <1>8
  <2>4. k = i
    BY <2>3, <1>3, <1>12
  <2> QED
    BY <2>3, <2>4
<1>13. \A p \in Pid : T.entries[p] # NoEntry => E[p] = T.entries[p]
  BY <1>7
<1> QED
  BY <1>a, <1>9, <1>11, <1>12, <1>13

(* attach gives a running job an id of its own and registers its processes. *)
LEMMA AttachLemma ==
  ASSUME NEW T, NEW j, Attachable(T, j), NEW disowned \in BOOLEAN
  PROVE  LET U == Attach(T, j, disowned)
         IN /\ ConsistentTable(U)
            /\ SameJobs(T, U)
            /\ AttachedIn(U, j)
            /\ \A k \in Job : AttachedIn(T, k) => AttachedIn(U, k)
            /\ SettledIn(T) => SettledIn(U)
<1>a. PICK id : id = FindEmptyEntry(T)
  OBVIOUS
<1>b. PICK U : U = Attach(T, j, disowned)
  OBVIOUS
<1>c. PICK jn : jn = [T.job[j] EXCEPT !.jobID = id, !.disown = @ \/ disowned]
  OBVIOUS
<1>1. T \in Table /\ j \in Job /\ FreeIds(T) # {}
  BY DEF Attachable, ConsistentTable
<1>2. /\ T.job \in [Job -> JobObject] /\ T.jobs \in [JobId -> Job \cup {NoJob}]
      /\ T.entries \in [Pid -> Entry \cup {NoEntry}] /\ T.deleted \in Nat
      /\ T.latest \in Job \cup {NoJob}
  BY <1>1 DEF Table
<1>3. id \in JobId /\ T.jobs[id] = NoJob
  BY <1>a, <1>1, FindEmptyEntryLemma DEF FreeIds
<1>4. id # 0 /\ id \in 0 .. JobLimit
  BY <1>3, JobAssumption DEF JobId
<1>5. /\ IdsMatchIn(T) /\ EntriesMatchIn(T) /\ ProcsRegisteredIn(T)
      /\ AttachedSoundIn(T) /\ DeletedCountedIn(T)
  BY DEF Attachable, ConsistentTable
<1>6. /\ jn \in JobObject /\ jn.jobID = id /\ jn.state = "RUNNING"
      /\ jn.procs = T.job[j].procs
  <2>1. T.job[j] \in JobObject /\ T.job[j].state = "RUNNING"
    BY <1>1, <1>2 DEF Attachable
  <2> QED
    BY <2>1, <1>c, <1>4 DEF JobObject
<1>7. /\ U.job = [T.job EXCEPT ![j] = jn]
      /\ U.jobs = [i \in JobId |-> IF i = id THEN j ELSE T.jobs[i]]
      /\ U.entries = AddProcs(T, T.job[j].procs, id)
      /\ U.deleted = T.deleted
      /\ U.latest \in Job \cup {NoJob}
      /\ U = [job |-> U.job, jobs |-> U.jobs, entries |-> U.entries,
              deleted |-> U.deleted, latest |-> U.latest]
  <2>1. T.job[j].jobID = 0
    BY DEF Attachable
  <2>2. U = [job |-> [T.job EXCEPT ![j] = jn],
             jobs |-> [i \in JobId |-> IF i = id THEN j ELSE T.jobs[i]],
             entries |-> AddProcs(T, T.job[j].procs, id),
             deleted |-> T.deleted,
             latest |-> IF disowned THEN T.latest ELSE j]
    BY <2>1, <1>a, <1>b, <1>c DEF Attach
  <2> QED
    BY <2>2, <1>1, <1>2
<1>8. /\ U.entries \in [Pid -> Entry \cup {NoEntry}]
      /\ \A p \in Pid : T.entries[p] # NoEntry => U.entries[p] = T.entries[p]
      /\ \A p \in Pid : T.entries[p] = NoEntry /\ U.entries[p] # NoEntry =>
           \E i \in DOMAIN jn.procs :
             jn.procs[i].pid = p /\ U.entries[p] = [jobId |-> id, offset |-> i]
      /\ \A i \in DOMAIN jn.procs :
           jn.procs[i].pid # NoPid =>
             U.entries[jn.procs[i].pid] = [jobId |-> id, offset |-> i]
  <2>1. U.entries = AddProcs(T, T.job[j].procs, id)
    BY <1>7
  <2> QED
    BY <2>1, <1>3, <1>6, AddProcsLemma
<1>9. \A k \in Job : U.job[k] = IF k = j THEN jn ELSE T.job[k]
  BY <1>1, <1>2, <1>7
<1>10. \A i \in JobId : U.jobs[i] = IF i = id THEN j ELSE T.jobs[i]
  BY <1>7
<1>11. SameJobs(T, U)
  BY <1>6, <1>9 DEF SameJobs, Attachable
<1>12. AttachedIn(U, j) /\ \A k \in Job : AttachedIn(T, k) => AttachedIn(U, k)
  <2>1. AttachedIn(U, j)
    BY <1>3, <1>10 DEF AttachedIn
  <2>2. ASSUME NEW k \in Job, AttachedIn(T, k) PROVE AttachedIn(U, k)
    BY <2>2, <1>3, <1>10, JobAssumption DEF AttachedIn
  <2> QED
    BY <2>1, <2>2
<1>13. U \in Table
  <2>1. U.job \in [Job -> JobObject]
    BY <1>1, <1>2, <1>6, <1>7
  <2>2. U.jobs \in [JobId -> Job \cup {NoJob}]
    BY <1>1, <1>2, <1>7
  <2> QED
    BY <2>1, <2>2, <1>2, <1>7, <1>8 DEF Table
<1>14. \A i \in JobId : i # id /\ T.jobs[i] # NoJob => T.jobs[i] \in Job /\ T.jobs[i] # j
  <2>1. T.job[j].jobID = 0
    BY DEF Attachable
  <2>2. \A i \in JobId : i # 0
    BY JobAssumption DEF JobId
  <2> QED
    BY <2>1, <2>2, <1>2, <1>5 DEF IdsMatchIn
<1>15. IdsMatchIn(U)
  <2>1. ASSUME NEW i \in JobId, U.jobs[i] # NoJob PROVE U.job[U.jobs[i]].jobID = i
    <3>1. CASE i = id
      BY <3>1, <1>1, <1>6, <1>9, <1>10
    <3>2. CASE i # id
      BY <3>2, <2>1, <1>5, <1>9, <1>10, <1>14 DEF IdsMatchIn
    <3> QED
      BY <3>1, <3>2
  <2>2. ASSUME NEW k \in Job, U.job[k].jobID # 0 PROVE U.jobs[U.job[k].jobID] = k
    <3>1. CASE k = j
      BY <3>1, <1>3, <1>6, <1>9, <1>10
    <3>2. CASE k # j
      <4>1. T.job[k].jobID # 0 /\ U.job[k].jobID = T.job[k].jobID
        BY <3>2, <2>2, <1>9
      <4>2. T.jobs[T.job[k].jobID] = k
        BY <4>1, <1>5 DEF IdsMatchIn
      <4>3. T.job[k].jobID \in JobId
        BY <4>1, <1>2 DEF JobObject, JobId
      <4>4. T.job[k].jobID # id
        BY <4>2, <1>3, JobAssumption
      <4> QED
        BY <4>1, <4>2, <4>3, <4>4, <1>10
    <3> QED
      BY <3>1, <3>2
  <2> QED
    BY <2>1, <2>2 DEF IdsMatchIn
<1>16. EntriesMatchIn(U)
  <2> SUFFICES ASSUME NEW p \in Pid, U.entries[p] # NoEntry, ~IsDeleted(U.entries[p])
               PROVE  LET f == U.entries[p]
                          k == U.jobs[f.jobId]
                      IN /\ k # NoJob
                         /\ f.offset \in DOMAIN U.job[k].procs
                         /\ U.job[k].procs[f.offset].pid = p
    BY DEF EntriesMatchIn
  <2> PICK f : f = U.entries[p]
    OBVIOUS
  <2>1. CASE T.entries[p] = NoEntry
    <3>1. PICK i \in DOMAIN jn.procs : jn.procs[i].pid = p /\ f = [jobId |-> id, offset |-> i]
      BY <2>1, <1>8
    <3>2. U.jobs[f.jobId] = j /\ U.job[j] = jn
      BY <3>1, <1>1, <1>3, <1>9, <1>10
    <3> QED
      BY <3>1, <3>2, <1>1, JobAssumption
  <2>2. CASE T.entries[p] # NoEntry
    <3>1. f = T.entries[p] /\ f \in Entry /\ f.jobId \in JobId
      BY <2>2, <1>2, <1>8 DEF Entry, IsDeleted, JobId
    <3> PICK k : k = T.jobs[f.jobId]
      OBVIOUS
    <3>2. k # NoJob /\ f.offset \in DOMAIN T.job[k].procs /\ T.job[k].procs[f.offset].pid = p
      BY <3>1, <2>2, <1>5 DEF EntriesMatchIn
    <3>3. f.jobId # id /\ k \in Job /\ k # j
      BY <3>1, <3>2, <1>3, <1>14
    <3> QED
      BY <3>1, <3>2, <3>3, <1>9, <1>10
  <2> QED
    BY <2>1, <2>2
<1>17. ProcsRegisteredIn(U)
  <2> SUFFICES ASSUME NEW k \in Job, NEW i \in DOMAIN U.job[k].procs,
                      AttachedIn(U, k), U.job[k].procs[i].pid # NoPid
               PROVE  U.entries[U.job[k].procs[i].pid] = [jobId |-> U.job[k].jobID, offset |-> i]
    BY DEF ProcsRegisteredIn
  <2>1. CASE k = j
    BY <2>1, <1>6, <1>8, <1>9
  <2>2. CASE k # j
    <3>1. AttachedIn(T, k) /\ U.job[k] = T.job[k]
      BY <2>2, <1>9, <1>10 DEF AttachedIn
    <3> PICK p : p = T.job[k].procs[i].pid
      OBVIOUS
    <3>2. T.entries[p] = [jobId |-> T.job[k].jobID, offset |-> i]
      BY <3>1, <1>5 DEF ProcsRegisteredIn
    <3>3. p \in Pid
      <4>1. T.job[k].procs \in Seq(Proc)
        BY <1>2 DEF JobObject
      <4>2. T.job[k].procs[i] \in Proc
        BY <3>1, <4>1, ElementOfSeq, LenProperties
      <4> QED
        BY <3>1, <4>2 DEF Proc
    <3>4. T.entries[p] # NoEntry
      <4>1. T.job[k].jobID # -1
        BY <1>2, JobAssumption DEF JobObject
      <4> QED
        BY <3>2, <4>1 DEF NoEntry
    <3> QED
      BY <3>1, <3>2, <3>3, <3>4, <1>8
  <2> QED
    BY <2>1, <2>2
<1>18. \A k \in Job : SoundJob(U.job[k])
  <2>1. SoundJob(T.job[j]) /\ \A k \in Job : SoundJob(T.job[k])
    BY DEF Attachable, ConsistentTable
  <2>2. SoundJob(jn)
    BY <2>1, <1>6 DEF SoundJob
  <2> QED
    BY <2>1, <2>2, <1>9
<1>19. AttachedSoundIn(U)
  <2> SUFFICES ASSUME NEW i \in JobId, U.jobs[i] # NoJob
               PROVE  /\ U.job[U.jobs[i]].procs # <<>>
                      /\ U.job[U.jobs[i]].state # "UNCONTROLLED"
    BY DEF AttachedSoundIn
  <2>1. CASE i = id
    <3>1. U.job[U.jobs[i]] = jn /\ T.job[j].procs # <<>>
      BY <2>1, <1>1, <1>9, <1>10 DEF Attachable
    <3> QED
      BY <3>1, <1>6
  <2>2. CASE i # id
    BY <2>2, <1>5, <1>9, <1>10, <1>14 DEF AttachedSoundIn
  <2> QED
    BY <2>1, <2>2
<1>20. \A p \in Pid : IsDeleted(U.entries[p]) => IsDeleted(T.entries[p])
  <2> SUFFICES ASSUME NEW p \in Pid, IsDeleted(U.entries[p]), T.entries[p] = NoEntry
               PROVE  FALSE
    BY <1>8
  <2>1. U.entries[p] # NoEntry
    BY DEF IsDeleted, NoEntry
  <2>2. PICK i \in DOMAIN jn.procs : U.entries[p] = [jobId |-> id, offset |-> i]
    BY <2>1, <1>8
  <2>3. U.entries[p].jobId = id
    BY <2>2
  <2> QED
    BY <2>3, <1>4 DEF IsDeleted
<1>21. \A i \in JobId : U.jobs[i] # NoJob /\ ~Available(U, U.jobs[i]) =>
                          T.jobs[i] # NoJob /\ ~Available(T, T.jobs[i])
  <2> SUFFICES ASSUME NEW i \in JobId, U.jobs[i] # NoJob, ~Available(U, U.jobs[i])
               PROVE  T.jobs[i] # NoJob /\ ~Available(T, T.jobs[i])
    OBVIOUS
  <2>1. i # id
    BY <1>1, <1>6, <1>9, <1>10 DEF Available
  <2> QED
    BY <2>1, <1>9, <1>10, <1>14 DEF Available
<1>22. DeletedCountedIn(U)
  BY <1>5, <1>7, <1>20, <1>21 DEF DeletedCountedIn
<1>25. LatestAttachedIn(U)
  <2>1. U.latest \in {T.latest, j}
    BY <1>b DEF Attach, Attachable
  <2>2. T.latest # NoJob => T.latest \in Job /\ AttachedIn(T, T.latest)
    BY <1>2 DEF Attachable, ConsistentTable, LatestAttachedIn
  <2> QED
    BY <2>1, <2>2, <1>12 DEF LatestAttachedIn
<1>23. ConsistentTable(U)
  BY <1>13, <1>15, <1>16, <1>17, <1>18, <1>19, <1>22, <1>25 DEF ConsistentTable
<1>24. SettledIn(T) => SettledIn(U)
  BY <1>7, <1>20, <1>21 DEF SettledIn
<1> QED
  BY <1>b, <1>11, <1>12, <1>23, <1>24

-----------------------------------------------------------------------------
(* removeTerminatedJobs and the end of a JobObject *)

\* Ids of jobs that stay are the ones of jobs that run.
StillAttached(T, U) ==
  \A k \in Job : AttachedIn(T, k) /\ Available(T, k) => AttachedIn(U, k)

(* removeTerminatedJobs takes the ended jobs out of the table, and leaves nothing
   to remove: the invariant deletedCount stands for. *)
LEMMA RemoveTerminatedJobsLemma ==
  ASSUME NEW T, ConsistentTable(T)
  PROVE  LET U == RemoveTerminatedJobs(T)
         IN /\ ConsistentTable(U)
            /\ SettledIn(U)
            /\ SameJobs(T, U)
            /\ StillAttached(T, U)
<1>a. PICK U : U = RemoveTerminatedJobs(T)
  OBVIOUS
<1>1. /\ T \in Table /\ IdsMatchIn(T) /\ EntriesMatchIn(T) /\ ProcsRegisteredIn(T)
      /\ AttachedSoundIn(T) /\ DeletedCountedIn(T)
  BY DEF ConsistentTable
<1>2. /\ T.job \in [Job -> JobObject] /\ T.jobs \in [JobId -> Job \cup {NoJob}]
      /\ T.entries \in [Pid -> Entry \cup {NoEntry}] /\ T.deleted \in Nat
      /\ T.latest \in Job \cup {NoJob}
  BY <1>1 DEF Table
<1>3. CASE T.deleted = 0
  <2>1. U = T
    BY <1>3, <1>a DEF RemoveTerminatedJobs
  <2>2. SettledIn(T)
    BY <1>1, <1>3 DEF SettledIn, DeletedCountedIn
  <2>3. SameJobs(T, T) /\ StillAttached(T, T)
    BY DEF SameJobs, StillAttached
  <2> QED
    BY <1>a, <2>1, <2>2, <2>3
<1>4. CASE T.deleted # 0
  <2>a. PICK gone : gone = {T.jobs[i] : i \in EndedIds(T)}
    OBVIOUS
  <2>1. /\ U.job = [j \in Job |-> IF j \in gone
                                  THEN [T.job[j] EXCEPT !.jobID = 0, !.disown = TRUE]
                                  ELSE T.job[j]]
        /\ U.jobs = [i \in JobId |-> IF i \in EndedIds(T) THEN NoJob ELSE T.jobs[i]]
        /\ U.entries = BatchedRemove(T)
        /\ U.deleted = 0
        /\ U.latest = IF EndedIds(T) = {} THEN T.latest ELSE NewLatest(T)
        /\ U = [job |-> U.job, jobs |-> U.jobs, entries |-> U.entries,
                deleted |-> U.deleted, latest |-> U.latest]
    BY <1>4, <1>a, <2>a DEF RemoveTerminatedJobs
  <2>2. /\ \A i \in JobId : i \in EndedIds(T) <=> T.jobs[i] # NoJob /\ ~Available(T, T.jobs[i])
        /\ EndedIds(T) \subseteq JobId
    BY DEF EndedIds
  <2>3. \A i \in JobId : U.jobs[i] = IF i \in EndedIds(T) THEN NoJob ELSE T.jobs[i]
    BY <2>1
  <2>4. \A p \in Pid : U.entries[p] = IF IsDeleted(T.entries[p]) THEN NoEntry ELSE T.entries[p]
    BY <2>1 DEF BatchedRemove
  <2>5. ASSUME NEW k \in Job
        PROVE  /\ U.job[k] \in JobObject
               /\ U.job[k].state = T.job[k].state
               /\ U.job[k].procs = T.job[k].procs
               /\ U.job[k].jobID = IF k \in gone THEN 0 ELSE T.job[k].jobID
    <3>1. T.job[k] \in JobObject
      BY <1>2
    <3>2. U.job[k] = IF k \in gone THEN [T.job[k] EXCEPT !.jobID = 0, !.disown = TRUE]
                                  ELSE T.job[k]
      BY <2>1
    <3>3. CASE k \in gone
      <4> PICK jo : jo = T.job[k]
        OBVIOUS
      <4>1. U.job[k] = [jo EXCEPT !.jobID = 0, !.disown = TRUE]
        BY <3>2, <3>3
      <4>2. jo \in JobObject /\ 0 \in 0 .. JobLimit
        BY <3>1, JobAssumption
      <4> QED
        BY <4>1, <4>2, <3>3 DEF JobObject
    <3>4. CASE k \notin gone
      BY <3>1, <3>2, <3>4
    <3> QED
      BY <3>3, <3>4
  <2>6. \A i \in JobId \ EndedIds(T) : T.jobs[i] # NoJob => T.jobs[i] \in Job \ gone
    <3> SUFFICES ASSUME NEW i \in JobId \ EndedIds(T), T.jobs[i] # NoJob, T.jobs[i] \in gone
                 PROVE  FALSE
      BY <1>2
    <3>1. PICK m \in EndedIds(T) : T.jobs[m] = T.jobs[i]
      BY <2>a
    <3>2. m \in JobId /\ T.job[T.jobs[i]].jobID = m /\ T.job[T.jobs[i]].jobID = i
      BY <1>1, <2>2, <3>1 DEF IdsMatchIn
    <3> QED
      BY <3>1, <3>2
  <2>7. IdsMatchIn(U)
    <3>1. ASSUME NEW i \in JobId, U.jobs[i] # NoJob PROVE U.job[U.jobs[i]].jobID = i
      BY <3>1, <1>1, <2>3, <2>5, <2>6 DEF IdsMatchIn
    <3>2. ASSUME NEW k \in Job, U.job[k].jobID # 0 PROVE U.jobs[U.job[k].jobID] = k
      <4>1. k \notin gone /\ U.job[k].jobID = T.job[k].jobID
        BY <3>2, <2>5
      <4> PICK i : i = T.job[k].jobID
        OBVIOUS
      <4>2. i \in JobId /\ T.jobs[i] = k
        BY <4>1, <3>2, <1>1, <1>2 DEF IdsMatchIn, JobObject, JobId
      <4>3. i \notin EndedIds(T)
        BY <4>1, <4>2, <2>a
      <4> QED
        BY <4>1, <4>2, <4>3, <2>3
    <3> QED
      BY <3>1, <3>2 DEF IdsMatchIn
  <2>8. \A k \in Job : AttachedIn(U, k) => AttachedIn(T, k) /\ k \notin gone
    BY <2>3, <2>6, JobAssumption DEF AttachedIn
  <2>9. EntriesMatchIn(U)
    <3> SUFFICES ASSUME NEW p \in Pid, U.entries[p] # NoEntry, ~IsDeleted(U.entries[p])
                 PROVE  LET f == U.entries[p]
                            k == U.jobs[f.jobId]
                        IN /\ k # NoJob
                           /\ f.offset \in DOMAIN U.job[k].procs
                           /\ U.job[k].procs[f.offset].pid = p
      BY DEF EntriesMatchIn
    <3> PICK f : f = U.entries[p]
      OBVIOUS
    <3>1. f = T.entries[p] /\ f \in Entry /\ f.jobId \in JobId
      BY <2>4, <1>2 DEF Entry, IsDeleted, JobId
    <3> PICK k : k = T.jobs[f.jobId]
      OBVIOUS
    <3>2. k # NoJob /\ f.offset \in DOMAIN T.job[k].procs /\ T.job[k].procs[f.offset].pid = p
      BY <3>1, <1>1 DEF EntriesMatchIn
    <3>3. k \in Job
      BY <3>1, <3>2, <1>2
    <3>4. T.job[k].procs[f.offset].state # "TERMINATED"
      <4>1. SoundJob(T.job[k])
        BY <3>3 DEF ConsistentTable
      <4>2. p # NoPid
        BY PidAssumption
      <4> QED
        BY <4>1, <4>2, <3>2 DEF SoundJob
    <3>5. Available(T, k)
      <4>1. SoundJob(T.job[k]) /\ T.job[k] \in JobObject
        BY <3>3, <1>2 DEF ConsistentTable
      <4>2. T.job[k].state # "TERMINATED"
        BY <4>1, <3>2, <3>4 DEF SoundJob, AllTerminated
      <4>3. T.job[k].state # "UNCONTROLLED"
        BY <3>1, <3>2, <1>1 DEF AttachedSoundIn
      <4> QED
        BY <4>1, <4>2, <4>3 DEF Available, JobObject
    <3>6. f.jobId \notin EndedIds(T)
      BY <3>1, <3>5, <2>2
    <3>7. U.jobs[f.jobId] = k
      BY <3>1, <3>6, <2>3
    <3> QED
      BY <3>2, <3>3, <3>7, <2>5
  <2>10. ProcsRegisteredIn(U)
    <3> SUFFICES ASSUME NEW k \in Job, NEW i \in DOMAIN U.job[k].procs,
                        AttachedIn(U, k), U.job[k].procs[i].pid # NoPid
                 PROVE  U.entries[U.job[k].procs[i].pid] = [jobId |-> U.job[k].jobID, offset |-> i]
      BY DEF ProcsRegisteredIn
    <3>1. AttachedIn(T, k) /\ U.job[k].jobID = T.job[k].jobID /\ U.job[k].procs = T.job[k].procs
      BY <2>5, <2>8
    <3> PICK p : p = T.job[k].procs[i].pid
      OBVIOUS
    <3>2. T.entries[p] = [jobId |-> T.job[k].jobID, offset |-> i]
      BY <3>1, <1>1 DEF ProcsRegisteredIn
    <3>3. p \in Pid
      <4>1. T.job[k].procs \in Seq(Proc)
        BY <1>2 DEF JobObject
      <4>2. T.job[k].procs[i] \in Proc
        BY <3>1, <4>1, ElementOfSeq, LenProperties
      <4> QED
        BY <3>1, <4>2 DEF Proc
    <3>4. ~IsDeleted(T.entries[p])
      <4>1. PICK m \in JobId : T.jobs[m] = k
        BY <3>1 DEF AttachedIn
      <4>2. T.job[k].jobID = m /\ m # 0
        BY <4>1, <1>1, JobAssumption DEF IdsMatchIn, JobId
      <4> QED
        BY <4>2, <3>2 DEF IsDeleted
    <3> QED
      BY <3>1, <3>2, <3>3, <3>4, <2>4
  <2>11. \A k \in Job : SoundJob(U.job[k])
    <3> SUFFICES ASSUME NEW k \in Job PROVE SoundJob(U.job[k])
      OBVIOUS
    <3>1. SoundJob(T.job[k])
      BY DEF ConsistentTable
    <3> QED
      BY <3>1, <2>5 DEF SoundJob
  <2>12. AttachedSoundIn(U)
    BY <1>1, <2>3, <2>5, <2>6 DEF AttachedSoundIn
  <2>13. SettledIn(U)
    <3>1. \A p \in Pid : ~IsDeleted(U.entries[p])
      <4>1. ~IsDeleted(NoEntry)
        BY DEF IsDeleted, NoEntry
      <4> QED
        BY <4>1, <2>4
    <3>2. \A i \in JobId : U.jobs[i] # NoJob => Available(U, U.jobs[i])
      BY <2>2, <2>3, <2>5, <2>6 DEF Available
    <3> QED
      BY <3>1, <3>2, <2>1 DEF SettledIn
  <2>14. DeletedCountedIn(U)
    BY <2>13 DEF SettledIn, DeletedCountedIn
  <2>L. U.latest \in Job \cup {NoJob} /\ LatestAttachedIn(U)
    <3>1. CASE T.latest = NoJob
      BY <3>1, <2>1 DEF NewLatest, LatestAttachedIn
    <3>2. CASE T.latest # NoJob /\ Available(T, T.latest)
      <4>1. U.latest = T.latest
        BY <3>2, <2>1 DEF NewLatest
      <4>2. AttachedIn(T, T.latest) /\ T.latest \in Job
        BY <3>2, <1>2 DEF ConsistentTable, LatestAttachedIn
      <4> QED
        BY <4>1, <4>2, <3>2, <2>2, <2>3 DEF LatestAttachedIn, AttachedIn
    <3>3. CASE T.latest # NoJob /\ ~Available(T, T.latest)
      <4>1. EndedIds(T) # {}
        BY <3>3, <2>2 DEF ConsistentTable, LatestAttachedIn, AttachedIn
      <4> PICK S : S = {i \in JobId \ EndedIds(T) : FindJob(T, i) # NoJob}
        OBVIOUS
      <4>2. U.latest = IF S = {} THEN NoJob ELSE T.jobs[Max(S)]
        BY <3>3, <4>1, <2>1 DEF NewLatest
      <4>3. CASE S = {}
        BY <4>2, <4>3 DEF LatestAttachedIn
      <4>4. CASE S # {}
        <5>1. S \in SUBSET (0 .. JobLimit) /\ JobLimit \in Nat
          BY JobAssumption DEF JobId
        <5>2. Max(S) \in S
          BY <5>1, <4>4, MaxLemma
        <5>3. /\ Max(S) \in JobId /\ Max(S) \notin EndedIds(T)
              /\ U.latest = T.jobs[Max(S)]
          BY <5>2, <4>2, <4>4
        <5> QED
          BY <5>3, <1>2, <2>3 DEF LatestAttachedIn, AttachedIn
      <4> QED
        BY <4>3, <4>4
    <3> QED
      BY <3>1, <3>2, <3>3
  <2>15. U \in Table
    <3>1. U.job \in [Job -> JobObject]
      <4>1. U.job = [k \in Job |-> U.job[k]]
        BY <2>1
      <4> QED
        BY <4>1, <2>5
    <3>2. U.jobs \in [JobId -> Job \cup {NoJob}]
      BY <1>2, <2>1
    <3>3. U.entries \in [Pid -> Entry \cup {NoEntry}]
      BY <1>2, <2>1 DEF BatchedRemove
    <3>4. U.deleted = 0
      BY <2>1
    <3>5. U = [job |-> U.job, jobs |-> U.jobs, entries |-> U.entries,
               deleted |-> U.deleted, latest |-> U.latest]
      BY <2>1
    <3> QED
      BY <3>1, <3>2, <3>3, <3>4, <3>5, <2>L DEF Table
  <2>16. ConsistentTable(U)
    BY <2>7, <2>9, <2>10, <2>11, <2>12, <2>14, <2>15, <2>L DEF ConsistentTable
  <2>17. SameJobs(T, U)
    BY <2>5 DEF SameJobs
  <2>18. StillAttached(T, U)
    BY <2>2, <2>3 DEF StillAttached, AttachedIn
  <2> QED
    BY <1>a, <2>13, <2>16, <2>17, <2>18
<1> QED
  BY <1>2, <1>3, <1>4

-----------------------------------------------------------------------------
(* Objects that are written outside of the table's own operations *)

\* U is T with job j being jn.
WithJob(T, j, jn, U) ==
  /\ U.job = [T.job EXCEPT ![j] = jn]
  /\ U = [job |-> U.job, jobs |-> T.jobs, entries |-> T.entries,
          deleted |-> T.deleted, latest |-> T.latest]

\* jn may stand for job j: an unattached job is replaced by another one, or only
\* disown changes.
Replaceable(T, j, jn) ==
  /\ jn \in JobObject /\ SoundJob(jn)
  /\ jn.jobID = T.job[j].jobID
  /\ \/ jn.jobID = 0
     \/ jn.state = T.job[j].state /\ jn.procs = T.job[j].procs

(* A job without an id may change as it likes: the wait for a foreground job does not
   touch the table. *)
LEMMA WithJobLemma ==
  ASSUME NEW T, ConsistentTable(T), NEW j \in Job, NEW jn, Replaceable(T, j, jn),
         NEW U, WithJob(T, j, jn, U)
  PROVE  /\ ConsistentTable(U)
         /\ \A k \in Job : U.job[k] = IF k = j THEN jn ELSE T.job[k]
         /\ U.jobs = T.jobs /\ U.entries = T.entries
         /\ SettledIn(T) => SettledIn(U)
<1>1. /\ T \in Table /\ IdsMatchIn(T) /\ EntriesMatchIn(T) /\ ProcsRegisteredIn(T)
      /\ AttachedSoundIn(T) /\ DeletedCountedIn(T) /\ LatestAttachedIn(T)
  BY DEF ConsistentTable
<1>2. /\ T.job \in [Job -> JobObject] /\ T.jobs \in [JobId -> Job \cup {NoJob}]
      /\ T.entries \in [Pid -> Entry \cup {NoEntry}] /\ T.deleted \in Nat
      /\ T.latest \in Job \cup {NoJob}
  BY <1>1 DEF Table
<1>3. /\ U.job = [T.job EXCEPT ![j] = jn] /\ U.jobs = T.jobs /\ U.entries = T.entries
      /\ U.deleted = T.deleted /\ U.latest = T.latest
      /\ U = [job |-> U.job, jobs |-> U.jobs, entries |-> U.entries,
              deleted |-> U.deleted, latest |-> U.latest]
  BY DEF WithJob
<1>4. \A k \in Job : U.job[k] = IF k = j THEN jn ELSE T.job[k]
  BY <1>2, <1>3
<1>5. jn \in JobObject /\ SoundJob(jn) /\ jn.jobID = T.job[j].jobID
  BY DEF Replaceable
<1>6. U \in Table
  <2>1. U.job \in [Job -> JobObject]
    BY <1>2, <1>3, <1>5
  <2> QED
    BY <2>1, <1>2, <1>3 DEF Table
<1>7. \A k \in Job : U.job[k].jobID = T.job[k].jobID
  BY <1>4, <1>5
<1>8. IdsMatchIn(U)
  <2>1. \A i \in JobId : T.jobs[i] # NoJob => T.jobs[i] \in Job
    BY <1>2
  <2> QED
    BY <2>1, <1>1, <1>3, <1>7 DEF IdsMatchIn
\* An attached job has its state and processes still.
<1>9. \A k \in Job : AttachedIn(T, k) =>
        U.job[k].state = T.job[k].state /\ U.job[k].procs = T.job[k].procs
  <2> SUFFICES ASSUME AttachedIn(T, j)
               PROVE  jn.state = T.job[j].state /\ jn.procs = T.job[j].procs
    BY <1>4
  <2>1. PICK i \in JobId : T.jobs[i] = j
    BY DEF AttachedIn
  <2>2. T.job[j].jobID = i /\ i # 0
    BY <2>1, <1>1, JobAssumption DEF IdsMatchIn, JobId
  <2> QED
    BY <2>2 DEF Replaceable
<1>10. \A i \in JobId : T.jobs[i] # NoJob =>
         /\ T.jobs[i] \in Job
         /\ U.job[T.jobs[i]].state = T.job[T.jobs[i]].state
         /\ U.job[T.jobs[i]].procs = T.job[T.jobs[i]].procs
  <2> SUFFICES ASSUME NEW i \in JobId, T.jobs[i] # NoJob
               PROVE  T.jobs[i] \in Job /\ AttachedIn(T, T.jobs[i])
    BY <1>9
  <2> QED
    BY <1>2 DEF AttachedIn
<1>11. EntriesMatchIn(U)
  <2> SUFFICES ASSUME NEW p \in Pid, T.entries[p] # NoEntry, ~IsDeleted(T.entries[p])
               PROVE  LET f == T.entries[p]
                          k == T.jobs[f.jobId]
                      IN /\ k # NoJob
                         /\ f.offset \in DOMAIN U.job[k].procs
                         /\ U.job[k].procs[f.offset].pid = p
    BY <1>3 DEF EntriesMatchIn
  <2> PICK f : f = T.entries[p]
    OBVIOUS
  <2>1. f.jobId \in JobId
    BY <1>2 DEF Entry, IsDeleted, JobId
  <2> PICK k : k = T.jobs[f.jobId]
    OBVIOUS
  <2>2. k # NoJob /\ f.offset \in DOMAIN T.job[k].procs /\ T.job[k].procs[f.offset].pid = p
    BY <1>1 DEF EntriesMatchIn
  <2>3. U.job[k].procs = T.job[k].procs
    BY <2>1, <2>2, <1>10
  <2> QED
    BY <2>2, <2>3
<1>12. ProcsRegisteredIn(U)
  <2> SUFFICES ASSUME NEW k \in Job, NEW i \in DOMAIN U.job[k].procs,
                      AttachedIn(U, k), U.job[k].procs[i].pid # NoPid
               PROVE  U.entries[U.job[k].procs[i].pid] = [jobId |-> U.job[k].jobID, offset |-> i]
    BY DEF ProcsRegisteredIn
  <2>1. AttachedIn(T, k)
    BY <1>3 DEF AttachedIn
  <2>2. U.job[k].procs = T.job[k].procs /\ U.job[k].jobID = T.job[k].jobID
    BY <2>1, <1>7, <1>9
  <2> QED
    BY <2>1, <2>2, <1>1, <1>3 DEF ProcsRegisteredIn
<1>13. \A k \in Job : SoundJob(U.job[k])
  BY <1>4, <1>5 DEF ConsistentTable
<1>14. AttachedSoundIn(U)
  BY <1>1, <1>3, <1>10 DEF AttachedSoundIn
<1>15. \A i \in JobId : U.jobs[i] # NoJob => (Available(U, U.jobs[i]) <=> Available(T, T.jobs[i]))
  BY <1>3, <1>10 DEF Available
<1>16. DeletedCountedIn(U)
  BY <1>1, <1>3, <1>15 DEF DeletedCountedIn
<1>17. LatestAttachedIn(U)
  BY <1>1, <1>3 DEF LatestAttachedIn, AttachedIn
<1>18. ConsistentTable(U)
  BY <1>6, <1>8, <1>11, <1>12, <1>13, <1>14, <1>16, <1>17 DEF ConsistentTable
<1>19. SettledIn(T) => SettledIn(U)
  BY <1>3, <1>15 DEF SettledIn
<1> QED
  BY <1>3, <1>4, <1>18, <1>19

(* A handle without an object, and a table without a job. *)
LEMMA UnusedLemma ==
  Unused \in JobObject /\ SoundJob(Unused)
<1>1. <<>> \in Seq(Proc) /\ Len(<<>>) = 0 /\ DOMAIN <<>> = {}
  BY EmptySeq
<1> QED
  BY <1>1, JobAssumption DEF Unused, JobObject, SoundJob, AllTerminated

LEMMA EmptyTableLemma ==
  ConsistentTable(EmptyTable) /\ SettledIn(EmptyTable)
<1>a. PICK U : U = EmptyTable
  OBVIOUS
<1>1. /\ U.job = [j \in Job |-> Unused] /\ U.jobs = [i \in JobId |-> NoJob]
      /\ U.entries = [p \in Pid |-> NoEntry] /\ U.deleted = 0 /\ U.latest = NoJob
      /\ U = [job |-> U.job, jobs |-> U.jobs, entries |-> U.entries,
              deleted |-> U.deleted, latest |-> U.latest]
  BY <1>a DEF EmptyTable
<1>2. U \in Table
  BY <1>1, UnusedLemma DEF Table
<1>3. Unused.jobID = 0
  BY DEF Unused
<1>4. ~IsDeleted(NoEntry)
  BY DEF IsDeleted, NoEntry
<1>5. IdsMatchIn(U) /\ EntriesMatchIn(U)
  BY <1>1, <1>3 DEF IdsMatchIn, EntriesMatchIn
<1>6. \A j \in Job : ~AttachedIn(U, j)
  BY <1>1, JobAssumption DEF AttachedIn
<1>7. ProcsRegisteredIn(U) /\ AttachedSoundIn(U) /\ LatestAttachedIn(U)
  BY <1>1, <1>6 DEF ProcsRegisteredIn, AttachedSoundIn, LatestAttachedIn
<1>8. SettledIn(U) /\ DeletedCountedIn(U)
  BY <1>1, <1>4 DEF SettledIn, DeletedCountedIn
<1>9. \A j \in Job : SoundJob(U.job[j])
  BY <1>1, UnusedLemma
<1> QED
  BY <1>a, <1>2, <1>5, <1>7, <1>8, <1>9 DEF ConsistentTable

(* The JobObjects nobody refers to any more are deleted; those of the table stay. *)
LEMMA CollectedLemma ==
  ASSUME NEW T, ConsistentTable(T), NEW refs
  PROVE  LET U == Collected(T, refs)
         IN /\ ConsistentTable(U)
            /\ \A k \in Job : U.job[k] \in {T.job[k], Unused}
            /\ \A k \in Job : AttachedIn(T, k) => U.job[k] = T.job[k]
            /\ U.jobs = T.jobs
            /\ SettledIn(T) => SettledIn(U)
<1>a. PICK U : U = Collected(T, refs)
  OBVIOUS
<1>1. /\ T \in Table /\ IdsMatchIn(T) /\ EntriesMatchIn(T) /\ ProcsRegisteredIn(T)
      /\ AttachedSoundIn(T) /\ DeletedCountedIn(T) /\ LatestAttachedIn(T)
  BY DEF ConsistentTable
<1>2. /\ T.job \in [Job -> JobObject] /\ T.jobs \in [JobId -> Job \cup {NoJob}]
      /\ T.entries \in [Pid -> Entry \cup {NoEntry}] /\ T.deleted \in Nat
      /\ T.latest \in Job \cup {NoJob}
  BY <1>1 DEF Table
<1>3. /\ U.job = [j \in Job |-> IF \/ j \in refs
                                   \/ T.latest = j
                                   \/ \E i \in JobId : T.jobs[i] = j
                                THEN T.job[j] ELSE Unused]
      /\ U.jobs = T.jobs /\ U.entries = T.entries
      /\ U.deleted = T.deleted /\ U.latest = T.latest
      /\ U = [job |-> U.job, jobs |-> U.jobs, entries |-> U.entries,
              deleted |-> U.deleted, latest |-> U.latest]
  BY <1>1, <1>a DEF Collected, Table
<1>4. \A k \in Job : U.job[k] \in {T.job[k], Unused}
  BY <1>3
<1>5. \A k \in Job : AttachedIn(T, k) => U.job[k] = T.job[k]
  BY <1>3 DEF AttachedIn
<1>6. \A i \in JobId : T.jobs[i] # NoJob =>
        T.jobs[i] \in Job /\ AttachedIn(T, T.jobs[i]) /\ U.job[T.jobs[i]] = T.job[T.jobs[i]]
  <2> SUFFICES ASSUME NEW i \in JobId, T.jobs[i] # NoJob
               PROVE  T.jobs[i] \in Job /\ AttachedIn(T, T.jobs[i])
    BY <1>5
  <2> QED
    BY <1>2 DEF AttachedIn
<1>7. Unused.jobID = 0 /\ DOMAIN Unused.procs = {}
  BY DEF Unused
<1>8. U \in Table
  <2>1. U.job \in [Job -> JobObject]
    BY <1>2, <1>3, UnusedLemma
  <2> QED
    BY <2>1, <1>2, <1>3 DEF Table
<1>9. IdsMatchIn(U)
  <2>1. \A i \in JobId : U.jobs[i] # NoJob => U.job[U.jobs[i]].jobID = i
    BY <1>1, <1>3, <1>6 DEF IdsMatchIn
  <2>2. \A k \in Job : U.job[k].jobID # 0 => U.jobs[U.job[k].jobID] = k
    BY <1>1, <1>3, <1>4, <1>7 DEF IdsMatchIn
  <2> QED
    BY <2>1, <2>2 DEF IdsMatchIn
<1>10. EntriesMatchIn(U)
  <2> SUFFICES ASSUME NEW p \in Pid, T.entries[p] # NoEntry, ~IsDeleted(T.entries[p])
               PROVE  LET f == T.entries[p]
                          k == T.jobs[f.jobId]
                      IN /\ k # NoJob
                         /\ f.offset \in DOMAIN U.job[k].procs
                         /\ U.job[k].procs[f.offset].pid = p
    BY <1>3 DEF EntriesMatchIn
  <2> PICK f : f = T.entries[p]
    OBVIOUS
  <2>1. f.jobId \in JobId
    BY <1>2 DEF Entry, IsDeleted, JobId
  <2> PICK k : k = T.jobs[f.jobId]
    OBVIOUS
  <2>2. k # NoJob /\ f.offset \in DOMAIN T.job[k].procs /\ T.job[k].procs[f.offset].pid = p
    BY <1>1 DEF EntriesMatchIn
  <2>3. U.job[k] = T.job[k]
    BY <2>1, <2>2, <1>6
  <2> QED
    BY <2>2, <2>3
<1>11. ProcsRegisteredIn(U)
  <2> SUFFICES ASSUME NEW k \in Job, NEW i \in DOMAIN U.job[k].procs,
                      AttachedIn(U, k), U.job[k].procs[i].pid # NoPid
               PROVE  U.entries[U.job[k].procs[i].pid] = [jobId |-> U.job[k].jobID, offset |-> i]
    BY DEF ProcsRegisteredIn
  <2>1. AttachedIn(T, k)
    BY <1>3 DEF AttachedIn
  <2>2. U.job[k] = T.job[k]
    BY <2>1, <1>5
  <2> QED
    BY <2>1, <2>2, <1>1, <1>3 DEF ProcsRegisteredIn
<1>12. \A k \in Job : SoundJob(U.job[k])
  BY <1>4, UnusedLemma DEF ConsistentTable
<1>13. AttachedSoundIn(U)
  BY <1>1, <1>3, <1>6 DEF AttachedSoundIn
<1>14. \A i \in JobId : U.jobs[i] # NoJob => (Available(U, U.jobs[i]) <=> Available(T, T.jobs[i]))
  BY <1>3, <1>6 DEF Available
<1>15. DeletedCountedIn(U)
  BY <1>1, <1>3, <1>14 DEF DeletedCountedIn
<1>16. LatestAttachedIn(U)
  BY <1>1, <1>3 DEF LatestAttachedIn, AttachedIn
<1>17. ConsistentTable(U)
  BY <1>8, <1>9, <1>10, <1>11, <1>12, <1>13, <1>15, <1>16 DEF ConsistentTable
<1>18. SettledIn(T) => SettledIn(U)
  BY <1>3, <1>14 DEF SettledIn
<1> QED
  BY <1>a, <1>3, <1>4, <1>5, <1>17, <1>18

(* detachAll, in a forked child, leaves an empty table and no job of the child's own. *)
LEMMA DetachAllLemma ==
  ASSUME NEW T, ConsistentTable(T)
  PROVE  LET U == DetachAll(T)
         IN /\ ConsistentTable(U)
            /\ SettledIn(U)
            /\ \A k \in Job : AttachedIn(T, k) => U.job[k].state = "UNCONTROLLED"
            /\ \A k \in Job : ~AttachedIn(T, k) => U.job[k] = T.job[k]
<1>a. PICK U : U = DetachAll(T)
  OBVIOUS
<1>b. PICK attached : attached = {T.jobs[i] : i \in JobId} \ {NoJob}
  OBVIOUS
<1>1. T \in Table /\ IdsMatchIn(T)
  BY DEF ConsistentTable
<1>2. /\ U.job = [j \in Job |-> IF j \in attached
                                THEN [T.job[j] EXCEPT !.jobID = 0, !.disown = TRUE,
                                                      !.state = "UNCONTROLLED"]
                                ELSE T.job[j]]
      /\ U.jobs = [i \in JobId |-> NoJob] /\ U.entries = [p \in Pid |-> NoEntry]
      /\ U.deleted = 0 /\ U.latest = NoJob
      /\ U = [job |-> U.job, jobs |-> U.jobs, entries |-> U.entries,
              deleted |-> U.deleted, latest |-> U.latest]
  BY <1>a, <1>b DEF DetachAll
<1>3. \A k \in Job : k \in attached <=> AttachedIn(T, k)
  BY <1>b, JobAssumption DEF AttachedIn
<1>4. ASSUME NEW k \in Job
      PROVE  /\ U.job[k] \in JobObject
             /\ SoundJob(U.job[k])
             /\ U.job[k].jobID = 0
             /\ AttachedIn(T, k) => U.job[k].state = "UNCONTROLLED"
             /\ ~AttachedIn(T, k) => U.job[k] = T.job[k]
  <2> PICK jo : jo = T.job[k]
    OBVIOUS
  <2>1. jo \in JobObject /\ SoundJob(jo)
    BY <1>1 DEF ConsistentTable, Table
  <2>2. CASE k \in attached
    <3>1. U.job[k] = [jo EXCEPT !.jobID = 0, !.disown = TRUE, !.state = "UNCONTROLLED"]
      BY <2>2, <1>2
    <3>2. /\ U.job[k] \in JobObject /\ U.job[k].jobID = 0 /\ U.job[k].state = "UNCONTROLLED"
          /\ U.job[k].procs = jo.procs
      <4> PICK jn : jn = U.job[k]
        OBVIOUS
      <4>1. jn = [jo EXCEPT !.jobID = 0, !.disown = TRUE, !.state = "UNCONTROLLED"]
        BY <3>1
      <4>2. 0 \in 0 .. JobLimit
        BY JobAssumption
      <4>3. /\ jn \in JobObject /\ jn.jobID = 0 /\ jn.state = "UNCONTROLLED"
            /\ jn.procs = jo.procs
        BY <2>1, <4>1, <4>2 DEF JobObject
      <4> QED
        BY <4>3
    <3>3. SoundJob(U.job[k])
      BY <2>1, <3>2 DEF SoundJob
    <3> QED
      BY <2>2, <3>2, <3>3, <1>3
  <2>3. CASE k \notin attached
    <3>1. U.job[k] = jo
      BY <2>3, <1>2
    <3>2. jo.jobID = 0
      <4> SUFFICES ASSUME jo.jobID # 0 PROVE FALSE
        OBVIOUS
      <4>1. T.jobs[jo.jobID] = k /\ jo.jobID \in JobId
        BY <2>1, <1>1 DEF IdsMatchIn, JobObject, JobId
      <4> QED
        BY <4>1, <2>3, <1>3 DEF AttachedIn
    <3> QED
      BY <2>1, <2>3, <3>1, <3>2, <1>3
  <2> QED
    BY <2>2, <2>3
<1>5. U \in Table
  <2>1. U.job \in [Job -> JobObject]
    <3>1. U.job = [k \in Job |-> U.job[k]]
      BY <1>2
    <3> QED
      BY <3>1, <1>4
  <2>2. /\ U.jobs \in [JobId -> Job \cup {NoJob}]
        /\ U.entries \in [Pid -> Entry \cup {NoEntry}]
    BY <1>2
  <2>3. U = [job |-> U.job, jobs |-> U.jobs, entries |-> U.entries,
             deleted |-> 0, latest |-> NoJob]
    BY <1>2
  <2> QED
    BY <2>1, <2>2, <2>3 DEF Table
<1>6. IdsMatchIn(U) /\ EntriesMatchIn(U)
  BY <1>2, <1>4 DEF IdsMatchIn, EntriesMatchIn
<1>7. \A j \in Job : ~AttachedIn(U, j)
  BY <1>2, JobAssumption DEF AttachedIn
<1>8. ProcsRegisteredIn(U) /\ AttachedSoundIn(U) /\ LatestAttachedIn(U)
  BY <1>2, <1>7 DEF ProcsRegisteredIn, AttachedSoundIn, LatestAttachedIn
<1>9. ~IsDeleted(NoEntry)
  BY DEF IsDeleted, NoEntry
<1>10. SettledIn(U) /\ DeletedCountedIn(U)
  BY <1>2, <1>9 DEF SettledIn, DeletedCountedIn
<1>11. ConsistentTable(U)
  BY <1>4, <1>5, <1>6, <1>8, <1>10 DEF ConsistentTable
<1> QED
  BY <1>a, <1>4, <1>10, <1>11

=============================================================================
