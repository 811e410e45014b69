----------------------------- MODULE JobVectors -----------------------------
(***************************************************************************)
(* The representation of the job table: JobTable::jobs, a vector sorted by *)
(* job id, and ProcTable::entries, a vector sorted by pid, with the binary *)
(* searches, insertions and in-place removals of src/src/job.cpp.  It      *)
(* implements JobTableSpec, where both are maps.                           *)
(***************************************************************************)
EXTENDS JobTable, SequencesExt

VARIABLES
  object,       \* the JobObjects
  jobs,         \* JobTable::jobs
  entries,      \* ProcTable::entries
  deletedCount, \* ProcTable::deletedCount
  latest        \* JobTable::latest

vectorVars == <<object, jobs, entries, deletedCount, latest>>

Init ==
  /\ KernelInit
  /\ object = [j \in Job |-> Unused]
  /\ jobs = <<>>
  /\ entries = <<>>
  /\ deletedCount = 0
  /\ latest = NoJob

-----------------------------------------------------------------------------
(* Searches.  Indices count from 0, as in the source. *)

\* The search std::lower_bound makes in a vector of n elements, on the pair of the first
\* index and of how many follow: the first index whose element is not less.  `less' are
\* the places, counted from 1, of the elements that are.
LowerBound(n, less) ==
  LET search[w \in (0 .. n) \X (0 .. n)] ==
        LET half == w[2] \div 2
            mid == w[1] + half
        IN IF w[2] = 0 THEN w[1]
           ELSE IF mid + 1 \in less THEN search[<<mid + 1, w[2] - half - 1>>]
           ELSE search[<<w[1], half>>]
  IN search[<<0, n>>]

\* findEmptyEntry: the same search, for the first element that is not at the place its
\* id gives it.
FindEmptyIndex == LowerBound(Len(jobs), {i \in DOMAIN jobs : object[jobs[i]].jobID = i})

\* findIter: NoJob for end().
FindIter(id) ==
  LET k == LowerBound(Len(jobs), {i \in DOMAIN jobs : object[jobs[i]].jobID < id}) + 1
  IN IF id > 0 /\ k =< Len(jobs) /\ object[jobs[k]].jobID = id THEN jobs[k] ELSE NoJob

\* JobTable::find
Find(id) ==
  LET j == FindIter(id) IN IF j # NoJob /\ object[j].disown THEN NoJob ELSE j

EntryIndex(s, p) == LowerBound(Len(s), {i \in DOMAIN s : s[i].pid < p}) + 1

\* findProc: the index of the entry, 0 for nullptr.
FindIndex(p) ==
  IF EntryIndex(entries, p) =< Len(entries) THEN EntryIndex(entries, p) ELSE 0

-----------------------------------------------------------------------------
(* Changes *)

\* addProc
AddProc(s, p, id, offset) ==
  LET k == EntryIndex(s, p)
  IN IF p = NoPid \/ id = 0 \/ (k =< Len(s) /\ s[k].pid = p)
     THEN s
     ELSE InsertAt(s, k, [pid |-> p, jobId |-> id, offset |-> offset])

\* ProcTable::add, on the processes of a JobObject
Add(s, procs, id) ==
  LET added[i \in 0 .. Len(procs)] ==
        IF i = 0 THEN s ELSE AddProc(added[i - 1], procs[i].pid, id, i)
  IN added[Len(procs)]

Swapped_overwrite(s, i, k) == [s EXCEPT ![k] = s[i]]

Swapped(s, i, k) == [s EXCEPT ![i] = s[k], ![k] = s[i]]

(***************************************************************************)
(* The loop of batchedRemove and removeTerminatedJobs: each element that   *)
(* stays is swapped with the first one that goes, or with itself as long   *)
(* as there is none.  `size' elements stay, at the front.                  *)
(***************************************************************************)
CompactOne(c, i, gone) ==
  IF c.vector[i] \in gone THEN c
  ELSE [vector |-> Swapped(c.vector, i, c.size + 1), size |-> c.size + 1]

Compact(s, gone) ==
  LET loop[i \in 0 .. Len(s)] ==
        IF i = 0 THEN [vector |-> s, size |-> 0] ELSE CompactOne(loop[i - 1], i, gone)
  IN loop[Len(s)]

Kept(c) == SubSeq(c.vector, 1, c.size)
Dropped(c) == {c.vector[i] : i \in c.size + 1 .. Len(c.vector)}

\* An object is deleted with its last reference; refs are those of the script.
Delete(obj, js, last, refs) ==
  [j \in Job |-> IF j \in refs \cup ToSet(js) \cup {last} THEN obj[j] ELSE Unused]

-----------------------------------------------------------------------------
(* Operations *)

VAttach(j, ps, disowned) ==
  LET index == FindEmptyIndex
      id == index + 1
  IN /\ Len(jobs) < JobLimit
     /\ object[j] = Unused
     /\ \A k \in Job : \A i \in DOMAIN object[k].procs : object[k].procs[i].pid \notin Range(ps)
     /\ \A i \in DOMAIN entries : entries[i].pid \notin Range(ps)
     /\ object' = [object EXCEPT ![j] = [NewJob(ps) EXCEPT !.jobID = id, !.disown = disowned]]
     /\ jobs' = InsertAt(jobs, index + 1, j)
     /\ entries' = Add(entries, NewJob(ps).procs, id)
     /\ latest' = IF disowned THEN latest ELSE j
     /\ UNCHANGED deletedCount

\* updateProcState
VUpdate(ret) ==
  LET k == FindIndex(ret.pid)
      e == entries[k]
      j == FindIter(e.jobId)
      new == UpdateProc(object[j].procs[e.offset], ret)
  IN IF k = 0
     THEN UNCHANGED vectorVars
     ELSE /\ e.jobId # 0
          /\ object' = [object EXCEPT ![j] = WithProc(@, e.offset, new)]
          /\ IF new.state = "TERMINATED"
             THEN /\ entries' = [entries EXCEPT ![k].jobId = 0]
                  /\ deletedCount' = deletedCount + 1
             ELSE UNCHANGED <<entries, deletedCount>>
          /\ UNCHANGED <<jobs, latest>>

\* removeTerminatedJobs
VRemove(refs) ==
  LET ended == {j \in Job : object[j].state # "RUNNING"}
      c == Compact(jobs, ended)
      kept == Kept(c)
      owned == {i \in DOMAIN kept : ~object[kept[i]].disown}
      obj == [j \in Job |-> IF j \in Dropped(c)
                            THEN [object[j] EXCEPT !.jobID = 0, !.disown = TRUE]
                            ELSE object[j]]
      last == IF Dropped(c) = {} \/ latest \notin ended THEN latest
              ELSE IF owned = {} THEN NoJob ELSE kept[Max(owned)]
  IN IF deletedCount = 0
     THEN /\ object' = Delete(object, jobs, latest, refs)
          /\ UNCHANGED <<jobs, entries, deletedCount, latest>>
     ELSE /\ entries' = Kept(Compact(entries, {e \in ToSet(entries) : e.jobId = 0}))
          /\ deletedCount' = 0
          /\ jobs' = kept
          /\ latest' = last
          /\ object' = Delete(obj, kept, last, refs)

VDisown(j) ==
  /\ object[j] # Unused
  /\ object' = [object EXCEPT ![j].disown = TRUE]
  /\ UNCHANGED <<jobs, entries, deletedCount, latest>>

\* detachAll
VDetach(refs) ==
  /\ object' = Delete([j \in Job |-> IF Contains(jobs, j)
                         THEN [object[j] EXCEPT !.jobID = 0, !.disown = TRUE,
                                                !.state = "UNCONTROLLED"]
                         ELSE object[j]], <<>>, NoJob, refs)
  /\ jobs' = <<>>
  /\ entries' = <<>>
  /\ deletedCount' = 0
  /\ latest' = NoJob

Next ==
  /\ \/ \E j \in Job, ps \in UNION {[1 .. n -> Pid] : n \in Offset}, d \in BOOLEAN :
          IsInjective(ps) /\ VAttach(j, ps, d)
     \/ \E p \in Pid, kind \in {"exited", "continued"} :
          VUpdate([pid |-> p, kind |-> kind, status |-> EXIT_OK])
     \/ \E refs \in {{}, Job} : VRemove(refs) \/ VDetach(refs)
     \/ \E j \in Job : VDisown(j)
  /\ UNCHANGED kernelVars

Spec == Init /\ [][Next]_<<kernelVars, vectorVars>>

-----------------------------------------------------------------------------
(* The vectors as maps *)

JobsMap(obj, js) ==
  [i \in JobId |-> IF \E j \in ToSet(js) : obj[j].jobID = i
                   THEN CHOOSE j \in ToSet(js) : obj[j].jobID = i
                   ELSE NoJob]

EntriesMap(es) ==
  [p \in Pid |-> LET own == {i \in DOMAIN es : es[i].pid = p}
                 IN IF own = {} THEN NoEntry
                    ELSE [jobId |-> es[Min(own)].jobId, offset |-> es[Min(own)].offset]]

AbstractTable ==
  [job |-> object, jobs |-> JobsMap(object, jobs), entries |-> EntriesMap(entries),
   deleted |-> deletedCount, latest |-> latest]

Maps == INSTANCE JobTableSpec WITH table <- AbstractTable

\* The vectors do what the maps do: the binary searches find what is there (and the free
\* id is the least one), insertions keep the order the searches need, and the swapping
\* removals drop exactly the jobs and entries that have ended.
ImplementsMaps == Maps!Spec

=============================================================================
