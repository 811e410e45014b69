---------------------------- MODULE JobTableSpec ----------------------------
(***************************************************************************)
(* What the vectors of JobTable and ProcTable promise: the operators of    *)
(* JobTable, on maps.  This is the table the other modules work with;      *)
(* JobVectors implements it.  The kernel takes no part.                    *)
(***************************************************************************)
EXTENDS JobTable

VARIABLE table

specVars == <<kernelVars, table>>

Init == KernelInit /\ table = EmptyTable

\* The pids of processes that have not ended.
LivePids == UNION {ProcPids(table, j) : j \in Job}

\* Proc::fork and JobTable::attach, then the removal every operation of the shell ends
\* with: the entry of an ended process is gone when the shell forks again.
AttachNew(j, ps, disowned) ==
  /\ FreeIds(table) # {}
  /\ table.job[j] = Unused
  /\ Range(ps) \cap LivePids = {}
  /\ \A p \in Range(ps) : table.entries[p] = NoEntry
  /\ table' = Attach([table EXCEPT !.job[j] = NewJob(ps)], j, disowned)

Update(ret) == ~FindsDeleted(table, ret.pid) /\ table' = UpdateProcState(table, ret)

Remove(refs) == table' = Collected(RemoveTerminatedJobs(table), refs)

Disown(j) == table' = [table EXCEPT !.job[j].disown = TRUE]

Detach(refs) == table' = Collected(DetachAll(table), refs)

Results == [pid : Pid, kind : {"exited", "continued"}, status : {EXIT_OK}]

Next ==
  /\ \/ \E j \in Job, ps \in UNION {[1 .. n -> Pid] : n \in Offset}, d \in BOOLEAN :
          IsInjective(ps) /\ AttachNew(j, ps, d)
     \/ \E ret \in Results : Update(ret)
     \/ \E refs \in {{}, Job} : Remove(refs) \/ Detach(refs)
     \/ \E j \in Job : Disown(j)
  /\ UNCHANGED kernelVars

Spec == Init /\ [][Next]_specVars
=============================================================================
