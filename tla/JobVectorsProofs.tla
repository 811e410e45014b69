-------------------------- MODULE JobVectorsProofs --------------------------
(***************************************************************************)
(* The sorted vectors of job.cpp, with their binary searches, insertions   *)
(* and swapping removals, implement the maps of JobTableSpec.              *)
(***************************************************************************)
EXTENDS JobVectors, JobTableProofs

-----------------------------------------------------------------------------
(* What Maps names is what JobTable names *)

LEMMA SameOperators ==
  /\ \A T, ret : Maps!UpdateProcState(T, ret) = UpdateProcState(T, ret)
  /\ \A T, p : Maps!FindsDeleted(T, p) = FindsDeleted(T, p)
  /\ \A T, j, d : Maps!Attach(T, j, d) = Attach(T, j, d)
  /\ \A T : Maps!FreeIds(T) = FreeIds(T)
  /\ \A T : Maps!RemoveTerminatedJobs(T) = RemoveTerminatedJobs(T)
  /\ \A T, refs : Maps!Collected(T, refs) = Collected(T, refs)
  /\ \A T : Maps!DetachAll(T) = DetachAll(T)
  /\ \A T, j : Maps!ProcPids(T, j) = ProcPids(T, j)
  /\ \A ps : Maps!NewJob(ps) = NewJob(ps)
  /\ Maps!EmptyTable = EmptyTable
  /\ Maps!KernelInit = KernelInit
  /\ Maps!Unused = Unused /\ Maps!NoEntry = NoEntry /\ Maps!Offset = Offset
  /\ Maps!EXIT_OK = EXIT_OK
<1>1. Maps!Unused = Unused /\ Maps!NoEntry = NoEntry /\ Maps!EXIT_OK = EXIT_OK /\ Maps!Offset = Offset
      /\ Maps!JobId = JobId
  BY DEF Maps!Unused, Unused, Maps!NoEntry, NoEntry, Maps!EXIT_OK, EXIT_OK, Maps!JobId, JobId, Maps!Offset, Offset
<1>2. \A T, p : Maps!FindProc(T, p) = FindProc(T, p)
  BY DEF Maps!FindProc, FindProc, Maps!NoEntry, NoEntry, Maps!Min, Min
<1>3. \A T, p : Maps!FindsDeleted(T, p) = FindsDeleted(T, p)
  BY <1>2 DEF Maps!FindsDeleted, FindsDeleted, Maps!IsDeleted, IsDeleted
<1>4. \A pr, ret : Maps!UpdateProc(pr, ret) = UpdateProc(pr, ret)
  BY DEF Maps!UpdateProc, UpdateProc, Maps!NewProcState, NewProcState
<1>5. \A T, q, pr : Maps!WriteProc(T, q, pr) = WriteProc(T, q, pr)
  BY DEF Maps!WriteProc, WriteProc, Maps!MarkDelete, MarkDelete, Maps!WithProc, WithProc, Maps!UpdateJob, UpdateJob,
         Maps!AllTerminated, AllTerminated
<1>6. \A T, q : Maps!ProcOf(T, q) = ProcOf(T, q)
  BY DEF Maps!ProcOf, ProcOf
<1>7. \A T, ret : Maps!UpdateProcState(T, ret) = UpdateProcState(T, ret)
  BY <1>2, <1>4, <1>5, <1>6 DEF Maps!UpdateProcState, UpdateProcState
<1>8. \A T : Maps!FreeIds(T) = FreeIds(T)
  BY <1>1 DEF Maps!FreeIds, FreeIds
<1>9. \A T : Maps!FindEmptyEntry(T) = FindEmptyEntry(T)
  <2>1. \A S : Maps!Min(S) = Min(S)
    BY Zenon DEF Maps!Min, Min
  <2> QED BY <1>8, <2>1 DEF Maps!FindEmptyEntry, FindEmptyEntry
<1>10. \A T, procs, id : Maps!AddProcs(T, procs, id) = AddProcs(T, procs, id)
  BY DEF Maps!AddProcs, AddProcs, Maps!NoEntry, NoEntry, Maps!Min, Min
<1>11. \A T, j, d : Maps!Attach(T, j, d) = Attach(T, j, d)
  BY <1>1, <1>9, <1>10 DEF Maps!Attach, Attach
<1>12. \A T : Maps!EndedIds(T) = EndedIds(T)
  BY <1>1 DEF Maps!EndedIds, EndedIds, Maps!Available, Available
<1>13. \A T, id : Maps!FindJob(T, id) = FindJob(T, id)
  BY <1>1 DEF Maps!FindJob, FindJob
<1>14. \A T : Maps!NewLatest(T) = NewLatest(T)
  <2>1. \A S : Maps!Max(S) = Max(S)
    BY Zenon DEF Maps!Max, Max
  <2> QED BY <1>1, <1>12, <1>13, <2>1 DEF Maps!NewLatest, NewLatest, Maps!Available, Available
<1>15. \A T : Maps!RemoveTerminatedJobs(T) = RemoveTerminatedJobs(T)
  <2>1. \A T : Maps!BatchedRemove(T) = BatchedRemove(T)
    BY DEF Maps!BatchedRemove, BatchedRemove, Maps!IsDeleted, IsDeleted, Maps!NoEntry, NoEntry
  <2> QED BY <1>1, <1>12, <1>14, <2>1 DEF Maps!RemoveTerminatedJobs, RemoveTerminatedJobs
<1>16. \A T, refs : Maps!Collected(T, refs) = Collected(T, refs)
  BY <1>1 DEF Maps!Collected, Collected
<1>17. \A T : Maps!DetachAll(T) = DetachAll(T)
  BY <1>1 DEF Maps!DetachAll, DetachAll
<1>18. \A T, j : Maps!ProcPids(T, j) = ProcPids(T, j)
  BY DEF Maps!ProcPids, ProcPids
<1>19. \A ps : Maps!NewJob(ps) = NewJob(ps)
  BY <1>1 DEF Maps!NewJob, NewJob
<1>20. Maps!EmptyTable = EmptyTable
  BY <1>1 DEF Maps!EmptyTable, EmptyTable
<1>21. Maps!KernelInit = KernelInit
  BY <1>1 DEF Maps!KernelInit, KernelInit, Maps!ShellGroup, ShellGroup
<1> QED BY <1>1, <1>3, <1>7, <1>8, <1>11, <1>15, <1>16, <1>17, <1>18, <1>19, <1>20, <1>21

-----------------------------------------------------------------------------
(* Induction over the natural numbers *)

\* A set that holds 0 and, with a number, the next one holds them all.
LEMMA NatInduction2 ==
  ASSUME NEW S, 0 \in S, \A n \in Nat : n \in S => n + 1 \in S
  PROVE  Nat \subseteq S
<1> SUFFICES ASSUME ~(Nat \subseteq S) PROVE FALSE
  OBVIOUS
<1> DEFINE T == {n \in Nat : n \notin S}
<1>1. T \in SUBSET Nat /\ T # {}
  OBVIOUS
<1>2. Min(T) \in T /\ \A y \in T : Min(T) =< y
  BY <1>1, MinLemma
<1> DEFINE x == Min(T)
<1>3. x \in Nat /\ x \notin S
  BY <1>2
<1> HIDE DEF x
<1>4. x - 1 \in Nat /\ x - 1 < x /\ x - 1 + 1 = x
  BY <1>3
<1>5. x - 1 \in T
  BY <1>3, <1>4
<1> QED BY <1>2, <1>4, <1>5 DEF x

\* A set of places that holds, with one, all before it is a front of the vector.
LEMMA FrontLemma ==
  ASSUME NEW n \in Nat, NEW S \in SUBSET (1 .. n), \A i \in S : 1 .. i \subseteq S
  PROVE  \E k \in 0 .. n : S = 1 .. k
<1>1. CASE S = {}
  <2>1. S = 1 .. 0
    BY <1>1
  <2> QED BY <2>1
<1>2. CASE S # {}
  <2>1. S \in SUBSET (0 .. n)
    OBVIOUS
  <2>2. Max(S) \in S /\ \A y \in S : Max(S) >= y
    BY <2>1, <1>2, MaxLemma
  <2> DEFINE m == Max(S)
  <2>3. m \in 1 .. n /\ 1 .. m \subseteq S /\ \A y \in S : y \in 1 .. n /\ m >= y
    BY <2>2
  <2> HIDE DEF m
  <2>4. S \subseteq 1 .. m
    BY <2>3
  <2>5. S = 1 .. m
    BY <2>3, <2>4
  <2> QED BY <2>3, <2>5
<1> QED BY <1>1, <1>2

-----------------------------------------------------------------------------
(* The binary search *)

\* It finds the end of the front of elements that are less.  The function that answers
\* every pair of a first place and a length can be written down, so there is one; by
\* induction on the length there is no other.
LEMMA LowerBoundLemma ==
  ASSUME NEW n \in Nat, NEW k \in 0 .. n
  PROVE  LowerBound(n, 1 .. k) = k
<1> DEFINE W == (0 .. n) \X (0 .. n)
           Half(w) == w[2] \div 2
           Mid(w) == w[1] + w[2] \div 2
           Def(f) == [w \in W |->
                        IF w[2] = 0 THEN w[1]
                        ELSE IF w[1] + w[2] \div 2 + 1 \in 1 .. k
                             THEN f[<<w[1] + w[2] \div 2 + 1, w[2] - w[2] \div 2 - 1>>]
                        ELSE f[<<w[1], w[2] \div 2>>]]
           Answer(a, d) == IF a >= k THEN a ELSE IF a + d =< k THEN a + d ELSE k
           g == [w \in W |-> Answer(w[1], w[2])]
<1>1. ASSUME NEW a \in 0 .. n, NEW d \in 0 .. n, d # 0
      PROVE  /\ d \div 2 \in 0 .. n /\ d \div 2 < d
             /\ a + d \div 2 + 1 \in 1 .. k =>
                  /\ a + d \div 2 + 1 \in 0 .. n
                  /\ d - d \div 2 - 1 \in 0 .. n /\ d - d \div 2 - 1 < d
                  /\ Answer(a, d) = Answer(a + d \div 2 + 1, d - d \div 2 - 1)
             /\ a + d \div 2 + 1 \notin 1 .. k => Answer(a, d) = Answer(a, d \div 2)
  BY <1>1
<1>2. \A a, d \in 0 .. n : g[<<a, d>>] = Answer(a, d)
  OBVIOUS
<1>3. g = Def(g)
  <2> SUFFICES ASSUME NEW a \in 0 .. n, NEW d \in 0 .. n
               PROVE  Answer(a, d) = IF d = 0 THEN a
                        ELSE IF a + d \div 2 + 1 \in 1 .. k
                             THEN g[<<a + d \div 2 + 1, d - d \div 2 - 1>>]
                        ELSE g[<<a, d \div 2>>]
    OBVIOUS
  <2> HIDE DEF g, Answer
  <2>1. CASE d = 0
    BY <2>1 DEF Answer
  <2>2. CASE d # 0 /\ a + d \div 2 + 1 \in 1 .. k
    <3>1. g[<<a + d \div 2 + 1, d - d \div 2 - 1>>] = Answer(a, d)
      <4> DEFINE b == a + d \div 2 + 1
                 e == d - d \div 2 - 1
      <4>1. b \in 0 .. n /\ e \in 0 .. n /\ Answer(a, d) = Answer(b, e)
        BY <1>1, <2>2
      <4> HIDE DEF b, e
      <4>2. g[<<b, e>>] = Answer(a, d)
        BY <1>2, <4>1
      <4> QED BY <4>2 DEF b, e
    <3> QED BY <3>1, <2>2
  <2>3. CASE d # 0 /\ a + d \div 2 + 1 \notin 1 .. k
    <3>1. g[<<a, d \div 2>>] = Answer(a, d)
      BY <1>1, <1>2, <2>3
    <3> QED BY <3>1, <2>3
  <2> QED BY <2>1, <2>2, <2>3
<1>4. ASSUME NEW f, f = Def(f) PROVE f[<<0, n>>] = k
  <2>1. \A a, d \in 0 .. n : f[<<a, d>>] = IF d = 0 THEN a
                        ELSE IF a + d \div 2 + 1 \in 1 .. k
                             THEN f[<<a + d \div 2 + 1, d - d \div 2 - 1>>]
                        ELSE f[<<a, d \div 2>>]
    BY <1>4
  <2> DEFINE Bad == {d \in 0 .. n : \E a \in 0 .. n : f[<<a, d>>] # Answer(a, d)}
  <2>2. Bad = {}
    <3> SUFFICES ASSUME Bad # {} PROVE FALSE
      OBVIOUS
    <3>1. Bad \in SUBSET Nat
      OBVIOUS
    <3>2. Min(Bad) \in Bad /\ \A y \in Bad : Min(Bad) =< y
      BY <3>1, MinLemma
    <3>3. PICK d \in 0 .. n : d = Min(Bad)
      BY <3>2
    <3>4. PICK a \in 0 .. n : f[<<a, d>>] # Answer(a, d)
      BY <3>2, <3>3
    <3>5. \A e \in 0 .. n : e < d => \A b \in 0 .. n : f[<<b, e>>] = Answer(b, e)
      <4> SUFFICES ASSUME NEW e \in 0 .. n, e < d PROVE e \notin Bad
        OBVIOUS
      <4> HIDE DEF Bad
      <4> QED BY <3>2, <3>3
    <3> HIDE DEF Bad, Answer
    <3>6. CASE d = 0
      <4>1. f[<<a, d>>] = a
        BY <2>1, <3>6
      <4> QED BY <4>1, <3>4, <3>6 DEF Answer
    <3>7. CASE d # 0
      <4>1. CASE a + d \div 2 + 1 \in 1 .. k
        <5>1. f[<<a + d \div 2 + 1, d - d \div 2 - 1>>] = Answer(a, d)
          <6> DEFINE b == a + d \div 2 + 1
                     e == d - d \div 2 - 1
          <6>1. b \in 0 .. n /\ e \in 0 .. n /\ e < d /\ Answer(a, d) = Answer(b, e)
            BY <1>1, <3>7, <4>1
          <6> HIDE DEF b, e
          <6>2. f[<<b, e>>] = Answer(a, d)
            BY <3>5, <6>1
          <6> QED BY <6>2 DEF b, e
        <5> QED BY <5>1, <2>1, <3>4, <3>7, <4>1
      <4>2. CASE a + d \div 2 + 1 \notin 1 .. k
        <5>1. f[<<a, d \div 2>>] = Answer(a, d)
          BY <1>1, <3>5, <3>7, <4>2
        <5> QED BY <5>1, <2>1, <3>4, <3>7, <4>2
      <4> QED BY <4>1, <4>2
    <3> QED BY <3>6, <3>7
  <2>3. n \in 0 .. n /\ 0 \in 0 .. n
    OBVIOUS
  <2>4. f[<<0, n>>] = Answer(0, n)
    BY <2>2, <2>3
  <2> QED BY <2>4
<1>5. LowerBound(n, 1 .. k) = (CHOOSE f : f = Def(f))[<<0, n>>]
  BY DEF LowerBound
<1> HIDE DEF Def
<1>6. (CHOOSE f : f = Def(f)) = Def(CHOOSE f : f = Def(f))
  BY <1>3
<1> QED BY <1>4, <1>5, <1>6

-----------------------------------------------------------------------------
(* Insertion *)

Inserted(t, S, s, k, x) ==
  /\ t \in Seq(S) /\ Len(t) = Len(s) + 1
  /\ \A i \in 1 .. Len(s) + 1 : /\ i < k => t[i] = s[i]
                                /\ i = k => t[i] = x
                                /\ i > k => t[i] = s[i - 1]
  /\ ToSet(t) = ToSet(s) \cup {x}

LEMMA InsertLemma ==
  ASSUME NEW S, NEW s \in Seq(S), NEW k \in 1 .. Len(s) + 1, NEW x \in S, NEW t, t = InsertAt(s, k, x)
  PROVE  Inserted(t, S, s, k, x)
<1> DEFINE a == SubSeq(s, 1, k - 1)
           b == SubSeq(s, k, Len(s))
<1>1. a \in Seq(S) /\ Len(a) = k - 1 /\ \A i \in 1 .. k - 1 : a[i] = s[i]
  <2>1. 1 \in Int /\ k - 1 \in Int /\ \A i \in 1 .. k - 1 : s[i] \in S
    OBVIOUS
  <2> QED BY <2>1, SubSeqProperties
<1>2. b \in Seq(S) /\ Len(b) = Len(s) - k + 1 /\ \A i \in 1 .. Len(s) - k + 1 : b[i] = s[k + i - 1]
  <2>1. k \in Int /\ Len(s) \in Int /\ \A i \in k .. Len(s) : s[i] \in S
    OBVIOUS
  <2> QED BY <2>1, SubSeqProperties
<1>3. t = a \o <<x>> \o b
  BY DEF InsertAt
<1> HIDE DEF a, b
<1> DEFINE c == a \o <<x>>
<1>4. c \in Seq(S) /\ Len(c) = k
  <2>1. <<x>> \in Seq(S) /\ Len(<<x>>) = 1
    OBVIOUS
  <2> QED BY <1>1, <2>1, ConcatProperties
<1>5. \A i \in 1 .. k : c[i] = IF i < k THEN s[i] ELSE x
  BY <1>1
<1> HIDE DEF c
<1>6. t = c \o b
  BY <1>3 DEF c
<1>7. t \in Seq(S) /\ Len(t) = Len(s) + 1
  <2>1. c \o b \in Seq(S) /\ Len(c \o b) = Len(c) + Len(b)
    BY <1>2, <1>4, ConcatProperties
  <2>2. Len(c) + Len(b) = Len(s) + 1
    BY <1>2, <1>4
  <2> QED BY <1>6, <2>1, <2>2
<1>8. \A i \in 1 .. Len(s) + 1 : t[i] = IF i =< k THEN c[i] ELSE b[i - k]
  BY <1>2, <1>4, <1>6
<1>9. ASSUME NEW i \in 1 .. Len(s) + 1
      PROVE  (i < k => t[i] = s[i]) /\ (i = k => t[i] = x) /\ (i > k => t[i] = s[i - 1])
  <2>1. CASE i =< k
    BY <1>5, <1>8, <2>1
  <2>2. CASE i > k
    <3>1. t[i] = b[i - k]
      BY <1>8, <2>2
    <3>2. i - k \in 1 .. Len(s) - k + 1 /\ k + (i - k) - 1 = i - 1
      BY <2>2
    <3> QED BY <3>1, <3>2, <1>2, <2>2
  <2> QED BY <2>1, <2>2
<1>10. ToSet(t) = {t[i] : i \in 1 .. Len(s) + 1} /\ ToSet(s) = {s[i] : i \in 1 .. Len(s)}
  BY <1>7 DEF ToSet
<1>11. ToSet(t) \subseteq ToSet(s) \cup {x}
  <2> SUFFICES ASSUME NEW i \in 1 .. Len(s) + 1 PROVE t[i] \in ToSet(s) \cup {x}
    BY <1>10
  <2>1. i < k => i \in 1 .. Len(s)
    OBVIOUS
  <2>2. i > k => i - 1 \in 1 .. Len(s)
    OBVIOUS
  <2> QED BY <2>1, <2>2, <1>9, <1>10
<1>12. ToSet(s) \cup {x} \subseteq ToSet(t)
  <2>1. t[k] = x /\ k \in 1 .. Len(s) + 1
    BY <1>9
  <2>2. ASSUME NEW i \in 1 .. Len(s) PROVE s[i] \in ToSet(t)
    <3>1. CASE i < k
      BY <3>1, <1>9, <1>10
    <3>2. CASE i >= k
      <4>1. i + 1 \in 1 .. Len(s) + 1 /\ i + 1 > k /\ i + 1 - 1 = i
        BY <3>2
      <4>2. t[i + 1] = s[i]
        BY <4>1, <1>9
      <4> QED BY <4>1, <4>2, <1>10
    <3> QED BY <3>1, <3>2
  <2> QED BY <2>1, <2>2, <1>10
<1> QED BY <1>7, <1>9, <1>11, <1>12 DEF Inserted

-----------------------------------------------------------------------------
(* The vector of entries *)

VEntry == [pid : Pid, jobId : 0 .. JobLimit, offset : Offset]
SortedEntries(es) == \A i, k \in DOMAIN es : i < k => es[i].pid < es[k].pid

LEMMA EntryFacts ==
  ASSUME NEW es \in Seq(VEntry)
  PROVE  /\ Len(es) \in Nat /\ DOMAIN es = 1 .. Len(es)
         /\ \A i \in 1 .. Len(es) : es[i] \in VEntry /\ es[i].pid \in Pid /\ es[i].pid \in Nat
<1>1. \A e \in VEntry : e.pid \in Pid /\ e.pid \in Nat
  BY PidAssumption DEF VEntry
<1>2. \A i \in 1 .. Len(es) : es[i] \in VEntry
  BY ElementOfSeq
<1> QED BY <1>1, <1>2

\* lower_bound splits the vector at the pid.
LEMMA EntryIndexLemma ==
  ASSUME NEW es \in Seq(VEntry), SortedEntries(es), NEW p \in Pid
  PROVE  /\ EntryIndex(es, p) \in 1 .. Len(es) + 1
         /\ \A i \in 1 .. Len(es) : es[i].pid < p <=> i < EntryIndex(es, p)
<1> DEFINE S == {i \in DOMAIN es : es[i].pid < p}
           n == Len(es)
<1>1. n \in Nat /\ DOMAIN es = 1 .. n /\ \A i \in 1 .. n : es[i] \in VEntry /\ es[i].pid \in Nat
  BY EntryFacts
<1>2. p \in Nat
  BY PidAssumption
<1>3. S \in SUBSET (1 .. n)
  BY <1>1
<1>4. ASSUME NEW i \in S, NEW l \in 1 .. i PROVE l \in S
  <2>1. i \in 1 .. n /\ l \in 1 .. n /\ es[i].pid < p /\ (l = i \/ l < i)
    BY <1>1
  <2>2. es[l].pid < p
    BY <2>1, <1>1, <1>2 DEF SortedEntries
  <2> QED BY <2>1, <2>2, <1>1
<1> HIDE DEF n, S
<1>5. PICK k \in 0 .. n : S = 1 .. k
  BY <1>1, <1>3, <1>4, FrontLemma
<1>6. EntryIndex(es, p) = k + 1
  BY <1>1, <1>5, LowerBoundLemma DEF EntryIndex, S, n
<1>7. ASSUME NEW i \in 1 .. n PROVE es[i].pid < p <=> i < k + 1
  <2>1. es[i].pid < p <=> i \in S
    BY <1>1 DEF S
  <2> QED BY <2>1, <1>5
<1> QED BY <1>1, <1>6, <1>7 DEF n

\* What the sorted vector says of a pid is what its entry says.
LEMMA EntriesMapLemma ==
  ASSUME NEW es \in Seq(VEntry), SortedEntries(es)
  PROVE  /\ \A i \in 1 .. Len(es) :
              EntriesMap(es)[es[i].pid] = [jobId |-> es[i].jobId, offset |-> es[i].offset]
         /\ \A p \in Pid : (\A i \in 1 .. Len(es) : es[i].pid # p) => EntriesMap(es)[p] = NoEntry
         /\ \A e \in ToSet(es) : EntriesMap(es)[e.pid] = [jobId |-> e.jobId, offset |-> e.offset]
         /\ \A p \in Pid : (\A e \in ToSet(es) : e.pid # p) => EntriesMap(es)[p] = NoEntry
<1> DEFINE own(p) == {i \in DOMAIN es : es[i].pid = p}
<1>1. DOMAIN es = 1 .. Len(es) /\ \A i \in 1 .. Len(es) : es[i] \in VEntry /\ es[i].pid \in Pid /\ es[i].pid \in Nat
  BY EntryFacts
<1>2. \A p \in Pid : EntriesMap(es)[p] = IF own(p) = {} THEN NoEntry
                      ELSE [jobId |-> es[Min(own(p))].jobId, offset |-> es[Min(own(p))].offset]
  BY DEF EntriesMap
<1>3. ASSUME NEW i \in 1 .. Len(es)
      PROVE  EntriesMap(es)[es[i].pid] = [jobId |-> es[i].jobId, offset |-> es[i].offset]
  <2>1. own(es[i].pid) \subseteq {i}
    <3> SUFFICES ASSUME NEW l \in 1 .. Len(es), es[l].pid = es[i].pid, l # i PROVE FALSE
      BY <1>1
    <3>1. l < i \/ i < l
      OBVIOUS
    <3> QED BY <3>1, <1>1 DEF SortedEntries
  <2>2. own(es[i].pid) = {i}
    BY <1>1, <2>1
  <2>3. Min({i}) = i
    BY DEF Min
  <2> HIDE DEF own
  <2> QED BY <1>1, <1>2, <2>2, <2>3
<1>4. ASSUME NEW p \in Pid, \A i \in 1 .. Len(es) : es[i].pid # p PROVE EntriesMap(es)[p] = NoEntry
  <2>1. own(p) = {}
    BY <1>1, <1>4
  <2> HIDE DEF own
  <2> QED BY <1>2, <2>1
<1> QED BY <1>1, <1>3, <1>4 DEF ToSet

\* addProc keeps the vector sorted; a pid that is new gets its entry.
LEMMA AddProcLemma ==
  ASSUME NEW es \in Seq(VEntry), SortedEntries(es), NEW p \in Pid, NEW id \in JobId, NEW offset \in Offset,
         \A i \in 1 .. Len(es) : es[i].pid # p
  PROVE  /\ AddProc(es, p, id, offset) \in Seq(VEntry) /\ SortedEntries(AddProc(es, p, id, offset))
         /\ ToSet(AddProc(es, p, id, offset)) = ToSet(es) \cup {[pid |-> p, jobId |-> id, offset |-> offset]}
<1> DEFINE k == EntryIndex(es, p)
           x == [pid |-> p, jobId |-> id, offset |-> offset]
           t == InsertAt(es, k, x)
<1>1. k \in 1 .. Len(es) + 1 /\ \A i \in 1 .. Len(es) : es[i].pid < p <=> i < k
  BY EntryIndexLemma
<1>2. AddProc(es, p, id, offset) = t
  <2>1. p # NoPid /\ id # 0 /\ ~(k =< Len(es) /\ es[k].pid = p)
    BY <1>1, PidAssumption DEF JobId
  <2> QED BY <2>1 DEF AddProc
<1>3. x \in VEntry
  BY DEF VEntry, JobId
<1>4. t = InsertAt(es, k, x)
  OBVIOUS
<1> HIDE DEF k, x, t
<1>5. /\ t \in Seq(VEntry) /\ Len(t) = Len(es) + 1
      /\ \A i \in 1 .. Len(es) + 1 : /\ i < k => t[i] = es[i]
                                     /\ i = k => t[i] = x
                                     /\ i > k => t[i] = es[i - 1]
      /\ ToSet(t) = ToSet(es) \cup {x}
  <2>1. es \in Seq(VEntry) /\ k \in 1 .. Len(es) + 1 /\ x \in VEntry /\ t = InsertAt(es, k, x)
    BY <1>1, <1>3, <1>4
  <2>2. Inserted(t, VEntry, es, k, x)
    BY ONLY <2>1, InsertLemma
  <2> QED BY <2>2 DEF Inserted
<1>6. x.pid = p
  BY DEF x
<1>7. Len(es) \in Nat /\ k \in Nat /\ \A q \in 1 .. Len(es) + 1 : q \in Nat
  BY <1>1
<1>8. ASSUME NEW i \in 1 .. Len(es) + 1, NEW l \in 1 .. Len(es) + 1, i < l PROVE t[i].pid < t[l].pid
  <2>1. \A q \in 1 .. Len(es) : es[q].pid \in Nat
    BY EntryFacts
  <2>2. \A q, r \in 1 .. Len(es) : q < r => es[q].pid < es[r].pid
    BY DEF SortedEntries
  <2>3. CASE l < k
    <3>1. i \in 1 .. Len(es) /\ l \in 1 .. Len(es) /\ i < k
      BY <2>3, <1>1, <1>8, <1>7
    <3> QED BY <3>1, <2>2, <2>3, <1>5, <1>8
  <2>4. CASE l = k
    BY <2>4, <1>1, <1>5, <1>8, <1>6
  <2>5. CASE l > k
    <3>1. l - 1 \in 1 .. Len(es) /\ l - 1 >= k /\ t[l] = es[l - 1]
      <4>1. l > k /\ l - 1 \in 1 .. Len(es) /\ l - 1 >= k
        BY <2>5, <1>1, <1>7
      <4> QED BY <4>1, <1>5
    <3>2. p < es[l - 1].pid
      <4>1. ~(es[l - 1].pid < p) /\ es[l - 1].pid # p /\ es[l - 1].pid \in Nat /\ p \in Nat
        BY <3>1, <1>1, <2>1, PidAssumption
      <4> QED BY <4>1
    <3>3. CASE i < k
      <4>1. i \in 1 .. Len(es) /\ i < l - 1 /\ t[i] = es[i]
        BY <3>1, <3>3, <1>1, <1>5
      <4> QED BY <4>1, <3>1, <2>2
    <3>4. CASE i = k
      BY <3>1, <3>2, <3>4, <1>5, <1>6
    <3>5. CASE i > k
      <4>1. i - 1 \in 1 .. Len(es) /\ i - 1 < l - 1 /\ t[i] = es[i - 1]
        <5>1. i > k /\ i - 1 \in 1 .. Len(es) /\ i - 1 < l - 1
          BY <3>5, <1>1, <1>8, <1>7
        <5> QED BY <5>1, <1>5
      <4> QED BY <4>1, <3>1, <2>2
    <3> QED BY <3>3, <3>4, <3>5, <1>7
  <2> QED BY <2>3, <2>4, <2>5, <1>7
<1>9. SortedEntries(t)
  <2>1. DOMAIN t = 1 .. Len(es) + 1
    BY <1>5
  <2> QED BY <2>1, <1>8 DEF SortedEntries
<1> QED BY <1>2, <1>5, <1>9 DEF t, x

\* The entries of the processes of a new job.
EntriesOf(procs, id, m) == {[pid |-> procs[i].pid, jobId |-> id, offset |-> i] : i \in 1 .. m}

\* n processes of different pids, none of which has an entry.
NewProcs(procs, n, es) ==
  /\ DOMAIN procs = 1 .. n /\ Len(procs) = n
  /\ \A i \in 1 .. n : procs[i].pid \in Pid
  /\ \A i, k \in 1 .. n : procs[i].pid = procs[k].pid => i = k
  /\ \A i \in 1 .. n : \A k \in 1 .. Len(es) : es[k].pid # procs[i].pid

Added(t, es, procs, id, n) ==
  /\ t \in Seq(VEntry) /\ SortedEntries(t)
  /\ ToSet(t) = ToSet(es) \cup EntriesOf(procs, id, n)

LEMMA AddLemma ==
  ASSUME NEW es \in Seq(VEntry), SortedEntries(es), NEW id \in JobId, NEW n \in Offset,
         NEW procs, NewProcs(procs, n, es)
  PROVE  Added(Add(es, procs, id), es, procs, id, n)
<1>0. /\ DOMAIN procs = 1 .. n /\ Len(procs) = n
      /\ \A i \in 1 .. n : procs[i].pid \in Pid
      /\ \A i, k \in 1 .. n : procs[i].pid = procs[k].pid => i = k
      /\ \A i \in 1 .. n : \A k \in 1 .. Len(es) : es[k].pid # procs[i].pid
  BY DEF NewProcs
<1> DEFINE Def(f) == [i \in 0 .. n |-> IF i = 0 THEN es ELSE AddProc(f[i - 1], procs[i].pid, id, i)]
           Good == {m \in Nat : m =< n => \E f : DOMAIN f = 0 .. m /\ f[0] = es
                                  /\ \A i \in 1 .. m : f[i] = AddProc(f[i - 1], procs[i].pid, id, i)}
<1>1. n \in Nat
  BY DEF Offset
<1>2. \E f : f = Def(f)
  <2>1. 0 \in Good
    <3> DEFINE f == [i \in 0 .. 0 |-> es]
    <3>1. DOMAIN f = 0 .. 0 /\ f[0] = es /\ \A i \in 1 .. 0 : f[i] = AddProc(f[i - 1], procs[i].pid, id, i)
      <4>1. 1 .. 0 = {}
        OBVIOUS
      <4> QED BY <4>1
    <3> HIDE DEF f
    <3> QED BY <3>1
  <2>2. ASSUME NEW m \in Nat, m \in Good PROVE m + 1 \in Good
    <3> SUFFICES ASSUME m + 1 =< n
                 PROVE  \E f : DOMAIN f = 0 .. m + 1 /\ f[0] = es
                                 /\ \A i \in 1 .. m + 1 : f[i] = AddProc(f[i - 1], procs[i].pid, id, i)
      <4>1. m + 1 \in Nat
        OBVIOUS
      <4> QED BY <4>1, Zenon
    <3>1. PICK f : DOMAIN f = 0 .. m /\ f[0] = es
                   /\ \A i \in 1 .. m : f[i] = AddProc(f[i - 1], procs[i].pid, id, i)
      BY <2>2, <1>1
    <3> DEFINE g == [i \in 0 .. m + 1 |-> IF i = m + 1 THEN AddProc(f[m], procs[m + 1].pid, id, m + 1) ELSE f[i]]
    <3>2. DOMAIN g = 0 .. m + 1 /\ g[0] = es /\ g[m + 1] = AddProc(f[m], procs[m + 1].pid, id, m + 1)
          /\ \A i \in 0 .. m : g[i] = f[i]
      BY <3>1
    <3> HIDE DEF g
    <3>3. ASSUME NEW i \in 1 .. m + 1 PROVE g[i] = AddProc(g[i - 1], procs[i].pid, id, i)
      <4>1. CASE i = m + 1
        <5>1. i - 1 = m /\ m \in 0 .. m
          BY <4>1
        <5> QED BY <5>1, <3>2, <4>1
      <4>2. CASE i # m + 1
        <5>1. i \in 1 .. m /\ i \in 0 .. m /\ i - 1 \in 0 .. m
          BY <4>2
        <5> QED BY <5>1, <3>1, <3>2
      <4> QED BY <4>1, <4>2
    <3> QED BY <3>2, <3>3
  <2> HIDE DEF Good
  <2>3. Nat \subseteq Good
    BY <2>1, <2>2, NatInduction2
  <2>4. PICK f : DOMAIN f = 0 .. n /\ f[0] = es
                 /\ \A i \in 1 .. n : f[i] = AddProc(f[i - 1], procs[i].pid, id, i)
    BY <2>3, <1>1 DEF Good
  <2> DEFINE g == [i \in 0 .. n |-> f[i]]
  <2>5. g = Def(g)
    <3>1. ASSUME NEW i \in 0 .. n, i # 0 PROVE i \in 1 .. n /\ i - 1 \in 0 .. n
      BY <1>1, <3>1
    <3>2. \A i \in 0 .. n : g[i] = f[i]
      OBVIOUS
    <3>3. \A i \in 0 .. n : f[i] = IF i = 0 THEN es ELSE AddProc(g[i - 1], procs[i].pid, id, i)
      <4> HIDE DEF g
      <4> QED BY <2>4, <3>1, <3>2
    <3>4. g = [i \in 0 .. n |-> f[i]]
      OBVIOUS
    <3> HIDE DEF g
    <3> QED BY <3>3, <3>4
  <2> QED BY <2>5
<1>3. ASSUME NEW f, f = Def(f)
      PROVE  f[n] \in Seq(VEntry) /\ SortedEntries(f[n]) /\ ToSet(f[n]) = ToSet(es) \cup EntriesOf(procs, id, n)
  <2> DEFINE T == {m \in Nat : m =< n => /\ f[m] \in Seq(VEntry) /\ SortedEntries(f[m])
                                         /\ ToSet(f[m]) = ToSet(es) \cup EntriesOf(procs, id, m)}
  <2>1. 0 \in T
    <3>1. EntriesOf(procs, id, 0) = {}
      BY DEF EntriesOf
    <3>2. f[0] = es
      BY <1>1, <1>3
    <3> QED BY <3>1, <3>2
  <2>2. ASSUME NEW m \in Nat, m \in T PROVE m + 1 \in T
    <3> SUFFICES ASSUME m + 1 =< n
                 PROVE  /\ f[m + 1] \in Seq(VEntry) /\ SortedEntries(f[m + 1])
                        /\ ToSet(f[m + 1]) = ToSet(es) \cup EntriesOf(procs, id, m + 1)
      OBVIOUS
    <3>1. /\ f[m] \in Seq(VEntry) /\ SortedEntries(f[m])
          /\ ToSet(f[m]) = ToSet(es) \cup EntriesOf(procs, id, m)
      BY <2>2, <1>1
    <3>2. m + 1 \in 1 .. n /\ m + 1 \in Offset /\ m + 1 - 1 = m /\ m + 1 # 0 /\ m + 1 \in 0 .. n
      <4>1. n \in 1 .. MaxProcs /\ MaxProcs \in Nat
        BY JobAssumption DEF Offset
      <4> QED BY <1>1, <4>1 DEF Offset
    <3>3. f[m + 1] = AddProc(f[m], procs[m + 1].pid, id, m + 1)
      <4>1. f[m + 1] = AddProc(f[m + 1 - 1], procs[m + 1].pid, id, m + 1)
        <5> DEFINE k == m + 1
        <5>1. k \in 0 .. n /\ k # 0
          BY <3>2
        <5> HIDE DEF k
        <5>2. f[k] = AddProc(f[k - 1], procs[k].pid, id, k)
          <6>1. \A i \in 0 .. n : f[i] = IF i = 0 THEN es ELSE AddProc(f[i - 1], procs[i].pid, id, i)
            BY <1>3
          <6> QED BY ONLY <5>1, <6>1
        <5> QED BY <5>2 DEF k
      <4> QED BY <3>2, <4>1
    <3>4. ASSUME NEW i \in 1 .. Len(f[m]) PROVE f[m][i].pid # procs[m + 1].pid
      <4>1. f[m][i] \in ToSet(es) \cup EntriesOf(procs, id, m)
        BY <3>1 DEF ToSet
      <4>2. CASE f[m][i] \in ToSet(es)
        <5>1. PICK k \in 1 .. Len(es) : f[m][i] = es[k]
          BY <4>2 DEF ToSet
        <5>2. es[k].pid # procs[m + 1].pid
          BY <3>2, <1>0
        <5> QED BY ONLY <5>1, <5>2
      <4>3. CASE f[m][i] \in EntriesOf(procs, id, m)
        <5>1. PICK l \in 1 .. m : f[m][i].pid = procs[l].pid
          BY <4>3 DEF EntriesOf
        <5>2. l \in 1 .. n /\ l # m + 1
          BY <1>1, <3>2
        <5> QED BY <5>1, <5>2, <3>2, <1>0
      <4> QED BY <4>1, <4>2, <4>3
    <3> DEFINE x == [pid |-> procs[m + 1].pid, jobId |-> id, offset |-> m + 1]
    <3>5. f[m + 1] \in Seq(VEntry) /\ SortedEntries(f[m + 1]) /\ ToSet(f[m + 1]) = ToSet(f[m]) \cup {x}
      BY <3>1, <3>2, <3>3, <3>4, <1>0, AddProcLemma
    <3>6. EntriesOf(procs, id, m + 1) = EntriesOf(procs, id, m) \cup {x}
      <4>1. 1 .. m + 1 = (1 .. m) \cup {m + 1}
        OBVIOUS
      <4> QED BY <4>1 DEF EntriesOf
    <3> QED BY <3>1, <3>5, <3>6
  <2> HIDE DEF T
  <2>3. Nat \subseteq T
    BY <2>1, <2>2, NatInduction2
  <2> QED BY <2>3, <1>1 DEF T
<1>4. Add(es, procs, id) = (CHOOSE f : f = Def(f))[n]
  BY <1>0 DEF Add
<1> HIDE DEF Def
<1>5. (CHOOSE f : f = Def(f)) = Def(CHOOSE f : f = Def(f))
  BY <1>2
<1> QED BY <1>3, <1>4, <1>5 DEF Added

-----------------------------------------------------------------------------
(* The removal *)

\* What the loop has done with the first i elements of s: those that stay are at the front,
\* in their order, those that go behind them; the rest has not moved.
CompactInv(c, S, s, gone, key, i) ==
  /\ c.vector \in Seq(S) /\ Len(c.vector) = Len(s)
  /\ c.size \in 0 .. i
  /\ \A l \in i + 1 .. Len(s) : c.vector[l] = s[l]
  /\ \A l \in 1 .. c.size : \E r \in 1 .. i : c.vector[l] = s[r] /\ s[r] \notin gone
  /\ \A r \in 1 .. i : s[r] \notin gone => \E l \in 1 .. c.size : c.vector[l] = s[r]
  /\ \A l \in c.size + 1 .. i : \E r \in 1 .. i : c.vector[l] = s[r] /\ s[r] \in gone
  /\ \A r \in 1 .. i : s[r] \in gone => \E l \in c.size + 1 .. i : c.vector[l] = s[r]
  /\ \A l, r \in 1 .. c.size : l < r => key[c.vector[l]] < key[c.vector[r]]

LEMMA CompactOneLemma ==
  ASSUME NEW S, NEW s \in Seq(S), NEW gone, NEW key \in [S -> Int],
         \A i, k \in 1 .. Len(s) : i < k => key[s[i]] < key[s[k]],
         NEW i \in Nat, i + 1 =< Len(s), NEW c, CompactInv(c, S, s, gone, key, i)
  PROVE  CompactInv(CompactOne(c, i + 1, gone), S, s, gone, key, i + 1)
<1> DEFINE v == c.vector
           m == c.size
           x == s[i + 1]
<1>1. /\ i + 1 \in 1 .. Len(s) /\ Len(s) \in Nat /\ v \in Seq(S) /\ Len(v) = Len(s)
      /\ m \in Nat /\ m =< i /\ v[i + 1] = x /\ x \in S /\ x = s[i + 1]
  <2>1. v \in Seq(S) /\ Len(v) = Len(s) /\ m \in 0 .. i /\ \A l \in i + 1 .. Len(s) : v[l] = s[l]
    BY DEF CompactInv
  <2> HIDE DEF v, m
  <2>2. Len(s) \in Nat /\ i + 1 \in 1 .. Len(s) /\ i + 1 \in i + 1 .. Len(s)
    OBVIOUS
  <2>3. x \in S
    BY ONLY <2>2, s \in Seq(S), ElementOfSeq
  <2> QED BY <2>1, <2>2, <2>3
<1> HIDE DEF v, m, x
<1>2. CASE x \in gone
  <2>1. CompactOne(c, i + 1, gone) = c
    BY <1>1, <1>2 DEF CompactOne, v
  <2>2. \A l \in 1 .. m : \E r \in 1 .. i + 1 : v[l] = s[r] /\ s[r] \notin gone
    BY DEF CompactInv, v, m
  <2>3. \A r \in 1 .. i + 1 : s[r] \notin gone => \E l \in 1 .. m : v[l] = s[r]
    <3> SUFFICES ASSUME NEW r \in 1 .. i + 1, s[r] \notin gone PROVE \E l \in 1 .. m : v[l] = s[r]
      OBVIOUS
    <3>1. r # i + 1
      BY <1>1, <1>2
    <3>2. r \in 1 .. i
      BY <3>1
    <3> QED BY <3>2 DEF CompactInv, v, m
  <2>4. \A l \in m + 1 .. i + 1 : \E r \in 1 .. i + 1 : v[l] = s[r] /\ s[r] \in gone
    <3> SUFFICES ASSUME NEW l \in m + 1 .. i + 1 PROVE \E r \in 1 .. i + 1 : v[l] = s[r] /\ s[r] \in gone
      OBVIOUS
    <3>1. CASE l = i + 1
      BY <1>1, <1>2, <3>1
    <3>2. CASE l # i + 1
      <4>1. l \in m + 1 .. i
        BY <1>1, <3>2
      <4>2. PICK r \in 1 .. i : v[l] = s[r] /\ s[r] \in gone
        BY <4>1 DEF CompactInv, v, m
      <4> QED BY <4>2
    <3> QED BY <3>1, <3>2
  <2>5. \A r \in 1 .. i + 1 : s[r] \in gone => \E l \in m + 1 .. i + 1 : v[l] = s[r]
    <3> SUFFICES ASSUME NEW r \in 1 .. i + 1, s[r] \in gone PROVE \E l \in m + 1 .. i + 1 : v[l] = s[r]
      OBVIOUS
    <3>1. CASE r = i + 1
      BY <1>1, <3>1
    <3>2. CASE r # i + 1
      <4>1. r \in 1 .. i
        BY <3>2
      <4>2. PICK l \in m + 1 .. i : v[l] = s[r]
        BY <4>1 DEF CompactInv, v, m
      <4>3. l \in m + 1 .. i + 1
        BY <1>1
      <4> QED BY <4>2, <4>3
    <3> QED BY <3>1, <3>2
  <2>6. \A l \in i + 1 + 1 .. Len(s) : v[l] = s[l]
    <3>1. \A l \in i + 1 + 1 .. Len(s) : l \in i + 1 .. Len(s)
      <4>1. i \in Nat /\ Len(s) \in Nat
        BY <1>1
      <4> QED BY ONLY <4>1
    <3> QED BY <3>1 DEF CompactInv, v
  <2>7. m \in 0 .. i + 1 /\ \A l, r \in 1 .. m : l < r => key[v[l]] < key[v[r]]
    BY <1>1 DEF CompactInv, v, m
  <2> QED BY <1>1, <2>1, <2>2, <2>3, <2>4, <2>5, <2>6, <2>7, SMTT(30) DEF CompactInv, v, m
<1>3. CASE x \notin gone
  <2> DEFINE w == Swapped(v, i + 1, m + 1)
  <2>1. CompactOne(c, i + 1, gone) = [vector |-> w, size |-> m + 1]
    BY <1>1, <1>3 DEF CompactOne, v, m
  <2>2. m + 1 \in 1 .. Len(s) /\ m + 1 \in 1 .. i + 1
    BY <1>1
  <2>3. w \in Seq(S) /\ Len(w) = Len(s)
    <3>1. [v EXCEPT ![i + 1] = v[m + 1]] \in Seq(S) /\ Len([v EXCEPT ![i + 1] = v[m + 1]]) = Len(s)
      BY <1>1, <2>2, ExceptSeq
    <3>2. v[i + 1] \in S
      BY <1>1
    <3>3. w = [[v EXCEPT ![i + 1] = v[m + 1]] EXCEPT ![m + 1] = v[i + 1]]
      BY DEF Swapped
    <3> HIDE DEF w
    <3> QED BY <2>2, <3>1, <3>2, <3>3, ExceptSeq
  <2>4. /\ w[m + 1] = x
        /\ i + 1 # m + 1 => w[i + 1] = v[m + 1]
        /\ \A l \in 1 .. Len(s) : l # m + 1 /\ l # i + 1 => w[l] = v[l]
    <3>1. i + 1 \in DOMAIN v /\ m + 1 \in DOMAIN v /\ DOMAIN v = 1 .. Len(s)
      BY <1>1, <2>2
    <3> QED BY <1>1, <3>1 DEF Swapped
  <2> HIDE DEF w
  <2>5. \A l \in 1 .. m : w[l] = v[l]
    <3> SUFFICES ASSUME NEW l \in 1 .. m PROVE w[l] = v[l]
      OBVIOUS
    <3>1. l \in 1 .. Len(s) /\ l # m + 1 /\ l # i + 1
      BY <1>1
    <3> QED BY <3>1, <2>4
  <2>6. \A l \in 1 .. m + 1 : \E r \in 1 .. i + 1 : w[l] = s[r] /\ s[r] \notin gone
    <3> SUFFICES ASSUME NEW l \in 1 .. m + 1 PROVE \E r \in 1 .. i + 1 : w[l] = s[r] /\ s[r] \notin gone
      OBVIOUS
    <3>1. CASE l = m + 1
      BY <1>1, <1>3, <2>4, <3>1
    <3>2. CASE l # m + 1
      <4>1. l \in 1 .. m
        BY <1>1, <3>2
      <4>2. PICK r \in 1 .. i : v[l] = s[r] /\ s[r] \notin gone
        BY <4>1 DEF CompactInv, v, m
      <4> QED BY <4>1, <4>2, <2>5
    <3> QED BY <3>1, <3>2
  <2>7. \A r \in 1 .. i + 1 : s[r] \notin gone => \E l \in 1 .. m + 1 : w[l] = s[r]
    <3> SUFFICES ASSUME NEW r \in 1 .. i + 1, s[r] \notin gone PROVE \E l \in 1 .. m + 1 : w[l] = s[r]
      OBVIOUS
    <3>1. CASE r = i + 1
      BY <1>1, <2>4, <3>1
    <3>2. CASE r # i + 1
      <4>1. r \in 1 .. i
        BY <3>2
      <4>2. PICK l \in 1 .. m : v[l] = s[r]
        BY <4>1 DEF CompactInv, v, m
      <4>3. l \in 1 .. m + 1
        BY <1>1
      <4> QED BY <4>2, <4>3, <2>5
    <3> QED BY <3>1, <3>2
  <2>8. \A l \in m + 1 + 1 .. i + 1 : \E r \in 1 .. i + 1 : w[l] = s[r] /\ s[r] \in gone
    <3> SUFFICES ASSUME NEW l \in m + 1 + 1 .. i + 1
                 PROVE  \E r \in 1 .. i + 1 : w[l] = s[r] /\ s[r] \in gone
      OBVIOUS
    <3>1. \E q \in m + 1 .. i : w[l] = v[q]
      <4>1. CASE l = i + 1
        <5>1. m + 1 \in m + 1 .. i /\ i + 1 # m + 1
          BY <1>1, <4>1, SMTT(30)
        <5> QED BY <5>1, <2>4, <4>1
      <4>2. CASE l # i + 1
        <5>1. l \in m + 1 .. i /\ l \in 1 .. Len(s) /\ l # m + 1
          BY <1>1, <4>2, SMTT(30)
        <5>2. w[l] = v[l]
          BY <5>1, <2>4, <4>2
        <5> QED BY ONLY <5>1, <5>2
      <4> QED BY <4>1, <4>2
    <3>2. PICK q \in m + 1 .. i : w[l] = v[q]
      BY <3>1
    <3>3. \A k \in m + 1 .. i : \E r \in 1 .. i : v[k] = s[r] /\ s[r] \in gone
      BY DEF CompactInv, v, m
    <3>4. PICK r \in 1 .. i : v[q] = s[r] /\ s[r] \in gone
      BY ONLY <3>3, Zenon
    <3> QED BY <3>2, <3>4
  <2>9. \A r \in 1 .. i + 1 : s[r] \in gone => \E l \in m + 1 + 1 .. i + 1 : w[l] = s[r]
    <3> SUFFICES ASSUME NEW r \in 1 .. i + 1, s[r] \in gone PROVE \E l \in m + 1 + 1 .. i + 1 : w[l] = s[r]
      OBVIOUS
    <3>1. r # i + 1
      BY <1>1, <1>3
    <3>2. r \in 1 .. i
      BY <3>1
    <3>3. PICK q \in m + 1 .. i : v[q] = s[r]
      BY <3>2 DEF CompactInv, v, m
    <3>4. CASE q = m + 1
      <4>1. i + 1 # m + 1 /\ i + 1 \in m + 1 + 1 .. i + 1
        BY <1>1, <3>4
      <4>2. w[i + 1] = s[r]
        BY <4>1, <2>4, <3>3, <3>4
      <4> QED BY <4>1, <4>2
    <3>5. CASE q # m + 1
      <4>1. q \in m + 1 + 1 .. i + 1 /\ q \in 1 .. Len(s) /\ q # i + 1
        BY <1>1, <3>5
      <4>2. w[q] = s[r]
        BY <4>1, <2>4, <3>3, <3>5
      <4> QED BY <4>1, <4>2
    <3> QED BY <3>4, <3>5
  <2>10. \A l \in i + 1 + 1 .. Len(s) : w[l] = s[l]
    <3> SUFFICES ASSUME NEW l \in i + 1 + 1 .. Len(s) PROVE w[l] = s[l]
      OBVIOUS
    <3>1. l \in i + 1 .. Len(s) /\ l \in 1 .. Len(s) /\ l # m + 1 /\ l # i + 1
      <4>1. i \in Nat /\ Len(s) \in Nat /\ m \in Nat /\ m =< i /\ l \in i + 1 + 1 .. Len(s)
        BY <1>1
      <4> QED BY ONLY <4>1
    <3>2. v[l] = s[l]
      BY <3>1 DEF CompactInv, v, m
    <3> QED BY <3>1, <3>2, <2>4
  <2>11. \A l, r \in 1 .. m + 1 : l < r => key[w[l]] < key[w[r]]
    <3> SUFFICES ASSUME NEW l \in 1 .. m + 1, NEW r \in 1 .. m + 1, l < r PROVE key[w[l]] < key[w[r]]
      OBVIOUS
    <3>1. l \in 1 .. m
      BY <1>1
    <3>2. CASE r = m + 1
      <4>1. PICK q \in 1 .. i : v[l] = s[q]
        BY <3>1 DEF CompactInv, v, m
      <4>2. q \in 1 .. Len(s) /\ q < i + 1
        <5>1. i \in Nat /\ Len(s) \in Nat /\ i + 1 =< Len(s) /\ q \in 1 .. i
          BY <1>1
        <5> QED BY ONLY <5>1
      <4>3. key[s[q]] < key[x]
        BY <4>2, <1>1
      <4> QED BY <4>1, <4>3, <3>1, <3>2, <2>4, <2>5
    <3>3. CASE r # m + 1
      <4>1. r \in 1 .. m
        BY <1>1, <3>3
      <4>2. key[v[l]] < key[v[r]]
        BY <4>1, <3>1 DEF CompactInv, v, m
      <4> QED BY <4>1, <4>2, <3>1, <2>5
    <3> QED BY <3>2, <3>3
  <2> DEFINE d == [vector |-> w, size |-> m + 1]
  <2>12. d.vector = w /\ d.size = m + 1
    OBVIOUS
  <2> HIDE DEF d
  <2>13. CompactInv(d, S, s, gone, key, i + 1)
    BY <2>2, <2>3, <2>6, <2>7, <2>8, <2>9, <2>10, <2>11, <2>12 DEF CompactInv
  <2> QED BY <2>1, <2>13 DEF d
<1> QED BY <1>2, <1>3

\* The vector without the elements that go, in its order.
Compacted(c, S, s, gone, key) ==
  /\ Kept(c) \in Seq(S)
  /\ ToSet(Kept(c)) = ToSet(s) \ gone
  /\ Dropped(c) = ToSet(s) \cap gone
  /\ \A l, r \in 1 .. Len(Kept(c)) : l < r => key[Kept(c)[l]] < key[Kept(c)[r]]

LEMMA CompactLemma ==
  ASSUME NEW S, NEW s \in Seq(S), NEW gone, NEW key \in [S -> Int],
         \A i, k \in 1 .. Len(s) : i < k => key[s[i]] < key[s[k]],
         NEW c, c = Compact(s, gone)
  PROVE  Compacted(c, S, s, gone, key)
<1> DEFINE n == Len(s)
           start == [vector |-> s, size |-> 0]
           Def(f) == [i \in 0 .. n |-> IF i = 0 THEN start ELSE CompactOne(f[i - 1], i, gone)]
           Good == {m \in Nat : \E f : DOMAIN f = 0 .. m /\ f[0] = start
                                  /\ \A i \in 1 .. m : f[i] = CompactOne(f[i - 1], i, gone)}
<1>1. n \in Nat
  OBVIOUS
<1>2. \E f : f = Def(f)
  <2> HIDE DEF n, start
  <2>1. 0 \in Good
    <3> DEFINE f == [i \in 0 .. 0 |-> start]
    <3>1. DOMAIN f = 0 .. 0 /\ f[0] = start /\ \A i \in 1 .. 0 : f[i] = CompactOne(f[i - 1], i, gone)
      <4>1. 1 .. 0 = {}
        OBVIOUS
      <4> QED BY <4>1
    <3> HIDE DEF f
    <3> QED BY <3>1
  <2>2. ASSUME NEW m \in Nat, m \in Good PROVE m + 1 \in Good
    <3>1. PICK f : DOMAIN f = 0 .. m /\ f[0] = start
                   /\ \A i \in 1 .. m : f[i] = CompactOne(f[i - 1], i, gone)
      BY <2>2
    <3> DEFINE g == [i \in 0 .. m + 1 |-> IF i = m + 1 THEN CompactOne(f[m], m + 1, gone) ELSE f[i]]
    <3>2. DOMAIN g = 0 .. m + 1 /\ g[0] = start /\ g[m + 1] = CompactOne(f[m], m + 1, gone)
          /\ \A i \in 0 .. m : g[i] = f[i]
      BY <3>1
    <3> HIDE DEF g
    <3>3. ASSUME NEW i \in 1 .. m + 1 PROVE g[i] = CompactOne(g[i - 1], i, gone)
      <4>1. CASE i = m + 1
        <5>1. i - 1 = m /\ m \in 0 .. m
          BY <4>1
        <5> QED BY <5>1, <3>2, <4>1
      <4>2. CASE i # m + 1
        <5>1. i \in 1 .. m /\ i \in 0 .. m /\ i - 1 \in 0 .. m
          BY <4>2
        <5> QED BY <5>1, <3>1, <3>2
      <4> QED BY <4>1, <4>2
    <3>4. m + 1 \in Nat
      OBVIOUS
    <3> QED BY <3>2, <3>3, <3>4, Zenon
  <2> HIDE DEF Good
  <2>3. Nat \subseteq Good
    BY <2>1, <2>2, NatInduction2
  <2>4. PICK f : DOMAIN f = 0 .. n /\ f[0] = start
                 /\ \A i \in 1 .. n : f[i] = CompactOne(f[i - 1], i, gone)
    BY <2>3, <1>1 DEF Good
  <2> DEFINE g == [i \in 0 .. n |-> f[i]]
  <2>5. g = Def(g)
    <3>1. ASSUME NEW i \in 0 .. n, i # 0 PROVE i \in 1 .. n /\ i - 1 \in 0 .. n
      BY <1>1, <3>1
    <3>2. \A i \in 0 .. n : g[i] = f[i]
      OBVIOUS
    <3>3. \A i \in 0 .. n : f[i] = IF i = 0 THEN start ELSE CompactOne(g[i - 1], i, gone)
      <4> HIDE DEF g
      <4> QED BY <2>4, <3>1, <3>2
    <3>4. g = [i \in 0 .. n |-> f[i]]
      OBVIOUS
    <3> HIDE DEF g
    <3> QED BY <3>3, <3>4
  <2> QED BY <2>5
<1>3. ASSUME NEW f, f = Def(f) PROVE CompactInv(f[n], S, s, gone, key, n)
  <2> DEFINE T == {m \in Nat : m =< n => CompactInv(f[m], S, s, gone, key, m)}
  <2>1. 0 \in T
    <3>1. f[0] = start
      BY <1>1, <1>3
    <3>2. CompactInv(start, S, s, gone, key, 0)
      <4>1. 1 .. 0 = {} /\ 0 + 1 .. 0 = {} /\ 0 \in 0 .. 0
        OBVIOUS
      <4>2. start.vector = s /\ start.size = 0
        OBVIOUS
      <4> HIDE DEF start
      <4> QED BY <4>1, <4>2 DEF CompactInv
    <3> QED BY <3>1, <3>2
  <2>2. ASSUME NEW m \in Nat, m \in T PROVE m + 1 \in T
    <3> SUFFICES ASSUME m + 1 =< n PROVE CompactInv(f[m + 1], S, s, gone, key, m + 1)
      OBVIOUS
    <3>1. CompactInv(f[m], S, s, gone, key, m)
      BY <2>2, <1>1
    <3>2. m + 1 \in 0 .. n /\ m + 1 - 1 = m /\ m + 1 # 0
      BY <1>1
    <3>3. f[m + 1] = CompactOne(f[m], m + 1, gone)
      BY <1>3, <3>2
    <3> QED BY <3>1, <3>3, CompactOneLemma
  <2> HIDE DEF T
  <2>3. Nat \subseteq T
    BY <2>1, <2>2, NatInduction2
  <2> QED BY <2>3, <1>1 DEF T
<1>4. Compact(s, gone) = (CHOOSE f : f = Def(f))[n]
  BY DEF Compact
<1> HIDE DEF Def
<1>5. (CHOOSE f : f = Def(f)) = Def(CHOOSE f : f = Def(f))
  BY <1>2
<1>6. CompactInv(c, S, s, gone, key, n)
  BY <1>3, <1>4, <1>5
<1> DEFINE v == c.vector
           m == c.size
           t == Kept(c)
<1>7. v \in Seq(S) /\ Len(v) = n /\ m \in 0 .. n /\ DOMAIN s = 1 .. n
  BY <1>6 DEF CompactInv
<1>8. /\ \A l \in 1 .. m : \E r \in 1 .. n : v[l] = s[r] /\ s[r] \notin gone
      /\ \A r \in 1 .. n : s[r] \notin gone => \E l \in 1 .. m : v[l] = s[r]
      /\ \A l \in m + 1 .. n : \E r \in 1 .. n : v[l] = s[r] /\ s[r] \in gone
      /\ \A r \in 1 .. n : s[r] \in gone => \E l \in m + 1 .. n : v[l] = s[r]
      /\ \A l, r \in 1 .. m : l < r => key[v[l]] < key[v[r]]
  BY <1>6 DEF CompactInv
<1>9. t \in Seq(S) /\ Len(t) = m /\ \A l \in 1 .. m : t[l] = v[l]
  <2>1. t = SubSeq(v, 1, m)
    BY DEF Kept
  <2>2. 1 \in Int /\ m \in Int /\ \A l \in 1 .. m : v[l] \in S
    BY <1>7
  <2> HIDE DEF t, v, m
  <2>3. /\ t \in Seq(S) /\ Len(t) = (IF 1 =< m THEN m - 1 + 1 ELSE 0)
        /\ \A l \in 1 .. m - 1 + 1 : t[l] = v[1 + l - 1]
    BY <2>1, <2>2, SubSeqProperties
  <2> QED BY <2>3, <1>7
<1> HIDE DEF t, v, m, n
<1>10. ToSet(t) = ToSet(s) \ gone
  <2>1. ToSet(t) = {v[l] : l \in 1 .. m}
    <3>1. DOMAIN t = 1 .. m
      BY <1>9
    <3>2. ToSet(t) = {t[l] : l \in 1 .. m}
      BY <3>1 DEF ToSet
    <3> QED BY <3>2, <1>9
  <2>2. ToSet(s) = {s[l] : l \in 1 .. n}
    BY <1>7 DEF ToSet
  <2>3. {v[l] : l \in 1 .. m} \subseteq {s[r] : r \in 1 .. n} \ gone
    <3>1. \A l \in 1 .. m : \E r \in 1 .. n : v[l] = s[r] /\ s[r] \notin gone
      BY ONLY <1>8, Zenon
    <3> QED BY ONLY <3>1
  <2>4. {s[r] : r \in 1 .. n} \ gone \subseteq {v[l] : l \in 1 .. m}
    <3>1. \A r \in 1 .. n : s[r] \notin gone => \E l \in 1 .. m : v[l] = s[r]
      BY ONLY <1>8, Zenon
    <3> QED BY ONLY <3>1
  <2> QED BY <2>1, <2>2, <2>3, <2>4
<1>11. Dropped(c) = ToSet(s) \cap gone
  <2>1. Dropped(c) = {v[l] : l \in m + 1 .. n}
    BY <1>7 DEF Dropped, v, m
  <2>2. ToSet(s) = {s[l] : l \in 1 .. n}
    BY <1>7 DEF ToSet
  <2>3. {v[l] : l \in m + 1 .. n} \subseteq {s[r] : r \in 1 .. n} \cap gone
    <3>1. \A l \in m + 1 .. n : \E r \in 1 .. n : v[l] = s[r] /\ s[r] \in gone
      BY ONLY <1>8, Zenon
    <3> QED BY ONLY <3>1
  <2>4. {s[r] : r \in 1 .. n} \cap gone \subseteq {v[l] : l \in m + 1 .. n}
    <3>1. \A r \in 1 .. n : s[r] \in gone => \E l \in m + 1 .. n : v[l] = s[r]
      BY ONLY <1>8, Zenon
    <3> QED BY ONLY <3>1
  <2> QED BY <2>1, <2>2, <2>3, <2>4
<1>12. \A l, r \in 1 .. Len(t) : l < r => key[t[l]] < key[t[r]]
  <2>1. \A l, r \in 1 .. m : l < r => key[v[l]] < key[v[r]]
    BY ONLY <1>8, Zenon
  <2>2. \A l, r \in 1 .. m : l < r => key[t[l]] < key[t[r]]
    BY ONLY <2>1, <1>9, Zenon
  <2> QED BY <2>2, <1>9, Zenon
<1> QED BY <1>9, <1>10, <1>11, <1>12, Zenon DEF Compacted, t

-----------------------------------------------------------------------------
(* The vector of jobs *)

JobVector(o, js) ==
  /\ o \in [Job -> JobObject] /\ js \in Seq(Job)
  /\ \A i \in 1 .. Len(js) : o[js[i]].jobID \in JobId
  /\ \A i, k \in 1 .. Len(js) : i < k => o[js[i]].jobID < o[js[k]].jobID

LEMMA JobVectorFacts ==
  ASSUME NEW o, NEW js, JobVector(o, js)
  PROVE  /\ Len(js) \in Nat /\ DOMAIN js = 1 .. Len(js)
         /\ \A i \in 1 .. Len(js) : js[i] \in Job /\ o[js[i]].jobID \in Nat /\ o[js[i]].jobID >= 1
                                    /\ o[js[i]].jobID =< JobLimit
         /\ JobLimit \in Nat
         /\ ToSet(js) = {js[i] : i \in 1 .. Len(js)}
<1>1. Len(js) \in Nat /\ DOMAIN js = 1 .. Len(js) /\ \A i \in 1 .. Len(js) : js[i] \in Job
  BY ElementOfSeq DEF JobVector
<1>2. JobLimit \in Nat /\ \A id \in JobId : id \in Nat /\ id >= 1 /\ id =< JobLimit
  BY JobAssumption DEF JobId
<1> QED BY <1>1, <1>2 DEF JobVector, ToSet

\* What the sorted vector says of an id is the job that has it.
LEMMA JobsMapLemma ==
  ASSUME NEW o, NEW js, JobVector(o, js)
  PROVE  /\ JobsMap(o, js) \in [JobId -> Job \cup {NoJob}]
         /\ \A j \in ToSet(js) : j \in Job /\ o[j].jobID \in JobId /\ JobsMap(o, js)[o[j].jobID] = j
         /\ \A id \in JobId : JobsMap(o, js)[id] # NoJob =>
                                JobsMap(o, js)[id] \in ToSet(js) /\ o[JobsMap(o, js)[id]].jobID = id
         /\ \A id \in JobId : (\A j \in ToSet(js) : o[j].jobID # id) => JobsMap(o, js)[id] = NoJob
<1> DEFINE M == JobsMap(o, js)
           Has(id) == \E j \in ToSet(js) : o[j].jobID = id
           The(id) == CHOOSE j \in ToSet(js) : o[j].jobID = id
<1>1. DOMAIN M = JobId /\ \A id \in JobId : M[id] = IF Has(id) THEN The(id) ELSE NoJob
  BY DEF JobsMap
<1>2. \A id : Has(id) => The(id) \in ToSet(js) /\ o[The(id)].jobID = id
  OBVIOUS
<1>3. \A j \in ToSet(js) : j \in Job /\ o[j].jobID \in JobId
  BY JobVectorFacts DEF JobVector
<1>4. ASSUME NEW j \in ToSet(js), NEW l \in ToSet(js), o[j].jobID = o[l].jobID PROVE j = l
  <2>1. PICK i \in 1 .. Len(js) : j = js[i]
    BY JobVectorFacts
  <2>2. PICK k \in 1 .. Len(js) : l = js[k]
    BY JobVectorFacts
  <2>3. Len(js) \in Nat /\ o[js[i]].jobID \in Nat
    BY JobVectorFacts
  <2>4. i < k => o[js[i]].jobID < o[js[k]].jobID
    BY DEF JobVector
  <2>5. k < i => o[js[k]].jobID < o[js[i]].jobID
    BY DEF JobVector
  <2>6. ~(i < k) /\ ~(k < i)
    BY <1>4, <2>1, <2>2, <2>3, <2>4, <2>5
  <2>7. i = k
    BY <2>3, <2>6
  <2> QED BY <2>1, <2>2, <2>7
<1> HIDE DEF The, M
<1>5. NoJob \notin ToSet(js)
  BY <1>3, JobAssumption
<1>6. ASSUME NEW j \in ToSet(js) PROVE M[o[j].jobID] = j
  <2>1. Has(o[j].jobID)
    OBVIOUS
  <2> HIDE DEF Has
  <2>2. The(o[j].jobID) \in ToSet(js) /\ o[The(o[j].jobID)].jobID = o[j].jobID
    BY <1>2, <2>1
  <2>3. The(o[j].jobID) = j
    BY <1>4, <2>2
  <2> QED BY <1>1, <1>3, <2>1, <2>3
<1>7. ASSUME NEW id \in JobId PROVE M[id] \in Job \cup {NoJob}
  BY <1>1, <1>2, <1>3
<1>8. M \in [JobId -> Job \cup {NoJob}]
  <2>1. M = [id \in JobId |-> M[id]]
    BY DEF M, JobsMap
  <2> QED BY <1>7, <2>1
<1>9. ASSUME NEW id \in JobId, M[id] # NoJob PROVE M[id] \in ToSet(js) /\ o[M[id]].jobID = id
  BY <1>1, <1>2, <1>9
<1>10. ASSUME NEW id \in JobId, \A j \in ToSet(js) : o[j].jobID # id PROVE M[id] = NoJob
  BY <1>1, <1>10
<1> QED BY <1>3, <1>6, <1>8, <1>9, <1>10 DEF M

\* findIter finds the job of an id.
LEMMA FindIterLemma ==
  ASSUME JobVector(object, jobs), NEW id \in JobId
  PROVE  FindIter(id) = JobsMap(object, jobs)[id]
<1> DEFINE S == {i \in DOMAIN jobs : object[jobs[i]].jobID < id}
           n == Len(jobs)
<1>1. /\ n \in Nat /\ DOMAIN jobs = 1 .. n
      /\ \A i \in 1 .. n : jobs[i] \in Job /\ object[jobs[i]].jobID \in Nat
      /\ \A i, k \in 1 .. n : i < k => object[jobs[i]].jobID < object[jobs[k]].jobID
  BY JobVectorFacts DEF JobVector
<1>2. id \in Nat /\ id > 0
  BY JobAssumption DEF JobId
<1>3. S \in SUBSET (1 .. n)
  BY <1>1
<1>4. ASSUME NEW i \in S, NEW l \in 1 .. i PROVE l \in S
  <2>1. i \in 1 .. n /\ l \in 1 .. n /\ object[jobs[i]].jobID < id /\ (l = i \/ l < i)
    BY <1>1
  <2>2. object[jobs[l]].jobID < id
    BY <2>1, <1>1, <1>2
  <2> QED BY <2>1, <2>2, <1>1
<1> HIDE DEF n, S
<1>5. PICK q \in 0 .. n : S = 1 .. q
  BY <1>1, <1>3, <1>4, FrontLemma
<1>6. LowerBound(n, S) = q
  BY <1>1, <1>5, LowerBoundLemma
<1>7. FindIter(id) = IF q + 1 =< n /\ object[jobs[q + 1]].jobID = id THEN jobs[q + 1] ELSE NoJob
  <2>1. FindIter(id) = LET k == LowerBound(n, S) + 1
                       IN IF id > 0 /\ k =< n /\ object[jobs[k]].jobID = id THEN jobs[k] ELSE NoJob
    BY DEF FindIter, n, S
  <2> QED BY <2>1, <1>2, <1>6
<1>8. CASE q + 1 =< n /\ object[jobs[q + 1]].jobID = id
  <2>1. q + 1 \in 1 .. n
    BY <1>1, <1>8
  <2>2. jobs[q + 1] \in ToSet(jobs)
    BY <2>1, <1>1 DEF ToSet
  <2> QED BY <1>7, <1>8, <2>2, JobsMapLemma
<1>9. CASE ~(q + 1 =< n /\ object[jobs[q + 1]].jobID = id)
  <2>1. ASSUME NEW i \in 1 .. n PROVE object[jobs[i]].jobID # id
    <3>1. CASE i =< q
      <4>1. i \in S
        BY <3>1, <1>5
      <4>2. object[jobs[i]].jobID < id
        BY <4>1 DEF S
      <4> QED BY <4>2, <1>1, <1>2
    <3>2. CASE i = q + 1
      BY <3>2, <1>9
    <3>3. CASE i > q + 1
      <4>1. q + 1 \in 1 .. n /\ q + 1 \notin S
        BY <3>3, <1>1, <1>5
      <4>2. ~(object[jobs[q + 1]].jobID < id)
        BY <4>1, <1>1 DEF S
      <4>3. object[jobs[q + 1]].jobID < object[jobs[i]].jobID
        BY <4>1, <3>3, <1>1
      <4> QED BY <4>1, <4>2, <4>3, <1>1, <1>2
    <3> QED BY <3>1, <3>2, <3>3, <1>1
  <2>2. \A j \in ToSet(jobs) : object[j].jobID # id
    BY <2>1, <1>1 DEF ToSet
  <2>3. JobsMap(object, jobs)[id] = NoJob
    BY <2>2, JobsMapLemma
  <2> QED BY <1>7, <1>9, <2>3
<1> QED BY <1>8, <1>9

\* Ids grow at least as fast as places.
LEMMA GapLemma ==
  ASSUME NEW o, NEW js, JobVector(o, js)
  PROVE  \A a, b \in 1 .. Len(js) : a =< b => o[js[b]].jobID - o[js[a]].jobID >= b - a
<1> DEFINE n == Len(js)
           id(i) == o[js[i]].jobID
<1>1. n \in Nat /\ \A i \in 1 .. n : id(i) \in Nat
  BY JobVectorFacts
<1>2. \A i, k \in 1 .. n : i < k => id(i) < id(k)
  BY DEF JobVector
<1> HIDE DEF n, id
<1> DEFINE T == {d \in Nat : \A a \in 1 .. n : a + d =< n => id(a + d) - id(a) >= d}
<1>3. 0 \in T
  BY <1>1
<1>4. ASSUME NEW d \in Nat, d \in T PROVE d + 1 \in T
  <2> SUFFICES ASSUME NEW a \in 1 .. n, a + (d + 1) =< n PROVE id(a + (d + 1)) - id(a) >= d + 1
    OBVIOUS
  <2> DEFINE b == a + d
             e == a + (d + 1)
  <2>1. b \in 1 .. n /\ e \in 1 .. n /\ b < e
    BY <1>1
  <2>2. id(b) - id(a) >= d
    BY <2>1, <1>1, <1>4
  <2> HIDE DEF b, e, T
  <2>3. id(b) < id(e) /\ id(b) \in Nat /\ id(e) \in Nat /\ id(a) \in Nat
    BY <2>1, <1>1, <1>2
  <2>4. id(e) - id(a) >= d + 1
    BY <2>2, <2>3
  <2> QED BY <2>4 DEF e
<1> HIDE DEF T
<1>5. Nat \subseteq T
  BY <1>3, <1>4, NatInduction2
<1>6. ASSUME NEW a \in 1 .. n, NEW b \in 1 .. n, a =< b PROVE id(b) - id(a) >= b - a
  <2>1. b - a \in Nat /\ a + (b - a) = b
    BY <1>1, <1>6
  <2>2. b - a \in T /\ b =< n
    BY <2>1, <1>1, <1>5
  <2>3. \A c \in 1 .. n : c + (b - a) =< n => id(c + (b - a)) - id(c) >= b - a
    BY <2>2 DEF T
  <2>4. id(a + (b - a)) - id(a) >= b - a
    BY <2>1, <2>2, <2>3
  <2> QED BY <2>1, <2>4
<1> QED BY <1>6 DEF n, id

\* findEmptyEntry: before its index the ids are the first ones, behind it they are greater
\* than the one that is free.
LEMMA FindEmptyIndexLemma ==
  ASSUME JobVector(object, jobs), Len(jobs) < JobLimit
  PROVE  /\ FindEmptyIndex \in 0 .. Len(jobs)
         /\ FindEmptyIndex + 1 \in JobId
         /\ \A i \in 1 .. Len(jobs) : i =< FindEmptyIndex => object[jobs[i]].jobID = i
         /\ \A i \in 1 .. Len(jobs) : i > FindEmptyIndex => object[jobs[i]].jobID > FindEmptyIndex + 1
<1> DEFINE n == Len(jobs)
           id(i) == object[jobs[i]].jobID
           S == {i \in DOMAIN jobs : object[jobs[i]].jobID = i}
<1>1. /\ n \in Nat /\ DOMAIN jobs = 1 .. n /\ JobLimit \in Nat /\ n < JobLimit
      /\ \A i \in 1 .. n : id(i) \in Nat /\ id(i) >= 1
  BY JobVectorFacts
<1>2. \A a, b \in 1 .. n : a =< b => id(b) - id(a) >= b - a
  BY GapLemma
<1>3. S \in SUBSET (1 .. n) /\ \A i \in 1 .. n : i \in S <=> id(i) = i
  BY <1>1
<1>4. FindEmptyIndex = LowerBound(n, S)
  BY DEF FindEmptyIndex
<1> HIDE DEF n, id, S
<1>5. ASSUME NEW i \in 1 .. n PROVE id(i) >= i
  <2>1. 1 \in 1 .. n /\ 1 =< i
    BY <1>1
  <2>2. id(i) - id(1) >= i - 1 /\ id(1) >= 1 /\ id(1) \in Nat /\ id(i) \in Nat
    BY <2>1, <1>1, <1>2
  <2> QED BY <2>2
<1>6. ASSUME NEW i \in S, NEW l \in 1 .. i PROVE l \in S
  <2>1. i \in 1 .. n /\ l \in 1 .. n /\ id(i) = i /\ l =< i
    BY <1>1, <1>3
  <2>2. id(i) - id(l) >= i - l /\ id(l) >= l /\ id(l) \in Nat
    BY <2>1, <1>1, <1>2, <1>5
  <2>3. id(l) = l
    BY <2>1, <2>2
  <2> QED BY <2>1, <2>3, <1>3
<1>7. PICK k \in 0 .. n : S = 1 .. k
  BY <1>1, <1>3, <1>6, FrontLemma
<1>8. FindEmptyIndex = k
  BY <1>1, <1>4, <1>7, LowerBoundLemma
<1>9. k + 1 \in JobId
  BY <1>1 DEF JobId
<1>10. ASSUME NEW i \in 1 .. n, i =< k PROVE id(i) = i
  <2>1. i \in S
    BY <1>7, <1>10
  <2> QED BY <2>1, <1>3
<1>11. ASSUME NEW i \in 1 .. n, i > k PROVE id(i) > k + 1
  <2>1. k + 1 \in 1 .. n /\ k + 1 \notin S /\ k + 1 =< i
    BY <1>1, <1>7, <1>11
  <2>2. id(k + 1) # k + 1 /\ id(k + 1) >= k + 1 /\ id(k + 1) \in Nat
    BY <2>1, <1>1, <1>3, <1>5
  <2>3. id(i) - id(k + 1) >= i - (k + 1) /\ id(i) \in Nat
    BY <2>1, <1>1, <1>2
  <2> QED BY <2>1, <2>2, <2>3
<1> QED BY <1>7, <1>8, <1>9, <1>10, <1>11 DEF n, id

\* A map that says of each job what its id says, and of no id more, is the one of the vector.
LEMMA JobsMapIs ==
  ASSUME NEW o, NEW js, JobVector(o, js), NEW M \in [JobId -> Job \cup {NoJob}],
         \A j \in ToSet(js) : M[o[j].jobID] = j,
         \A id \in JobId : M[id] # NoJob => M[id] \in ToSet(js) /\ o[M[id]].jobID = id
  PROVE  JobsMap(o, js) = M
<1> DEFINE N == JobsMap(o, js)
<1>1. /\ N \in [JobId -> Job \cup {NoJob}]
      /\ \A j \in ToSet(js) : j \in Job /\ o[j].jobID \in JobId /\ N[o[j].jobID] = j
      /\ \A id \in JobId : N[id] # NoJob => N[id] \in ToSet(js) /\ o[N[id]].jobID = id
  BY JobsMapLemma
<1> HIDE DEF N
<1>2. ASSUME NEW id \in JobId PROVE N[id] = M[id]
  <2>1. CASE N[id] # NoJob
    <3>1. N[id] \in ToSet(js) /\ o[N[id]].jobID = id
      BY <1>1, <2>1
    <3> QED BY <3>1
  <2>2. CASE N[id] = NoJob /\ M[id] # NoJob
    <3>1. M[id] \in ToSet(js) /\ o[M[id]].jobID = id
      BY <2>2
    <3>2. N[id] = M[id]
      BY <1>1, <3>1
    <3> QED BY <3>2
  <2> QED BY <2>1, <2>2
<1>3. N = M
  BY <1>1, <1>2
<1> QED BY <1>3 DEF N

LEMMA EntriesMapIs ==
  ASSUME NEW es \in Seq(VEntry), SortedEntries(es), NEW M, M = [p \in Pid |-> M[p]],
         \A e \in ToSet(es) : M[e.pid] = [jobId |-> e.jobId, offset |-> e.offset],
         \A p \in Pid : (\A e \in ToSet(es) : e.pid # p) => M[p] = NoEntry
  PROVE  EntriesMap(es) = M
<1> DEFINE N == EntriesMap(es)
<1>1. /\ \A e \in ToSet(es) : N[e.pid] = [jobId |-> e.jobId, offset |-> e.offset]
      /\ \A p \in Pid : (\A e \in ToSet(es) : e.pid # p) => N[p] = NoEntry
  BY EntriesMapLemma
<1>2. N = [p \in Pid |-> N[p]]
  BY DEF EntriesMap
<1> HIDE DEF N
<1>3. ASSUME NEW p \in Pid PROVE N[p] = M[p]
  <2>1. CASE \A e \in ToSet(es) : e.pid # p
    <3>1. N[p] = NoEntry /\ M[p] = NoEntry
      BY <1>1, <2>1
    <3> QED BY <3>1
  <2>2. CASE \E e \in ToSet(es) : e.pid = p
    <3>1. PICK e \in ToSet(es) : e.pid = p
      BY <2>2
    <3>2. N[e.pid] = [jobId |-> e.jobId, offset |-> e.offset]
      BY <1>1, Zenon
    <3>3. M[e.pid] = [jobId |-> e.jobId, offset |-> e.offset]
      BY Zenon
    <3> QED BY <3>1, <3>2, <3>3, Zenon
  <2> QED BY <2>1, <2>2
<1>4. N = M
  BY <1>2, <1>3
<1> QED BY <1>4 DEF N

\* The jobs of the map are those of the vector.
LEMMA AttachedLemma ==
  ASSUME NEW o, NEW js, JobVector(o, js), NEW j \in Job
  PROVE  (\E i \in JobId : JobsMap(o, js)[i] = j) <=> j \in ToSet(js)
<1>1. j # NoJob
  BY JobAssumption
<1> QED BY <1>1, JobsMapLemma

\* Nothing the table refers to is deleted.
LEMMA DeleteLemma ==
  ASSUME NEW o, NEW js, JobVector(o, js), NEW last \in Job \cup {NoJob}, NEW refs
  PROVE  /\ JobVector(Delete(o, js, last, refs), js)
         /\ JobsMap(Delete(o, js, last, refs), js) = JobsMap(o, js)
         /\ Delete(o, js, last, refs) =
              [j \in Job |-> IF \/ j \in refs
                                \/ last = j
                                \/ \E i \in JobId : JobsMap(o, js)[i] = j
                             THEN o[j] ELSE Unused]
<1> DEFINE d == Delete(o, js, last, refs)
<1>1. ToSet(js) = {js[i] : i \in 1 .. Len(js)} /\ ToSet(js) \subseteq Job
  BY JobVectorFacts
<1>2. \A j \in Job : d[j] = IF j \in refs \cup ToSet(js) \cup {last} THEN o[j] ELSE Unused
  BY DEF Delete
<1>3. d \in [Job -> JobObject]
  <2>1. Unused \in JobObject
    BY JobAssumption DEF Unused, JobObject
  <2>2. \A j \in Job : o[j] \in JobObject
    BY DEF JobVector
  <2>3. d = [j \in Job |-> IF j \in refs \cup ToSet(js) \cup {last} THEN o[j] ELSE Unused]
    BY DEF Delete
  <2> HIDE DEF d
  <2> QED BY <2>1, <2>2, <2>3
<1>4. \A j \in ToSet(js) : d[j] = o[j]
  BY <1>1, <1>2
<1>5. \A i \in 1 .. Len(js) : d[js[i]] = o[js[i]]
  BY <1>1, <1>4
<1> HIDE DEF d
<1>6. JobVector(d, js)
  BY <1>3, <1>5 DEF JobVector
<1>7. JobsMap(d, js) = JobsMap(o, js)
  <2> DEFINE M == JobsMap(o, js)
  <2>1. /\ M \in [JobId -> Job \cup {NoJob}]
        /\ \A j \in ToSet(js) : M[o[j].jobID] = j
        /\ \A id \in JobId : M[id] # NoJob => M[id] \in ToSet(js) /\ o[M[id]].jobID = id
    BY JobsMapLemma
  <2> HIDE DEF M
  <2>2. /\ \A j \in ToSet(js) : M[d[j].jobID] = j
        /\ \A id \in JobId : M[id] # NoJob => M[id] \in ToSet(js) /\ d[M[id]].jobID = id
    BY <2>1, <1>4
  <2>3. JobsMap(d, js) = M
    BY <1>6, <2>1, <2>2, JobsMapIs
  <2> QED BY <2>3 DEF M
<1>8. d = [j \in Job |-> IF \/ j \in refs
                             \/ last = j
                             \/ \E i \in JobId : JobsMap(o, js)[i] = j
                          THEN o[j] ELSE Unused]
  <2>1. \A j \in Job : (\E i \in JobId : JobsMap(o, js)[i] = j) <=> j \in ToSet(js)
    BY AttachedLemma
  <2>2. d = [j \in Job |-> IF j \in refs \cup ToSet(js) \cup {last} THEN o[j] ELSE Unused]
    BY DEF Delete, d
  <2> QED BY <2>1, <2>2
<1> QED BY <1>6, <1>7, <1>8 DEF d

-----------------------------------------------------------------------------
(* The operations *)

VInv ==
  /\ JobVector(object, jobs)
  /\ entries \in Seq(VEntry) /\ SortedEntries(entries)
  /\ deletedCount \in Nat
  /\ latest \in Job \cup {NoJob}

\* Writing the two fields of a job that attach writes.
LEMMA WrittenFieldsLemma ==
  ASSUME NEW r, r = [k \in {"state", "jobID", "disown", "procs"} |-> r[k]], NEW id, NEW d,
         NEW x, x = [r EXCEPT !.jobID = id], NEW y, y = [x EXCEPT !.disown = d]
  PROVE  y = [state |-> r.state, jobID |-> id, disown |-> d, procs |-> r.procs]
<1>1. x = [k \in {"state", "jobID", "disown", "procs"} |-> x[k]]
  OBVIOUS
<1>2. y = [k \in {"state", "jobID", "disown", "procs"} |-> y[k]]
  BY <1>1
<1>3. x.state = r.state /\ x.jobID = id /\ x.procs = r.procs
  OBVIOUS
<1>4. y.state = x.state /\ y.jobID = x.jobID /\ y.disown = d /\ y.procs = x.procs
  BY <1>1
<1> QED BY <1>2, <1>3, <1>4

LEMMA IdentityLemma ==
  ASSUME NEW r, r = [k \in {"state", "jobID", "disown", "procs"} |-> r[k]],
         r.state = "RUNNING", r.disown = FALSE, NEW id, NEW d
  PROVE  /\ [r EXCEPT !.jobID = id, !.disown = d] = [[r EXCEPT !.jobID = id] EXCEPT !.disown = d]
         /\ [[r EXCEPT !.jobID = id] EXCEPT !.disown = d]
              = [state |-> "RUNNING", jobID |-> id, disown |-> d, procs |-> r.procs]
         /\ [r EXCEPT !.jobID = id].disown = FALSE
<1>2. [r EXCEPT !.jobID = id, !.disown = d] = [[r EXCEPT !.jobID = id] EXCEPT !.disown = d]
  BY Zenon
<1> DEFINE x == [r EXCEPT !.jobID = id]
           y == [x EXCEPT !.disown = d]
<1>3. x = [r EXCEPT !.jobID = id] /\ y = [x EXCEPT !.disown = d]
  OBVIOUS
<1>4. x.disown = r.disown
  OBVIOUS
<1> HIDE DEF x, y
<1>5. y = [state |-> r.state, jobID |-> id, disown |-> d, procs |-> r.procs]
  BY <1>3, WrittenFieldsLemma
<1>6. y = [state |-> "RUNNING", jobID |-> id, disown |-> d, procs |-> r.procs] /\ x.disown = FALSE
  BY <1>4, <1>5, Zenon
<1> QED BY <1>2, <1>6 DEF x, y

LEMMA NewJobLemma ==
  ASSUME NEW ps, NEW r, r = NewJob(ps)
  PROVE  /\ r = [k \in {"state", "jobID", "disown", "procs"} |-> r[k]]
         /\ r.state = "RUNNING" /\ r.disown = FALSE /\ r.jobID = 0
<1> DEFINE q == r.procs
<1>1. r = [state |-> "RUNNING", jobID |-> 0, disown |-> FALSE, procs |-> q]
  BY Zenon DEF NewJob
<1> HIDE DEF q
<1>2. r = [k \in {"state", "jobID", "disown", "procs"} |-> r[k]]
  BY <1>1, Zenon
<1>3. r.state = "RUNNING" /\ r.disown = FALSE
  BY ONLY <1>1, Zenon
<1>4. r.jobID = 0
  BY ONLY <1>1, Zenon
<1> QED BY <1>2, <1>3, <1>4, Zenon

\* The job and the entries of attach.
LEMMA VAttachLemma ==
  ASSUME VInv, NEW j \in Job, NEW n \in Offset, NEW ps \in [1 .. n -> Pid], IsInjective(ps),
         NEW disowned \in BOOLEAN, VAttach(j, ps, disowned)
  PROVE  VInv' /\ Maps!AttachNew(j, ps, disowned)
<1> DEFINE id == FindEmptyIndex + 1
           procs == NewJob(ps).procs
           new == [NewJob(ps) EXCEPT !.jobID = id, !.disown = disowned]
           fresh == [jobId |-> id, offset |-> 1]
<1>1. /\ Len(jobs) < JobLimit /\ object[j] = Unused
      /\ \A k \in Job : \A i \in DOMAIN object[k].procs : object[k].procs[i].pid \notin Range(ps)
      /\ \A i \in DOMAIN entries : entries[i].pid \notin Range(ps)
      /\ object' = [object EXCEPT ![j] = new]
      /\ jobs' = InsertAt(jobs, id, j)
      /\ entries' = Add(entries, procs, id)
      /\ latest' = (IF disowned THEN latest ELSE j)
      /\ deletedCount' = deletedCount
  BY DEF VAttach
<1>2. /\ JobVector(object, jobs) /\ entries \in Seq(VEntry) /\ SortedEntries(entries)
      /\ deletedCount \in Nat /\ latest \in Job \cup {NoJob}
  BY DEF VInv
<1>3. /\ FindEmptyIndex \in 0 .. Len(jobs) /\ id \in JobId
      /\ \A i \in 1 .. Len(jobs) : i =< FindEmptyIndex => object[jobs[i]].jobID = i
      /\ \A i \in 1 .. Len(jobs) : i > FindEmptyIndex => object[jobs[i]].jobID > FindEmptyIndex + 1
  BY <1>1, <1>2, FindEmptyIndexLemma
<1>4. /\ Len(jobs) \in Nat /\ id \in 1 .. Len(jobs) + 1 /\ id \in Nat
      /\ \A i \in 1 .. Len(jobs) : i < id => object[jobs[i]].jobID = i
      /\ \A i \in 1 .. Len(jobs) : i >= id => object[jobs[i]].jobID > id
  BY <1>2, <1>3, JobVectorFacts
<1>5. n \in Nat /\ n >= 1 /\ DOMAIN ps = 1 .. n /\ Range(ps) = {ps[i] : i \in 1 .. n}
      /\ Range(ps) \subseteq Pid
  BY JobAssumption DEF Offset, Range
<1>6. /\ DOMAIN procs = 1 .. n /\ Len(procs) = n
      /\ \A i \in 1 .. n : procs[i] = [pid |-> ps[i], state |-> "RUNNING", exitStatus |-> EXIT_OK]
      /\ procs \in Seq(Proc)
  <2>1. procs = [i \in 1 .. n |-> [pid |-> ps[i], state |-> "RUNNING", exitStatus |-> EXIT_OK]]
    BY <1>5 DEF NewJob
  <2>2. \A i \in 1 .. n : [pid |-> ps[i], state |-> "RUNNING", exitStatus |-> EXIT_OK] \in Proc
    BY DEF Proc, WaitStatus
  <2> HIDE DEF procs
  <2>3. procs \in Seq(Proc)
    BY <2>1, <2>2, <1>5
  <2> QED BY <2>1, <2>3, <1>5, LenProperties
<1> HIDE DEF procs, id
<1>7. new = [state |-> "RUNNING", jobID |-> id, disown |-> disowned, procs |-> procs]
  <2> DEFINE r == NewJob(ps)
  <2>1. r = [k \in {"state", "jobID", "disown", "procs"} |-> r[k]] /\ r.state = "RUNNING" /\ r.disown = FALSE
    BY NewJobLemma, Zenon
  <2>2. r.procs = procs /\ new = [r EXCEPT !.jobID = id, !.disown = disowned]
    BY DEF procs
  <2> HIDE DEF r, new
  <2> QED BY <2>1, <2>2, IdentityLemma
<1>8. new \in JobObject /\ new.jobID = id
  <2>1. id \in 0 .. JobLimit
    BY <1>3 DEF JobId
  <2> HIDE DEF new
  <2> QED BY <2>1, <1>6, <1>7 DEF JobObject
<1>9. \A i, k \in 1 .. n : procs[i].pid = procs[k].pid => i = k
  <2>1. \A i, k \in 1 .. n : ps[i] = ps[k] => i = k
    BY <1>5, Zenon DEF IsInjective
  <2> QED BY <2>1, <1>6
<1> HIDE DEF new
<1>10. j \notin ToSet(jobs) /\ \A i \in 1 .. Len(jobs) : jobs[i] # j /\ jobs[i] \in Job
  <2>1. object[j].jobID = 0
    BY <1>1 DEF Unused
  <2> QED BY <2>1, <1>2, JobVectorFacts
<1>11. /\ jobs' \in Seq(Job) /\ Len(jobs') = Len(jobs) + 1
       /\ \A i \in 1 .. Len(jobs) + 1 : /\ i < id => jobs'[i] = jobs[i]
                                        /\ i = id => jobs'[i] = j
                                        /\ i > id => jobs'[i] = jobs[i - 1]
       /\ ToSet(jobs') = ToSet(jobs) \cup {j}
  <2>1. jobs \in Seq(Job) /\ id \in 1 .. Len(jobs) + 1 /\ j \in Job
    BY <1>2, <1>4 DEF JobVector
  <2>2. jobs' = InsertAt(jobs, id, j)
    BY <1>1
  <2>3. Inserted(jobs', Job, jobs, id, j)
    BY <2>1, <2>2, InsertLemma
  <2> QED BY <2>3 DEF Inserted
<1>12. object' \in [Job -> JobObject] /\ object'[j] = new /\ \A k \in Job : k # j => object'[k] = object[k]
  BY <1>1, <1>2, <1>8 DEF JobVector
<1>13. JobVector(object', jobs')
  <2> DEFINE key(i) == object'[jobs'[i]].jobID
             old(i) == object[jobs[i]].jobID
  <2>1. \A i \in 1 .. Len(jobs) : old(i) \in JobId /\ old(i) \in Nat /\ object'[jobs[i]].jobID = old(i)
    BY <1>2, <1>10, <1>12, JobVectorFacts DEF JobVector
  <2>2. \A i, k \in 1 .. Len(jobs) : i < k => old(i) < old(k)
    BY <1>2 DEF JobVector
  <2>3. object'[j].jobID = id
    BY <1>8, <1>12
  <2> HIDE DEF old
  <2>4. ASSUME NEW i \in 1 .. Len(jobs) + 1
        PROVE  /\ i < id => i \in 1 .. Len(jobs) /\ key(i) = old(i) /\ old(i) = i
               /\ i = id => key(i) = id
               /\ i > id => i - 1 \in 1 .. Len(jobs) /\ key(i) = old(i - 1) /\ old(i - 1) > id
    <3>1. i < id => i \in 1 .. Len(jobs)
      BY <1>4
    <3>2. i > id => i - 1 \in 1 .. Len(jobs) /\ i - 1 >= id
      BY <1>4
    <3>3. \A l \in 1 .. Len(jobs) : (l < id => old(l) = l) /\ (l >= id => old(l) > id)
      BY <1>4 DEF old
    <3> QED BY <3>1, <3>2, <3>3, <2>1, <2>3, <1>11
  <2> HIDE DEF key
  <2>5. \A i \in 1 .. Len(jobs) + 1 : key(i) \in JobId
    BY <2>1, <2>4, <1>3, <1>4
  <2>6. ASSUME NEW i \in 1 .. Len(jobs) + 1, NEW k \in 1 .. Len(jobs) + 1, i < k PROVE key(i) < key(k)
    <3>1. i \in Nat /\ k \in Nat
      OBVIOUS
    <3>2. CASE k < id
      BY <3>1, <3>2, <2>4, <2>6, <1>4
    <3>3. CASE k = id
      BY <3>1, <3>3, <2>4, <2>6, <1>4
    <3>4. CASE k > id
      <4>1. k - 1 \in 1 .. Len(jobs) /\ key(k) = old(k - 1) /\ old(k - 1) > id /\ old(k - 1) \in Nat
        BY <3>4, <2>1, <2>4
      <4>2. CASE i < id
        BY <4>1, <4>2, <2>4, <1>4, <3>1
      <4>3. CASE i = id
        BY <4>1, <4>3, <2>4
      <4>4. CASE i > id
        <5>1. i - 1 \in 1 .. Len(jobs) /\ key(i) = old(i - 1) /\ i - 1 < k - 1
          BY <4>4, <2>4, <2>6, <3>1
        <5> QED BY <5>1, <4>1, <2>2
      <4> QED BY <4>2, <4>3, <4>4, <3>1, <1>4
    <3> QED BY <3>1, <3>2, <3>3, <3>4, <1>4
  <2> QED BY <1>11, <1>12, <2>5, <2>6 DEF JobVector, key
<1>14. LET t == entries' IN
       /\ t \in Seq(VEntry) /\ SortedEntries(t)
       /\ ToSet(t) = ToSet(entries) \cup EntriesOf(procs, id, n)
  <2>1. \A i \in 1 .. n : procs[i].pid \in Pid /\ procs[i].pid \in Range(ps)
    BY <1>5, <1>6
  <2>2. \A i \in 1 .. n : \A k \in 1 .. Len(entries) : entries[k].pid # procs[i].pid
    BY <2>1, <1>1, <1>2, EntryFacts
  <2>3. NewProcs(procs, n, entries)
    BY <2>1, <2>2, <1>6, <1>9 DEF NewProcs
  <2>4. Added(Add(entries, procs, id), entries, procs, id, n)
    BY <2>3, <1>2, <1>3, AddLemma
  <2>5. entries' = Add(entries, procs, id)
    BY <1>1
  <2> QED BY <2>4, <2>5 DEF Added
<1>15. VInv'
  BY <1>1, <1>2, <1>13, <1>14 DEF VInv
\* The map of the jobs
<1>16. JobsMap(object', jobs') = [i \in JobId |-> IF i = id THEN j ELSE JobsMap(object, jobs)[i]]
  <2> DEFINE N == JobsMap(object, jobs)
             M == [i \in JobId |-> IF i = id THEN j ELSE N[i]]
  <2>1. /\ N \in [JobId -> Job \cup {NoJob}]
        /\ \A k \in ToSet(jobs) : k \in Job /\ object[k].jobID \in JobId /\ N[object[k].jobID] = k
        /\ \A i \in JobId : N[i] # NoJob => N[i] \in ToSet(jobs) /\ object[N[i]].jobID = i
    BY <1>2, JobsMapLemma
  <2>2. \A k \in ToSet(jobs) : k # j /\ object'[k].jobID = object[k].jobID /\ object[k].jobID # id
    <3>1. \A k \in ToSet(jobs) : \E i \in 1 .. Len(jobs) : k = jobs[i]
      BY <1>2, JobVectorFacts
    <3>2. \A i \in 1 .. Len(jobs) : object[jobs[i]].jobID # id
      BY <1>2, <1>4, JobVectorFacts
    <3> QED BY <3>1, <3>2, <2>1, <1>10, <1>12
  <2>3. object'[j].jobID = id
    BY <1>8, <1>12
  <2> HIDE DEF N
  <2>4. M \in [JobId -> Job \cup {NoJob}] /\ \A i \in JobId : M[i] = IF i = id THEN j ELSE N[i]
    BY <2>1
  <2> HIDE DEF M
  <2>5. \A k \in ToSet(jobs') : M[object'[k].jobID] = k
    BY <2>1, <2>2, <2>3, <2>4, <1>3, <1>11
  <2>6. \A i \in JobId : M[i] # NoJob => M[i] \in ToSet(jobs') /\ object'[M[i]].jobID = i
    BY <2>1, <2>2, <2>3, <2>4, <1>11
  <2>7. JobsMap(object', jobs') = M
    BY <2>4, <2>5, <2>6, <1>13, JobsMapIs
  <2> QED BY <2>7 DEF M, N
\* The map of the entries
<1>17. EntriesMap(entries') = AddProcs(AbstractTable, procs, id)
  <2> DEFINE N == EntriesMap(entries)
             A == AddProcs(AbstractTable, procs, id)
             mine(p) == {i \in DOMAIN procs : procs[i].pid = p}
  <2>1. \A p \in Pid : A[p] = IF id # 0 /\ mine(p) # {} /\ N[p] = NoEntry
                              THEN [jobId |-> id, offset |-> Min(mine(p))] ELSE N[p]
    BY DEF AddProcs, AbstractTable
  <2>2. A = [p \in Pid |-> A[p]]
    BY DEF AddProcs
  <2>3. /\ \A e \in ToSet(entries) : N[e.pid] = [jobId |-> e.jobId, offset |-> e.offset]
        /\ \A p \in Pid : (\A e \in ToSet(entries) : e.pid # p) => N[p] = NoEntry
    BY <1>2, EntriesMapLemma
  <2>4. \A e \in ToSet(entries) : e.pid \in Pid /\ \A i \in 1 .. n : procs[i].pid # e.pid
    <3>1. \A e \in ToSet(entries) : \E k \in 1 .. Len(entries) : e = entries[k]
      BY <1>2, EntryFacts DEF ToSet
    <3>2. \A k \in 1 .. Len(entries) : entries[k].pid \in Pid /\ entries[k].pid \notin Range(ps)
      BY <1>1, <1>2, EntryFacts
    <3>3. \A i \in 1 .. n : procs[i].pid \in Range(ps)
      BY <1>5, <1>6
    <3> QED BY <3>1, <3>2, <3>3
  <2>5. ASSUME NEW i \in 1 .. n
        PROVE  procs[i].pid \in Pid /\ A[procs[i].pid] = [jobId |-> id, offset |-> i]
    <3>1. procs[i].pid \in Pid
      BY <1>6
    <3>2. mine(procs[i].pid) = {i}
      BY <1>6, <1>9
    <3>3. N[procs[i].pid] = NoEntry
      BY <2>3, <2>4, <3>1
    <3>4. Min({i}) = i
      BY DEF Min
    <3> HIDE DEF A, mine, N
    <3>5. A[procs[i].pid] = [jobId |-> id, offset |-> Min(mine(procs[i].pid))]
      <4>1. id # 0 /\ mine(procs[i].pid) # {}
        BY <3>2, <1>4
      <4> QED BY <2>1, <3>1, <3>3, <4>1, Zenon
    <3> QED BY <3>1, <3>2, <3>4, <3>5, Zenon
  <2>6. ASSUME NEW p \in Pid, \A i \in 1 .. n : procs[i].pid # p PROVE A[p] = N[p]
    <3>1. mine(p) = {}
      BY <1>6, <2>6
    <3> HIDE DEF A, mine, N
    <3> QED BY <2>1, <3>1
  <2> HIDE DEF A, N, mine
  <2>7. \A e \in ToSet(entries') : A[e.pid] = [jobId |-> e.jobId, offset |-> e.offset]
    <3> SUFFICES ASSUME NEW e \in ToSet(entries') PROVE A[e.pid] = [jobId |-> e.jobId, offset |-> e.offset]
      OBVIOUS
    <3>1. CASE e \in ToSet(entries)
      BY <3>1, <2>3, <2>4, <2>6
    <3>2. CASE e \in EntriesOf(procs, id, n)
      <4>1. PICK i \in 1 .. n : e = [pid |-> procs[i].pid, jobId |-> id, offset |-> i]
        BY <3>2 DEF EntriesOf
      <4> QED BY <4>1, <2>5
    <3> QED BY <3>1, <3>2, <1>14
  <2>8. ASSUME NEW p \in Pid, \A e \in ToSet(entries') : e.pid # p PROVE A[p] = NoEntry
    <3>1. \A e \in ToSet(entries) : e.pid # p
      BY <2>8, <1>14
    <3>2. ASSUME NEW i \in 1 .. n PROVE procs[i].pid # p
      <4>1. [pid |-> procs[i].pid, jobId |-> id, offset |-> i] \in ToSet(entries')
        BY <1>14 DEF EntriesOf
      <4> QED BY <4>1, <2>8
    <3> QED BY <3>1, <3>2, <2>3, <2>6
  <2>9. EntriesMap(entries') = A
    BY <2>2, <2>7, <2>8, <1>14, EntriesMapIs
  <2> QED BY <2>9 DEF A
\* The guard, and the step
<1> DEFINE T == AbstractTable
<1>18. T = [job |-> object, jobs |-> JobsMap(object, jobs), entries |-> EntriesMap(entries),
            deleted |-> deletedCount, latest |-> latest]
  BY DEF AbstractTable
<1>19. id \in FreeIds(T) /\ \A i \in FreeIds(T) : id =< i
  <2> DEFINE N == JobsMap(object, jobs)
  <2>1. FreeIds(T) = {i \in JobId : N[i] = NoJob}
    BY <1>18 DEF FreeIds
  <2>2. N[id] = NoJob
    <3>1. \A k \in ToSet(jobs) : object[k].jobID # id
      <4>1. \A i \in 1 .. Len(jobs) : object[jobs[i]].jobID # id
        BY <1>2, <1>4, JobVectorFacts
      <4> QED BY <4>1, <1>2, JobVectorFacts
    <3> QED BY <3>1, <1>2, <1>3, JobsMapLemma
  <2>3. ASSUME NEW i \in JobId, i < id PROVE N[i] # NoJob
    <3>1. i \in 1 .. Len(jobs) /\ i < id
      BY <1>4, <2>3, JobAssumption DEF JobId
    <3>2. object[jobs[i]].jobID = i /\ jobs[i] \in ToSet(jobs) /\ jobs[i] # NoJob
      BY <3>1, <1>2, <1>4, <1>10, JobVectorFacts, JobAssumption
    <3>3. N[i] = jobs[i]
      BY <3>2, <1>2, JobsMapLemma
    <3> QED BY <3>2, <3>3
  <2>4. \A i \in JobId : i \in Nat
    BY DEF JobId
  <2> HIDE DEF N, T
  <2>5. ASSUME NEW i \in FreeIds(T) PROVE id =< i
    <3>1. i \in JobId /\ N[i] = NoJob /\ i \in Nat
      BY <2>1, <2>4
    <3>2. ~(i < id)
      BY <2>3, <3>1
    <3> QED BY <3>1, <3>2, <1>4
  <2>6. id \in FreeIds(T)
    BY <2>1, <2>2, <1>3
  <2> QED BY <2>5, <2>6
<1>20. FindEmptyEntry(T) = id
  <2>1. FreeIds(T) \in SUBSET Nat /\ FreeIds(T) # {}
    BY <1>19 DEF FreeIds, JobId
  <2>2. Min(FreeIds(T)) \in FreeIds(T) /\ \A i \in FreeIds(T) : Min(FreeIds(T)) =< i
    BY <2>1, MinLemma
  <2> HIDE DEF T
  <2>3. Min(FreeIds(T)) = id
    <3>1. Min(FreeIds(T)) =< id /\ id =< Min(FreeIds(T)) /\ Min(FreeIds(T)) \in Nat
      BY <1>19, <2>1, <2>2
    <3> QED BY <3>1, <1>4
  <2> QED BY <2>1, <2>3 DEF FindEmptyEntry
<1>21. \A p \in Range(ps) : EntriesMap(entries)[p] = NoEntry
  <2>1. \A p \in Range(ps) : p \in Pid /\ \A i \in 1 .. Len(entries) : entries[i].pid # p
    BY <1>1, <1>2, <1>5, EntryFacts
  <2> QED BY <2>1, <1>2, EntriesMapLemma
<1>22. Range(ps) \cap UNION {ProcPids(T, k) : k \in Job} = {}
  <2>1. \A k \in Job : ProcPids(T, k) \cap Range(ps) = {}
    BY <1>1, <1>18 DEF ProcPids
  <2> QED BY <2>1
<1> DEFINE U == [T EXCEPT !.job[j] = NewJob(ps)]
<1>23. /\ U = [job |-> [object EXCEPT ![j] = NewJob(ps)], jobs |-> T.jobs, entries |-> T.entries,
               deleted |-> T.deleted, latest |-> T.latest]
       /\ T.jobs = JobsMap(object, jobs) /\ T.entries = EntriesMap(entries)
       /\ T.deleted = deletedCount /\ T.latest = latest
  BY <1>18
<1>24. Attach(U, j, disowned) = AbstractTable'
  <2>1. U.jobs = T.jobs /\ U.entries = T.entries /\ U.deleted = T.deleted /\ U.latest = T.latest
        /\ U.job = [object EXCEPT ![j] = NewJob(ps)]
    BY <1>23
  <2> HIDE DEF U
  <2>2. U.job[j] = NewJob(ps) /\ U.job[j].jobID = 0 /\ U.job[j].procs = procs
    <3>1. U.job[j] = NewJob(ps)
      BY <2>1, <1>2 DEF JobVector
    <3> QED BY <3>1 DEF NewJob, procs
  <2>3. FindEmptyEntry(U) = id
    BY <2>1, <1>20 DEF FindEmptyEntry, FreeIds
  <2>4. AddProcs(U, procs, id) = AddProcs(T, procs, id)
    BY <2>1 DEF AddProcs
  <2>5. [U.job EXCEPT ![j].jobID = id, ![j].disown = @ \/ disowned] = object'
    <3>2. [[NewJob(ps) EXCEPT !.jobID = id] EXCEPT !.disown = @ \/ disowned] = new
      <4> DEFINE r == NewJob(ps)
                 x == [r EXCEPT !.jobID = id]
      <4>1. r = [k \in {"state", "jobID", "disown", "procs"} |-> r[k]] /\ r.state = "RUNNING" /\ r.disown = FALSE
            /\ r.procs = procs
        BY NewJobLemma, Zenon DEF procs
      <4> HIDE DEF r
      <4>2. x.disown = FALSE /\ [x EXCEPT !.disown = disowned] = new
        BY <4>1, <1>7, IdentityLemma
      <4> HIDE DEF x
      <4>3. [x EXCEPT !.disown = @ \/ disowned] = [x EXCEPT !.disown = x.disown \/ disowned]
        OBVIOUS
      <4>4. (x.disown \/ disowned) = disowned
        BY <4>2
      <4>5. [x EXCEPT !.disown = @ \/ disowned] = new
        BY <4>2, <4>3, <4>4, Zenon
      <4> QED BY <4>5, Zenon DEF x, r
    <3>3. [U.job EXCEPT ![j].jobID = id, ![j].disown = @ \/ disowned] = [U.job EXCEPT ![j] = new]
      <4> DEFINE f == U.job
                 g == [f EXCEPT ![j].jobID = id]
      <4>1. j \in DOMAIN f /\ f[j] = NewJob(ps)
        BY <2>1, <1>2 DEF JobVector
      <4> HIDE DEF f
      <4>2. DOMAIN g = DOMAIN f /\ g[j] = [f[j] EXCEPT !.jobID = id]
            /\ \A k \in DOMAIN f : k # j => g[k] = f[k]
        BY <4>1
      <4>3. [f EXCEPT ![j].jobID = id, ![j].disown = @ \/ disowned] = [g EXCEPT ![j].disown = @ \/ disowned]
        OBVIOUS
      <4> HIDE DEF g
      <4>4. [g EXCEPT ![j].disown = @ \/ disowned] = [g EXCEPT ![j] = [g[j] EXCEPT !.disown = @ \/ disowned]]
        OBVIOUS
      <4>5. [g[j] EXCEPT !.disown = @ \/ disowned] = new
        BY <3>2, <4>1, <4>2, Zenon
      <4>6. [g EXCEPT ![j] = new] = [f EXCEPT ![j] = new]
        BY <4>2
      <4> QED BY <4>3, <4>4, <4>5, <4>6 DEF f
    <3>4. [U.job EXCEPT ![j] = new] = [object EXCEPT ![j] = new]
      BY <2>1, <1>2 DEF JobVector
    <3> QED BY <3>2, <3>3, <3>4, <1>1
  <2>6. Attach(U, j, disowned) =
          [job |-> [U.job EXCEPT ![j].jobID = id, ![j].disown = @ \/ disowned],
           jobs |-> [i \in JobId |-> IF i = id THEN j ELSE U.jobs[i]],
           entries |-> AddProcs(U, procs, id),
           deleted |-> U.deleted,
           latest |-> IF disowned THEN U.latest ELSE j]
    BY <2>2, <2>3 DEF Attach
  <2>7. AbstractTable' = [job |-> object', jobs |-> JobsMap(object', jobs'), entries |-> EntriesMap(entries'),
                          deleted |-> deletedCount', latest |-> latest']
    BY DEF AbstractTable
  <2> QED BY <2>1, <2>4, <2>5, <2>6, <2>7, <1>1, <1>16, <1>17, <1>23
<1>25. Maps!AttachNew(j, ps, disowned)
  <2>1. FreeIds(AbstractTable) # {} /\ AbstractTable.job[j] = Unused
        /\ \A p \in Range(ps) : AbstractTable.entries[p] = NoEntry
    BY <1>1, <1>18, <1>19, <1>21
  <2>2. Maps!FreeIds(AbstractTable) # {} /\ AbstractTable.job[j] = Maps!Unused
        /\ \A p \in Range(ps) : AbstractTable.entries[p] = Maps!NoEntry
    BY <2>1, SameOperators, Zenon
  <2>3. Maps!LivePids = UNION {ProcPids(AbstractTable, k) : k \in Job}
    BY SameOperators, Zenon DEF Maps!LivePids
  <2>4. AbstractTable' = Maps!Attach([AbstractTable EXCEPT !.job[j] = Maps!NewJob(ps)], j, disowned)
    BY <1>24, SameOperators, Zenon
  <2>5. Range(ps) \cap Maps!LivePids = {}
    BY <2>3, <1>22
  <2>6. Maps!Range(ps) = Range(ps)
    BY Zenon DEF Maps!Range, Range
  <2> QED BY <2>2, <2>4, <2>5, <2>6, Zenon DEF Maps!AttachNew
<1> QED BY <1>15, <1>25

\* updateState keeps a process a process.
LEMMA UpdatedProcLemma ==
  ASSUME NEW pr \in Proc, NEW ret \in WaitReport
  PROVE  UpdateProc(pr, ret) \in Proc
  BY PidAssumption DEF UpdateProc, Proc, WaitReport, NewProcState

\* A job whose process has changed: its id is the same.
LEMMA WrittenJobLemma ==
  ASSUME NEW jo \in JobObject, NEW k, NEW pr, k \in DOMAIN jo.procs => pr \in Proc
  PROVE  WithProc(jo, k, pr) \in JobObject /\ WithProc(jo, k, pr).jobID = jo.jobID
<1> DEFINE ps == [jo.procs EXCEPT ![k] = pr]
           x == [jo EXCEPT !.procs[k] = pr]
<1>1. jo.procs \in Seq(Proc) /\ DOMAIN jo.procs = 1 .. Len(jo.procs)
  BY LenProperties DEF JobObject
<1>2. ps \in Seq(Proc)
  <2>1. CASE k \in DOMAIN jo.procs
    BY <1>1, <2>1, ExceptSeq
  <2>2. CASE k \notin DOMAIN jo.procs
    <3>1. ps = jo.procs
      <4>1. DOMAIN ps = DOMAIN jo.procs /\ \A i \in DOMAIN jo.procs : ps[i] = jo.procs[i]
        BY <2>2
      <4>2. ps = [i \in DOMAIN jo.procs |-> ps[i]] /\ jo.procs = [i \in DOMAIN jo.procs |-> jo.procs[i]]
        BY <1>1
      <4> HIDE DEF ps
      <4> QED BY <4>1, <4>2
    <3> QED BY <1>1, <3>1
  <2> QED BY <2>1, <2>2
<1>3. x = [jo EXCEPT !.procs = ps]
  OBVIOUS
<1> HIDE DEF ps, x
<1>4. x \in JobObject /\ x.jobID = jo.jobID
  BY <1>2, <1>3 DEF JobObject
<1>5. UpdateJob(x) \in JobObject /\ UpdateJob(x).jobID = x.jobID
  <2>1. [x EXCEPT !.state = "TERMINATED"] \in JobObject /\ [x EXCEPT !.state = "TERMINATED"].jobID = x.jobID
    BY <1>4 DEF JobObject
  <2> QED BY <1>4, <2>1 DEF UpdateJob
<1>6. WithProc(jo, k, pr) = UpdateJob(x)
  BY DEF WithProc, x
<1> QED BY <1>4, <1>5, <1>6

\* Only the vector and the ids of its jobs decide on the map.
LEMMA SameIdsLemma ==
  ASSUME NEW o, NEW js, JobVector(o, js), NEW d \in [Job -> JobObject],
         \A j \in ToSet(js) : d[j].jobID = o[j].jobID
  PROVE  JobVector(d, js) /\ JobsMap(d, js) = JobsMap(o, js)
<1> DEFINE M == JobsMap(o, js)
<1>1. ToSet(js) = {js[i] : i \in 1 .. Len(js)} /\ ToSet(js) \subseteq Job
  BY JobVectorFacts
<1>2. \A i \in 1 .. Len(js) : d[js[i]].jobID = o[js[i]].jobID
  BY <1>1
<1>3. JobVector(d, js)
  BY <1>2 DEF JobVector
<1>4. /\ M \in [JobId -> Job \cup {NoJob}]
      /\ \A j \in ToSet(js) : M[o[j].jobID] = j
      /\ \A id \in JobId : M[id] # NoJob => M[id] \in ToSet(js) /\ o[M[id]].jobID = id
  BY JobsMapLemma
<1> HIDE DEF M
<1>5. /\ \A j \in ToSet(js) : M[d[j].jobID] = j
      /\ \A id \in JobId : M[id] # NoJob => M[id] \in ToSet(js) /\ d[M[id]].jobID = id
  BY <1>4
<1>6. JobsMap(d, js) = M
  BY <1>3, <1>4, <1>5, JobsMapIs
<1> QED BY <1>3, <1>6 DEF M

\* findProc finds in the vector what it finds in the map.
LEMMA FindIndexLemma ==
  ASSUME VInv, NEW p \in Pid
  PROVE  /\ FindIndex(p) \in 0 .. Len(entries)
         /\ FindProc(AbstractTable, p) = IF FindIndex(p) = 0 THEN NoPid ELSE entries[FindIndex(p)].pid
<1> DEFINE k == EntryIndex(entries, p)
           N == EntriesMap(entries)
           notLess == {q \in Pid : q >= p /\ N[q] # NoEntry}
<1>1. entries \in Seq(VEntry) /\ SortedEntries(entries)
  BY DEF VInv
<1>2. /\ Len(entries) \in Nat /\ DOMAIN entries = 1 .. Len(entries)
      /\ \A i \in 1 .. Len(entries) : entries[i] \in VEntry /\ entries[i].pid \in Pid /\ entries[i].pid \in Nat
  BY <1>1, EntryFacts
<1>3. k \in 1 .. Len(entries) + 1 /\ \A i \in 1 .. Len(entries) : entries[i].pid < p <=> i < k
  BY <1>1, EntryIndexLemma
<1>4. /\ \A i \in 1 .. Len(entries) :
             N[entries[i].pid] = [jobId |-> entries[i].jobId, offset |-> entries[i].offset]
      /\ \A q \in Pid : (\A i \in 1 .. Len(entries) : entries[i].pid # q) => N[q] = NoEntry
  BY <1>1, EntriesMapLemma
<1>5. FindProc(AbstractTable, p) = IF notLess = {} THEN NoPid ELSE Min(notLess)
  BY DEF FindProc, AbstractTable
<1>6. FindIndex(p) = IF k =< Len(entries) THEN k ELSE 0
  BY DEF FindIndex
<1>7. p \in Nat /\ notLess \in SUBSET Nat
  BY PidAssumption
<1> HIDE DEF k, N
<1>8. \A q \in notLess : \E i \in 1 .. Len(entries) : entries[i].pid = q /\ i >= k
  <2> SUFFICES ASSUME NEW q \in notLess
               PROVE  \E i \in 1 .. Len(entries) : entries[i].pid = q /\ i >= k
    OBVIOUS
  <2>1. PICK i \in 1 .. Len(entries) : entries[i].pid = q
    BY <1>4
  <2>2. ~(entries[i].pid < p)
    BY <2>1, <1>2, <1>7
  <2>3. i >= k
    BY <2>2, <1>3
  <2> QED BY <2>1, <2>3
<1>9. CASE k =< Len(entries)
  <2>1. k \in 1 .. Len(entries) /\ entries[k].pid \in Pid /\ entries[k].pid \in Nat
    BY <1>2, <1>3, <1>9
  <2>2. N[entries[k].pid] # NoEntry
    <3>1. entries[k].jobId # -1
      <4>1. \A e \in VEntry : e.jobId # -1
        BY JobAssumption DEF VEntry
      <4> QED BY <2>1, <4>1, <1>2
    <3>2. N[entries[k].pid].jobId = entries[k].jobId
      <4>1. N[entries[k].pid] = [jobId |-> entries[k].jobId, offset |-> entries[k].offset]
        BY <2>1, <1>4
      <4> DEFINE a == entries[k].jobId
                 b == entries[k].offset
      <4> HIDE DEF a, b
      <4>2. [jobId |-> a, offset |-> b].jobId = a
        OBVIOUS
      <4> QED BY <4>1, <4>2, Zenon DEF a, b
    <3>3. NoEntry.jobId = -1
      BY DEF NoEntry
    <3> QED BY <3>1, <3>2, <3>3
  <2>3. entries[k].pid \in notLess
    <3>1. ~(entries[k].pid < p)
      BY <2>1, <1>3
    <3> QED BY <2>1, <2>2, <3>1, <1>7
  <2>4. \A q \in notLess : entries[k].pid =< q
    <3> SUFFICES ASSUME NEW q \in notLess PROVE entries[k].pid =< q
      OBVIOUS
    <3>1. PICK i \in 1 .. Len(entries) : entries[i].pid = q /\ i >= k
      BY <1>8
    <3>2. CASE i = k
      BY <3>1, <3>2, <2>1
    <3>3. CASE k < i
      <4>1. entries[k].pid < entries[i].pid
        BY <2>1, <3>3, <1>1, <1>2 DEF SortedEntries
      <4> QED BY <4>1, <3>1, <2>1, <1>7
    <3> QED BY <3>1, <3>2, <3>3, <1>3
  <2>5. Min(notLess) \in notLess /\ \A q \in notLess : Min(notLess) =< q
    BY <2>3, <1>7, MinLemma
  <2> HIDE DEF notLess
  <2>6. Min(notLess) = entries[k].pid
    <3>1. Min(notLess) =< entries[k].pid /\ entries[k].pid =< Min(notLess) /\ Min(notLess) \in Nat
      BY <2>3, <2>4, <2>5, <1>7
    <3> QED BY <3>1, <2>1
  <2>7. notLess # {} /\ k # 0
    BY <2>1, <2>3
  <2> QED BY <1>5, <1>6, <1>9, <2>1, <2>6, <2>7
<1>10. CASE ~(k =< Len(entries))
  <2>1. notLess = {}
    <3> SUFFICES ASSUME NEW q \in notLess PROVE FALSE
      OBVIOUS
    <3>1. PICK i \in 1 .. Len(entries) : entries[i].pid = q /\ i >= k
      BY <1>8
    <3> QED BY <3>1, <1>2, <1>3, <1>10
  <2> HIDE DEF notLess
  <2> QED BY <1>2, <1>5, <1>6, <1>10, <2>1
<1> QED BY <1>9, <1>10

LEMMA VUpdateLemma ==
  ASSUME VInv, NEW ret \in Maps!Results, VUpdate(ret)
  PROVE  VInv' /\ Maps!Update(ret)
<1> DEFINE T == AbstractTable
           k == FindIndex(ret.pid)
           e == entries[k]
           j == FindIter(e.jobId)
           pr == object[j].procs[e.offset]
           new == UpdateProc(pr, ret)
<1>1. ret.pid \in Pid /\ ret \in WaitReport
  BY SameOperators DEF Maps!Results, WaitReport, WaitStatus
<1>2. /\ JobVector(object, jobs) /\ entries \in Seq(VEntry) /\ SortedEntries(entries)
      /\ deletedCount \in Nat /\ latest \in Job \cup {NoJob}
  BY DEF VInv
<1>3. k \in 0 .. Len(entries) /\ FindProc(T, ret.pid) = IF k = 0 THEN NoPid ELSE entries[k].pid
  BY <1>1, FindIndexLemma
<1>4. IF k = 0 THEN UNCHANGED vectorVars
      ELSE /\ e.jobId # 0
           /\ object' = [object EXCEPT ![j] = WithProc(@, e.offset, new)]
           /\ IF new.state = "TERMINATED"
              THEN entries' = [entries EXCEPT ![k].jobId = 0] /\ deletedCount' = deletedCount + 1
              ELSE UNCHANGED <<entries, deletedCount>>
           /\ UNCHANGED <<jobs, latest>>
  BY DEF VUpdate
<1>5. T = [job |-> object, jobs |-> JobsMap(object, jobs), entries |-> EntriesMap(entries),
           deleted |-> deletedCount, latest |-> latest]
      /\ T' = [job |-> object', jobs |-> JobsMap(object', jobs'), entries |-> EntriesMap(entries'),
               deleted |-> deletedCount', latest |-> latest']
  BY DEF AbstractTable
<1> SUFFICES VInv' /\ ~FindsDeleted(T, ret.pid) /\ T' = UpdateProcState(T, ret)
  BY SameOperators, Zenon DEF Maps!Update
<1>6. CASE k = 0
  <2>1. UNCHANGED vectorVars
    BY <1>4, <1>6
  <2>2. VInv'
    BY <2>1 DEF VInv, vectorVars
  <2>3. T' = T
    BY <2>1, <1>5 DEF vectorVars
  <2>4. FindProc(T, ret.pid) = NoPid
    BY <1>3, <1>6
  <2> HIDE DEF T
  <2> QED BY <2>2, <2>3, <2>4 DEF FindsDeleted, UpdateProcState
<1>7. CASE k # 0
  <2> DEFINE q == e.pid
             d == new.state = "TERMINATED"
  <2>1. k \in 1 .. Len(entries) /\ FindProc(T, ret.pid) = q
    BY <1>3, <1>7
  <2>2. e \in VEntry /\ q \in Pid /\ DOMAIN entries = 1 .. Len(entries) /\ Len(entries) \in Nat
    BY <2>1, <1>2, EntryFacts
  <2>3. e.jobId \in JobId /\ e.offset \in Offset
    <3>1. \A x \in VEntry : x.jobId # 0 => x.jobId \in JobId /\ x.offset \in Offset
      BY JobAssumption DEF VEntry, JobId
    <3> QED BY <3>1, <2>2, <1>4, <1>7
  <2>4. q # NoPid
    BY <2>2, PidAssumption
  <2>5. T.entries[q] = [jobId |-> e.jobId, offset |-> e.offset]
    <3>1. EntriesMap(entries)[entries[k].pid] = [jobId |-> entries[k].jobId, offset |-> entries[k].offset]
      BY <2>1, <1>2, EntriesMapLemma
    <3> QED BY <3>1, <1>5
  <2>6. T.jobs[e.jobId] = j
    <3>1. j = JobsMap(object, jobs)[e.jobId]
      BY <2>3, <1>2, FindIterLemma
    <3> QED BY <3>1, <1>5
  <2>7. ProcOf(T, q) = pr /\ T.job = object /\ T.deleted = deletedCount /\ T.latest = latest
        /\ T.entries = EntriesMap(entries) /\ T.jobs = JobsMap(object, jobs)
    BY <2>5, <2>6, <1>5 DEF ProcOf
  <2>8. /\ object' = [object EXCEPT ![j] = WithProc(@, e.offset, new)]
        /\ jobs' = jobs /\ latest' = latest
        /\ d => entries' = [entries EXCEPT ![k].jobId = 0] /\ deletedCount' = deletedCount + 1
        /\ ~d => entries' = entries /\ deletedCount' = deletedCount
    BY <1>4, <1>7
  <2>9. object' \in [Job -> JobObject] /\ \A i \in Job : object'[i].jobID = object[i].jobID
    <3>1. object \in [Job -> JobObject]
      BY <1>2 DEF JobVector
    <3>2. CASE j \in Job
      <4>1. object[j] \in JobObject
        BY <3>1, <3>2
      <4>2. e.offset \in DOMAIN object[j].procs => new \in Proc
        <5> SUFFICES ASSUME e.offset \in DOMAIN object[j].procs PROVE new \in Proc
          OBVIOUS
        <5>1. object[j].procs \in Seq(Proc)
          BY <4>1 DEF JobObject
        <5>2. pr \in Proc
          BY <5>1
        <5> HIDE DEF pr
        <5> QED BY <5>2, <1>1, UpdatedProcLemma
      <4> HIDE DEF new, e, j
      <4>3. WithProc(object[j], e.offset, new) \in JobObject
            /\ WithProc(object[j], e.offset, new).jobID = object[j].jobID
        BY <4>1, <4>2, WrittenJobLemma
      <4>4. object' = [object EXCEPT ![j] = WithProc(object[j], e.offset, new)]
        BY <2>8
      <4> QED BY <4>3, <4>4, <3>1, <3>2
    <3>3. CASE j \notin Job
      <4> HIDE DEF new, e, j
      <4>1. object' = object
        BY <2>8, <3>1, <3>3
      <4> QED BY <4>1, <3>1
    <3> QED BY <3>2, <3>3
  <2>10. JobVector(object', jobs) /\ JobsMap(object', jobs) = JobsMap(object, jobs)
    <3>1. ToSet(jobs) \subseteq Job
      BY <1>2, JobsMapLemma
    <3>2. \A i \in ToSet(jobs) : object'[i].jobID = object[i].jobID
      BY <3>1, <2>9
    <3> QED BY <3>2, <2>9, <1>2, SameIdsLemma
  <2>11. /\ entries' \in Seq(VEntry) /\ SortedEntries(entries')
         /\ EntriesMap(entries') = IF d THEN [EntriesMap(entries) EXCEPT ![q] = MarkDelete(T.entries[q])]
                                   ELSE EntriesMap(entries)
    <3> HIDE DEF T, d
    <3>1. CASE ~d
      BY <3>1, <2>8, <1>2
    <3>2. CASE d
      <4> DEFINE N == EntriesMap(entries)
                 x == [e EXCEPT !.jobId = 0]
                 M == [N EXCEPT ![q] = MarkDelete(T.entries[q])]
      <4>1. entries' = [entries EXCEPT ![k] = x]
        <5>1. entries' = [entries EXCEPT ![k].jobId = 0]
          BY <3>2, <2>8
        <5> QED BY <5>1
      <4>2. x \in VEntry /\ x.pid = q /\ x.jobId = 0 /\ x.offset = e.offset
        <5>1. \A y \in VEntry : /\ [y EXCEPT !.jobId = 0] \in VEntry /\ [y EXCEPT !.jobId = 0].pid = y.pid
                                /\ [y EXCEPT !.jobId = 0].jobId = 0 /\ [y EXCEPT !.jobId = 0].offset = y.offset
          BY JobAssumption DEF VEntry
        <5> HIDE DEF e
        <5> QED BY <5>1, <2>2
      <4> HIDE DEF x
      <4>3. entries' \in Seq(VEntry) /\ Len(entries') = Len(entries)
            /\ \A i \in 1 .. Len(entries) : entries'[i] = IF i = k THEN x ELSE entries[i]
        BY <4>1, <4>2, <2>1, <2>2, <1>2, ExceptSeq
      <4>4. \A i \in 1 .. Len(entries) : entries'[i].pid = entries[i].pid
        BY <4>2, <4>3
      <4>5. SortedEntries(entries')
        <5>1. DOMAIN entries' = 1 .. Len(entries)
          BY <4>3
        <5> QED BY <5>1, <4>4, <2>2, <1>2 DEF SortedEntries
      <4>6. /\ \A i \in 1 .. Len(entries) :
                  N[entries[i].pid] = [jobId |-> entries[i].jobId, offset |-> entries[i].offset]
            /\ \A p \in Pid : (\A i \in 1 .. Len(entries) : entries[i].pid # p) => N[p] = NoEntry
        BY <1>2, EntriesMapLemma
      <4>7. DOMAIN N = Pid /\ N = [p \in Pid |-> N[p]]
        BY DEF EntriesMap
      <4> HIDE DEF N
      <4>8. M = [p \in Pid |-> M[p]] /\ M[q] = MarkDelete(T.entries[q])
            /\ \A p \in Pid : p # q => M[p] = N[p]
        BY <4>7, <2>2
      <4>9. MarkDelete(T.entries[q]) = [jobId |-> 0, offset |-> e.offset]
        BY <2>5 DEF MarkDelete
      <4> HIDE DEF M
      <4>10. \A y \in ToSet(entries') : M[y.pid] = [jobId |-> y.jobId, offset |-> y.offset]
        <5> SUFFICES ASSUME NEW i \in 1 .. Len(entries)
                     PROVE  M[entries'[i].pid] = [jobId |-> entries'[i].jobId, offset |-> entries'[i].offset]
          BY <4>3 DEF ToSet
        <5>1. CASE i = k
          <6>1. entries'[i] = x
            BY <5>1, <4>3
          <6> QED BY <6>1, <4>2, <4>8, <4>9
        <5>2. CASE i # k
          <6>1. entries'[i] = entries[i]
            BY <5>2, <4>3
          <6>2. entries[i].pid # q /\ entries[i].pid \in Pid
            <7>1. i < k \/ k < i
              BY <5>2, <2>1
            <7>2. \A l \in 1 .. Len(entries) : entries[l].pid \in Nat /\ entries[l].pid \in Pid
              BY <1>2, EntryFacts
            <7>3. entries[i].pid < entries[k].pid \/ entries[k].pid < entries[i].pid
              BY <7>1, <2>1, <2>2, <1>2 DEF SortedEntries
            <7> QED BY <7>2, <7>3, <2>1
          <6> QED BY <6>1, <6>2, <4>6, <4>8
        <5> QED BY <5>1, <5>2
      <4>11. ASSUME NEW p \in Pid, \A y \in ToSet(entries') : y.pid # p PROVE M[p] = NoEntry
        <5>1. \A i \in 1 .. Len(entries) : entries'[i].pid # p
          BY <4>3, <4>11 DEF ToSet
        <5>2. \A i \in 1 .. Len(entries) : entries[i].pid # p
          BY <5>1, <4>4
        <5> QED BY <5>2, <4>6, <4>8, <2>1
      <4>12. EntriesMap(entries') = M
        BY <4>3, <4>5, <4>8, <4>10, <4>11, EntriesMapIs
      <4> QED BY <3>2, <4>3, <4>5, <4>12 DEF M, N
    <3> QED BY <3>1, <3>2
  <2>12. VInv'
    <3>1. JobVector(object', jobs') /\ latest' \in Job \cup {NoJob}
      BY <2>8, <2>10, <1>2
    <3>2. deletedCount' \in Nat
      <4> HIDE DEF d
      <4>1. deletedCount' = deletedCount \/ deletedCount' = deletedCount + 1
        BY <2>8
      <4> QED BY <4>1, <1>2
    <3> HIDE DEF d, q, T
    <3> QED BY <3>1, <3>2, <2>11 DEF VInv
  <2>13. ~FindsDeleted(T, ret.pid)
    <3>1. T.entries[q].jobId # 0
      BY <2>3, <2>5 DEF JobId
    <3> HIDE DEF T, q
    <3> QED BY <3>1, <2>1 DEF FindsDeleted, IsDeleted
  <2>14. UpdateProcState(T, ret) = WriteProc(T, q, new)
    <3> HIDE DEF T, q, pr
    <3> QED BY <2>1, <2>4, <2>7 DEF UpdateProcState
  <2>15. WriteProc(T, q, new) = [job |-> object', jobs |-> JobsMap(object, jobs),
                                 entries |-> EntriesMap(entries'), deleted |-> deletedCount', latest |-> latest]
    <3> HIDE DEF T, q, new, e, j
    <3>1. T.entries[q].jobId = e.jobId /\ T.entries[q].offset = e.offset
      BY <2>5
    <3>2. [T.job EXCEPT ![T.jobs[T.entries[q].jobId]] = WithProc(@, T.entries[q].offset, new)] = object'
      BY <3>1, <2>6, <2>7, <2>8
    <3> QED BY <3>1, <3>2, <2>7, <2>8, <2>11 DEF WriteProc
  <2> HIDE DEF T, new, q, d
  <2> QED BY <2>8, <2>10, <2>12, <2>13, <2>14, <2>15, <1>5
<1> QED BY <1>6, <1>7

LEMMA VRemoveLemma ==
  ASSUME VInv, NEW refs, VRemove(refs)
  PROVE  VInv' /\ Maps!Remove(refs)
<1> DEFINE T == AbstractTable
           R == RemoveTerminatedJobs(T)
           ended == {j \in Job : object[j].state # "RUNNING"}
           c == Compact(jobs, ended)
           kept == Kept(c)
           owned == {i \in DOMAIN kept : ~object[kept[i]].disown}
           obj == [j \in Job |-> IF j \in Dropped(c)
                                 THEN [object[j] EXCEPT !.jobID = 0, !.disown = TRUE]
                                 ELSE object[j]]
           last == IF Dropped(c) = {} \/ latest \notin ended THEN latest
                   ELSE IF owned = {} THEN NoJob ELSE kept[Max(owned)]
           rest == Kept(Compact(entries, {e \in ToSet(entries) : e.jobId = 0}))
           M == JobsMap(object, jobs)
           N == EntriesMap(entries)
<1>1. /\ JobVector(object, jobs) /\ entries \in Seq(VEntry) /\ SortedEntries(entries)
      /\ deletedCount \in Nat /\ latest \in Job \cup {NoJob}
  BY DEF VInv
<1>2. /\ T = [job |-> object, jobs |-> M, entries |-> N, deleted |-> deletedCount, latest |-> latest]
      /\ T' = [job |-> object', jobs |-> JobsMap(object', jobs'), entries |-> EntriesMap(entries'),
               deleted |-> deletedCount', latest |-> latest']
      /\ T.job = object /\ T.jobs = M /\ T.entries = N /\ T.deleted = deletedCount /\ T.latest = latest
  BY DEF AbstractTable
<1>3. SUFFICES VInv' /\ T' = Collected(R, refs)
  BY SameOperators, Zenon DEF Maps!Remove
<1>4. CASE deletedCount = 0
  <2>1. object' = Delete(object, jobs, latest, refs) /\ UNCHANGED <<jobs, entries, deletedCount, latest>>
    BY <1>4 DEF VRemove
  <2>2. /\ JobVector(object', jobs) /\ JobsMap(object', jobs) = M
        /\ object' = [j \in Job |-> IF j \in refs \/ latest = j \/ \E i \in JobId : M[i] = j
                                    THEN object[j] ELSE Unused]
    BY <2>1, <1>1, DeleteLemma
  <2>3. VInv'
    BY <2>1, <2>2, <1>1 DEF VInv
  <2> HIDE DEF T, M, N
  <2>4. R = T
    BY <1>2, <1>4 DEF RemoveTerminatedJobs
  <2>5. Collected(T, refs) = [job |-> object', jobs |-> M, entries |-> N, deleted |-> deletedCount,
                              latest |-> latest]
    <3>1. [T EXCEPT !.job = object'] = [job |-> object', jobs |-> M, entries |-> N, deleted |-> deletedCount,
                                        latest |-> latest]
      BY <1>2
    <3>2. Collected(T, refs) = [T EXCEPT !.job = object']
      BY <2>2, <1>2 DEF Collected
    <3> QED BY <3>1, <3>2
  <2>6. T' = [job |-> object', jobs |-> M, entries |-> N, deleted |-> deletedCount, latest |-> latest]
    BY <2>1, <2>2, <1>2 DEF N
  <2> HIDE DEF R
  <2> QED BY <2>3, <2>4, <2>5, <2>6
<1>5. CASE deletedCount # 0
  <2>1. /\ entries' = rest /\ deletedCount' = 0 /\ jobs' = kept /\ latest' = last
        /\ object' = Delete(obj, kept, last, refs)
    BY <1>5 DEF VRemove
  <2>2. /\ kept \in Seq(Job) /\ ToSet(kept) = ToSet(jobs) \ ended /\ Dropped(c) = ToSet(jobs) \cap ended
        /\ \A l, r \in 1 .. Len(kept) : l < r => object[kept[l]].jobID < object[kept[r]].jobID
    <3> DEFINE key == [j \in Job |-> object[j].jobID]
    <3>1. key \in [Job -> Int] /\ \A j \in Job : key[j] = object[j].jobID
      <4>1. \A j \in Job : object[j].jobID \in Int
        <5>1. \A x \in JobObject : x.jobID \in Int
          BY DEF JobObject
        <5> QED BY <5>1, <1>1 DEF JobVector
      <4> QED BY <4>1
    <3>2. jobs \in Seq(Job) /\ \A i \in 1 .. Len(jobs) : jobs[i] \in Job
      BY <1>1, JobVectorFacts DEF JobVector
    <3>3. \A i, k \in 1 .. Len(jobs) : i < k => key[jobs[i]] < key[jobs[k]]
      BY <3>1, <3>2, <1>1 DEF JobVector
    <3> HIDE DEF key, ended
    <3>4. /\ kept \in Seq(Job) /\ ToSet(kept) = ToSet(jobs) \ ended /\ Dropped(c) = ToSet(jobs) \cap ended
          /\ \A l, r \in 1 .. Len(kept) : l < r => key[kept[l]] < key[kept[r]]
      <4>1. Compacted(c, Job, jobs, ended, key)
        BY <3>1, <3>2, <3>3, CompactLemma
      <4> QED BY <4>1, Zenon DEF Compacted
    <3> HIDE DEF kept, c
    <3>5. \A l \in 1 .. Len(kept) : kept[l] \in Job
      BY <3>4, ElementOfSeq
    <3> QED BY <3>1, <3>4, <3>5
  <2>3. /\ rest \in Seq(VEntry) /\ SortedEntries(rest)
        /\ ToSet(rest) = {e \in ToSet(entries) : e.jobId # 0}
    <3> DEFINE gone == {e \in ToSet(entries) : e.jobId = 0}
               key == [e \in VEntry |-> e.pid]
    <3>1. key \in [VEntry -> Int]
      <4>1. \A e \in VEntry : e.pid \in Int
        <5>1. \A e \in VEntry : e.pid \in Pid
          BY DEF VEntry
        <5>2. Pid \subseteq Int
          BY PidAssumption
        <5> QED BY <5>1, <5>2
      <4> QED BY <4>1
    <3>2. \A i, k \in 1 .. Len(entries) : i < k => key[entries[i]] < key[entries[k]]
      BY <1>1, EntryFacts DEF SortedEntries
    <3>3. /\ rest \in Seq(VEntry) /\ ToSet(rest) = ToSet(entries) \ gone
          /\ \A l, r \in 1 .. Len(rest) : l < r => key[rest[l]] < key[rest[r]]
      <4> HIDE DEF key, gone
      <4>1. Compacted(Compact(entries, gone), VEntry, entries, gone, key)
        BY <3>1, <3>2, <1>1, CompactLemma
      <4> QED BY <4>1, Zenon DEF gone, Compacted
    <3> HIDE DEF rest
    <3>4. SortedEntries(rest)
      <4>1. DOMAIN rest = 1 .. Len(rest) /\ \A i \in 1 .. Len(rest) : rest[i] \in VEntry
        BY <3>3, EntryFacts
      <4> QED BY <4>1, <3>3 DEF SortedEntries
    <3> QED BY <3>3, <3>4
  <2>4. /\ ToSet(jobs) \subseteq Job /\ Job \cap {NoJob} = {} /\ ended \subseteq Job
        /\ \A j \in Job : object[j] \in JobObject
    <3>1. ToSet(jobs) \subseteq Job /\ \A j \in Job : object[j] \in JobObject
      BY <1>1, JobsMapLemma DEF JobVector
    <3>2. Job \cap {NoJob} = {} /\ ended \subseteq Job
      BY JobAssumption
    <3> QED BY <3>1, <3>2
  <2>5. /\ M \in [JobId -> Job \cup {NoJob}]
        /\ \A j \in ToSet(jobs) : object[j].jobID \in JobId /\ M[object[j].jobID] = j
        /\ \A i \in JobId : M[i] # NoJob => M[i] \in ToSet(jobs) /\ object[M[i]].jobID = i
    BY <1>1, JobsMapLemma
  \* The jobs that have ended
  <2>6. /\ EndedIds(T) = {i \in JobId : M[i] # NoJob /\ M[i] \in ended}
        /\ {M[i] : i \in EndedIds(T)} = Dropped(c)
        /\ EndedIds(T) = {} <=> Dropped(c) = {}
    <3> HIDE DEF T, M
    <3>1. \A i \in JobId : M[i] # NoJob => (~Available(T, M[i]) <=> M[i] \in ended)
      BY <2>4, <2>5, <1>2 DEF Available
    <3>2. EndedIds(T) = {i \in JobId : M[i] # NoJob /\ M[i] \in ended}
      BY <3>1, <1>2 DEF EndedIds
    <3> HIDE DEF c, ended
    <3>3. {M[i] : i \in EndedIds(T)} \subseteq Dropped(c)
      BY <3>2, <2>2, <2>5
    <3>4. \A j \in Dropped(c) : j # NoJob /\ object[j].jobID \in EndedIds(T) /\ M[object[j].jobID] = j
      <4> SUFFICES ASSUME NEW j \in Dropped(c)
                   PROVE  j # NoJob /\ object[j].jobID \in EndedIds(T) /\ M[object[j].jobID] = j
        OBVIOUS
      <4>1. j \in ToSet(jobs) /\ j \in ended /\ j # NoJob
        BY <2>2, <2>4
      <4> QED BY <4>1, <3>2, <2>5
    <3> QED BY <3>2, <3>3, <3>4
  <2> DEFINE M2 == [i \in JobId |-> IF i \in EndedIds(T) THEN NoJob ELSE M[i]]
             N2 == BatchedRemove(T)
  <2> HIDE DEF T, M, N, c, ended, kept, rest
  <2>7. /\ obj \in [Job -> JobObject]
        /\ \A j \in Job : j \notin Dropped(c) => obj[j] = object[j]
        /\ \A j \in ToSet(kept) : j \in Job /\ j \notin Dropped(c) /\ j \in ToSet(jobs) /\ j \notin ended
    <3>1. ASSUME NEW x \in JobObject PROVE [x EXCEPT !.jobID = 0, !.disown = TRUE] \in JobObject
      <4> DEFINE y == [x EXCEPT !.jobID = 0]
      <4>1. [x EXCEPT !.jobID = 0, !.disown = TRUE] = [y EXCEPT !.disown = TRUE]
        BY Zenon
      <4>2. y \in JobObject
        BY JobAssumption DEF JobObject
      <4> HIDE DEF y
      <4>3. [y EXCEPT !.disown = TRUE] \in JobObject
        BY <4>2 DEF JobObject
      <4> QED BY <4>1, <4>3
    <3>2. \A j \in Job : obj[j] \in JobObject /\ (j \notin Dropped(c) => obj[j] = object[j])
      BY <3>1, <2>4
    <3>3. obj = [j \in Job |-> obj[j]]
      OBVIOUS
    <3> HIDE DEF obj
    <3> QED BY <3>2, <3>3, <2>2, <2>4
  <2> HIDE DEF obj
  <2>8. JobVector(obj, kept)
    <3>1. \A l \in 1 .. Len(kept) : kept[l] \in ToSet(kept)
      BY <2>2 DEF ToSet
    <3>2. \A l \in 1 .. Len(kept) : obj[kept[l]] = object[kept[l]] /\ object[kept[l]].jobID \in JobId
      BY <3>1, <2>5, <2>7
    <3> QED BY <3>2, <2>2, <2>7 DEF JobVector
  <2>9. JobsMap(obj, kept) = M2
    <3>1. M2 \in [JobId -> Job \cup {NoJob}] /\ \A i \in JobId : M2[i] = IF i \in EndedIds(T) THEN NoJob ELSE M[i]
      BY <2>5
    <3> HIDE DEF M2
    <3>2. ASSUME NEW j \in ToSet(kept) PROVE M2[obj[j].jobID] = j
      <4>1. j \in ToSet(jobs) /\ obj[j] = object[j] /\ j \notin ended
        BY <2>7
      <4>2. object[j].jobID \in JobId /\ M[object[j].jobID] = j
        BY <4>1, <2>5
      <4>3. object[j].jobID \notin EndedIds(T)
        BY <4>1, <4>2, <2>6
      <4> QED BY <4>1, <4>2, <4>3, <3>1
    <3>3. ASSUME NEW i \in JobId, M2[i] # NoJob PROVE M2[i] \in ToSet(kept) /\ obj[M2[i]].jobID = i
      <4>1. M2[i] = M[i] /\ i \notin EndedIds(T) /\ M[i] # NoJob
        BY <3>1, <3>3
      <4>2. M[i] \notin ended /\ M[i] \in ToSet(jobs) /\ object[M[i]].jobID = i
        BY <4>1, <2>5, <2>6
      <4>3. M[i] \in ToSet(kept)
        BY <4>2, <2>2
      <4> QED BY <4>1, <4>2, <4>3, <2>7
    <3> QED BY <3>1, <3>2, <3>3, <2>8, JobsMapIs
  <2>10. EntriesMap(rest) = N2
    <3>1. /\ \A e \in ToSet(entries) : N[e.pid] = [jobId |-> e.jobId, offset |-> e.offset]
          /\ \A p \in Pid : (\A e \in ToSet(entries) : e.pid # p) => N[p] = NoEntry
      BY <1>1, EntriesMapLemma DEF N
    <3>2. N2 = [p \in Pid |-> N2[p]] /\ \A p \in Pid : N2[p] = IF N[p].jobId = 0 THEN NoEntry ELSE N[p]
      BY <1>2 DEF BatchedRemove, IsDeleted
    <3> HIDE DEF N2
    <3>3. \A e \in ToSet(entries) : e \in VEntry /\ e.pid \in Pid
      BY <1>1, EntryFacts DEF ToSet
    <3>4. ASSUME NEW e \in ToSet(rest) PROVE N2[e.pid] = [jobId |-> e.jobId, offset |-> e.offset]
      <4>1. e \in ToSet(entries) /\ e.jobId # 0
        BY <2>3
      <4>2. N[e.pid].jobId = e.jobId /\ N[e.pid] = [jobId |-> e.jobId, offset |-> e.offset] /\ e.pid \in Pid
        BY <4>1, <3>1, <3>3
      <4> QED BY <4>1, <4>2, <3>2
    <3>5. ASSUME NEW p \in Pid, \A e \in ToSet(rest) : e.pid # p PROVE N2[p] = NoEntry
      <4>1. CASE \A e \in ToSet(entries) : e.pid # p
        <5>1. N[p] = NoEntry
          BY <4>1, <3>1
        <5> QED BY <5>1, <3>2
      <4>2. CASE \E e \in ToSet(entries) : e.pid = p
        <5>1. PICK e \in ToSet(entries) : e.pid = p
          BY <4>2
        <5>2. e \notin ToSet(rest)
          BY <5>1, <3>5
        <5>3. e.jobId = 0
          BY <5>2, <2>3
        <5>4. N[p].jobId = 0
          <6>1. N[p] = [jobId |-> e.jobId, offset |-> e.offset]
            BY <5>1, <3>1
          <6>2. [jobId |-> e.jobId, offset |-> e.offset].jobId = e.jobId
            BY Zenon
          <6> QED BY <6>1, <6>2, <5>3, Zenon
        <5> QED BY <5>4, <3>2
      <4> QED BY <4>1, <4>2
    <3>6. /\ rest \in Seq(VEntry) /\ SortedEntries(rest) /\ N2 = [p \in Pid |-> N2[p]]
          /\ \A e \in ToSet(rest) : N2[e.pid] = [jobId |-> e.jobId, offset |-> e.offset]
          /\ \A p \in Pid : (\A e \in ToSet(rest) : e.pid # p) => N2[p] = NoEntry
      BY <3>2, <3>4, <3>5, <2>3
    <3> QED BY ONLY <3>6, EntriesMapIs
  \* The new latest job
  <2>11. last = (IF EndedIds(T) = {} THEN latest ELSE NewLatest(T)) /\ last \in Job \cup {NoJob}
    <3> DEFINE candidate == {i \in JobId \ EndedIds(T) : FindJob(T, i) # NoJob}
    <3>1. \A i \in JobId : FindJob(T, i) # NoJob <=> M[i] # NoJob /\ ~object[M[i]].disown
      BY <1>2 DEF FindJob
    <3>2. NewLatest(T) = CASE latest = NoJob -> NoJob
                           [] latest # NoJob /\ Available(T, latest) -> latest
                           [] OTHER -> IF candidate = {} THEN NoJob ELSE M[Max(candidate)]
      BY <1>2 DEF NewLatest
    <3>3. latest # NoJob => (Available(T, latest) <=> latest \notin ended)
      BY <1>1, <1>2 DEF Available, ended
    <3>4. CASE Dropped(c) = {}
      BY <3>4, <2>6, <1>1
    <3>5. CASE Dropped(c) # {} /\ latest \notin ended
      <4>1. NewLatest(T) = latest
        <5> HIDE DEF candidate
        <5> QED BY <3>2, <3>3, <3>5
      <4> QED BY <4>1, <3>5, <2>6, <1>1
    <3>6. CASE Dropped(c) # {} /\ latest \in ended
      <4> DEFINE ck == Len(kept)
      <4>1. NewLatest(T) = IF candidate = {} THEN NoJob ELSE M[Max(candidate)]
        <5>1. latest # NoJob /\ ~Available(T, latest)
          BY <3>3, <3>6, <2>4
        <5> HIDE DEF candidate
        <5> QED BY <3>2, <5>1
      <4>2. DOMAIN kept = 1 .. ck /\ ck \in Nat /\ \A l \in 1 .. ck : kept[l] \in ToSet(kept)
        BY <2>2 DEF ToSet
      <4>3. \A l \in 1 .. ck : /\ kept[l] \in Job /\ kept[l] # NoJob
                               /\ object[kept[l]].jobID \in JobId \ EndedIds(T)
                               /\ M[object[kept[l]].jobID] = kept[l]
        <5> SUFFICES ASSUME NEW j \in ToSet(kept)
                     PROVE  j \in Job /\ j # NoJob /\ object[j].jobID \in JobId \ EndedIds(T)
                            /\ M[object[j].jobID] = j
          BY <4>2
        <5>1. j \in Job /\ j # NoJob /\ j \in ToSet(jobs) /\ j \notin ended
          BY <2>4, <2>7
        <5> QED BY <5>1, <2>5, <2>6
      <4>4. \A l \in owned : object[kept[l]].jobID \in candidate
        <5> SUFFICES ASSUME NEW l \in owned PROVE object[kept[l]].jobID \in candidate
          OBVIOUS
        <5>1. l \in 1 .. ck /\ ~object[kept[l]].disown
          BY <4>2
        <5> QED BY <5>1, <4>3, <3>1
      <4>5. \A i \in candidate : \E l \in owned : M[i] = kept[l] /\ object[kept[l]].jobID = i
        <5> SUFFICES ASSUME NEW i \in candidate
                     PROVE  \E l \in owned : M[i] = kept[l] /\ object[kept[l]].jobID = i
          OBVIOUS
        <5>1. i \in JobId /\ i \notin EndedIds(T) /\ M[i] # NoJob /\ ~object[M[i]].disown
          BY <3>1
        <5>2. M[i] \in ToSet(jobs) /\ object[M[i]].jobID = i /\ M[i] \notin ended
          BY <5>1, <2>5, <2>6
        <5>3. M[i] \in ToSet(kept)
          BY <5>2, <2>2
        <5>4. PICK l \in DOMAIN kept : M[i] = kept[l]
          BY <5>3 DEF ToSet
        <5> QED BY <5>1, <5>2, <5>4
      <4>6. CASE owned = {}
        <5>1. candidate = {}
          BY <4>5, <4>6
        <5> HIDE DEF candidate, owned
        <5>2. last = NoJob
          BY <3>6, <4>6
        <5> QED BY <4>1, <5>1, <5>2, <3>6, <2>6
      <4>7. CASE owned # {}
        <5>1. owned \in SUBSET (0 .. ck)
          BY <4>2
        <5>2. Max(owned) \in owned /\ \A l \in owned : Max(owned) >= l
          BY <5>1, <4>2, <4>7, MaxLemma
        <5>3. candidate \in SUBSET (0 .. JobLimit) /\ candidate # {} /\ JobLimit \in Nat
          BY <4>4, <4>7, JobAssumption DEF JobId
        <5>4. Max(candidate) \in candidate /\ \A i \in candidate : Max(candidate) >= i
          BY <5>3, MaxLemma
        <5>5. PICK l \in owned : M[Max(candidate)] = kept[l] /\ object[kept[l]].jobID = Max(candidate)
          BY <4>5, <5>4
        <5> DEFINE m == Max(owned)
                   id(i) == object[kept[i]].jobID
        <5>6. l \in 1 .. ck /\ m \in 1 .. ck /\ l =< m /\ id(l) >= id(m) /\ id(l) \in Nat /\ id(m) \in Nat
          <6>1. l \in 1 .. ck /\ m \in 1 .. ck /\ l =< m
            BY <4>2, <5>2
          <6>2. id(m) \in candidate /\ id(l) = Max(candidate)
            BY <4>4, <5>2, <5>5
          <6>3. \A i \in candidate : i \in Nat
            BY <5>3
          <6> HIDE DEF candidate, owned, m, id
          <6> QED BY <6>1, <6>2, <6>3, <5>4
        <5>7. l = m
          <6>1. l < m => id(l) < id(m)
            BY <5>6, <2>2
          <6> HIDE DEF m, id
          <6> QED BY <6>1, <5>6
        <5>8. last = kept[m] /\ kept[m] \in Job
          <6>1. kept[m] \in Job
            BY <4>3, <5>6
          <6> HIDE DEF owned
          <6>2. last = kept[m]
            BY <3>6, <4>7
          <6> QED BY <6>1, <6>2
        <5> HIDE DEF candidate, owned, m, last
        <5> QED BY <4>1, <5>3, <5>5, <5>7, <5>8, <3>6, <2>6
      <4> QED BY <4>6, <4>7
    <3> QED BY <3>4, <3>5, <3>6
  <2> HIDE DEF last, owned
  <2>12. /\ JobVector(object', kept) /\ JobsMap(object', kept) = M2
         /\ object' = [j \in Job |-> IF j \in refs \/ last = j \/ \E i \in JobId : M2[i] = j
                                     THEN obj[j] ELSE Unused]
    BY <2>1, <2>8, <2>9, <2>11, DeleteLemma
  <2>13. VInv'
    BY <2>1, <2>3, <2>11, <2>12 DEF VInv
  <2>14. R = [job |-> obj, jobs |-> M2, entries |-> N2, deleted |-> 0, latest |-> last]
    <3>1. {T.jobs[i] : i \in EndedIds(T)} = Dropped(c)
      BY <2>6, <1>2
    <3>2. obj = [j \in Job |-> IF j \in {T.jobs[i] : i \in EndedIds(T)}
                               THEN [T.job[j] EXCEPT !.jobID = 0, !.disown = TRUE]
                               ELSE T.job[j]]
      BY <3>1, <1>2 DEF obj
    <3> HIDE DEF N2
    <3>3. R = [job |-> [j \in Job |-> IF j \in {T.jobs[i] : i \in EndedIds(T)}
                                      THEN [T.job[j] EXCEPT !.jobID = 0, !.disown = TRUE]
                                      ELSE T.job[j]],
               jobs |-> [i \in JobId |-> IF i \in EndedIds(T) THEN NoJob ELSE T.jobs[i]],
               entries |-> BatchedRemove(T),
               deleted |-> 0,
               latest |-> IF EndedIds(T) = {} THEN T.latest ELSE NewLatest(T)]
      BY <1>2, <1>5, Zenon DEF RemoveTerminatedJobs
    <3> QED BY <3>2, <3>3, <2>11, <1>2, Zenon DEF N2, M2
  <2> HIDE DEF R, M2, N2
  <2>15. Collected(R, refs) = [job |-> object', jobs |-> M2, entries |-> N2, deleted |-> 0, latest |-> last]
    <3>1. R.job = obj /\ R.jobs = M2 /\ R.latest = last
          /\ [R EXCEPT !.job = object'] = [job |-> object', jobs |-> M2, entries |-> N2, deleted |-> 0,
                                           latest |-> last]
      BY <2>14
    <3>2. Collected(R, refs) = [R EXCEPT !.job = object']
      BY <3>1, <2>12 DEF Collected
    <3> QED BY <3>1, <3>2
  <2> QED BY <2>1, <2>10, <2>12, <2>13, <2>15, <1>2
<1> QED BY <1>1, <1>4, <1>5

LEMMA VDisownLemma ==
  ASSUME VInv, NEW j \in Job, VDisown(j)
  PROVE  VInv' /\ Maps!Disown(j)
<1> DEFINE T == AbstractTable
           M == JobsMap(object, jobs)
           N == EntriesMap(entries)
<1>1. /\ JobVector(object, jobs) /\ entries \in Seq(VEntry) /\ SortedEntries(entries)
      /\ deletedCount \in Nat /\ latest \in Job \cup {NoJob}
  BY DEF VInv
<1>2. /\ object' = [object EXCEPT ![j].disown = TRUE]
      /\ UNCHANGED <<jobs, entries, deletedCount, latest>>
  BY DEF VDisown
<1>3. object' \in [Job -> JobObject] /\ \A k \in Job : object'[k].jobID = object[k].jobID
  <2>1. object \in [Job -> JobObject]
    BY <1>1 DEF JobVector
  <2>2. \A x \in JobObject : [x EXCEPT !.disown = TRUE] \in JobObject /\ [x EXCEPT !.disown = TRUE].jobID = x.jobID
    BY DEF JobObject
  <2> QED BY <2>1, <2>2, <1>2
<1>4. JobVector(object', jobs) /\ JobsMap(object', jobs) = M
  <2>1. \A k \in ToSet(jobs) : object'[k].jobID = object[k].jobID
    BY <1>1, <1>3, JobsMapLemma
  <2> QED BY <2>1, <1>1, <1>3, SameIdsLemma
<1>5. VInv'
  BY <1>1, <1>2, <1>4 DEF VInv
<1>6. /\ T = [job |-> object, jobs |-> M, entries |-> N, deleted |-> deletedCount, latest |-> latest]
      /\ T' = [job |-> object', jobs |-> M, entries |-> N, deleted |-> deletedCount, latest |-> latest]
  BY <1>2, <1>4 DEF AbstractTable
<1> HIDE DEF T, M, N
<1>7. T' = [T EXCEPT !.job[j].disown = TRUE]
  <2>1. [T EXCEPT !.job[j].disown = TRUE] = [T EXCEPT !.job = object']
    BY <1>2, <1>6
  <2>2. [T EXCEPT !.job = object'] = [job |-> object', jobs |-> M, entries |-> N,
                                      deleted |-> deletedCount, latest |-> latest]
    BY <1>6
  <2> QED BY <2>1, <2>2, <1>6
<1> QED BY <1>5, <1>7, Zenon DEF Maps!Disown, T

LEMMA VDetachLemma ==
  ASSUME VInv, NEW refs, VDetach(refs)
  PROVE  VInv' /\ Maps!Detach(refs)
<1> DEFINE T == AbstractTable
           R == DetachAll(T)
           M == JobsMap(object, jobs)
           obj == [j \in Job |-> IF Contains(jobs, j)
                                 THEN [object[j] EXCEPT !.jobID = 0, !.disown = TRUE, !.state = "UNCONTROLLED"]
                                 ELSE object[j]]
           noJobs == [i \in JobId |-> NoJob]
           noEntries == [p \in Pid |-> NoEntry]
<1>1. JobVector(object, jobs)
  BY DEF VInv
<1>2. /\ object' = Delete(obj, <<>>, NoJob, refs)
      /\ jobs' = <<>> /\ entries' = <<>> /\ deletedCount' = 0 /\ latest' = NoJob
  BY DEF VDetach
<1>3. /\ T.job = object /\ T.jobs = M
      /\ T' = [job |-> object', jobs |-> JobsMap(object', jobs'), entries |-> EntriesMap(entries'),
               deleted |-> deletedCount', latest |-> latest']
  BY DEF AbstractTable
<1>4. obj \in [Job -> JobObject]
  <2>1. ASSUME NEW x \in JobObject
        PROVE  [x EXCEPT !.jobID = 0, !.disown = TRUE, !.state = "UNCONTROLLED"] \in JobObject
    <3> DEFINE y == [x EXCEPT !.jobID = 0]
               z == [y EXCEPT !.disown = TRUE]
    <3>1. [x EXCEPT !.jobID = 0, !.disown = TRUE, !.state = "UNCONTROLLED"] = [z EXCEPT !.state = "UNCONTROLLED"]
      BY Zenon
    <3>2. y \in JobObject
      BY JobAssumption DEF JobObject
    <3> HIDE DEF y
    <3>3. z \in JobObject
      BY <3>2 DEF JobObject
    <3> HIDE DEF z
    <3>4. [z EXCEPT !.state = "UNCONTROLLED"] \in JobObject
      BY <3>3 DEF JobObject
    <3> QED BY <3>1, <3>4
  <2>2. \A j \in Job : object[j] \in JobObject
    BY <1>1 DEF JobVector
  <2>3. \A j \in Job : obj[j] \in JobObject
    BY <2>1, <2>2
  <2>4. obj = [j \in Job |-> obj[j]]
    OBVIOUS
  <2> HIDE DEF obj
  <2> QED BY <2>3, <2>4
<1>5. JobVector(obj, <<>>)
  <2>1. <<>> \in Seq(Job) /\ Len(<<>>) = 0 /\ 1 .. 0 = {}
    OBVIOUS
  <2> HIDE DEF obj
  <2> QED BY <2>1, <1>4 DEF JobVector
<1>6. JobsMap(obj, <<>>) = noJobs
  <2>1. noJobs \in [JobId -> Job \cup {NoJob}] /\ \A i \in JobId : noJobs[i] = NoJob
    OBVIOUS
  <2>2. ToSet(<<>>) = {}
    BY DEF ToSet
  <2> HIDE DEF obj, noJobs
  <2> QED BY <2>1, <2>2, <1>5, JobsMapIs
<1>7. <<>> \in Seq(VEntry) /\ SortedEntries(<<>>) /\ EntriesMap(<<>>) = noEntries
  <2>1. <<>> \in Seq(VEntry) /\ SortedEntries(<<>>)
    BY DEF SortedEntries
  <2>2. ToSet(<<>>) = {}
    BY DEF ToSet
  <2>3. noEntries = [p \in Pid |-> noEntries[p]] /\ \A p \in Pid : noEntries[p] = NoEntry
    OBVIOUS
  <2> HIDE DEF noEntries
  <2> QED BY <2>1, <2>2, <2>3, EntriesMapIs
<1>8. {T.jobs[i] : i \in JobId} \ {NoJob} = {j \in Job : Contains(jobs, j)}
  <2>1. \A j \in Job : (\E i \in JobId : M[i] = j) <=> j \in ToSet(jobs)
    BY <1>1, AttachedLemma
  <2>2. \A j : Contains(jobs, j) <=> j \in ToSet(jobs)
    BY <1>1, JobVectorFacts DEF Contains
  <2>3. \A i \in JobId : M[i] \in Job \cup {NoJob}
    BY <1>1, JobsMapLemma
  <2> HIDE DEF T, M
  <2> QED BY <2>1, <2>2, <2>3, <1>3, JobAssumption
<1>9. R = [job |-> obj, jobs |-> noJobs, entries |-> noEntries, deleted |-> 0, latest |-> NoJob]
  <2> HIDE DEF T
  <2>1. obj = [j \in Job |-> IF j \in {T.jobs[i] : i \in JobId} \ {NoJob}
                             THEN [T.job[j] EXCEPT !.jobID = 0, !.disown = TRUE, !.state = "UNCONTROLLED"]
                             ELSE T.job[j]]
    BY <1>3, <1>8
  <2> HIDE DEF obj
  <2>2. R = [job |-> [j \in Job |-> IF j \in {T.jobs[i] : i \in JobId} \ {NoJob}
                             THEN [T.job[j] EXCEPT !.jobID = 0, !.disown = TRUE, !.state = "UNCONTROLLED"]
                             ELSE T.job[j]],
             jobs |-> noJobs, entries |-> noEntries, deleted |-> 0, latest |-> NoJob]
    BY Zenon DEF DetachAll
  <2> QED BY <2>1, <2>2, Zenon
<1> HIDE DEF obj, R, T
<1>10. /\ JobVector(object', <<>>) /\ JobsMap(object', <<>>) = noJobs
       /\ object' = [j \in Job |-> IF j \in refs \/ NoJob = j \/ \E i \in JobId : noJobs[i] = j
                                   THEN obj[j] ELSE Unused]
  <2> HIDE DEF noJobs
  <2> QED BY <1>2, <1>5, <1>6, DeleteLemma, SMTT(30)
<1>11. VInv'
  BY <1>2, <1>7, <1>10 DEF VInv
<1>12. Collected(R, refs) = [job |-> object', jobs |-> noJobs, entries |-> noEntries, deleted |-> 0,
                             latest |-> NoJob]
  <2> HIDE DEF noJobs, noEntries
  <2>1. R.job = obj /\ R.jobs = noJobs /\ R.latest = NoJob
        /\ [R EXCEPT !.job = object'] = [job |-> object', jobs |-> noJobs, entries |-> noEntries, deleted |-> 0,
                                         latest |-> NoJob]
    BY <1>9
  <2>2. Collected(R, refs) = [R EXCEPT !.job = object']
    BY <2>1, <1>10 DEF Collected
  <2> QED BY <2>1, <2>2
<1>13. T' = Collected(R, refs)
  BY <1>2, <1>3, <1>7, <1>10, <1>12
<1> QED BY <1>11, <1>13, SameOperators, Zenon DEF Maps!Detach, R, T

-----------------------------------------------------------------------------
(* The refinement *)

LEMMA VInitLemma ==
  ASSUME Init
  PROVE  VInv /\ Maps!Init
<1>1. /\ KernelInit /\ object = [j \in Job |-> Unused] /\ jobs = <<>> /\ entries = <<>>
      /\ deletedCount = 0 /\ latest = NoJob
  BY DEF Init
<1>2. JobVector(object, <<>>)
  <2>1. <<>> \in Seq(Job) /\ Len(<<>>) = 0 /\ 1 .. 0 = {}
    OBVIOUS
  <2>2. Unused \in JobObject
    BY JobAssumption DEF Unused, JobObject
  <2>3. object \in [Job -> JobObject]
    BY <2>2, <1>1
  <2> QED BY <2>1, <2>3 DEF JobVector
<1> DEFINE noJobs == [i \in JobId |-> NoJob]
           noEntries == [p \in Pid |-> NoEntry]
<1>3. ToSet(<<>>) = {}
  BY DEF ToSet
<1>4. JobsMap(object, <<>>) = noJobs
  <2>1. noJobs \in [JobId -> Job \cup {NoJob}] /\ \A i \in JobId : noJobs[i] = NoJob
    OBVIOUS
  <2> HIDE DEF noJobs
  <2> QED BY <2>1, <1>2, <1>3, JobsMapIs
<1>5. <<>> \in Seq(VEntry) /\ SortedEntries(<<>>) /\ EntriesMap(<<>>) = noEntries
  <2>1. <<>> \in Seq(VEntry) /\ SortedEntries(<<>>)
    BY DEF SortedEntries
  <2>2. noEntries = [p \in Pid |-> noEntries[p]] /\ \A p \in Pid : noEntries[p] = NoEntry
    OBVIOUS
  <2> HIDE DEF noEntries
  <2> QED BY <2>1, <2>2, <1>3, EntriesMapIs
<1>6. VInv
  BY <1>1, <1>2, <1>5 DEF VInv
<1>7. AbstractTable = EmptyTable
  <2> HIDE DEF noJobs, noEntries
  <2>1. AbstractTable = [job |-> [j \in Job |-> Unused], jobs |-> noJobs, entries |-> noEntries,
                         deleted |-> 0, latest |-> NoJob]
    BY <1>1, <1>4, <1>5 DEF AbstractTable
  <2> QED BY <2>1, Zenon DEF EmptyTable, noJobs, noEntries
<1> QED BY <1>1, <1>6, <1>7, SameOperators, Zenon DEF Maps!Init

LEMMA VNextLemma ==
  ASSUME VInv, [Next]_<<kernelVars, vectorVars>>
  PROVE  VInv' /\ [Maps!Next]_(Maps!specVars)
<1>1. CASE UNCHANGED <<kernelVars, vectorVars>>
  <2>1. VInv'
    BY <1>1 DEF VInv, vectorVars
  <2>2. UNCHANGED Maps!specVars
    BY <1>1 DEF vectorVars, kernelVars, Maps!specVars, Maps!kernelVars, AbstractTable
  <2> QED BY <2>1, <2>2
<1>2. CASE Next
  <2>1. UNCHANGED Maps!kernelVars
    BY <1>2 DEF Next, kernelVars, Maps!kernelVars
  <2> SUFFICES VInv' /\ ( \/ \E j \in Job, ps \in UNION {[1 .. n -> Pid] : n \in Maps!Offset}, d \in BOOLEAN :
                                 Maps!IsInjective(ps) /\ Maps!AttachNew(j, ps, d)
                          \/ \E ret \in Maps!Results : Maps!Update(ret)
                          \/ \E refs \in {{}, Job} : Maps!Remove(refs) \/ Maps!Detach(refs)
                          \/ \E j \in Job : Maps!Disown(j) )
    BY <2>1, Zenon DEF Maps!Next
  <2>2. ASSUME NEW j \in Job, NEW n \in Offset, NEW ps \in [1 .. n -> Pid], NEW d \in BOOLEAN,
               IsInjective(ps), VAttach(j, ps, d)
        PROVE  VInv' /\ Maps!IsInjective(ps) /\ Maps!AttachNew(j, ps, d) /\ n \in Maps!Offset
    <3>1. VInv' /\ Maps!AttachNew(j, ps, d)
      BY <2>2, VAttachLemma
    <3>2. Maps!IsInjective(ps)
      BY <2>2, Zenon DEF Maps!IsInjective, IsInjective
    <3>3. n \in Maps!Offset
      BY SameOperators, Zenon
    <3> QED BY <3>1, <3>2, <3>3
  <2>3. ASSUME NEW p \in Pid, NEW kind \in {"exited", "continued"},
               VUpdate([pid |-> p, kind |-> kind, status |-> EXIT_OK])
        PROVE  VInv' /\ \E ret \in Maps!Results : Maps!Update(ret)
    <3> DEFINE ret == [pid |-> p, kind |-> kind, status |-> EXIT_OK]
    <3>1. ret \in Maps!Results
      <4>1. Maps!EXIT_OK = EXIT_OK
        BY SameOperators, Zenon
      <4> QED BY <4>1 DEF Maps!Results
    <3> HIDE DEF ret
    <3>2. VUpdate(ret)
      BY <2>3 DEF ret
    <3> QED BY <3>1, <3>2, VUpdateLemma, Zenon
  <2>4. ASSUME NEW refs \in {{}, Job}, VRemove(refs) \/ VDetach(refs)
        PROVE  VInv' /\ (Maps!Remove(refs) \/ Maps!Detach(refs))
    BY <2>4, VRemoveLemma, VDetachLemma, Zenon
  <2>5. ASSUME NEW j \in Job, VDisown(j)
        PROVE  VInv' /\ Maps!Disown(j)
    BY <2>5, VDisownLemma, Zenon
  <2>6. CASE \E j \in Job, ps \in UNION {[1 .. n -> Pid] : n \in Offset}, d \in BOOLEAN :
               IsInjective(ps) /\ VAttach(j, ps, d)
    <3>1. PICK j \in Job, ps \in UNION {[1 .. n -> Pid] : n \in Offset}, d \in BOOLEAN :
            IsInjective(ps) /\ VAttach(j, ps, d)
      BY <2>6
    <3>2. PICK n \in Offset : ps \in [1 .. n -> Pid]
      OBVIOUS
    <3>3. VInv' /\ Maps!IsInjective(ps) /\ Maps!AttachNew(j, ps, d) /\ n \in Maps!Offset
      BY <2>2, <3>1, <3>2, Zenon
    <3>4. ps \in UNION {[1 .. m -> Pid] : m \in Maps!Offset}
      BY <3>2, <3>3
    <3> QED BY <3>3, <3>4, Zenon
  <2>7. CASE \E p \in Pid, kind \in {"exited", "continued"} :
               VUpdate([pid |-> p, kind |-> kind, status |-> EXIT_OK])
    BY <2>3, <2>7, Zenon
  <2>8. CASE \E refs \in {{}, Job} : VRemove(refs) \/ VDetach(refs)
    BY <2>4, <2>8, Zenon
  <2>9. CASE \E j \in Job : VDisown(j)
    BY <2>5, <2>9, Zenon
  <2> QED BY <1>2, <2>6, <2>7, <2>8, <2>9, Zenon DEF Next
<1> QED BY <1>1, <1>2

(* The two vectors stay in the order the binary searches need: the jobs by their ids, every
   id in range, the entries by their pids (addProc, attach, batchedRemove and
   removeTerminatedJobs of src/src/job.cpp). *)
THEOREM SortedTheorem == Spec => []VInv
<1>1. Init => VInv
  BY VInitLemma
<1>2. VInv /\ [Next]_<<kernelVars, vectorVars>> => VInv'
  BY VNextLemma
<1> QED BY <1>1, <1>2, PTL DEF Spec

(* ImplementsMaps: the sorted vectors of JobTable and ProcTable, with their binary searches,
   their insertions and their swapping removals, do what JobTableSpec says of two maps: the
   initial states are initial, every step is a step of the maps or changes nothing there. *)
THEOREM Refinement == Spec => ImplementsMaps
<1>1. Init => VInv /\ Maps!Init
  BY VInitLemma
<1>2. VInv /\ [Next]_<<kernelVars, vectorVars>> => VInv' /\ [Maps!Next]_(Maps!specVars)
  BY VNextLemma
<1> QED BY <1>1, <1>2, SortedTheorem, PTL DEF Spec, ImplementsMaps, Maps!Spec
=============================================================================
