-------------------------- MODULE RedirectionProofs --------------------------
(***************************************************************************)
(* Who owns a descriptor, for descriptor tables of any size and any        *)
(* redirections: every descriptor above the standard ones has one owner,   *)
(* programs inherit only what was passed to them, and the end of a         *)
(* command puts back what its redirections replaced.                       *)
(***************************************************************************)
EXTENDS Redirection, SequenceTheorems, FiniteSetTheorems, WellFoundedInduction, TLAPS

High == Fd \ Std

-----------------------------------------------------------------------------
(* Induction over the natural numbers, and functions defined by it *)

Less == {ss \in Nat \X Nat : ss[1] < ss[2]}

\* A set of natural numbers that is not empty has a least element.
LEMMA LeastLemma ==
  ASSUME NEW S, S \subseteq Nat, S # {}
  PROVE  \E n \in S : \A m \in S : n <= m
<1>1. IsWellFoundedOn(Less, Nat)
  BY NatLessThanWellFounded, Zenon DEF OpToRel, Less
<1>2. PICK n \in S : \A m \in S : ~(<<m, n>> \in Less)
  BY <1>1, WFMin
<1>3. ASSUME NEW m \in S PROVE n <= m
  <2>1. n \in Nat /\ m \in Nat /\ ~(m < n)
    BY <1>2 DEF Less
  <2> QED BY <2>1
<1> QED BY <1>3

\* A set that holds 0 and, with a number, the next one holds them all.
LEMMA SetInduction ==
  ASSUME NEW S, 0 \in S, \A n \in Nat : n \in S => n + 1 \in S
  PROVE  Nat \subseteq S
<1> SUFFICES ASSUME ~(Nat \subseteq S) PROVE FALSE
  OBVIOUS
<1> DEFINE T == {n \in Nat : n \notin S}
<1>1. T \subseteq Nat /\ T # {}
  OBVIOUS
<1> HIDE DEF T
<1>2. PICK x \in T : \A y \in T : x <= y
  BY <1>1, LeastLemma
<1>3. x \in Nat /\ x \notin S
  BY <1>2 DEF T
<1>4. x - 1 \in Nat /\ x - 1 < x /\ x - 1 + 1 = x
  BY <1>3
<1>5. x - 1 \in T
  BY <1>3, <1>4 DEF T
<1> QED BY <1>2, <1>4, <1>5

\* f begins with `first' and goes on with `step'.
Recursive(f, S, n, first, step) ==
  f \in [0 .. n -> S] /\ f[0] = first /\ \A i \in 1 .. n : f[i] = step[<<f[i - 1], i>>]

\* There is such a function.
LEMMA RecursionLemma ==
  ASSUME NEW S, NEW n \in Nat, NEW first \in S, NEW step \in [S \X Nat -> S]
  PROVE  \E f : Recursive(f, S, n, first, step)
<1> DEFINE Good == {m \in Nat : \E f \in [0 .. m -> S] :
                                  f[0] = first /\ \A i \in 1 .. m : f[i] = step[<<f[i - 1], i>>]}
<1>1. 0 \in Good
  <2> DEFINE f == [i \in 0 .. 0 |-> first]
  <2>1. f \in [0 .. 0 -> S] /\ f[0] = first /\ \A i \in 1 .. 0 : f[i] = step[<<f[i - 1], i>>]
    OBVIOUS
  <2> HIDE DEF f
  <2> QED BY <2>1
<1>2. ASSUME NEW m \in Nat, m \in Good PROVE m + 1 \in Good
  <2>1. PICK f \in [0 .. m -> S] : f[0] = first /\ \A i \in 1 .. m : f[i] = step[<<f[i - 1], i>>]
    BY <1>2
  <2> DEFINE g == [i \in 0 .. m + 1 |-> IF i = m + 1 THEN step[<<f[m], m + 1>>] ELSE f[i]]
  <2> HIDE DEF Good
  <2>2. step[<<f[m], m + 1>>] \in S
    OBVIOUS
  <2>3. g \in [0 .. m + 1 -> S]
    BY <2>2
  <2>4. g[0] = first
    BY <2>1
  <2>5. ASSUME NEW i \in 1 .. m + 1 PROVE g[i] = step[<<g[i - 1], i>>]
    <3>1. CASE i = m + 1
      <4>1. m + 1 \in 0 .. m + 1 /\ m \in 0 .. m + 1 /\ m # m + 1 /\ i - 1 = m
        BY <3>1
      <4>2. g[m + 1] = step[<<f[m], m + 1>>] /\ g[m] = f[m]
        BY <4>1
      <4> HIDE DEF g
      <4> QED BY <4>1, <4>2, <3>1
    <3>2. CASE i # m + 1
      <4>1. i \in 1 .. m /\ i \in 0 .. m + 1 /\ i - 1 \in 0 .. m + 1 /\ i # m + 1 /\ i - 1 # m + 1
        BY <3>2
      <4>2. g[i] = f[i] /\ g[i - 1] = f[i - 1]
        BY <4>1
      <4> HIDE DEF g
      <4> QED BY <4>1, <4>2, <2>1
    <3> QED BY <3>1, <3>2
  <2> HIDE DEF g
  <2> QED BY <2>3, <2>4, <2>5 DEF Good
<1> HIDE DEF Good
<1>3. Nat \subseteq Good
  BY <1>1, <1>2, SetInduction
<1> QED BY <1>3 DEF Good, Recursive

-----------------------------------------------------------------------------
(* The system calls *)

\* open and pipe give a descriptor that was free.
LEMMA LowestLemma ==
  ASSUME NEW t, t.at \in [Fd -> File \cup {Closed}]
  PROVE  IF Free(t) = {} THEN Lowest(t) = None
         ELSE Lowest(t) \in Fd /\ t.at[Lowest(t)] = Closed
<1>1. CASE Free(t) = {}
  BY <1>1 DEF Lowest
<1>2. CASE Free(t) # {}
  <2>1. Free(t) \subseteq Nat
    BY DescriptorAssumption DEF Free, Fd
  <2>2. \E f \in Free(t) : \A g \in Free(t) : f <= g
    BY <2>1, <1>2, LeastLemma
  <2>3. Lowest(t) \in Free(t)
    BY <1>2, <2>2 DEF Lowest
  <2> QED BY <1>2, <2>3 DEF Free
<1> QED BY <1>1, <1>2

\* u is what t has become by work that leaves the descriptors above the standard ones as
\* they were, but for those of ls, which are open now and which nobody will close.
Within(t, u, ls) ==
  /\ u \in Table /\ ls \subseteq Fd
  /\ \A f \in High : IF f \in ls THEN t.at[f] = Closed /\ u.at[f] # Closed ELSE u.at[f] = t.at[f]
  /\ u.keep \ Std \subseteq t.keep \cup ls

LEMMA WithinTwice ==
  ASSUME NEW t, NEW u, NEW v, NEW ls, NEW ms, Within(t, u, ls), Within(u, v, ms)
  PROVE  Within(t, v, ls \cup ms)
BY DEF Within, High

LEMMA WithinSelf ==
  ASSUME NEW t \in Table PROVE Within(t, t, {})
BY DEF Within, High, Table

LEMMA Dup2Lemma ==
  ASSUME NEW t \in Table, NEW f, NEW i \in Std
  PROVE  /\ Within(t, Dup2(t, f, i), {})
         /\ \A j \in Std : j # i => Dup2(t, f, i).at[j] = t.at[j]
         /\ IF IsOpen(t, f) THEN Dup2(t, f, i).at[i] = t.at[f] ELSE Dup2(t, f, i) = t
<1>1. Std \subseteq Fd
  BY DescriptorAssumption DEF Std, Fd
<1> QED BY <1>1 DEF Within, High, Dup2, Put, IsOpen, Table, Std

LEMMA CloseLemma ==
  ASSUME NEW t \in Table, NEW f
  PROVE  /\ Close(t, f) \in Table
         /\ \A g \in Fd : Close(t, f).at[g] = IF g = f THEN Closed ELSE t.at[g]
         /\ Close(t, f).keep \subseteq t.keep \ {f}
BY DEF Close, Put, Table

LEMMA CloseSetLemma ==
  ASSUME NEW t \in Table, NEW fs
  PROVE  /\ CloseSet(t, fs) \in Table
         /\ \A g \in Fd : CloseSet(t, fs).at[g] = IF g \in fs THEN Closed ELSE t.at[g]
         /\ CloseSet(t, fs).keep = t.keep \ fs
BY DEF CloseSet, Table

\* pipe(): both ends, which were free, or neither.
LEMMA PipeLemma ==
  ASSUME NEW t \in Table
  PROVE  LET p == Pipe(t) IN
         \/ p = [r |-> None, w |-> None, t |-> t]
         \/ /\ p.r \in Fd /\ p.w \in Fd /\ p.r # p.w
            /\ p.r = Lowest(t)
            /\ t.at[p.r] = Closed /\ t.at[p.w] = Closed
            /\ p.t \in Table
            /\ \A f \in Fd : p.t.at[f] = IF f \in {p.r, p.w} THEN "pipe" ELSE t.at[f]
            /\ p.t.keep = t.keep \cup {p.r, p.w}
<1> DEFINE r == Lowest(t)
           u == Put(t, r, "pipe", TRUE)
           w == Lowest(u)
<1>1. CASE r = None
  BY <1>1 DEF Pipe
<1>2. CASE r # None
  <2>1. r \in Fd /\ t.at[r] = Closed
    BY <1>2, LowestLemma DEF Table
  <2>2. u \in Table /\ u.at = [t.at EXCEPT ![r] = "pipe"] /\ u.keep = t.keep \cup {r}
    BY <2>1, RedirectionAssumption DEF Put, Table
  <2>3. CASE w = None
    BY <2>3, <1>2 DEF Pipe
  <2>4. CASE w # None
    <3>1. w \in Fd /\ u.at[w] = Closed
      BY <2>2, <2>4, LowestLemma DEF Table
    <3>2. "pipe" # Closed
      BY RedirectionAssumption, DescriptorAssumption
    <3>3. w # r /\ t.at[w] = Closed
      BY <2>1, <2>2, <3>1, <3>2 DEF Table
    <3> DEFINE v == Put(u, w, "pipe", TRUE)
    <3>4. v \in Table /\ v.at = [u.at EXCEPT ![w] = "pipe"] /\ v.keep = u.keep \cup {w}
      BY <2>2, <3>1, RedirectionAssumption DEF Put, Table
    <3>5. Pipe(t) = [r |-> r, w |-> w, t |-> v]
      BY <2>4, <1>2 DEF Pipe
    <3>8. Pipe(t).r = r /\ Pipe(t).w = w /\ Pipe(t).t = v
      BY <3>5
    <3> HIDE DEF r, u, w, v
    <3>6. \A f \in Fd : v.at[f] = IF f \in {r, w} THEN "pipe" ELSE t.at[f]
      BY <2>1, <2>2, <3>1, <3>3, <3>4 DEF Table
    <3>7. v.keep = t.keep \cup {r, w}
      BY <2>2, <3>4
    <3> QED BY <2>1, <3>1, <3>3, <3>4, <3>6, <3>7, <3>8 DEF r
  <2> QED BY <2>3, <2>4
<1> QED BY <1>1, <1>2

LEMMA DupFdLemma ==
  ASSUME NEW t \in Table, NEW f
  PROVE  LET d == DupFd(t, f) IN
         \/ d = [fd |-> None, t |-> t]
         \/ /\ IsOpen(t, f)
            /\ d.fd \in Fd /\ t.at[d.fd] = Closed
            /\ d.t \in Table
            /\ d.t.at = [t.at EXCEPT ![d.fd] = t.at[f]]
            /\ d.t.keep = t.keep \ {d.fd}
<1>1. CASE ~IsOpen(t, f) \/ Lowest(t) = None
  BY <1>1 DEF DupFd
<1>2. CASE IsOpen(t, f) /\ Lowest(t) # None
  <2>1. Lowest(t) \in Fd /\ t.at[Lowest(t)] = Closed
    BY <1>2, LowestLemma DEF Table
  <2>2. DupFd(t, f) = [fd |-> Lowest(t), t |-> Put(t, Lowest(t), t.at[f], FALSE)]
    BY <1>2 DEF DupFd
  <2> QED BY <1>2, <2>1, <2>2 DEF Put, Table, IsOpen
<1> QED BY <1>1, <1>2

-----------------------------------------------------------------------------
(* What an operation of a command leaves *)

\* A redirection a script writes, or a descriptor it passes.
Operation == RedirArg \cup ({"NOP"} \X Object)

\* What the operation leaves of t, with the descriptors it loses.
Leaves(t, q) ==
  /\ q \in [ok : BOOLEAN, t : Table, lost : SUBSET Fd, over : BOOLEAN]
  /\ Within(t, q.t, q.lost)

LEMMA DoneLemma ==
  ASSUME NEW t, NEW u, Within(t, u, {})
  PROVE  Leaves(t, Done(u)) /\ Leaves(t, Failed(u))
BY DEF Leaves, Done, Failed, Within

LEMMA RedirectToFileLemma ==
  ASSUME NEW t \in Table, NEW arg \in Path \cup Object, NEW append \in BOOLEAN, NEW i \in Std
  PROVE  Leaves(t, RedirectToFile(t, arg, append, i))
<1> DEFINE f == Lowest(t)
           u == Put(t, f, arg, TRUE)
           v == Dup2(u, f, i)
<1>1. Leaves(t, Failed(t))
  BY WithinSelf, DoneLemma
<1>2. CASE arg \in Path /\ arg # "missing" /\ f # None
  <2>1. f \in Fd /\ t.at[f] = Closed
    BY <1>2, LowestLemma DEF Table
  <2>2. arg \in File
    BY <1>2, RedirectionAssumption DEF Path
  <2>3. u \in Table /\ u.at = [t.at EXCEPT ![f] = arg] /\ u.keep = t.keep \cup {f}
    BY <2>1, <2>2 DEF Put, Table
  <2> HIDE DEF u
  <2>4. Within(u, v, {})
    BY <2>3, Dup2Lemma
  <2> HIDE DEF v
  <2>5. v \in Table
    BY <2>4 DEF Within
  <2>6. Within(t, Close(v, f), {})
    <3>1. /\ Close(v, f) \in Table
          /\ \A g \in Fd : Close(v, f).at[g] = IF g = f THEN Closed ELSE v.at[g]
          /\ Close(v, f).keep \subseteq v.keep \ {f}
      BY <2>5, CloseLemma
    <3>2. \A g \in High : v.at[g] = u.at[g]
      BY <2>4 DEF Within
    <3>3. v.keep \ Std \subseteq t.keep \cup {f}
      BY <2>3, <2>4 DEF Within
    <3>4. \A g \in High : g # f => u.at[g] = t.at[g]
      BY <2>3 DEF Table, High
    <3>5. \A g \in High : Close(v, f).at[g] = t.at[g]
      BY <2>1, <3>1, <3>2, <3>4 DEF High
    <3>6. Close(v, f).keep \ Std \subseteq t.keep
      BY <3>1, <3>3
    <3> HIDE DEF f
    <3> QED BY <3>1, <3>5, <3>6 DEF Within
  <2> QED BY <2>6, <1>2, DoneLemma DEF RedirectToFile, u, v
<1>3. Leaves(t, Done(Dup2(t, fdOf[arg], i)))
  BY Dup2Lemma, DoneLemma
<1> QED BY <1>1, <1>2, <1>3 DEF RedirectToFile

LEMMA IOHereLemma ==
  ASSUME NEW t \in Table, NEW arg, NEW forked \in BOOLEAN
  PROVE  Leaves(t, IOHere(t, arg, forked))
<1> DEFINE p == Pipe(t)
           u == Dup2(p.t, p.r, 0)
           v == Close(Close(u, p.r), p.w)
<1>1. CASE p = [r |-> None, w |-> None, t |-> t]
  <2>1. IOHere(t, arg, forked) = [Failed(t) EXCEPT !.over = TRUE]
    BY <1>1 DEF IOHere
  <2> QED BY <2>1, WithinSelf DEF Leaves, Failed, Done, Within
<1>2. CASE /\ p.r \in Fd /\ p.w \in Fd /\ p.r # p.w
           /\ t.at[p.r] = Closed /\ t.at[p.w] = Closed
           /\ p.t \in Table
           /\ \A f \in Fd : p.t.at[f] = IF f \in {p.r, p.w} THEN "pipe" ELSE t.at[f]
           /\ p.t.keep = t.keep \cup {p.r, p.w}
  <2>1. p.r # None
    BY <1>2, DescriptorAssumption DEF Fd, None
  <2>2. "pipe" # Closed
    BY RedirectionAssumption, DescriptorAssumption
  <2> HIDE DEF p
  <2>3. Within(p.t, u, {}) /\ u \in Table
    <3>1. 0 \in Std
      BY DEF Std
    <3>2. Within(p.t, u, {})
      BY <1>2, <3>1, Dup2Lemma
    <3> QED BY <3>2 DEF Within
  <2> HIDE DEF u
  <2>4. Within(t, u, {p.r, p.w})
    <3>1. \A f \in High : u.at[f] = p.t.at[f]
      BY <2>3 DEF Within
    <3>2. u.keep \ Std \subseteq t.keep \cup {p.r, p.w}
      BY <2>3, <1>2 DEF Within
    <3>3. \A f \in High : IF f \in {p.r, p.w} THEN t.at[f] = Closed /\ u.at[f] # Closed ELSE u.at[f] = t.at[f]
      BY <3>1, <1>2, <2>2 DEF High
    <3> QED BY <2>3, <3>2, <3>3, <1>2 DEF Within
  <2>5. Within(t, v, {})
    <3>1. /\ Close(u, p.r) \in Table
          /\ \A g \in Fd : Close(u, p.r).at[g] = IF g = p.r THEN Closed ELSE u.at[g]
          /\ Close(u, p.r).keep \subseteq u.keep \ {p.r}
      BY <2>3, CloseLemma
    <3>2. /\ v \in Table
          /\ \A g \in Fd : v.at[g] = IF g = p.w THEN Closed ELSE Close(u, p.r).at[g]
          /\ v.keep \subseteq Close(u, p.r).keep \ {p.w}
      BY <3>1, CloseLemma
    <3> HIDE DEF v
    <3>3. v.keep \ Std \subseteq t.keep
      BY <3>1, <3>2, <2>4 DEF Within
    <3>4. \A f \in High : v.at[f] = t.at[f]
      BY <3>1, <3>2, <2>4, <1>2 DEF Within, High
    <3> QED BY <3>2, <3>3, <3>4 DEF Within
  <2>6. Leaves(t, [Failed(u) EXCEPT !.lost = {p.r, p.w}])
    BY <2>3, <2>4, <1>2 DEF Leaves, Failed, Done
  <2>7. IOHere(t, arg, forked) \in {[Failed(u) EXCEPT !.lost = {p.r, p.w}], Done(v)}
    BY <2>1 DEF IOHere, p, u, v
  <2> QED BY <2>5, <2>6, <2>7, DoneLemma
<1> QED BY <1>1, <1>2, PipeLemma

LEMMA MergeLemma ==
  ASSUME NEW t, NEW r, Leaves(t, r), NEW from, NEW i \in Std
  PROVE  Leaves(t, Merge(r, from, i))
<1>1. Within(r.t, Dup2(r.t, from, i), {})
  BY Dup2Lemma DEF Leaves
<1>2. Within(t, Dup2(r.t, from, i), r.lost)
  <2>1. Within(t, Dup2(r.t, from, i), r.lost \cup {})
    BY <1>1, WithinTwice DEF Leaves
  <2> QED BY <2>1
<1>3. CASE r.ok
  <2>1. Dup2(r.t, from, i) \in Table
    BY <1>1 DEF Within
  <2>2. Merge(r, from, i) = [r EXCEPT !.ok = IsOpen(r.t, from), !.t = Dup2(r.t, from, i)]
    BY <1>3 DEF Merge
  <2>3. IsOpen(r.t, from) \in BOOLEAN
    BY DEF IsOpen
  <2> QED BY <2>1, <2>2, <2>3, <1>2 DEF Leaves
<1> QED BY <1>3 DEF Merge, Leaves

LEMMA PairLemma ==
  ASSUME NEW A, NEW B, NEW e, e \in A \X B
  PROVE  e[1] \in A /\ e[2] \in B
OBVIOUS

LEMMA RedirectImplLemma ==
  ASSUME NEW t \in Table, NEW e \in Operation, NEW forked \in BOOLEAN
  PROVE  Leaves(t, RedirectImpl(t, e[1], e[2], forked))
<1>1. e[1] \in {"IN_2_FILE", "OUT_2_FILE", "OUT_2_FILE_APPEND", "ERR_2_FILE", "ERR_2_FILE_APPEND",
                "MERGE_ERR_2_OUT_2_FILE", "MERGE_ERR_2_OUT_2_FILE_APPEND",
                "MERGE_ERR_2_OUT", "MERGE_OUT_2_ERR", "HERE_STR", "NOP"}
  <2>1. DOMAIN Changed = {"IN_2_FILE", "OUT_2_FILE", "OUT_2_FILE_APPEND", "ERR_2_FILE", "ERR_2_FILE_APPEND",
                "MERGE_ERR_2_OUT_2_FILE", "MERGE_ERR_2_OUT_2_FILE_APPEND",
                "MERGE_ERR_2_OUT", "MERGE_OUT_2_ERR", "HERE_STR", "NOP"}
    BY DEF Changed
  <2> HIDE DEF Changed
  <2>2. e \in RedirArg => e[1] \in DOMAIN Changed
    BY RedirectionAssumption, PairLemma
  <2>3. e \notin RedirArg => e[1] = "NOP"
    BY DEF Operation
  <2> QED BY <2>1, <2>2, <2>3
<1>2. e[1] \notin {"MERGE_ERR_2_OUT", "MERGE_OUT_2_ERR", "HERE_STR", "NOP"} => e[2] \in Path \cup Object
  <2>1. e \in RedirArg => e[2] \in Path \cup Object \cup Text
    BY RedirectionAssumption, PairLemma
  <2>2. e \in RedirArg /\ e[2] \in Text => e[1] \in {"MERGE_ERR_2_OUT", "MERGE_OUT_2_ERR", "HERE_STR", "NOP"}
    BY RedirectionAssumption
  <2>3. e \notin RedirArg => e[1] = "NOP"
    BY DEF Operation
  <2> QED BY <2>1, <2>2, <2>3
<1>3. 0 \in Std /\ 1 \in Std /\ 2 \in Std
  BY DEF Std
<1>4. Leaves(t, Done(t))
  BY WithinSelf, DoneLemma
<1>5. CASE e[1] \in {"IN_2_FILE", "OUT_2_FILE", "OUT_2_FILE_APPEND", "ERR_2_FILE", "ERR_2_FILE_APPEND"}
  BY <1>2, <1>3, <1>5, RedirectToFileLemma DEF RedirectImpl
<1>6. CASE e[1] \in {"MERGE_ERR_2_OUT_2_FILE", "MERGE_ERR_2_OUT_2_FILE_APPEND"}
  <2>1. \A append \in BOOLEAN : Leaves(t, RedirectToFile(t, e[2], append, 1))
    BY <1>2, <1>3, <1>6, RedirectToFileLemma
  <2>2. \A append \in BOOLEAN : Leaves(t, Merge(RedirectToFile(t, e[2], append, 1), 1, 2))
    BY <2>1, <1>3, MergeLemma
  <2> QED BY <2>2, <1>6 DEF RedirectImpl
<1>7. CASE e[1] \in {"MERGE_ERR_2_OUT", "MERGE_OUT_2_ERR"}
  BY <1>3, <1>4, <1>7, MergeLemma DEF RedirectImpl
<1>8. CASE e[1] \in {"HERE_STR", "NOP"}
  BY <1>4, <1>8, IOHereLemma DEF RedirectImpl
<1> QED BY <1>1, <1>5, <1>6, <1>7, <1>8

\* The operations one after the other: by induction on how many.
LEMMA ApplyLemma ==
  ASSUME NEW t \in Table, NEW ops \in Seq(Operation), NEW forked \in BOOLEAN
  PROVE  Leaves(t, Apply(t, ops, forked))
<1> DEFINE S == {q \in [ok : BOOLEAN, t : Table, lost : SUBSET Fd, over : BOOLEAN] : Leaves(t, q)}
           n == Len(ops)
           step == [p \in S \X Nat |-> IF p[2] \in 1 .. n THEN ApplyOne(p[1], ops[p[2]], forked) ELSE p[1]]
           Def(f) == [i \in 0 .. n |-> IF i = 0 THEN Done(t) ELSE ApplyOne(f[i - 1], ops[i], forked)]
<1>1. n \in Nat
  OBVIOUS
<1>2. Done(t) \in S
  BY WithinSelf, DoneLemma DEF Leaves
<1>3. ASSUME NEW r \in S, NEW i \in 1 .. n
      PROVE  ApplyOne(r, ops[i], forked) \in S
  <2>1. r.t \in Table /\ Within(t, r.t, r.lost)
    BY DEF Leaves
  <2> DEFINE q == RedirectImpl(r.t, ops[i][1], ops[i][2], forked)
  <2>2. Leaves(r.t, q)
    BY <2>1, RedirectImplLemma
  <2> HIDE DEF q
  <2>3. Within(t, q.t, r.lost \cup q.lost)
    BY <2>1, <2>2, WithinTwice DEF Leaves
  <2>4. Leaves(t, [q EXCEPT !.lost = q.lost \cup r.lost])
    <3>1. q.lost \cup r.lost = r.lost \cup q.lost
      OBVIOUS
    <3> QED BY <2>2, <2>3, <3>1 DEF Leaves
  <2>5. ApplyOne(r, ops[i], forked) \in {r, [q EXCEPT !.lost = q.lost \cup r.lost]}
    BY DEF ApplyOne, q
  <2> QED BY <2>4, <2>5 DEF Leaves
<1>4. step \in [S \X Nat -> S]
  BY <1>3
<1> HIDE DEF S
<1>5. PICK g \in [0 .. n -> S] : g[0] = Done(t) /\ \A i \in 1 .. n : g[i] = step[<<g[i - 1], i>>]
  <2> HIDE DEF step, n
  <2>1. \E g : Recursive(g, S, n, Done(t), step)
    BY <1>1, <1>2, <1>4, RecursionLemma
  <2> QED BY <2>1 DEF Recursive
<1>6. ASSUME NEW i \in 1 .. n PROVE g[i] = ApplyOne(g[i - 1], ops[i], forked)
  <2>1. g[i - 1] \in S /\ i \in Nat
    OBVIOUS
  <2> QED BY <2>1, <1>5
<1>7. g = Def(g)
  BY <1>5, <1>6
<1>8. ASSUME NEW f, f = Def(f) PROVE f[n] \in S
  <2> DEFINE T == {i \in Nat : i \in 0 .. n => f[i] \in S}
  <2>1. 0 \in T
    BY <1>2, <1>8
  <2>2. ASSUME NEW i \in Nat, i \in T PROVE i + 1 \in T
    <3>1. CASE i + 1 \in 0 .. n
      <4>1. i \in 0 .. n /\ i + 1 \in 1 .. n /\ i + 1 - 1 = i /\ i + 1 # 0
        BY <3>1
      <4>2. f[i] \in S
        BY <2>2, <4>1
      <4>3. f[i + 1] = ApplyOne(f[i], ops[i + 1], forked)
        BY <1>8, <4>1, <3>1
      <4> QED BY <4>1, <4>2, <4>3, <1>3
    <3> QED BY <3>1
  <2> HIDE DEF T
  <2>3. Nat \subseteq T
    BY <2>1, <2>2, SetInduction
  <2> QED BY <2>3, <1>1 DEF T
<1>9. Apply(t, ops, forked) = (CHOOSE f : f = Def(f))[n]
  BY DEF Apply
<1> HIDE DEF Def
<1>10. (CHOOSE f : f = Def(f)) = Def(CHOOSE f : f = Def(f))
  BY <1>7
<1> QED BY <1>8, <1>9, <1>10 DEF S

-----------------------------------------------------------------------------
(* Saving the standard descriptors and putting them back *)

\* The numbers a restorer keeps copies in.
FdOrNone == Fd \cup {None}

LEMMA NumberLemma ==
  /\ Std = {0, 1, 2} /\ Std \subseteq Fd /\ Fd \subseteq Int /\ High \subseteq Fd
  /\ None \notin Fd /\ None \notin High /\ \A i \in Std : i \notin High
  /\ \A f \in Fd : f > 2 <=> f \in High
BY DescriptorAssumption DEF Std, Fd, None, High

\* b holds copies of standard descriptors of t, each above them with a number of its own;
\* while all of them are open no copy can take the number of one of them.
Copied(t, b) ==
  /\ b \in [old : [Std -> FdOrNone], t : Table]
  /\ \A f \in High : IF \E k \in Std : b.old[k] = f THEN t.at[f] = Closed /\ b.t.at[f] # Closed
                     ELSE b.t.at[f] = t.at[f]
  /\ \A k \in Std, l \in Std : b.old[k] = b.old[l] /\ b.old[k] \in High => k = l
  /\ b.t.keep \ Std \subseteq t.keep
  /\ \A k \in Std : b.old[k] \in High => b.old[k] \notin b.t.keep
  /\ (\A i \in Std : t.at[i] # Closed) =>
       \A k \in Std : /\ b.t.at[k] = t.at[k]
                      /\ b.old[k] = None \/ (b.old[k] \in High /\ b.t.at[b.old[k]] = t.at[k])

LEMMA BackupLemma ==
  ASSUME NEW t \in Table, NEW b, Copied(t, b), NEW i \in Std, b.old[i] = None
  PROVE  Copied(t, Backup(b, i)) /\ \A k \in Std : k # i => Backup(b, i).old[k] = b.old[k]
<1> DEFINE d == DupFd(b.t, i)
           c == Backup(b, i)
<1>1. c = [old |-> [b.old EXCEPT ![i] = d.fd], t |-> d.t]
  BY DEF Backup
<1>2. b.t \in Table /\ b.old \in [Std -> FdOrNone]
  BY DEF Copied
<1>3. CASE d = [fd |-> None, t |-> b.t]
  <2>1. c.t = b.t /\ c.old = b.old /\ c = [old |-> b.old, t |-> b.t]
    BY <1>1, <1>2, <1>3
  <2> HIDE DEF c
  <2>2. c = b
    BY <2>1 DEF Copied
  <2> QED BY <2>2 DEF c
<1>4. CASE /\ IsOpen(b.t, i)
           /\ d.fd \in Fd /\ b.t.at[d.fd] = Closed
           /\ d.t \in Table
           /\ d.t.at = [b.t.at EXCEPT ![d.fd] = b.t.at[i]]
           /\ d.t.keep = b.t.keep \ {d.fd}
  <2> HIDE DEF d
  <2>1. c \in [old : [Std -> FdOrNone], t : Table] /\ c.old = [b.old EXCEPT ![i] = d.fd] /\ c.t = d.t
    BY <1>1, <1>2, <1>4 DEF FdOrNone
  <2> HIDE DEF c
  <2>2. \A k \in Std : c.old[k] = IF k = i THEN d.fd ELSE b.old[k]
    BY <2>1, <1>2
  <2>3. \A f \in Fd : c.t.at[f] = IF f = d.fd THEN b.t.at[i] ELSE b.t.at[f]
    BY <2>1, <1>2, <1>4 DEF Table
  <2>4. b.t.at[i] # Closed
    BY <1>4 DEF IsOpen
  <2>5. d.fd \in High => t.at[d.fd] = Closed /\ \A k \in Std : b.old[k] # d.fd
    BY <1>4 DEF Copied
  <2>6. ASSUME NEW f \in High
        PROVE  IF \E k \in Std : c.old[k] = f THEN t.at[f] = Closed /\ c.t.at[f] # Closed
               ELSE c.t.at[f] = t.at[f]
    <3>1. CASE f = d.fd
      BY <3>1, <2>2, <2>3, <2>4, <2>5, <1>4
    <3>2. CASE f # d.fd
      <4>1. c.t.at[f] = b.t.at[f]
        BY <3>2, <2>3, NumberLemma
      <4>2. (\E k \in Std : c.old[k] = f) <=> \E k \in Std : b.old[k] = f
        BY <3>2, <2>2, NumberLemma
      <4> QED BY <4>1, <4>2 DEF Copied
    <3> QED BY <3>1, <3>2
  <2>7. \A k \in Std, l \in Std : c.old[k] = c.old[l] /\ c.old[k] \in High => k = l
    BY <2>2, <2>5 DEF Copied
  <2>8. c.t.keep \ Std \subseteq t.keep
    BY <2>1, <1>4 DEF Copied
  <2>11. \A k \in Std : c.old[k] \in High => c.old[k] \notin c.t.keep
    BY <2>1, <2>2, <1>4 DEF Copied
  <2>9. ASSUME \A k \in Std : t.at[k] # Closed, NEW k \in Std
        PROVE  /\ c.t.at[k] = t.at[k]
               /\ c.old[k] = None \/ (c.old[k] \in High /\ c.t.at[c.old[k]] = t.at[k])
    <3>1. d.fd \in High
      BY <2>9, <1>4 DEF Copied, High
    <3>2. \A l \in Std : l # d.fd /\ l \in Fd
      BY <3>1, NumberLemma
    <3>3. c.t.at[k] = t.at[k]
      BY <2>3, <2>9, <3>2 DEF Copied
    <3>4. b.old[k] = None \/ (b.old[k] \in High /\ b.t.at[b.old[k]] = t.at[k])
      BY <2>9 DEF Copied
    <3>5. CASE k = i
      <4>1. b.t.at[k] = t.at[k]
        BY <2>9 DEF Copied
      <4>2. c.old[k] = d.fd /\ c.t.at[d.fd] = b.t.at[k]
        BY <3>5, <2>2, <2>3, <1>4
      <4> QED BY <3>1, <3>3, <4>1, <4>2
    <3>6. CASE k # i
      <4>1. c.old[k] = b.old[k]
        BY <3>6, <2>2
      <4>2. b.old[k] \in High => b.old[k] # d.fd /\ b.old[k] \in Fd
        BY <2>5, <3>1, NumberLemma
      <4>3. b.old[k] \in High => c.t.at[b.old[k]] = b.t.at[b.old[k]]
        BY <4>2, <2>3
      <4> QED BY <3>3, <4>1, <4>3, <3>4
    <3> QED BY <3>3, <3>5, <3>6
  <2>10. Copied(t, c)
    BY <2>1, <2>6, <2>7, <2>8, <2>9, <2>11 DEF Copied
  <2> QED BY <2>2, <2>10 DEF c
<1> QED BY <1>2, <1>3, <1>4, DupFdLemma

LEMMA BackupFDsLemma ==
  ASSUME NEW t \in Table, NEW set
  PROVE  Copied(t, BackupFDs(t, set))
<1> DEFINE Step(r, i) == IF i \in set THEN Backup(r, i) ELSE r
           a == [old |-> NoFds, t |-> t]
           b == Step(a, 0)
           c == Step(b, 1)
           d == Step(c, 2)
<1>1. 0 \in Std /\ 1 \in Std /\ 2 \in Std
  BY DEF Std
<1>2. \A k \in Std : a.old[k] = None
  BY DEF NoFds
<1>3. Copied(t, a)
  BY <1>2, NumberLemma DEF Copied, FdOrNone, NoFds, High, Table
<1> HIDE DEF a
<1>4. Copied(t, b) /\ b.old[1] = None /\ b.old[2] = None
  BY <1>1, <1>2, <1>3, BackupLemma
<1> HIDE DEF b
<1>5. Copied(t, c) /\ c.old[2] = None
  BY <1>1, <1>4, BackupLemma
<1> HIDE DEF c
<1>6. Copied(t, d)
  BY <1>1, <1>5, BackupLemma
<1> QED BY <1>6 DEF BackupFDs, a, b, c

\* Each standard descriptor of the set is what its copy was, when the copies are above them.
LEMMA PutBackLemma ==
  ASSUME NEW t \in Table, NEW e, e.old \in [Std -> FdOrNone]
  PROVE  /\ Within(t, PutBack(t, e), {})
         /\ (\A k \in Std : e.old[k] = None \/ e.old[k] \in High) =>
              \A k \in Std : PutBack(t, e).at[k] = IF k \in e.set /\ IsOpen(t, e.old[k])
                                                   THEN t.at[e.old[k]] ELSE t.at[k]
<1> DEFINE Step(u, i) == IF i \in e.set THEN Dup2(u, e.old[i], i) ELSE u
           High1 == \A k \in Std : e.old[k] = None \/ e.old[k] \in High
           New(i) == IF i \in e.set /\ IsOpen(t, e.old[i]) THEN t.at[e.old[i]] ELSE t.at[i]
<1>1. ASSUME NEW u, Within(t, u, {}), NEW i \in Std
      PROVE  /\ Within(t, Step(u, i), {})
             /\ \A j \in Std : j # i => Step(u, i).at[j] = u.at[j]
             /\ High1 /\ u.at[i] = t.at[i] => Step(u, i).at[i] = New(i)
  <2>1. u \in Table
    BY <1>1 DEF Within
  <2>2. Within(t, Dup2(u, e.old[i], i), {})
    <3>1. Within(t, Dup2(u, e.old[i], i), {} \cup {})
      BY <1>1, <2>1, Dup2Lemma, WithinTwice
    <3> QED BY <3>1
  <2>3. e.old[i] \in High => u.at[e.old[i]] = t.at[e.old[i]]
    BY <1>1 DEF Within
  <2>4. High1 /\ u.at[i] = t.at[i] => Step(u, i).at[i] = New(i)
    <3>1. CASE i \notin e.set
      BY <3>1
    <3>2. CASE i \in e.set /\ e.old[i] = None
      BY <3>2, NumberLemma, <2>1, Dup2Lemma DEF IsOpen
    <3>3. CASE i \in e.set /\ e.old[i] \in High
      BY <3>3, <2>1, <2>3, Dup2Lemma DEF IsOpen
    <3> QED BY <3>1, <3>2, <3>3
  <2> QED BY <1>1, <2>1, <2>2, <2>4, Dup2Lemma
<1> DEFINE u == Step(t, 0)
           v == Step(u, 1)
           w == Step(v, 2)
<1> HIDE DEF Step, High1, New
<1>2. 0 \in Std /\ 1 \in Std /\ 2 \in Std
  BY DEF Std
<1>3. Within(t, t, {})
  BY WithinSelf
<1>4. Within(t, u, {}) /\ u.at[1] = t.at[1] /\ u.at[2] = t.at[2] /\ (High1 => u.at[0] = New(0))
  BY <1>1, <1>2, <1>3
<1> HIDE DEF u
<1>5. Within(t, v, {}) /\ v.at[2] = t.at[2] /\ (High1 => v.at[0] = New(0) /\ v.at[1] = New(1))
  BY <1>1, <1>2, <1>4
<1> HIDE DEF v
<1>6. Within(t, w, {}) /\ (High1 => w.at[0] = New(0) /\ w.at[1] = New(1) /\ w.at[2] = New(2))
  BY <1>1, <1>2, <1>5
<1> HIDE DEF w
<1>7. w = PutBack(t, e)
  BY DEF w, v, u, Step, PutBack
<1>8. High1 => \A k \in Std : w.at[k] = New(k)
  BY <1>6, NumberLemma
<1> QED BY <1>6, <1>7, <1>8 DEF High1, New

\* The descriptors above the standard ones stay as they were, but for the copies, which
\* are closed.
LEMMA RestoreLemma ==
  ASSUME NEW t \in Table, NEW e, e.old \in [Std -> FdOrNone]
  PROVE  /\ RestoreFDs(t, e) \in Table
         /\ \A f \in High : RestoreFDs(t, e).at[f] = IF \E k \in Std : e.old[k] = f THEN Closed ELSE t.at[f]
         /\ RestoreFDs(t, e).keep \ Std \subseteq t.keep
         /\ \A k \in Std : e.old[k] \notin RestoreFDs(t, e).keep
         /\ (\A k \in Std : e.old[k] = None \/ e.old[k] \in High) =>
              \A k \in Std : RestoreFDs(t, e).at[k] = IF k \in e.set /\ IsOpen(t, e.old[k])
                                                      THEN t.at[e.old[k]] ELSE t.at[k]
<1> DEFINE u == PutBack(t, e)
           cs == CopiesOf(e)
           v == RestoreFDs(t, e)
<1>1. Within(t, u, {}) /\ u \in Table
  BY PutBackLemma DEF Within
<1>2. /\ v \in Table
      /\ \A g \in Fd : v.at[g] = IF g \in cs THEN Closed ELSE u.at[g]
      /\ v.keep = u.keep \ cs
  BY <1>1, CloseSetLemma DEF RestoreFDs
<1>3. \A f : f \in cs <=> f # None /\ \E k \in Std : e.old[k] = f
  BY DEF CopiesOf
<1>4. \A k \in Std : e.old[k] \notin v.keep
  <2>1. None \notin u.keep
    BY <1>1, NumberLemma DEF Table
  <2> QED BY <1>2, <1>3, <2>1
<1> HIDE DEF u, cs, v
<1>5. \A f \in High : v.at[f] = IF \E k \in Std : e.old[k] = f THEN Closed ELSE t.at[f]
  <2> SUFFICES ASSUME NEW f \in High
               PROVE  v.at[f] = IF \E k \in Std : e.old[k] = f THEN Closed ELSE t.at[f]
    OBVIOUS
  <2>1. u.at[f] = t.at[f] /\ f \in Fd /\ f # None
    BY <1>1, NumberLemma DEF Within
  <2> QED BY <2>1, <1>2, <1>3
<1>6. v.keep \ Std \subseteq t.keep
  BY <1>1, <1>2 DEF Within
<1>7. ASSUME \A k \in Std : e.old[k] = None \/ e.old[k] \in High, NEW k \in Std
      PROVE  v.at[k] = IF k \in e.set /\ IsOpen(t, e.old[k]) THEN t.at[e.old[k]] ELSE t.at[k]
  <2>1. k \in Fd /\ k \notin cs
    BY <1>3, <1>7, NumberLemma
  <2>2. v.at[k] = u.at[k]
    BY <2>1, <1>2
  <2> QED BY <2>2, <1>7, PutBackLemma DEF u
<1> QED BY <1>2, <1>4, <1>5, <1>6, <1>7 DEF v

-----------------------------------------------------------------------------
(* The inductive invariant *)

Entry == {e \in [kind : {"redir", "pipe"}, done : BOOLEAN, ops : Seq(Operation), set : SUBSET Std,
                 old : [Std -> FdOrNone], was : [Std -> File \cup {Closed}]] :
            Len(e.ops) <= MaxOps /\ (~e.done => e.old = NoFds)}

\* A restorer of the stack keeps a copy in f; an object has f; a command line names the
\* object, or passes it to the command.
SavedAt(st, f) == \E i \in 1 .. Len(st) : \E k \in Std : st[i].old[k] = f
HeldAt(fd, f) == \E o \in Object : fd[o] = f
MentionedIn(e, o) == \E j \in 1 .. Len(e.ops) : e.ops[j][2] = o
Mentioned(st, o) == \E i \in 1 .. Len(st) : MentionedIn(st[i], o)
PassedIn(e, o) == \E j \in 1 .. Len(e.ops) : e.ops[j] = <<"NOP", o>>
PassedBy(st, o) == \E i \in 1 .. Len(st) : PassedIn(st[i], o)

\* An open descriptor has one owner, a closed one none.
OwnedAt(t, fd, st, ls, f) ==
  /\ t.at[f] # Closed <=> SavedAt(st, f) \/ HeldAt(fd, f) \/ f \in ls
  /\ SavedAt(st, f) => ~HeldAt(fd, f) /\ f \notin ls
  /\ HeldAt(fd, f) => f \notin ls
  /\ \A i \in 1 .. Len(st), j \in 1 .. Len(st), k \in Std, l \in Std :
       st[i].old[k] = f /\ st[j].old[l] = f => i = j /\ k = l
  /\ \A o \in Object, p \in Object : fd[o] = f /\ fd[p] = f => o = p

\* A restorer whose command began with its standard descriptors open has copies of them,
\* above them, which are still what they were.
Restorable(t, e) ==
  e.done /\ (\A k \in Std : e.was[k] # Closed) =>
    \A k \in Std : e.old[k] = None \/ (e.old[k] \in High /\ t.at[e.old[k]] = e.was[k])

Sound(t, fd, st, hd, ls) ==
  /\ t \in Table /\ fd \in [Object -> FdOrNone] /\ st \in Seq(Entry) /\ ls \subseteq Fd
  /\ \A f \in High : OwnedAt(t, fd, st, ls, f)
  /\ \A f \in t.keep \ Std : f \in ls \/ \E o \in Object : fd[o] = f /\ PassedBy(st, o)
  /\ \A i \in 1 .. Len(st) : Restorable(t, st[i])
  /\ \A o \in Object : fd[o] # None => o \in hd \/ Mentioned(st, o)

RedirInv == held \subseteq Object /\ base \in Nat /\ Sound(table, fdOf, stack, held, lost)

LEMMA EntryLemma ==
  ASSUME NEW e \in Entry
  PROVE  /\ e.old \in [Std -> FdOrNone] /\ e.ops \in Seq(Operation) /\ e.set \subseteq Std
         /\ e.was \in [Std -> File \cup {Closed}] /\ e.done \in BOOLEAN
         /\ Len(e.ops) <= MaxOps /\ Len(e.ops) \in Nat /\ (~e.done => e.old = NoFds)
BY DEF Entry

LEMMA SavedNumber ==
  ASSUME NEW st \in Seq(Entry), NEW f, SavedAt(st, f)
  PROVE  f \in FdOrNone
<1>1. PICK i \in 1 .. Len(st), k \in Std : st[i].old[k] = f
  BY DEF SavedAt
<1>2. st[i] \in Entry
  OBVIOUS
<1> QED BY <1>1, <1>2, EntryLemma

\* Work that leaves the descriptors above the standard ones alone, but for those it loses.
LEMMA WithinSound ==
  ASSUME NEW t, NEW fd, NEW st, NEW hd, NEW ls, Sound(t, fd, st, hd, ls),
         NEW u, NEW ms, Within(t, u, ms)
  PROVE  Sound(u, fd, st, hd, ls \cup ms)
<1>1. ASSUME NEW f \in High PROVE OwnedAt(u, fd, st, ls \cup ms, f)
  <2>1. OwnedAt(t, fd, st, ls, f)
    BY DEF Sound
  <2>2. IF f \in ms THEN t.at[f] = Closed /\ u.at[f] # Closed ELSE u.at[f] = t.at[f]
    BY DEF Within
  <2> QED BY <2>1, <2>2 DEF OwnedAt
<1>2. ASSUME NEW i \in 1 .. Len(st) PROVE Restorable(u, st[i])
  <2>1. Restorable(t, st[i])
    BY DEF Sound
  <2>2. ASSUME NEW k \in Std, st[i].old[k] \in High PROVE u.at[st[i].old[k]] = t.at[st[i].old[k]]
    <3>1. SavedAt(st, st[i].old[k])
      BY DEF SavedAt
    <3>2. t.at[st[i].old[k]] # Closed
      BY <2>2, <3>1 DEF Sound, OwnedAt
    <3> QED BY <2>2, <3>2 DEF Within
  <2> QED BY <2>1, <2>2 DEF Restorable
<1>3. \A f \in u.keep \ Std : f \in ls \cup ms \/ \E o \in Object : fd[o] = f /\ PassedBy(st, o)
  BY DEF Within, Sound
<1>4. u \in Table /\ fd \in [Object -> FdOrNone] /\ st \in Seq(Entry) /\ ls \cup ms \subseteq Fd
  BY DEF Within, Sound
<1> QED BY <1>1, <1>2, <1>3, <1>4 DEF Sound

\* Closing descriptors nobody owns.
LEMMA CloseLostLemma ==
  ASSUME NEW t, NEW fd, NEW st, NEW hd, NEW ms, Sound(t, fd, st, hd, ms),
         NEW fs, NEW ls, ls \subseteq Fd,
         \A f \in High : (f \in fs => f \in ms) /\ (f \in ls <=> f \in ms /\ f \notin fs)
  PROVE  Sound(CloseSet(t, fs), fd, st, hd, ls)
<1> DEFINE u == CloseSet(t, fs)
<1>1. t \in Table
  BY DEF Sound
<1>2. /\ u \in Table
      /\ \A g \in High : u.at[g] = IF g \in fs THEN Closed ELSE t.at[g]
      /\ u.keep = t.keep \ fs
  BY <1>1, CloseSetLemma, NumberLemma
<1> HIDE DEF u
<1>3. ASSUME NEW f \in High PROVE OwnedAt(u, fd, st, ls, f)
  BY <1>2 DEF OwnedAt, Sound
<1>4. ASSUME NEW i \in 1 .. Len(st) PROVE Restorable(u, st[i])
  <2>1. Restorable(t, st[i])
    BY DEF Sound
  <2>2. ASSUME NEW k \in Std, st[i].old[k] \in High PROVE u.at[st[i].old[k]] = t.at[st[i].old[k]]
    <3>1. SavedAt(st, st[i].old[k])
      BY DEF SavedAt
    <3>2. st[i].old[k] \notin ms
      BY <2>2, <3>1 DEF Sound, OwnedAt
    <3> QED BY <2>2, <3>2, <1>2
  <2> QED BY <2>1, <2>2 DEF Restorable
<1>5. ASSUME NEW f \in u.keep \ Std
      PROVE  f \in ls \/ \E o \in Object : fd[o] = f /\ PassedBy(st, o)
  <2>1. f \in High /\ f \in t.keep \ Std /\ f \notin fs
    BY <1>1, <1>2 DEF Table, High
  <2> QED BY <2>1 DEF Sound
<1>6. fd \in [Object -> FdOrNone] /\ st \in Seq(Entry)
      /\ \A o \in Object : fd[o] # None => o \in hd \/ Mentioned(st, o)
  BY DEF Sound
<1> QED BY <1>2, <1>3, <1>4, <1>5, <1>6 DEF Sound, u

\* A descriptor nobody owns becomes an object's; it is close-on-exec from now on.
LEMMA GiveLemma ==
  ASSUME NEW t, NEW fd, NEW st, NEW hd, NEW ms, Sound(t, fd, st, hd, ms),
         NEW x \in ms, NEW o \in Object, fd[o] = None,
         NEW ls, ls \subseteq Fd,
         \A f \in High : (f \in ls <=> f \in ms /\ f # x),
         NEW u \in Table, u.at = t.at, u.keep \ Std \subseteq t.keep \ {x}
  PROVE  Sound(u, [fd EXCEPT ![o] = x], st, hd \cup {o}, ls)
<1> DEFINE gd == [fd EXCEPT ![o] = x]
<1>1. x \in Fd /\ fd \in [Object -> FdOrNone] /\ st \in Seq(Entry)
  BY DEF Sound
<1>2. gd \in [Object -> FdOrNone] /\ gd[o] = x /\ \A p \in Object : p # o => gd[p] = fd[p]
  BY <1>1 DEF FdOrNone
<1> HIDE DEF gd
<1>3. ASSUME NEW f \in High PROVE OwnedAt(u, gd, st, ls, f)
  <2>1. OwnedAt(t, fd, st, ms, f)
    BY DEF Sound
  <2>2. HeldAt(gd, f) <=> f = x \/ HeldAt(fd, f)
    BY <1>2, NumberLemma DEF HeldAt
  <2>3. ASSUME NEW p \in Object, NEW q \in Object, gd[p] = f, gd[q] = f PROVE p = q
    <3>1. CASE f = x
      <4>1. ~HeldAt(fd, f)
        BY <3>1, <2>1 DEF OwnedAt
      <4> QED BY <4>1, <2>3, <1>2 DEF HeldAt
    <3>2. CASE f # x
      BY <3>2, <1>2, <2>1, <2>3 DEF OwnedAt
    <3> QED BY <3>1, <3>2
  <2> QED BY <2>1, <2>2, <2>3 DEF OwnedAt
<1>4. \A i \in 1 .. Len(st) : Restorable(u, st[i])
  BY DEF Sound, Restorable
<1>5. ASSUME NEW f \in u.keep \ Std
      PROVE  f \in ls \/ \E p \in Object : gd[p] = f /\ PassedBy(st, p)
  <2>1. f \in t.keep \ Std /\ f # x /\ f \in High
    BY DEF Table, High
  <2>2. f \in ms \/ \E p \in Object : fd[p] = f /\ PassedBy(st, p)
    BY <2>1 DEF Sound
  <2> QED BY <2>1, <2>2, <1>2, NumberLemma
<1>6. \A p \in Object : gd[p] # None => p \in hd \cup {o} \/ Mentioned(st, p)
  BY <1>2 DEF Sound
<1> QED BY <1>1, <1>2, <1>3, <1>4, <1>5, <1>6 DEF Sound, gd

\* A new restorer, or one that has no copies yet, which may take descriptors nobody owns;
\* what the command lines name only grows.
LEMMA RestackLemma ==
  ASSUME NEW t, NEW fd, NEW st, NEW hd, NEW ms, Sound(t, fd, st, hd, ms),
         NEW su \in Seq(Entry), NEW n \in Nat, n = Len(su), n > 0,
         Len(st) \in {n - 1, n},
         \A i \in 1 .. n - 1 : su[i] = st[i],
         Len(st) = n => /\ st[n].old = NoFds
                        /\ \A o : MentionedIn(st[n], o) => MentionedIn(su[n], o)
                        /\ \A o : PassedIn(st[n], o) => PassedIn(su[n], o),
         \A k \in Std : su[n].old[k] \in High => su[n].old[k] \in ms /\ su[n].old[k] \notin t.keep,
         \A k \in Std, l \in Std : su[n].old[k] = su[n].old[l] /\ su[n].old[k] \in High => k = l,
         NEW ls, ls \subseteq Fd,
         \A f \in High : f \in ls <=> f \in ms /\ \A k \in Std : su[n].old[k] # f,
         Restorable(t, su[n])
  PROVE  Sound(t, fd, su, hd, ls)
<1>1. t \in Table /\ fd \in [Object -> FdOrNone] /\ st \in Seq(Entry) /\ Len(st) \in Nat
  BY DEF Sound
<1>2. \A i \in 1 .. n : i = n \/ i \in 1 .. n - 1
  OBVIOUS
<1>3. \A i \in 1 .. n - 1 : i \in 1 .. Len(st) /\ i \in 1 .. n /\ i # n
  BY <1>1
<1>4. n \in 1 .. n
  OBVIOUS
<1>5. \A i \in 1 .. Len(st) : i \in 1 .. n - 1 \/ (i = n /\ Len(st) = n)
  BY <1>1
<1>6. Len(st) = n => \A k \in Std : st[n].old[k] = None
  BY DEF NoFds
<1>13. ASSUME NEW i \in 1 .. n, i # n PROVE i \in 1 .. Len(st) /\ su[i] = st[i]
  BY <1>2, <1>3, <1>13
<1>7. ASSUME NEW f \in High PROVE OwnedAt(t, fd, su, ls, f)
  <2>1. OwnedAt(t, fd, st, ms, f)
    BY DEF Sound
  <2>2. SavedAt(su, f) <=> SavedAt(st, f) \/ \E k \in Std : su[n].old[k] = f
    <3>1. ASSUME SavedAt(su, f) PROVE SavedAt(st, f) \/ \E k \in Std : su[n].old[k] = f
      <4>1. PICK i \in 1 .. n, k \in Std : su[i].old[k] = f
        BY <3>1 DEF SavedAt
      <4> QED BY <4>1, <1>13 DEF SavedAt
    <3>2. ASSUME SavedAt(st, f) PROVE SavedAt(su, f)
      <4>1. PICK i \in 1 .. Len(st), k \in Std : st[i].old[k] = f
        BY <3>2 DEF SavedAt
      <4>2. i \in 1 .. n - 1
        BY <4>1, <1>5, <1>6, NumberLemma
      <4>3. i \in 1 .. Len(su) /\ su[i].old[k] = f
        BY <4>1, <4>2, <1>3
      <4> QED BY <4>3 DEF SavedAt
    <3>3. (\E k \in Std : su[n].old[k] = f) => SavedAt(su, f)
      BY <1>4 DEF SavedAt
    <3> QED BY <3>1, <3>2, <3>3
  <2>3. (\E k \in Std : su[n].old[k] = f) => f \in ms /\ f \notin ls
    OBVIOUS
  <2>4. (\A k \in Std : su[n].old[k] # f) => (f \in ls <=> f \in ms)
    OBVIOUS
  <2>5. ASSUME NEW i \in 1 .. n, NEW j \in 1 .. n, NEW k \in Std, NEW l \in Std,
               su[i].old[k] = f, su[j].old[l] = f
        PROVE  i = j /\ k = l
    <3>1. CASE i = n /\ j = n
      BY <3>1, <2>5
    <3>2. CASE i # n /\ j # n
      <4>1. i \in 1 .. Len(st) /\ j \in 1 .. Len(st) /\ st[i].old[k] = f /\ st[j].old[l] = f
        BY <3>2, <1>13, <2>5
      <4> QED BY <4>1, <2>1 DEF OwnedAt
    <3>3. CASE i # n /\ j = n
      <4>1. f \in ms
        BY <3>3, <2>3, <2>5
      <4>2. SavedAt(st, f)
        BY <3>3, <1>13, <2>5 DEF SavedAt
      <4> QED BY <4>1, <4>2, <2>1 DEF OwnedAt
    <3>4. CASE i = n /\ j # n
      <4>1. f \in ms
        BY <3>4, <2>3, <2>5
      <4>2. SavedAt(st, f)
        BY <3>4, <1>13, <2>5 DEF SavedAt
      <4> QED BY <4>1, <4>2, <2>1 DEF OwnedAt
    <3> QED BY <3>1, <3>2, <3>3, <3>4
  <2>6. \A i \in 1 .. Len(su), j \in 1 .. Len(su), k \in Std, l \in Std :
          su[i].old[k] = f /\ su[j].old[l] = f => i = j /\ k = l
    BY <2>5
  <2> QED BY <2>1, <2>2, <2>3, <2>4, <2>6 DEF OwnedAt
<1>8. \A o : PassedBy(st, o) => PassedBy(su, o)
  BY <1>3, <1>4, <1>5 DEF PassedBy
<1>9. \A o : Mentioned(st, o) => Mentioned(su, o)
  BY <1>3, <1>4, <1>5 DEF Mentioned
<1>10. ASSUME NEW f \in t.keep \ Std
       PROVE  f \in ls \/ \E o \in Object : fd[o] = f /\ PassedBy(su, o)
  <2>1. f \in High
    BY <1>1 DEF Table, High
  <2>2. f \in ms => f \in ls
    BY <2>1
  <2>3. f \in ms \/ \E o \in Object : fd[o] = f /\ PassedBy(st, o)
    BY DEF Sound
  <2> QED BY <2>2, <2>3, <1>8
<1>11. ASSUME NEW i \in 1 .. n PROVE Restorable(t, su[i])
  BY <1>2, <1>3 DEF Sound
<1>12. \A o \in Object : fd[o] # None => o \in hd \/ Mentioned(su, o)
  BY <1>9 DEF Sound
<1> QED BY <1>1, <1>7, <1>10, <1>11, <1>12 DEF Sound

-----------------------------------------------------------------------------
(* References to an object, and what the end of a restorer does *)

LEMMA MentionsLemma ==
  ASSUME NEW st \in Seq(Entry), NEW o
  PROVE  IsFiniteSet(Mentions(o, st)) /\ (Mentions(o, st) = {} <=> ~Mentioned(st, o))
<1>1. Len(st) \in Nat /\ MaxOps \in Nat
  BY RedirectionAssumption
<1>2. IsFiniteSet((1 .. Len(st)) \X (1 .. MaxOps))
  <2>1. IsFiniteSet(1 .. Len(st)) /\ IsFiniteSet(1 .. MaxOps)
    BY <1>1, FS_Interval
  <2> QED BY <2>1, FS_Product
<1>3. Mentions(o, st) \subseteq (1 .. Len(st)) \X (1 .. MaxOps)
  BY DEF Mentions
<1>4. ASSUME Mentioned(st, o) PROVE Mentions(o, st) # {}
  <2>1. PICK i \in 1 .. Len(st) : MentionedIn(st[i], o)
    BY <1>4 DEF Mentioned
  <2>2. PICK j \in 1 .. Len(st[i].ops) : st[i].ops[j][2] = o
    BY <2>1 DEF MentionedIn
  <2>3. st[i] \in Entry
    OBVIOUS
  <2>4. st[i].ops \in Seq(Operation) /\ Len(st[i].ops) <= MaxOps
    BY <2>3, EntryLemma
  <2>5. j \in 1 .. MaxOps /\ j \in DOMAIN st[i].ops
    BY <2>4, <1>1
  <2>6. <<i, j>> \in Mentions(o, st)
    BY <2>2, <2>5 DEF Mentions
  <2> QED BY <2>6
<1>5. ASSUME NEW p \in Mentions(o, st) PROVE Mentioned(st, o)
  <2>1. p[1] \in 1 .. Len(st) /\ p[2] \in DOMAIN st[p[1]].ops /\ st[p[1]].ops[p[2]][2] = o
    BY DEF Mentions
  <2>2. st[p[1]] \in Entry
    BY <2>1
  <2>3. p[2] \in 1 .. Len(st[p[1]].ops)
    BY <2>1, <2>2, EntryLemma
  <2> QED BY <2>1, <2>3 DEF Mentioned, MentionedIn
<1> QED BY <1>2, <1>3, <1>4, <1>5, FS_Subset

LEMMA RefsLemma ==
  ASSUME NEW st \in Seq(Entry), NEW o
  PROVE  /\ Refs(o, st) \in Nat
         /\ Refs(o, st) = 0 <=> o \notin held /\ ~Mentioned(st, o)
         /\ o \in held => (Refs(o, st) - 1 = 0 <=> ~Mentioned(st, o))
<1> DEFINE c == Cardinality(Mentions(o, st))
<1>1. c \in Nat /\ (c = 0 <=> ~Mentioned(st, o))
  BY MentionsLemma, FS_CardinalityType, FS_EmptySet
<1>2. Refs(o, st) = (IF o \in held THEN 1 ELSE 0) + c
  BY DEF Refs
<1> HIDE DEF c
<1> QED BY <1>1, <1>2

\* An object that the newest restorer passes and something else refers to has two references.
LEMMA RefsTwice ==
  ASSUME NEW st \in Seq(Entry), NEW o, NEW n \in 1 .. Len(st), MentionedIn(st[n], o),
         \/ o \in held
         \/ \E i \in 1 .. Len(st) : i # n /\ MentionedIn(st[i], o)
  PROVE  Refs(o, st) > 1
<1> DEFINE M == Mentions(o, st)
<1>1. ASSUME NEW i \in 1 .. Len(st), MentionedIn(st[i], o)
      PROVE  \E j : <<i, j>> \in M
  <2>1. PICK j \in 1 .. Len(st[i].ops) : st[i].ops[j][2] = o
    BY <1>1 DEF MentionedIn
  <2>2. st[i] \in Entry
    OBVIOUS
  <2>3. st[i].ops \in Seq(Operation) /\ Len(st[i].ops) <= MaxOps
    BY <2>2, EntryLemma
  <2>4. j \in 1 .. MaxOps /\ j \in DOMAIN st[i].ops
    BY <2>3, RedirectionAssumption
  <2> QED BY <2>1, <2>4 DEF Mentions
<1>2. IsFiniteSet(M) /\ Cardinality(M) \in Nat
  BY MentionsLemma, FS_CardinalityType
<1>3. Refs(o, st) = (IF o \in held THEN 1 ELSE 0) + Cardinality(M)
  BY DEF Refs
<1> HIDE DEF M
<1>4. M # {}
  BY <1>1
<1>5. Cardinality(M) # 0
  BY <1>2, <1>4, FS_EmptySet
<1>6. CASE o \in held
  BY <1>2, <1>3, <1>5, <1>6
<1>7. CASE \E i \in 1 .. Len(st) : i # n /\ MentionedIn(st[i], o)
  <2>1. PICK i \in 1 .. Len(st) : i # n /\ MentionedIn(st[i], o)
    BY <1>7
  <2>2. PICK j, k : <<i, j>> \in M /\ <<n, k>> \in M
    BY <1>1, <2>1
  <2>3. <<i, j>> # <<n, k>>
    BY <2>1
  <2>4. Cardinality(M) # 1
    BY <1>2, <2>2, <2>3, FS_Singleton
  <2> QED BY <1>2, <1>3, <1>5, <2>4
<1> QED BY <1>6, <1>7

LEMMA FrontLemma ==
  ASSUME NEW st \in Seq(Entry), st # <<>>
  PROVE  /\ Len(st) \in Nat /\ Len(st) > 0 /\ Last(st) = st[Len(st)] /\ Last(st) \in Entry
         /\ Front(st) \in Seq(Entry) /\ Len(Front(st)) = Len(st) - 1
         /\ \A i \in 1 .. Len(st) - 1 : Front(st)[i] = st[i]
<1>1. Len(st) \in Nat /\ Len(st) > 0
  OBVIOUS
<1>2. Last(st) = st[Len(st)] /\ Last(st) \in Entry
  BY <1>1 DEF Last
<1>3. Front(st) = SubSeq(st, 1, Len(st) - 1)
  BY DEF Front
<1> DEFINE n == Len(st) - 1
<1>4. 1 \in Int /\ n \in Int /\ n >= 0 /\ \A i \in 1 .. n : st[i] \in Entry
  BY <1>1
<1> HIDE DEF n
<1>5. /\ SubSeq(st, 1, n) \in Seq(Entry)
      /\ Len(SubSeq(st, 1, n)) = IF 1 <= n THEN n - 1 + 1 ELSE 0
      /\ \A i \in 1 .. n - 1 + 1 : SubSeq(st, 1, n)[i] = st[1 + i - 1]
  BY <1>4, SubSeqProperties
<1>6. Len(SubSeq(st, 1, n)) = n /\ \A i \in 1 .. n : SubSeq(st, 1, n)[i] = st[i]
  BY <1>4, <1>5
<1> QED BY <1>1, <1>2, <1>3, <1>5, <1>6 DEF n

LEMMA AppendLemma ==
  ASSUME NEW st \in Seq(Entry), NEW e \in Entry
  PROVE  /\ Append(st, e) \in Seq(Entry) /\ Len(Append(st, e)) = Len(st) + 1
         /\ \A i \in 1 .. Len(st) : Append(st, e)[i] = st[i]
         /\ Append(st, e)[Len(st) + 1] = e
OBVIOUS

\* The newest restorer goes: its copies are closed, and so are the objects only it named.
LEMMA DropLemma ==
  ASSUME stack \in Seq(Entry), stack # <<>>, NEW e \in Entry, e.ops = Top.ops,
         NEW t, NEW ls, Sound(t, fdOf, Append(Front(stack), e), held, ls)
  PROVE  LET dead == Dropped(Front(stack))
             u == CloseDropped(Destroyed(t, e), dead)
             fd == [o \in Object |-> IF o \in dead THEN None ELSE fdOf[o]]
         IN  /\ Sound(u, fd, Front(stack), held, ls)
             /\ \A k \in Std : u.at[k] = RestoreFDs(t, e).at[k]
<1> DEFINE F == Front(stack)
           n == Len(stack)
           st == Append(F, e)
           dead == Dropped(F)
           r == RestoreFDs(t, e)
           d == Destroyed(t, e)
           ds == {fdOf[o] : o \in dead} \ Std
           u == CloseDropped(d, dead)
           fd == [o \in Object |-> IF o \in dead THEN None ELSE fdOf[o]]
           again == {fdOf[o] : o \in {o \in Object : /\ <<"NOP", o>> \in ToSet(e.ops)
                                                    /\ Refs(o, stack) > 1}} \ Std
<1>1. /\ n \in Nat /\ n > 0 /\ F \in Seq(Entry) /\ Len(F) = n - 1 /\ n \in 1 .. n
      /\ st \in Seq(Entry) /\ Len(st) = n /\ st[n] = e /\ stack[n].ops = e.ops
      /\ \A i \in 1 .. n - 1 : i \in 1 .. n /\ i # n /\ st[i] = F[i] /\ stack[i] = F[i]
  <2>1. /\ n \in Nat /\ n > 0 /\ F \in Seq(Entry) /\ Len(F) = n - 1 /\ stack[n] = Top
        /\ \A i \in 1 .. n - 1 : F[i] = stack[i]
    BY FrontLemma DEF Top
  <2> HIDE DEF F, n
  <2>2. /\ st \in Seq(Entry) /\ Len(st) = Len(F) + 1 /\ st[Len(F) + 1] = e
        /\ \A i \in 1 .. Len(F) : st[i] = F[i]
    BY <2>1, AppendLemma
  <2> QED BY <2>1, <2>2
<1>2. \A i \in 1 .. n : i = n \/ i \in 1 .. n - 1
  BY <1>1
<1>3. t \in Table /\ fdOf \in [Object -> FdOrNone] /\ ls \subseteq Fd
  BY DEF Sound
<1>4. /\ r \in Table
      /\ \A f \in High : r.at[f] = IF \E k \in Std : e.old[k] = f THEN Closed ELSE t.at[f]
      /\ r.keep \ Std \subseteq t.keep
  BY <1>3, EntryLemma, RestoreLemma
<1>5. d \in Table /\ d.at = r.at /\ d.keep = r.keep \ again
  BY <1>4 DEF Destroyed, Table
<1>6. /\ u \in Table
      /\ \A g \in Fd : u.at[g] = IF g \in ds THEN Closed ELSE d.at[g]
      /\ u.keep = d.keep \ ds
  BY <1>5, CloseSetLemma DEF CloseDropped
<1>7. \A o \in Object : o \in dead <=> fdOf[o] # None /\ o \notin held /\ ~Mentioned(F, o)
  BY <1>1, RefsLemma DEF Dropped
<1>8. /\ fd \in [Object -> FdOrNone]
      /\ \A o \in Object : fd[o] = IF o \in dead THEN None ELSE fdOf[o]
  BY <1>3 DEF FdOrNone
<1>9. \A f : f \in ds <=> f \notin Std /\ \E o \in Object : o \in dead /\ fdOf[o] = f
  BY DEF Dropped
<1>10. \A o \in Object : fdOf[o] \in again <=>
         fdOf[o] \notin Std /\ \E p \in Object : fdOf[p] = fdOf[o] /\ Refs(p, stack) > 1
                                                 /\ <<"NOP", p>> \in ToSet(e.ops)
  OBVIOUS
<1>11. \A o \in Object : PassedIn(e, o) => <<"NOP", o>> \in ToSet(e.ops) /\ MentionedIn(e, o)
  BY DEF PassedIn, MentionedIn, ToSet
<1> HIDE DEF F, n, st, dead, r, d, ds, u, fd, again
<1>12. ASSUME NEW f \in High
       PROVE  /\ SavedAt(st, f) <=> SavedAt(F, f) \/ \E k \in Std : e.old[k] = f
              /\ SavedAt(F, f) => \A k \in Std : e.old[k] # f
  <2>1. ASSUME SavedAt(st, f) PROVE SavedAt(F, f) \/ \E k \in Std : e.old[k] = f
    <3>1. PICK i \in 1 .. n, k \in Std : st[i].old[k] = f
      BY <2>1, <1>1 DEF SavedAt
    <3> QED BY <3>1, <1>1, <1>2 DEF SavedAt
  <2>2. ASSUME SavedAt(F, f) PROVE SavedAt(st, f) /\ \A k \in Std : e.old[k] # f
    <3>1. PICK i \in 1 .. n - 1, k \in Std : F[i].old[k] = f
      BY <2>2, <1>1 DEF SavedAt
    <3>2. i \in 1 .. Len(st) /\ i # n /\ st[i].old[k] = f
      BY <3>1, <1>1
    <3>3. OwnedAt(t, fdOf, st, ls, f)
      BY DEF Sound, st, F
    <3>4. \A l \in Std : e.old[l] # f
      BY <1>1, <3>2, <3>3 DEF OwnedAt
    <3> QED BY <3>2, <3>4 DEF SavedAt
  <2>3. (\E k \in Std : e.old[k] = f) => SavedAt(st, f)
    BY <1>1 DEF SavedAt
  <2> QED BY <2>1, <2>2, <2>3
<1>13. ASSUME NEW f \in High PROVE OwnedAt(u, fd, F, ls, f)
  <2>1. OwnedAt(t, fdOf, st, ls, f)
    BY DEF Sound, st, F
  <2>2. f \in Fd /\ f \notin Std /\ f # None
    BY NumberLemma
  <2>3. u.at[f] # Closed <=> /\ t.at[f] # Closed
                             /\ \A k \in Std : e.old[k] # f
                             /\ \A o \in Object : o \in dead => fdOf[o] # f
    BY <2>2, <1>4, <1>5, <1>6, <1>9
  <2>4. HeldAt(fd, f) <=> \E o \in Object : o \notin dead /\ fdOf[o] = f
    BY <2>2, <1>8 DEF HeldAt
  <2>5. \A o \in Object, p \in Object : fdOf[o] = f /\ fdOf[p] = f => o = p
    BY <2>1 DEF OwnedAt
  <2>6. \A o \in Object, p \in Object : fd[o] = f /\ fd[p] = f => o = p
    BY <2>2, <2>5, <1>8
  <2>7. ASSUME NEW i \in 1 .. n - 1, NEW j \in 1 .. n - 1, NEW k \in Std, NEW l \in Std,
               F[i].old[k] = f, F[j].old[l] = f
        PROVE  i = j /\ k = l
    <3>1. i \in 1 .. Len(st) /\ j \in 1 .. Len(st) /\ st[i].old[k] = f /\ st[j].old[l] = f
      BY <2>7, <1>1
    <3> QED BY <3>1, <2>1 DEF OwnedAt
  <2>8. u.at[f] # Closed <=> SavedAt(F, f) \/ HeldAt(fd, f) \/ f \in ls
    <3>1. HeldAt(fdOf, f) <=> HeldAt(fd, f) \/ \E o \in Object : o \in dead /\ fdOf[o] = f
      BY <2>4 DEF HeldAt
    <3>2. HeldAt(fd, f) => \A o \in Object : o \in dead => fdOf[o] # f
      BY <2>4, <2>5
    <3> QED BY <2>1, <2>3, <3>1, <3>2, <1>12 DEF OwnedAt
  <2>9. HeldAt(fd, f) => HeldAt(fdOf, f)
    BY <2>4 DEF HeldAt
  <2> QED BY <2>1, <2>6, <2>7, <2>8, <2>9, <1>1, <1>12 DEF OwnedAt
<1>14. ASSUME NEW f \in u.keep \ Std
       PROVE  f \in ls \/ \E o \in Object : fd[o] = f /\ PassedBy(F, o)
  <2>1. f \in t.keep \ Std /\ f \notin again /\ f \notin ds
    BY <1>4, <1>5, <1>6
  <2>2. CASE f \in ls
    BY <2>2
  <2>3. CASE \E o \in Object : fdOf[o] = f /\ PassedBy(st, o)
    <3>1. PICK o \in Object : fdOf[o] = f /\ PassedBy(st, o)
      BY <2>3
    <3>2. o \notin dead
      BY <2>1, <3>1, <1>9
    <3>3. fd[o] = f
      BY <3>1, <3>2, <1>8
    <3>4. CASE PassedBy(F, o)
      BY <3>3, <3>4
    <3>5. CASE ~PassedBy(F, o)
      <4>1. PICK i \in 1 .. n : PassedIn(st[i], o)
        BY <3>1, <1>1 DEF PassedBy
      <4>2. i = n
        BY <4>1, <3>5, <1>1, <1>2 DEF PassedBy
      <4>3. PassedIn(e, o)
        BY <4>1, <4>2, <1>1
      <4>4. ~(Refs(o, stack) > 1)
        BY <4>3, <1>10, <1>11, <2>1, <3>1
      <4>5. MentionedIn(stack[n], o)
        <5>1. MentionedIn(e, o)
          BY <4>3, <1>11
        <5> QED BY <5>1, <1>1 DEF MentionedIn
      <4>6. o \in held \/ Mentioned(F, o)
        BY <3>1, <3>2, <1>7, <2>1, <1>3, NumberLemma DEF Table
      <4>7. Mentioned(F, o) => \E j \in 1 .. Len(stack) : j # n /\ MentionedIn(stack[j], o)
        BY <1>1 DEF Mentioned, n
      <4>8. n \in 1 .. Len(stack)
        BY <1>1 DEF n
      <4> QED BY <4>4, <4>5, <4>6, <4>7, <4>8, RefsTwice
    <3> QED BY <3>4, <3>5
  <2> QED BY <2>1, <2>2, <2>3 DEF Sound, st, F
<1>15. ASSUME NEW i \in 1 .. n - 1 PROVE Restorable(u, F[i])
  <2>1. Restorable(t, F[i])
    <3>1. i \in 1 .. Len(st) /\ st[i] = F[i]
      BY <1>1
    <3> QED BY <3>1 DEF Sound, st, F
  <2>2. ASSUME NEW k \in Std, F[i].old[k] \in High PROVE u.at[F[i].old[k]] = t.at[F[i].old[k]]
    <3> DEFINE f == F[i].old[k]
    <3>1. SavedAt(F, f)
      BY <1>1 DEF SavedAt
    <3> HIDE DEF f
    <3>2. f \in High
      BY <2>2 DEF f
    <3>3. OwnedAt(t, fdOf, st, ls, f)
      BY <3>2 DEF Sound, st, F
    <3>4. \A o \in Object : fdOf[o] # f
      BY <3>1, <3>2, <3>3, <1>12 DEF OwnedAt, HeldAt
    <3>5. u.at[f] = t.at[f]
      BY <3>1, <3>2, <3>4, <1>4, <1>5, <1>6, <1>9, <1>12, NumberLemma
    <3> QED BY <3>5 DEF f
  <2> QED BY <2>1, <2>2 DEF Restorable
<1>16. \A o \in Object : fd[o] # None => o \in held \/ Mentioned(F, o)
  BY <1>7, <1>8
<1>17. Sound(u, fd, F, held, ls)
  BY <1>1, <1>3, <1>6, <1>8, <1>13, <1>14, <1>15, <1>16 DEF Sound
<1>18. \A k \in Std : u.at[k] = r.at[k]
  BY <1>5, <1>6, <1>9, NumberLemma
<1> QED BY <1>17, <1>18 DEF u, d, r, fd, dead, F

LEMMA AppendFront ==
  ASSUME NEW st \in Seq(Entry), st # <<>>
  PROVE  Append(Front(st), Last(st)) = st
<1> DEFINE su == Append(Front(st), Last(st))
<1>1. /\ Len(st) \in Nat /\ Len(st) > 0 /\ Last(st) = st[Len(st)] /\ Last(st) \in Entry
      /\ Front(st) \in Seq(Entry) /\ Len(Front(st)) = Len(st) - 1
      /\ \A i \in 1 .. Len(st) - 1 : Front(st)[i] = st[i]
  BY FrontLemma
<1>2. /\ su \in Seq(Entry) /\ Len(su) = Len(Front(st)) + 1 /\ su[Len(Front(st)) + 1] = Last(st)
      /\ \A i \in 1 .. Len(Front(st)) : su[i] = Front(st)[i]
  BY <1>1, AppendLemma
<1> HIDE DEF su
<1>3. Len(su) = Len(st) /\ \A i \in 1 .. Len(su) : su[i] = st[i]
  BY <1>1, <1>2
<1>4. su = st
  BY <1>2, <1>3, SeqEqual
<1> QED BY <1>4 DEF su

LEMMA ExceptLemma ==
  ASSUME NEW st \in Seq(Entry), st # <<>>, NEW e \in Entry, NEW su, su = [st EXCEPT ![Len(st)] = e]
  PROVE  /\ su \in Seq(Entry) /\ Len(su) = Len(st) /\ Len(st) > 0 /\ su[Len(st)] = e
         /\ \A i \in 1 .. Len(st) - 1 : su[i] = st[i]
OBVIOUS

\* What a restorer puts back, as long as its copies are what they were.
LEMMA RestorableLemma ==
  ASSUME NEW t \in Table, NEW e \in Entry, Restorable(t, e), e.done,
         \A k \in Std : e.was[k] # Closed, \A k \in e.set : e.old[k] # None
  PROVE  \A k \in e.set : RestoreFDs(t, e).at[k] = e.was[k]
<1>1. \A k \in Std : e.old[k] = None \/ (e.old[k] \in High /\ t.at[e.old[k]] = e.was[k])
  BY DEF Restorable
<1>2. ASSUME NEW k \in e.set PROVE k \in Std /\ IsOpen(t, e.old[k]) /\ t.at[e.old[k]] = e.was[k]
  <2>1. k \in Std
    BY EntryLemma
  <2> QED BY <2>1, <1>1, NumberLemma DEF IsOpen
<1> QED BY <1>1, <1>2, EntryLemma, RestoreLemma

LEMMA CloseNothing ==
  ASSUME NEW t \in Table PROVE CloseSet(t, {}) = t
BY DEF CloseSet, Table

\* PopRestorer leaves u, and closes what it is told to.
LEMMA PopLemma ==
  ASSUME RedirInv, NEW t, NEW ls, Sound(t, fdOf, stack, held, ls), NEW last, PopRestorer(t, last)
  PROVE  \E u \in Table :
           /\ Sound(u, fdOf', stack', held, ls)
           /\ table' = CloseSet(u, last)
           /\ Top.done /\ Saved => \A k \in Top.set : u.at[k] = Before[k]
           /\ ~Top.done => \A k \in Std : u.at[k] = t.at[k]
<1>1. stack \in Seq(Entry) /\ stack # <<>> /\ t \in Table
  BY DEF RedirInv, Sound, PopRestorer
<1>2. Top \in Entry /\ Append(Front(stack), Top) = stack /\ Top = stack[Len(stack)] /\ Len(stack) \in 1 .. Len(stack)
  BY <1>1, FrontLemma, AppendFront DEF Top
<1> DEFINE dead == Dropped(Front(stack))
           u == CloseDropped(Destroyed(t, Top), dead)
           fd == [o \in Object |-> IF o \in dead THEN None ELSE fdOf[o]]
<1>3. /\ Sound(u, fd, Front(stack), held, ls)
      /\ \A k \in Std : u.at[k] = RestoreFDs(t, Top).at[k]
  BY <1>1, <1>2, DropLemma
<1>4. table' = CloseSet(u, last) /\ fdOf' = fd /\ stack' = Front(stack)
  BY DEF PopRestorer, Drop
<1> HIDE DEF dead, u, fd
<1>5. u \in Table
  BY <1>3 DEF Sound
<1>6. ASSUME Top.done, Saved, NEW k \in Top.set PROVE u.at[k] = Before[k]
  <2>1. Restorable(t, Top)
    BY <1>2 DEF Sound
  <2>2. (\A i \in Std : Top.was[i] # Closed) /\ (\A i \in Top.set : Top.old[i] # None)
    BY <1>6 DEF Saved, Before, Copies
  <2>3. RestoreFDs(t, Top).at[k] = Top.was[k]
    BY <2>1, <2>2, <1>1, <1>2, <1>6, RestorableLemma
  <2>4. k \in Std
    BY <1>2, <1>6, EntryLemma
  <2> QED BY <2>3, <2>4, <1>3, <1>6 DEF Before
<1>7. ASSUME ~Top.done, NEW k \in Std PROVE u.at[k] = t.at[k]
  <2>1. \A i \in Std : Top.old[i] = None
    BY <1>2, <1>7, EntryLemma DEF NoFds
  <2>2. ~IsOpen(t, None)
    BY NumberLemma DEF IsOpen
  <2>3. Top.old \in [Std -> FdOrNone]
    BY <1>2, EntryLemma
  <2>4. RestoreFDs(t, Top).at[k] = IF k \in Top.set /\ IsOpen(t, Top.old[k]) THEN t.at[Top.old[k]] ELSE t.at[k]
    BY <2>1, <2>3, <1>1, <1>7, RestoreLemma
  <2> QED BY <2>1, <2>2, <2>4, <1>3, <1>7
<1> QED BY <1>3, <1>4, <1>5, <1>6, <1>7

-----------------------------------------------------------------------------
(* Every action keeps the invariant *)

LEMMA InvTypes ==
  ASSUME RedirInv
  PROVE  /\ table \in Table /\ fdOf \in [Object -> FdOrNone] /\ stack \in Seq(Entry) /\ lost \subseteq Fd
         /\ held \subseteq Object /\ base \in Nat /\ Len(stack) \in Nat
         /\ Len(stack) > base => stack # <<>> /\ Len(stack) > 0 /\ Top \in Entry /\ Top = stack[Len(stack)]
                                 /\ Len(stack) \in 1 .. Len(stack)
<1>1. table \in Table /\ fdOf \in [Object -> FdOrNone] /\ stack \in Seq(Entry) /\ lost \subseteq Fd
      /\ held \subseteq Object /\ base \in Nat
  BY DEF RedirInv, Sound
<1>2. Len(stack) \in Nat /\ (Len(stack) > base => stack # <<>>)
  BY <1>1
<1> QED BY <1>1, <1>2, FrontLemma DEF Top

LEMMA InitStep == RedirInit => RedirInv
<1> SUFFICES ASSUME RedirInit PROVE RedirInv
  OBVIOUS
<1>1. table \in Table /\ \A f \in Fd : table.at[f] # Closed <=> f \in Std
  BY RedirectionAssumption, DescriptorAssumption, NumberLemma DEF RedirInit, Table
<1>2. /\ fdOf \in [Object -> FdOrNone] /\ \A o \in Object : fdOf[o] # None => o \in held
      /\ \A o \in Object : fdOf[o] \notin High
  BY NumberLemma DEF RedirInit, FdOrNone, Std
<1>3. stack = <<>> /\ stack \in Seq(Entry) /\ Len(stack) = 0 /\ lost = {} /\ base = 0
  BY DEF RedirInit
<1>4. table.keep = Std /\ held \subseteq Object
  BY DEF RedirInit, Object
<1>5. ASSUME NEW f \in High PROVE OwnedAt(table, fdOf, stack, lost, f)
  <2>1. table.at[f] = Closed
    BY <1>1, NumberLemma
  <2> QED BY <2>1, <1>2, <1>3 DEF OwnedAt, SavedAt, HeldAt
<1>6. \A i \in 1 .. Len(stack) : Restorable(table, stack[i])
  BY <1>3
<1> QED BY <1>1, <1>2, <1>3, <1>4, <1>5, <1>6 DEF RedirInv, Sound

LEMMA NewRedirStep == RedirInv /\ NewRedir => RedirInv'
<1> SUFFICES ASSUME RedirInv, NewRedir PROVE RedirInv'
  OBVIOUS
<1>1. Restorer \in Entry /\ ~Restorer.done /\ \A k \in Std : Restorer.old[k] = None
  BY RedirectionAssumption DEF Restorer, Entry, NoFds, FdOrNone
<1>2. stack \in Seq(Entry) /\ Len(stack) \in Nat /\ lost \subseteq Fd /\ Sound(table, fdOf, stack, held, lost)
  BY InvTypes DEF RedirInv
<1> DEFINE n == Len(stack) + 1
<1>3. /\ stack' \in Seq(Entry) /\ Len(stack') = n /\ n \in Nat /\ n > 0 /\ n - 1 = Len(stack)
      /\ \A i \in 1 .. n - 1 : stack'[i] = stack[i]
      /\ stack'[n] = Restorer
  BY <1>1, <1>2 DEF NewRedir
<1>4. Restorable(table, stack'[n])
  BY <1>1, <1>3 DEF Restorable
<1> HIDE DEF n
<1>5. Sound(table, fdOf, stack', held, lost)
  <2>1. \A k \in Std : stack'[n].old[k] = None
    BY <1>1, <1>3
  <2>2. \A f \in High : f # None
    BY NumberLemma
  <2>3. Len(stack) # n
    BY <1>3
  <2> QED BY <1>2, <1>3, <1>4, <2>1, <2>2, <2>3, RestackLemma
<1> QED BY <1>5, InvTypes DEF NewRedir, RedirInv

\* The newest restorer, still being built, takes one more operation.
Added(op, set) == [stack EXCEPT ![Len(stack)] = [Top EXCEPT !.ops = Append(Top.ops, op), !.set = set]]
LEMMA AddStep ==
  ASSUME RedirInv, Building, NEW op \in Operation, NEW set, set \subseteq Std,
         NEW su, su = Added(op, set)
  PROVE  /\ Sound(table, fdOf, su, held, lost)
         /\ PassedIn(su[Len(stack)], op[2]) \/ op # <<"NOP", op[2]>>
         /\ Len(su) = Len(stack) /\ Len(stack) \in 1 .. Len(stack)
<1> DEFINE n == Len(stack)
           e == [Top EXCEPT !.ops = Append(Top.ops, op), !.set = set]
<1>1. /\ stack \in Seq(Entry) /\ stack # <<>> /\ n \in Nat /\ n > 0 /\ Top \in Entry /\ Top = stack[n]
      /\ ~Top.done /\ Len(Top.ops) < MaxOps /\ lost \subseteq Fd /\ n \in 1 .. n
  BY InvTypes DEF Building
<1>2. /\ Append(Top.ops, op) \in Seq(Operation) /\ Len(Append(Top.ops, op)) = Len(Top.ops) + 1
      /\ \A j \in 1 .. Len(Top.ops) : Append(Top.ops, op)[j] = Top.ops[j]
      /\ Append(Top.ops, op)[Len(Top.ops) + 1] = op
      /\ Len(Top.ops) \in Nat
  BY <1>1, EntryLemma
<1>3. e \in Entry /\ e.ops = Append(Top.ops, op) /\ e.old = Top.old /\ e.done = Top.done
  <2>1. Len(Append(Top.ops, op)) <= MaxOps
    BY <1>1, <1>2, RedirectionAssumption
  <2> QED BY <1>1, <1>2, <2>1 DEF Entry
<1>11. su = [stack EXCEPT ![Len(stack)] = e]
  BY DEF Added
<1> HIDE DEF e, n
<1>4. /\ su \in Seq(Entry) /\ Len(su) = n /\ su[n] = e
      /\ \A i \in 1 .. n - 1 : su[i] = stack[i]
  <2>1. \A st \in Seq(Entry), x \in Entry : st # <<>> =>
          /\ [st EXCEPT ![Len(st)] = x] \in Seq(Entry) /\ Len([st EXCEPT ![Len(st)] = x]) = Len(st)
          /\ [st EXCEPT ![Len(st)] = x][Len(st)] = x
          /\ \A i \in 1 .. Len(st) - 1 : [st EXCEPT ![Len(st)] = x][i] = st[i]
    BY ExceptLemma
  <2> QED BY <2>1, <1>1, <1>3, <1>11 DEF n
<1>5. /\ \A o : MentionedIn(Top, o) => MentionedIn(e, o)
      /\ \A o : PassedIn(Top, o) => PassedIn(e, o)
  <2>1. \A j \in 1 .. Len(Top.ops) : j \in 1 .. Len(e.ops) /\ e.ops[j] = Top.ops[j]
    BY <1>2, <1>3
  <2> QED BY <2>1 DEF MentionedIn, PassedIn
<1>6. PassedIn(e, op[2]) \/ op # <<"NOP", op[2]>>
  <2>1. Len(Top.ops) + 1 \in 1 .. Len(e.ops) /\ e.ops[Len(Top.ops) + 1] = op
    BY <1>2, <1>3
  <2> QED BY <2>1 DEF PassedIn
<1>7. /\ Top.old = NoFds /\ \A k \in Std : e.old[k] = None
      /\ Restorable(table, e)
  BY <1>1, <1>3, EntryLemma DEF NoFds, Restorable
<1>8. Sound(table, fdOf, stack, held, lost) /\ Len(stack) = n
  BY DEF RedirInv, n
<1>9. \A f \in High : f # None
  BY NumberLemma
<1>10. Sound(table, fdOf, su, held, lost)
  <2>1. /\ stack[n].old = NoFds
        /\ \A o : MentionedIn(stack[n], o) => MentionedIn(su[n], o)
        /\ \A o : PassedIn(stack[n], o) => PassedIn(su[n], o)
        /\ \A k \in Std : su[n].old[k] = None
        /\ Restorable(table, su[n])
    BY <1>1, <1>4, <1>5, <1>7
  <2>2. /\ \A k \in Std : su[n].old[k] \in High => su[n].old[k] \in lost /\ su[n].old[k] \notin table.keep
        /\ \A k \in Std, l \in Std : su[n].old[k] = su[n].old[l] /\ su[n].old[k] \in High => k = l
        /\ \A f \in High : f \in lost <=> f \in lost /\ \A k \in Std : su[n].old[k] # f
    BY <2>1, <1>9
  <2>3. su \in Seq(Entry) /\ n \in Nat /\ n = Len(su) /\ n > 0 /\ Len(stack) \in {n - 1, n} /\ lost \subseteq Fd
        /\ \A i \in 1 .. n - 1 : su[i] = stack[i]
    BY <1>1, <1>4, <1>8
  <2>4. Sound(table, fdOf, stack, held, lost) /\ Restorable(table, su[n])
    BY <1>8, <2>1
  <2>5. Len(stack) = n => /\ stack[n].old = NoFds
                          /\ \A o : MentionedIn(stack[n], o) => MentionedIn(su[n], o)
                          /\ \A o : PassedIn(stack[n], o) => PassedIn(su[n], o)
    BY <2>1
  <2> QED BY <2>2, <2>3, <2>4, <2>5, RestackLemma
<1> QED BY <1>1, <1>4, <1>6, <1>10 DEF n

LEMMA AddRedirOpStep ==
  ASSUME RedirInv, NEW e \in RedirArg, AddRedirOp(e[1], e[2])
  PROVE  RedirInv'
<1> DEFINE set == Top.set \cup Changed[e[1]]
           op == <<e[1], e[2]>>
           su == Added(op, set)
<1>1. /\ stack \in Seq(Entry) /\ Top \in Entry /\ Top = stack[Len(stack)] /\ Len(stack) \in 1 .. Len(stack)
      /\ Building
  BY InvTypes DEF Building, AddRedirOp
<1>2. op \in Operation
  <2>1. e \in (DOMAIN Changed) \X (Path \cup Object \cup Text)
    BY RedirectionAssumption
  <2>2. op = e
    BY <2>1
  <2> QED BY <2>2 DEF Operation
<1>3. Changed[e[1]] \subseteq Std
  <2>1. e[1] \in DOMAIN Changed
    BY RedirectionAssumption, PairLemma
  <2> QED BY <2>1 DEF Changed, Std
<1>4. set \subseteq Std
  BY <1>1, <1>3, EntryLemma
<1>5. stack' = su
  BY <1>1 DEF AddRedirOp, Entry, Added
<1> HIDE DEF set, op
<1>6. Sound(table, fdOf, stack', held, lost)
  BY <1>1, <1>2, <1>4, <1>5, AddStep
<1> QED BY <1>6, InvTypes DEF AddRedirOp, RedirInv

LEMMA AddCmdArgStep ==
  ASSUME RedirInv, NEW o \in Object, AddCmdArg(o)
  PROVE  RedirInv'
<1> DEFINE op == <<"NOP", o>>
           su == Added(op, Top.set)
<1>1. /\ stack \in Seq(Entry) /\ Top \in Entry /\ Top = stack[Len(stack)] /\ Len(stack) \in 1 .. Len(stack)
      /\ Building /\ table \in Table /\ fdOf \in [Object -> FdOrNone]
  BY InvTypes DEF Building, AddCmdArg
<1>2. op \in Operation /\ op[2] = o
  BY DEF Operation
<1>3. Top.set \subseteq Std
  BY <1>1, EntryLemma
<1>4. stack' = su
  BY <1>1 DEF AddCmdArg, Entry, Added
<1>5. /\ Sound(table, fdOf, stack', held, lost)
      /\ PassedIn(stack'[Len(stack)], o) /\ Len(stack') = Len(stack)
  BY <1>1, <1>2, <1>3, <1>4, AddStep
<1>6. PassedBy(stack', o)
  BY <1>1, <1>5 DEF PassedBy
<1>7. /\ table' \in Table /\ table'.at = table.at
      /\ table'.keep \subseteq table.keep \cup (IF fdOf[o] > 2 THEN {fdOf[o]} ELSE {})
  <2>1. fdOf[o] > 2 => fdOf[o] \in Fd
    BY <1>1 DEF FdOrNone, None
  <2> QED BY <1>1, <2>1 DEF AddCmdArg, Keep, Table
<1>8. Sound(table', fdOf, stack', held, lost)
  <2>1. ASSUME NEW f \in table'.keep \ Std
        PROVE  f \in lost \/ \E p \in Object : fdOf[p] = f /\ PassedBy(stack', p)
    BY <1>5, <1>6, <1>7 DEF Sound
  <2>2. \A f \in High : OwnedAt(table', fdOf, stack', lost, f)
    BY <1>5, <1>7 DEF Sound, OwnedAt
  <2>3. \A i \in 1 .. Len(stack') : Restorable(table', stack'[i])
    BY <1>5, <1>7 DEF Sound, Restorable
  <2> QED BY <1>5, <1>7, <2>1, <2>2, <2>3 DEF Sound
<1> QED BY <1>8, InvTypes DEF AddCmdArg, RedirInv

LEMMA PopStep ==
  ASSUME RedirInv, PopRestorer(table, {}), UNCHANGED <<held, base, lost>>
  PROVE  RedirInv'
<1>1. Sound(table, fdOf, stack, held, lost)
  BY DEF RedirInv
<1>2. PICK u \in Table : Sound(u, fdOf', stack', held, lost) /\ table' = CloseSet(u, {})
  BY <1>1, PopLemma
<1> QED BY <1>2, CloseNothing, InvTypes DEF RedirInv

LEMMA BuiltinExecStep == RedirInv /\ BuiltinExec => RedirInv'
<1> SUFFICES ASSUME RedirInv, BuiltinExec PROVE RedirInv'
  OBVIOUS
<1> DEFINE n == Len(stack)
           e == [Top EXCEPT !.set = {}]
<1>1. /\ stack \in Seq(Entry) /\ stack # <<>> /\ n \in Nat /\ n > 0 /\ Top \in Entry /\ Top = stack[n]
      /\ n \in 1 .. n
  BY InvTypes DEF BuiltinExec
<1>2. e \in Entry /\ e.old = Top.old /\ e.ops = Top.ops /\ e.done = Top.done /\ e.was = Top.was
  BY <1>1 DEF Entry
<1>3. stack' = [stack EXCEPT ![n] = e]
  BY <1>1 DEF BuiltinExec, Entry
<1> HIDE DEF e
<1>4. /\ stack' \in Seq(Entry) /\ Len(stack') = n
      /\ \A i \in 1 .. n : stack'[i] = IF i = n THEN e ELSE stack[i]
  BY <1>1, <1>2, <1>3
<1>5. /\ Len(stack') = Len(stack)
      /\ \A i \in 1 .. Len(stack) : /\ stack'[i].old = stack[i].old /\ stack'[i].ops = stack[i].ops
                                    /\ stack'[i].done = stack[i].done /\ stack'[i].was = stack[i].was
  BY <1>1, <1>2, <1>4
<1> HIDE DEF n
<1>6. /\ \A f : SavedAt(stack', f) <=> SavedAt(stack, f)
      /\ \A o : PassedBy(stack', o) <=> PassedBy(stack, o)
      /\ \A o : Mentioned(stack', o) <=> Mentioned(stack, o)
  BY <1>5 DEF SavedAt, PassedBy, PassedIn, Mentioned, MentionedIn
<1>7. \A f \in High : OwnedAt(table, fdOf, stack', lost, f)
  BY <1>5, <1>6 DEF RedirInv, Sound, OwnedAt
<1>8. \A i \in 1 .. Len(stack') : Restorable(table, stack'[i])
  BY <1>5 DEF RedirInv, Sound, Restorable
<1>9. Sound(table, fdOf, stack', held, lost)
  BY <1>4, <1>6, <1>7, <1>8 DEF RedirInv, Sound
<1> QED BY <1>9, InvTypes DEF BuiltinExec, RedirInv

\* What DO_REDIR does to the newest restorer and to the table.
SavedNow == BackupFDs(table, Top.set)
Applied(forked) == Apply(SavedNow.t, Top.ops, forked)
Redirected == [Top EXCEPT !.done = TRUE, !.old = SavedNow.old, !.was = [i \in Std |-> table.at[i]]]

LEMMA RedirectedLemma ==
  ASSUME RedirInv, Len(stack) > base, ~Top.done, NEW forked \in BOOLEAN
  PROVE  /\ Redirected \in Entry /\ Redirected.ops = Top.ops /\ Redirected.done /\ Redirected.set = Top.set
         /\ Redirected.old = SavedNow.old /\ Redirected.was = [i \in Std |-> table.at[i]]
         /\ Applied(forked).t \in Table
         /\ Sound(Applied(forked).t, fdOf, Append(Front(stack), Redirected), held, lost \cup Applied(forked).lost)
<1> DEFINE n == Len(stack)
           b == SavedNow
           r == Applied(forked)
           e == Redirected
           su == Append(Front(stack), e)
           ms == {b.old[k] : k \in Std} \cap High
<1>1. /\ stack \in Seq(Entry) /\ stack # <<>> /\ n \in Nat /\ n > 0 /\ Top \in Entry /\ Top = stack[n]
      /\ lost \subseteq Fd /\ n \in 1 .. n /\ table \in Table /\ Sound(table, fdOf, stack, held, lost)
  BY InvTypes DEF RedirInv
<1>2. Copied(table, b)
  BY <1>1, BackupFDsLemma DEF SavedNow
<1>3. /\ e \in Entry /\ e.ops = Top.ops /\ e.done = TRUE /\ e.old = b.old /\ e.was = [i \in Std |-> table.at[i]]
      /\ e.set = Top.set
  <2>1. b.old \in [Std -> FdOrNone]
    BY <1>2 DEF Copied
  <2>2. [i \in Std |-> table.at[i]] \in [Std -> File \cup {Closed}]
    BY <1>1, NumberLemma DEF Table
  <2> QED BY <1>1, <2>1, <2>2 DEF Entry, Redirected
<1>4. /\ su \in Seq(Entry) /\ Len(su) = n /\ su[n] = e
      /\ \A i \in 1 .. n - 1 : su[i] = stack[i]
  <2>1. /\ Front(stack) \in Seq(Entry) /\ Len(Front(stack)) = n - 1
        /\ \A i \in 1 .. n - 1 : Front(stack)[i] = stack[i]
    BY <1>1, FrontLemma
  <2> HIDE DEF e, n
  <2>2. /\ su \in Seq(Entry) /\ Len(su) = Len(Front(stack)) + 1 /\ su[Len(Front(stack)) + 1] = e
        /\ \A i \in 1 .. Len(Front(stack)) : su[i] = Front(stack)[i]
    BY <1>3, <2>1, AppendLemma
  <2> QED BY <1>1, <2>1, <2>2
<1> HIDE DEF b, r, e, su
<1>5. ms \subseteq Fd /\ \A f \in High : f \in ms <=> \E k \in Std : b.old[k] = f
  BY NumberLemma
<1> HIDE DEF ms
<1>6. Within(table, b.t, ms)
  BY <1>2, <1>5 DEF Copied, Within
<1>7. Sound(b.t, fdOf, stack, held, lost \cup ms)
  BY <1>1, <1>6, WithinSound
<1>8. \A f \in High : f \in ms => f \notin lost
  BY <1>1, <1>6 DEF Within, Sound, OwnedAt
<1>9. Sound(b.t, fdOf, su, held, lost)
  <2>1. \A k \in Std : su[n].old[k] \in High => su[n].old[k] \in lost \cup ms /\ su[n].old[k] \notin b.t.keep
    BY <1>2, <1>3, <1>4, <1>5 DEF Copied
  <2>2. \A k \in Std, l \in Std : su[n].old[k] = su[n].old[l] /\ su[n].old[k] \in High => k = l
    BY <1>2, <1>3, <1>4 DEF Copied
  <2>3. \A f \in High : f \in lost <=> f \in lost \cup ms /\ \A k \in Std : su[n].old[k] # f
    BY <1>3, <1>4, <1>5, <1>8
  <2>4. Restorable(b.t, su[n])
    BY <1>2, <1>3, <1>4 DEF Copied, Restorable
  <2>5. /\ stack[n].old = NoFds
        /\ \A o : MentionedIn(stack[n], o) => MentionedIn(su[n], o)
        /\ \A o : PassedIn(stack[n], o) => PassedIn(su[n], o)
    BY <1>1, <1>3, <1>4, EntryLemma DEF MentionedIn, PassedIn
  <2>6. su \in Seq(Entry) /\ n \in Nat /\ n = Len(su) /\ n > 0 /\ Len(stack) \in {n - 1, n} /\ lost \subseteq Fd
        /\ \A i \in 1 .. n - 1 : su[i] = stack[i]
    BY <1>1, <1>4
  <2> HIDE DEF n
  <2> QED BY <1>7, <2>1, <2>2, <2>3, <2>4, <2>5, <2>6, RestackLemma
<1>10. Leaves(b.t, r)
  <2>1. b.t \in Table /\ Top.ops \in Seq(Operation)
    BY <1>1, <1>2, EntryLemma DEF Copied
  <2> QED BY <2>1, ApplyLemma DEF r, b, Applied
<1>11. Sound(r.t, fdOf, su, held, lost \cup r.lost) /\ r.t \in Table
  BY <1>9, <1>10, WithinSound DEF Leaves
<1> QED BY <1>3, <1>11 DEF e, r, su, b

LEMMA DoRedirStep ==
  ASSUME RedirInv, NEW forked \in BOOLEAN, DoRedir(forked)
  PROVE  RedirInv'
<1> DEFINE r == Applied(forked)
           e == Redirected
<1>1. Len(stack) > base /\ ~Top.done
  BY DEF DoRedir
<1>2. /\ e \in Entry /\ e.ops = Top.ops /\ r.t \in Table
      /\ Sound(r.t, fdOf, Append(Front(stack), e), held, lost \cup r.lost)
  BY <1>1, RedirectedLemma
<1>3. /\ lost' = lost \cup r.lost
      /\ \/ stack' = Append(Front(stack), e) /\ table' = r.t /\ fdOf' = fdOf
         \/ Drop(Destroyed(r.t, e), Front(stack), {})
      /\ held' = held /\ base' = base
  BY DEF DoRedir, Applied, Redirected, SavedNow
<1> HIDE DEF r, e
<1>4. CASE stack' = Append(Front(stack), e) /\ table' = r.t /\ fdOf' = fdOf
  BY <1>2, <1>3, <1>4, InvTypes DEF RedirInv
<1>5. CASE Drop(Destroyed(r.t, e), Front(stack), {})
  <2> DEFINE dead == Dropped(Front(stack))
             u == CloseDropped(Destroyed(r.t, e), dead)
             fd == [o \in Object |-> IF o \in dead THEN None ELSE fdOf[o]]
  <2>1. Sound(u, fd, Front(stack), held, lost \cup r.lost)
    BY <1>1, <1>2, InvTypes, DropLemma
  <2>2. table' = CloseSet(u, {}) /\ fdOf' = fd /\ stack' = Front(stack)
    BY <1>5 DEF Drop
  <2> HIDE DEF u, fd, dead
  <2>3. table' = u
    BY <2>1, <2>2, CloseNothing DEF Sound
  <2> QED BY <1>3, <2>1, <2>2, <2>3, InvTypes DEF RedirInv
<1> QED BY <1>3, <1>4, <1>5

-----------------------------------------------------------------------------
(* Pipes and forks *)

LEMMA PipeWithin ==
  ASSUME NEW t \in Table, NEW p, p = Pipe(t), p.r # None
  PROVE  /\ p.r \in Fd /\ p.w \in Fd /\ p.r # p.w /\ p.r = Lowest(t) /\ p.t \in Table
         /\ t.at[p.r] = Closed /\ t.at[p.w] = Closed
         /\ p.t.at[p.r] # Closed /\ p.t.at[p.w] # Closed
         /\ Within(t, p.t, {p.r, p.w})
<1>1. /\ p.r \in Fd /\ p.w \in Fd /\ p.r # p.w /\ p.r = Lowest(t)
      /\ t.at[p.r] = Closed /\ t.at[p.w] = Closed
      /\ p.t \in Table
      /\ \A f \in Fd : p.t.at[f] = IF f \in {p.r, p.w} THEN "pipe" ELSE t.at[f]
      /\ p.t.keep = t.keep \cup {p.r, p.w}
  BY PipeLemma
<1>2. "pipe" # Closed
  BY RedirectionAssumption, DescriptorAssumption
<1>3. Within(t, p.t, {p.r, p.w})
  BY <1>1, <1>2, NumberLemma DEF Within
<1> QED BY <1>1, <1>2, <1>3

\* Descriptors that were closed before the table became u, and so were nobody's.
LEMMA FreshLemma ==
  ASSUME NEW t, NEW fd, NEW st, NEW hd, NEW ls, Sound(t, fd, st, hd, ls), NEW f \in High, t.at[f] = Closed
  PROVE  f \notin ls /\ ~SavedAt(st, f) /\ ~HeldAt(fd, f)
BY DEF Sound, OwnedAt

\* The two tables forkAndExec restores from, the self pipe being lost for the moment.
LEMMA SelfPipeLemma ==
  ASSUME RedirInv, Pipe(table).r # None
  PROVE  LET p == Pipe(table) IN
         /\ p.r \in Fd /\ p.w \in Fd /\ p.r = Lowest(table)
         /\ \A f \in High : f \in {p.r, p.w} => f \notin lost
         /\ Sound(Close(p.t, p.w), fdOf, stack, held, lost \cup {p.r})
         /\ Sound(CloseOnExec(p.t, p.w), fdOf, stack, held, lost \cup {p.r, p.w})
<1> DEFINE p == Pipe(table)
<1>1. table \in Table /\ Sound(table, fdOf, stack, held, lost) /\ lost \subseteq Fd
  BY InvTypes DEF RedirInv
<1>2. /\ p.r \in Fd /\ p.w \in Fd /\ p.r # p.w /\ p.r = Lowest(table) /\ p.t \in Table
      /\ table.at[p.r] = Closed /\ table.at[p.w] = Closed
      /\ Within(table, p.t, {p.r, p.w})
  BY <1>1, PipeWithin
<1> HIDE DEF p
<1>3. Sound(p.t, fdOf, stack, held, lost \cup {p.r, p.w})
  BY <1>1, <1>2, WithinSound
<1>4. \A f \in High : f \in {p.r, p.w} => f \notin lost
  BY <1>1, <1>2, FreshLemma
<1>5. Sound(Close(p.t, p.w), fdOf, stack, held, lost \cup {p.r})
  <2>1. Close(p.t, p.w) = CloseSet(p.t, {p.w})
    BY <1>2 DEF Close, Put, CloseSet, Table
  <2>2. \A f \in High : (f \in {p.w} => f \in lost \cup {p.r, p.w})
                        /\ (f \in lost \cup {p.r} <=> f \in lost \cup {p.r, p.w} /\ f \notin {p.w})
    BY <1>2, <1>4
  <2>3. lost \cup {p.r} \subseteq Fd
    BY <1>1, <1>2
  <2> QED BY <1>3, <2>1, <2>2, <2>3, CloseLostLemma
<1>6. Sound(CloseOnExec(p.t, p.w), fdOf, stack, held, lost \cup {p.r, p.w})
  <2>1. Within(p.t, CloseOnExec(p.t, p.w), {})
    BY <1>2, NumberLemma DEF CloseOnExec, Within, Table
  <2>2. Sound(CloseOnExec(p.t, p.w), fdOf, stack, held, (lost \cup {p.r, p.w}) \cup {})
    BY <1>3, <2>1, WithinSound
  <2>3. (lost \cup {p.r, p.w}) \cup {} = lost \cup {p.r, p.w}
    OBVIOUS
  <2> QED BY <2>2, <2>3
<1> QED BY <1>2, <1>4, <1>5, <1>6 DEF p

LEMMA ForkAndExecStep ==
  ASSUME RedirInv, NEW forked \in BOOLEAN, ForkAndExec(forked)
  PROVE  RedirInv'
<1> DEFINE p == Pipe(table)
<1>1. /\ p.r \in Fd /\ \A f \in High : f \in {p.r, p.w} => f \notin lost
      /\ Sound(Close(p.t, p.w), fdOf, stack, held, lost \cup {p.r})
      /\ Sound(CloseOnExec(p.t, p.w), fdOf, stack, held, lost \cup {p.r, p.w})
  BY SelfPipeLemma DEF ForkAndExec
<1>2. /\ \/ PopRestorer(Close(p.t, p.w), {p.r}) /\ lost' = lost
         \/ PopRestorer(CloseOnExec(p.t, p.w), {}) /\ lost' = lost \cup {p.r, p.w}
      /\ held' = held /\ base' = base
  BY DEF ForkAndExec
<1> HIDE DEF p
<1>3. CASE PopRestorer(Close(p.t, p.w), {p.r}) /\ lost' = lost
  <2>1. PICK u \in Table : Sound(u, fdOf', stack', held, lost \cup {p.r}) /\ table' = CloseSet(u, {p.r})
    BY <1>1, <1>3, PopLemma
  <2>2. \A f \in High : (f \in {p.r} => f \in lost \cup {p.r})
                        /\ (f \in lost <=> f \in lost \cup {p.r} /\ f \notin {p.r})
    BY <1>1
  <2>3. Sound(table', fdOf', stack', held, lost)
    BY <2>1, <2>2, InvTypes, CloseLostLemma
  <2> QED BY <2>3, <1>2, <1>3, InvTypes DEF RedirInv
<1>4. CASE PopRestorer(CloseOnExec(p.t, p.w), {}) /\ lost' = lost \cup {p.r, p.w}
  <2>1. PICK u \in Table : Sound(u, fdOf', stack', held, lost') /\ table' = CloseSet(u, {})
    BY <1>1, <1>4, PopLemma
  <2> QED BY <2>1, <1>2, CloseNothing, InvTypes DEF RedirInv
<1> QED BY <1>2, <1>3, <1>4

\* d is a copy of f, with a number that was free.
Duped(t, f, d) ==
  /\ d.fd \in Fd /\ t.at[d.fd] = Closed /\ d.t \in Table /\ d.t.at[d.fd] = t.at[f] /\ t.at[f] # Closed
  /\ \A g \in Fd : g # d.fd => d.t.at[g] = t.at[g]
  /\ d.t.keep \subseteq t.keep \ {d.fd}
  /\ Within(t, d.t, {d.fd})

LEMMA DupWithin ==
  ASSUME NEW t \in Table, NEW f, DupFd(t, f).fd # None
  PROVE  Duped(t, f, DupFd(t, f))
<1> DEFINE d == DupFd(t, f)
<1>5. \/ d = [fd |-> None, t |-> t]
      \/ /\ IsOpen(t, f)
         /\ d.fd \in Fd /\ t.at[d.fd] = Closed
         /\ d.t \in Table
         /\ d.t.at = [t.at EXCEPT ![d.fd] = t.at[f]]
         /\ d.t.keep = t.keep \ {d.fd}
  BY DupFdLemma
<1>6. d.fd # None
  OBVIOUS
<1> HIDE DEF d
<1>1. /\ IsOpen(t, f)
      /\ d.fd \in Fd /\ t.at[d.fd] = Closed
      /\ d.t \in Table
      /\ d.t.at = [t.at EXCEPT ![d.fd] = t.at[f]]
      /\ d.t.keep = t.keep \ {d.fd}
  BY <1>5, <1>6
<1>2. t.at[f] # Closed /\ t.at \in [Fd -> File \cup {Closed}]
  BY <1>1 DEF IsOpen, Table
<1>3. d.t.at[d.fd] = t.at[f] /\ \A g \in Fd : g # d.fd => d.t.at[g] = t.at[g]
  BY <1>1, <1>2
<1>4. Within(t, d.t, {d.fd})
  BY <1>1, <1>2, <1>3, NumberLemma DEF Within
<1>7. Duped(t, f, d)
  BY <1>1, <1>2, <1>3, <1>4 DEF Duped
<1> QED BY <1>7 DEF d

LEMMA PipeSetLemma ==
  ASSUME table \in Table, NEW kind \in ForkKind, PipeSet(kind).made
  PROVE  LET ps == PipeSet(kind)
             ends == {ps.in.r, ps.in.w, ps.out.r, ps.out.w} \ {None}
         IN  /\ ps.t \in Table /\ ends \subseteq Fd /\ Within(table, ps.t, ends)
             /\ IF kind \in UseIn THEN ps.in.r \in Fd /\ ps.in.w \in Fd /\ ps.in.r # ps.in.w
                ELSE ps.in.r = None /\ ps.in.w = None
             /\ IF kind \in UseOut THEN ps.out.r \in Fd /\ ps.out.w \in Fd /\ ps.out.r # ps.out.w
                ELSE ps.out.r = None /\ ps.out.w = None
             /\ kind \in UseIn /\ kind \in UseOut => {ps.in.r, ps.in.w} \cap {ps.out.r, ps.out.w} = {}
<1> DEFINE i == IF kind \in UseIn THEN Pipe(table) ELSE NoPipe(table)
           o == IF kind \in UseOut THEN Pipe(i.t) ELSE NoPipe(i.t)
           ps == PipeSet(kind)
<1>1. ps.in = i /\ ps.out = o /\ ps.t = o.t
      /\ (kind \in UseIn => i.r # None) /\ (kind \in UseOut => o.r # None)
  BY DEF PipeSet
<1> HIDE DEF ps
<1>2. kind \in UseIn => /\ i.r \in Fd /\ i.w \in Fd /\ i.r # i.w /\ i.t \in Table
                        /\ i.t.at[i.r] # Closed /\ i.t.at[i.w] # Closed
                        /\ Within(table, i.t, {i.r, i.w})
  <2> SUFFICES ASSUME kind \in UseIn
               PROVE /\ i.r \in Fd /\ i.w \in Fd /\ i.r # i.w /\ i.t \in Table
                     /\ i.t.at[i.r] # Closed /\ i.t.at[i.w] # Closed
                     /\ Within(table, i.t, {i.r, i.w})
    OBVIOUS
  <2>1. i = Pipe(table) /\ i.r # None
    BY <1>1
  <2> HIDE DEF i
  <2> QED BY <2>1, PipeWithin
<1>3. kind \notin UseIn => i.r = None /\ i.w = None /\ i.t = table
  BY DEF NoPipe
<1>4. Within(table, table, {})
  BY WithinSelf
<1> HIDE DEF i
<1>5. i.t \in Table /\ Within(table, i.t, {i.r, i.w} \ {None})
  <2>1. CASE kind \in UseIn
    <3>1. {i.r, i.w} \ {None} = {i.r, i.w}
      BY <2>1, <1>2, NumberLemma
    <3> QED BY <2>1, <3>1, <1>2
  <2>2. CASE kind \notin UseIn
    <3>1. {i.r, i.w} \ {None} = {}
      BY <2>2, <1>3
    <3> QED BY <2>2, <3>1, <1>3, <1>4
  <2> QED BY <2>1, <2>2
<1>6. kind \in UseOut => /\ o.r \in Fd /\ o.w \in Fd /\ o.r # o.w /\ o.t \in Table
                         /\ i.t.at[o.r] = Closed /\ i.t.at[o.w] = Closed
                         /\ Within(i.t, o.t, {o.r, o.w})
  <2> SUFFICES ASSUME kind \in UseOut
               PROVE /\ o.r \in Fd /\ o.w \in Fd /\ o.r # o.w /\ o.t \in Table
                     /\ i.t.at[o.r] = Closed /\ i.t.at[o.w] = Closed
                     /\ Within(i.t, o.t, {o.r, o.w})
    OBVIOUS
  <2>1. o = Pipe(i.t) /\ o.r # None
    BY <1>1
  <2> HIDE DEF o
  <2> QED BY <2>1, <1>5, PipeWithin
<1>7. kind \notin UseOut => o.r = None /\ o.w = None /\ o.t = i.t
  BY DEF NoPipe
<1> HIDE DEF o
<1>8. o.t \in Table /\ Within(table, o.t, ({i.r, i.w} \ {None}) \cup ({o.r, o.w} \ {None}))
  <2>1. CASE kind \in UseOut
    <3>1. {o.r, o.w} \ {None} = {o.r, o.w}
      BY <2>1, <1>6, NumberLemma
    <3> QED BY <2>1, <3>1, <1>5, <1>6, WithinTwice
  <2>2. CASE kind \notin UseOut
    <3>1. ({i.r, i.w} \ {None}) \cup ({o.r, o.w} \ {None}) = {i.r, i.w} \ {None}
      BY <2>2, <1>7
    <3> QED BY <2>2, <3>1, <1>5, <1>7
  <2> QED BY <2>1, <2>2
<1>9. ({i.r, i.w} \ {None}) \cup ({o.r, o.w} \ {None}) = {i.r, i.w, o.r, o.w} \ {None}
  OBVIOUS
<1>10. {i.r, i.w, o.r, o.w} \ {None} \subseteq Fd
  BY <1>2, <1>3, <1>6, <1>7
<1>11. kind \in UseIn /\ kind \in UseOut => {i.r, i.w} \cap {o.r, o.w} = {}
  BY <1>2, <1>6
<1> QED BY <1>1, <1>2, <1>3, <1>6, <1>7, <1>8, <1>9, <1>10, <1>11 DEF ps

LEMMA PipeSetSound ==
  ASSUME RedirInv, NEW kind \in ForkKind, PipeSet(kind).made
  PROVE  LET ps == PipeSet(kind)
             ends == {ps.in.r, ps.in.w, ps.out.r, ps.out.w} \ {None}
         IN  /\ Sound(ps.t, fdOf, stack, held, lost \cup ends)
             /\ \A f \in High : f \in ends => f \notin lost
<1> DEFINE ps == PipeSet(kind)
           ends == {ps.in.r, ps.in.w, ps.out.r, ps.out.w} \ {None}
<1>1. table \in Table /\ Sound(table, fdOf, stack, held, lost)
  BY InvTypes DEF RedirInv
<1>2. Within(table, ps.t, ends)
  BY <1>1, PipeSetLemma
<1> HIDE DEF ends, ps
<1>3. Sound(ps.t, fdOf, stack, held, lost \cup ends)
  BY <1>1, <1>2, WithinSound
<1>4. \A f \in High : f \in ends => f \notin lost
  BY <1>1, <1>2, FreshLemma DEF Within
<1> QED BY <1>3, <1>4 DEF ends, ps

LEMMA ForkFailsStep ==
  ASSUME RedirInv, NEW kind \in ForkKind, ForkFails(kind)
  PROVE  RedirInv'
<1>1. PipeSet(kind).made
  BY DEF ForkFails
<1>2. Sound(table', fdOf, stack, held, lost')
  BY <1>1, PipeSetSound DEF ForkFails
<1> QED BY <1>2, InvTypes DEF ForkFails, RedirInv

LEMMA ForkChildStep ==
  ASSUME RedirInv, NEW kind \in ForkKind, ForkChild(kind)
  PROVE  RedirInv'
<1> DEFINE ps == PipeSet(kind)
           ends == {ps.in.r, ps.in.w, ps.out.r, ps.out.w} \ {None}
           all == {ps.in.r, ps.in.w, ps.out.r, ps.out.w}
           n == Lowest(ps.t)
           file == Close(Dup2(Put(ps.t, n, "file", TRUE), n, 0), n)
           in == IF kind = "JOB" /\ n # None THEN file ELSE Dup2(ps.t, ps.in.r, 0)
           u == Dup2(in, ps.out.w, 1)
<1>1. ps.made /\ 0 \in Std /\ 1 \in Std
  BY DEF ForkChild, Std
<1>2. /\ ps.t \in Table /\ Sound(ps.t, fdOf, stack, held, lost \cup ends)
      /\ \A f \in High : f \in ends => f \notin lost
  BY <1>1, InvTypes, PipeSetLemma, PipeSetSound
<1>3. /\ table' = CloseSet(u, all) /\ base' = Len(stack)
      /\ fdOf' = fdOf /\ held' = held /\ stack' = stack /\ lost' = lost
  BY DEF ForkChild
<1>4. n # None => Within(ps.t, file, {})
  <2> SUFFICES ASSUME n # None PROVE Within(ps.t, file, {})
    OBVIOUS
  <2>1. "file" \in Path /\ "file" # "missing"
    BY DEF Path
  <2>2. RedirectToFile(ps.t, "file", FALSE, 0) = Done(file)
    BY <2>1 DEF RedirectToFile
  <2> HIDE DEF file
  <2>3. Leaves(ps.t, RedirectToFile(ps.t, "file", FALSE, 0))
    BY <2>1, <1>1, <1>2, RedirectToFileLemma
  <2>4. Done(file).t = file /\ Done(file).lost = {}
    BY DEF Done
  <2>5. Within(ps.t, Done(file).t, Done(file).lost)
    BY <2>2, <2>3 DEF Leaves
  <2> QED BY <2>4, <2>5
<1> HIDE DEF file, ps, n
<1>5. Within(ps.t, in, {}) /\ in \in Table
  BY <1>1, <1>2, <1>4, Dup2Lemma DEF Within
<1> HIDE DEF in
<1>6. Within(in, u, {})
  BY <1>1, <1>5, Dup2Lemma
<1> HIDE DEF u, ends, all
<1>7. Sound(u, fdOf, stack, held, lost \cup ends)
  <2>1. Within(ps.t, u, {} \cup {})
    BY <1>5, <1>6, WithinTwice
  <2>2. Sound(u, fdOf, stack, held, (lost \cup ends) \cup ({} \cup {}))
    BY <1>2, <2>1, WithinSound
  <2>3. (lost \cup ends) \cup ({} \cup {}) = lost \cup ends
    OBVIOUS
  <2> QED BY <2>2, <2>3
<1>8. \A f \in High : (f \in all => f \in lost \cup ends) /\ (f \in lost <=> f \in lost \cup ends /\ f \notin all)
  <2>1. \A f \in High : f \in all <=> f \in ends
    BY NumberLemma DEF all, ends
  <2> QED BY <2>1, <1>2
<1>9. Sound(table', fdOf, stack, held, lost)
  BY <1>3, <1>7, <1>8, InvTypes, CloseLostLemma
<1> QED BY <1>3, <1>9, InvTypes DEF RedirInv

\* The objects that take the ends the parent keeps.
LEMMA NewObjectsLemma ==
  ASSUME RedirInv, NEW n \in Nat, NEW os \in NewObjects(n)
  PROVE  \A k \in 1 .. n : os[k] \in Object /\ fdOf[os[k]] = None
<1>1. stack \in Seq(Entry)
  BY InvTypes
<1>2. \A k \in 1 .. n : os[k] \in Obj /\ Refs(os[k], stack) = 0
  BY DEF NewObjects
<1>3. \A k \in 1 .. n : os[k] \notin held /\ ~Mentioned(stack, os[k])
  BY <1>1, <1>2, RefsLemma
<1> QED BY <1>2, <1>3 DEF RedirInv, Sound, Object

LEMMA ForkParentStep ==
  ASSUME RedirInv, NEW kind \in ForkKind, ForkParent(kind)
  PROVE  RedirInv'
<1> DEFINE ps == PipeSet(kind)
           ends == {ps.in.r, ps.in.w, ps.out.r, ps.out.w} \ {None}
           mine == CASE kind = "IN_PIPE" -> <<ps.in.w>>
                     [] kind = "OUT_PIPE" -> <<ps.out.r>>
                     [] kind = "COPROC" -> <<ps.in.w, ps.out.r>>
                     [] OTHER -> <<>>
           closing == {ps.in.r, ps.out.w} \cup (IF kind = "STR" THEN {ps.out.r} ELSE {})
           shut == CloseSet(ps.t, closing)
           Shown(x, y) == IF kind = "IN_PIPE" THEN {x} ELSE IF kind = "OUT_PIPE" THEN {y}
                          ELSE IF kind = "COPROC" THEN {x, y} ELSE {}
           ms == lost \cup Shown(ps.in.w, ps.out.r)
<1>1. /\ ps.made /\ UNCHANGED <<stack, base, lost>>
      /\ \E os \in NewObjects(Len(mine)) :
           /\ fdOf' = [o \in Object |-> IF o \in ToSet(os) THEN mine[CHOOSE k \in DOMAIN os : os[k] = o]
                                        ELSE fdOf[o]]
           /\ held' = held \cup ToSet(os)
           /\ table' = [shut EXCEPT !.keep = @ \ (ToSet(mine) \ Std)]
  BY DEF ForkParent
<1>2. /\ kind \in {"IN_PIPE", "OUT_PIPE", "COPROC", "STR", "JOB"}
      /\ kind \in UseIn <=> kind \in {"IN_PIPE", "COPROC"}
      /\ kind \in UseOut <=> kind \in {"STR", "OUT_PIPE", "COPROC"}
  BY DEF ForkKind, UseIn, UseOut
<1>3. /\ ps.t \in Table /\ ends \subseteq Fd
      /\ IF kind \in UseIn THEN ps.in.r \in Fd /\ ps.in.w \in Fd /\ ps.in.r # ps.in.w
         ELSE ps.in.r = None /\ ps.in.w = None
      /\ IF kind \in UseOut THEN ps.out.r \in Fd /\ ps.out.w \in Fd /\ ps.out.r # ps.out.w
         ELSE ps.out.r = None /\ ps.out.w = None
      /\ kind \in UseIn /\ kind \in UseOut => {ps.in.r, ps.in.w} \cap {ps.out.r, ps.out.w} = {}
  BY <1>1, InvTypes, PipeSetLemma
<1>4. /\ Sound(ps.t, fdOf, stack, held, lost \cup ends)
      /\ \A f \in High : f \in ends => f \notin lost
  BY <1>1, PipeSetSound
<1>5. mine = CASE kind = "IN_PIPE" -> <<ps.in.w>>
               [] kind = "OUT_PIPE" -> <<ps.out.r>>
               [] kind = "COPROC" -> <<ps.in.w, ps.out.r>>
               [] OTHER -> <<>>
  OBVIOUS
<1> HIDE DEF mine, ps
<1>6. /\ ms \subseteq Fd
      /\ \A f \in High : (f \in closing => f \in lost \cup ends) /\ (f \in ms <=> f \in lost \cup ends /\ f \notin closing)
  <2>1. ms \subseteq Fd
    BY <1>2, <1>3, InvTypes
  <2>2. \A f \in High : f # None
    BY NumberLemma
  <2>3. CASE kind = "IN_PIPE"
    BY <2>1, <2>2, <2>3, <1>2, <1>3, <1>4
  <2>4. CASE kind = "OUT_PIPE"
    BY <2>1, <2>2, <2>4, <1>2, <1>3, <1>4
  <2>5. CASE kind = "COPROC"
    BY <2>1, <2>2, <2>5, <1>2, <1>3, <1>4
  <2>6. CASE kind = "STR"
    BY <2>1, <2>2, <2>6, <1>2, <1>3, <1>4
  <2>7. CASE kind = "JOB"
    BY <2>1, <2>2, <2>7, <1>2, <1>3, <1>4
  <2> QED BY <2>3, <2>4, <2>5, <2>6, <2>7, <1>2
<1> HIDE DEF closing
<1>7. Sound(shut, fdOf, stack, held, ms) /\ shut \in Table
  <2>1. Sound(shut, fdOf, stack, held, ms)
    <3> HIDE DEF ms, ends
    <3> QED BY <1>4, <1>6, CloseLostLemma
  <2> QED BY <2>1 DEF Sound
<1> HIDE DEF shut, ends
<1>8. PICK os \in NewObjects(Len(mine)) :
           /\ fdOf' = [o \in Object |-> IF o \in ToSet(os) THEN mine[CHOOSE k \in DOMAIN os : os[k] = o]
                                        ELSE fdOf[o]]
           /\ held' = held \cup ToSet(os)
           /\ table' = [shut EXCEPT !.keep = @ \ (ToSet(mine) \ Std)]
  BY <1>1
<1>9. fdOf \in [Object -> FdOrNone] /\ lost \subseteq Fd
  BY InvTypes
<1>10. table' \in Table /\ table'.at = shut.at /\ table'.keep = shut.keep \ (ToSet(mine) \ Std)
  BY <1>7, <1>8 DEF Table
<1>11. CASE kind \in {"STR", "JOB"}
  <2>1. mine = <<>> /\ Len(mine) = 0
    BY <1>5, <1>11
  <2>2. DOMAIN os = {} /\ ToSet(os) = {} /\ ToSet(mine) = {}
    BY <2>1 DEF NewObjects, ToSet
  <2>3. fdOf' = fdOf /\ held' = held
    BY <2>2, <1>8, <1>9
  <2>4. table' = shut
    BY <2>2, <1>7, <1>8 DEF Table
  <2>5. ms = lost
    BY <1>11
  <2> QED BY <2>3, <2>4, <2>5, <1>1, <1>7, InvTypes DEF RedirInv
<1>12. CASE kind \in {"IN_PIPE", "OUT_PIPE"}
  <2> DEFINE x == IF kind = "IN_PIPE" THEN ps.in.w ELSE ps.out.r
             o == os[1]
  <2>1. mine = <<x>> /\ Len(mine) = 1 /\ x \in ms /\ x \in ends
    BY <1>2, <1>3, <1>5, <1>12, NumberLemma DEF ends
  <2>2. DOMAIN os = {1} /\ ToSet(os) = {o} /\ ToSet(mine) = {x} /\ o \in Object /\ fdOf[o] = None
    <3>1. os \in [1 .. 1 -> {p \in Obj : Refs(p, stack) = 0}] /\ 1 .. 1 = {1}
      BY <2>1 DEF NewObjects
    <3>2. ToSet(os) = {o} /\ ToSet(mine) = {x}
      BY <3>1, <2>1 DEF ToSet
    <3>3. o \in Object /\ fdOf[o] = None
      BY <2>1, NewObjectsLemma
    <3> QED BY <3>1, <3>2, <3>3
  <2>3. fdOf' = [fdOf EXCEPT ![o] = x]
    <3>1. (CHOOSE k \in DOMAIN os : os[k] = o) = 1
      BY <2>2
    <3>2. \A p \in Object : fdOf'[p] = IF p = o THEN x ELSE fdOf[p]
      BY <3>1, <2>1, <2>2, <1>8
    <3> QED BY <3>2, <1>8, <1>9
  <2>4. \A f \in High : f \in lost <=> f \in ms /\ f # x
    BY <2>1, <1>4, <1>12
  <2>5. table'.keep \ Std \subseteq shut.keep \ {x}
    BY <2>2, <1>10
  <2> HIDE DEF x, o, ms
  <2>6. Sound(table', [fdOf EXCEPT ![o] = x], stack, held \cup {o}, lost)
    BY <2>1, <2>2, <2>4, <2>5, <1>7, <1>9, <1>10, GiveLemma
  <2> QED BY <2>2, <2>3, <2>6, <1>1, <1>8, InvTypes DEF RedirInv
<1>13. CASE kind = "COPROC"
  <2> DEFINE x == ps.in.w
             y == ps.out.r
             o == os[1]
             q == os[2]
             u == [shut EXCEPT !.keep = @ \ ({x} \ Std)]
             ls == lost \cup {y}
  <2>1. mine = <<x, y>> /\ Len(mine) = 2 /\ x \in ends /\ y \in ends /\ x # y /\ x \in ms /\ y \in Fd
        /\ ms = lost \cup {x, y}
    BY <1>2, <1>3, <1>5, <1>13, NumberLemma DEF ends
  <2>2. /\ DOMAIN os = {1, 2} /\ ToSet(os) = {o, q} /\ ToSet(mine) = {x, y} /\ o # q
        /\ o \in Object /\ fdOf[o] = None /\ q \in Object /\ fdOf[q] = None
    <3>1. os \in [1 .. 2 -> {p \in Obj : Refs(p, stack) = 0}] /\ 1 .. 2 = {1, 2} /\ o # q
      BY <2>1 DEF NewObjects
    <3>2. ToSet(os) = {o, q} /\ ToSet(mine) = {x, y}
      BY <3>1, <2>1 DEF ToSet
    <3>3. \A k \in 1 .. 2 : os[k] \in Object /\ fdOf[os[k]] = None
      BY <2>1, NewObjectsLemma
    <3> QED BY <3>1, <3>2, <3>3
  <2>3. fdOf' = [[fdOf EXCEPT ![o] = x] EXCEPT ![q] = y]
    <3>1. (CHOOSE k \in DOMAIN os : os[k] = o) = 1 /\ (CHOOSE k \in DOMAIN os : os[k] = q) = 2
      BY <2>2
    <3>2. \A p \in Object : fdOf'[p] = IF p = q THEN y ELSE IF p = o THEN x ELSE fdOf[p]
      BY <3>1, <2>1, <2>2, <1>8
    <3>3. fdOf' = [p \in Object |-> IF p = q THEN y ELSE IF p = o THEN x ELSE fdOf[p]]
      <4>1. fdOf' = [p \in Object |-> fdOf'[p]]
        BY <1>8
      <4> QED BY <3>2, <4>1
    <3>4. [[fdOf EXCEPT ![o] = x] EXCEPT ![q] = y]
            = [p \in Object |-> IF p = q THEN y ELSE IF p = o THEN x ELSE fdOf[p]]
      BY <1>9
    <3> QED BY <3>3, <3>4
  <2>4. u \in Table /\ u.at = shut.at /\ u.keep = shut.keep \ ({x} \ Std)
    BY <1>7 DEF Table
  <2> HIDE DEF x, y, o, q, u, ms
  <2>5. \A f \in High : (f \in ls <=> f \in ms /\ f # x) /\ (f \in lost <=> f \in ls /\ f # y)
    BY <2>1, <1>4
  <2>6. /\ u.keep \ Std \subseteq shut.keep \ {x} /\ table'.keep \ Std \subseteq u.keep \ {y}
        /\ table'.at = u.at /\ ls \subseteq Fd /\ y \in ls
    BY <2>1, <2>2, <2>4, <1>9, <1>10
  <2> HIDE DEF ls
  <2>7. Sound(u, [fdOf EXCEPT ![o] = x], stack, held \cup {o}, ls)
    BY <2>1, <2>2, <2>4, <2>5, <2>6, <1>7, GiveLemma
  <2>8. [fdOf EXCEPT ![o] = x][q] = None
    BY <2>2, <1>9
  <2>9. Sound(table', [[fdOf EXCEPT ![o] = x] EXCEPT ![q] = y], stack, (held \cup {o}) \cup {q}, lost)
    <3> DEFINE fd == [fdOf EXCEPT ![o] = x]
               hd == held \cup {o}
    <3>1. Sound(u, fd, stack, hd, ls) /\ fd[q] = None
      BY <2>7, <2>8
    <3> HIDE DEF fd, hd
    <3>2. /\ \A f \in High : f \in lost <=> f \in ls /\ f # y
          /\ y \in ls /\ q \in Object /\ lost \subseteq Fd
          /\ table' \in Table /\ table'.at = u.at /\ table'.keep \ Std \subseteq u.keep \ {y}
      BY <2>2, <2>5, <2>6, <1>9, <1>10
    <3>3. Sound(table', [fd EXCEPT ![q] = y], stack, hd \cup {q}, lost)
      BY <3>1, <3>2, GiveLemma
    <3> QED BY <3>3 DEF fd, hd
  <2>10. held' = (held \cup {o}) \cup {q}
    BY <2>2, <1>8
  <2> QED BY <2>2, <2>3, <2>9, <2>10, <1>1, InvTypes DEF RedirInv
<1> QED BY <1>2, <1>11, <1>12, <1>13

LEMMA CloseTwo ==
  ASSUME NEW t \in Table, NEW f \in Fd, NEW g \in Fd
  PROVE  Close(Close(t, f), g) = CloseSet(t, {f, g})
<1>1. Close(t, f) = [at |-> [t.at EXCEPT ![f] = Closed], keep |-> t.keep \ {f}]
  BY DEF Close, Put
<1>2. Close(Close(t, f), g) = [at |-> [[t.at EXCEPT ![f] = Closed] EXCEPT ![g] = Closed], keep |-> (t.keep \ {f}) \ {g}]
  BY <1>1 DEF Close, Put
<1>3. [[t.at EXCEPT ![f] = Closed] EXCEPT ![g] = Closed] = [x \in Fd |-> IF x \in {f, g} THEN Closed ELSE t.at[x]]
  BY DEF Table
<1>4. (t.keep \ {f}) \ {g} = t.keep \ {f, g}
  OBVIOUS
<1> QED BY <1>2, <1>3, <1>4 DEF CloseSet

\* The restorer of a pipeline whose last command runs in this process.
Piped == [Restorer EXCEPT !.kind = "pipe", !.done = TRUE, !.was = [i \in Std |-> table.at[i]],
                          !.old = [NoFds EXCEPT ![0] = DupFd(Pipe(table).t, 0).fd], !.set = {0}]

LEMMA LastPipeStep == RedirInv /\ LastPipe => RedirInv'
<1> SUFFICES ASSUME RedirInv, LastPipe PROVE RedirInv'
  OBVIOUS
<1> DEFINE p == Pipe(table)
           d == DupFd(p.t, 0)
           u == Dup2(d.t, p.r, 0)
           e == Piped
           n == Len(stack) + 1
           fs == {d.fd} \ {None}
<1>1. /\ table \in Table /\ stack \in Seq(Entry) /\ Len(stack) \in Nat /\ lost \subseteq Fd
      /\ Sound(table, fdOf, stack, held, lost) /\ 0 \in Std
  BY InvTypes DEF RedirInv, Std
<1>2. /\ p.r # None /\ table' = Close(Close(u, p.r), p.w) /\ stack' = Append(stack, e)
      /\ UNCHANGED <<fdOf, held, base, lost>>
  BY DEF LastPipe, Piped
<1>3. /\ p.r \in Fd /\ p.w \in Fd /\ p.r # p.w /\ p.t \in Table
      /\ table.at[p.r] = Closed /\ table.at[p.w] = Closed
      /\ p.t.at[p.r] # Closed /\ p.t.at[p.w] # Closed
      /\ Within(table, p.t, {p.r, p.w})
  BY <1>1, <1>2, PipeWithin
<1>4. \A f \in Fd : f \notin {p.r, p.w} => p.t.at[f] = table.at[f]
  BY <1>1, <1>2, PipeLemma
<1> HIDE DEF p
<1>5. /\ d.fd \in FdOrNone /\ d.t \in Table /\ Within(p.t, d.t, fs)
      /\ d.fd # None => p.t.at[d.fd] = Closed /\ d.t.at[d.fd] = p.t.at[0] /\ d.fd \notin d.t.keep /\ d.fd \in Fd
  <2>1. CASE d.fd = None
    <3>1. d.t = p.t /\ fs = {}
      <4>1. d = [fd |-> None, t |-> p.t] \/ d.fd \in Fd
        BY <1>3, DupFdLemma
      <4> HIDE DEF d
      <4> QED BY <4>1, <2>1, NumberLemma
    <3> QED BY <2>1, <3>1, <1>3, WithinSelf DEF FdOrNone
  <2>2. CASE d.fd # None
    <3>1. fs = {d.fd}
      BY <2>2
    <3> HIDE DEF fs
    <3>3. Duped(p.t, 0, d)
      BY <2>2, <1>3, DupWithin
    <3>2. /\ d.fd \in Fd /\ p.t.at[d.fd] = Closed /\ d.t \in Table /\ d.t.at[d.fd] = p.t.at[0]
          /\ d.t.keep \subseteq p.t.keep \ {d.fd} /\ Within(p.t, d.t, {d.fd})
      BY <3>3 DEF Duped
    <3> QED BY <3>1, <3>2 DEF FdOrNone
  <2> QED BY <2>1, <2>2
<1>6. /\ e \in Entry /\ e.ops = <<>> /\ e.done /\ e.was = [i \in Std |-> table.at[i]]
      /\ \A k \in Std : e.old[k] = IF k = 0 THEN d.fd ELSE None
  <2>1. [i \in Std |-> table.at[i]] \in [Std -> File \cup {Closed}]
    BY <1>1, NumberLemma DEF Table
  <2>2. [NoFds EXCEPT ![0] = d.fd] \in [Std -> FdOrNone]
    BY <1>5 DEF NoFds, FdOrNone
  <2>3. \A k \in Std : [NoFds EXCEPT ![0] = d.fd][k] = IF k = 0 THEN d.fd ELSE None
    BY DEF NoFds
  <2>4. Restorer \in Entry /\ Restorer.ops = <<>>
    BY RedirectionAssumption DEF Restorer, Entry, NoFds, FdOrNone
  <2>5. e = [Restorer EXCEPT !.kind = "pipe", !.done = TRUE, !.was = [i \in Std |-> table.at[i]],
                             !.old = [NoFds EXCEPT ![0] = d.fd], !.set = {0}]
    BY DEF Piped, p
  <2> HIDE DEF d, e
  <2> QED BY <1>1, <2>1, <2>2, <2>3, <2>4, <2>5 DEF Entry
<1> HIDE DEF d, e, fs
<1>7. Within(d.t, u, {})
  BY <1>1, <1>5, Dup2Lemma
<1> HIDE DEF u
<1>8. u \in Table /\ table' = CloseSet(u, {p.r, p.w})
  BY <1>2, <1>3, <1>7, CloseTwo DEF Within
<1>9. Sound(u, fdOf, stack, held, (lost \cup {p.r, p.w}) \cup fs)
  <2>1. Within(p.t, u, fs \cup {})
    BY <1>5, <1>7, WithinTwice
  <2>2. Sound(p.t, fdOf, stack, held, lost \cup {p.r, p.w})
    BY <1>1, <1>3, WithinSound
  <2>3. Sound(u, fdOf, stack, held, (lost \cup {p.r, p.w}) \cup (fs \cup {}))
    BY <2>1, <2>2, WithinSound
  <2>4. fs \cup {} = fs
    OBVIOUS
  <2> QED BY <2>3, <2>4
<1>10. \A f \in fs : f = d.fd /\ f \in Fd /\ f # p.r /\ f # p.w
  BY <1>3, <1>5 DEF fs
<1>11. \A f \in High : f \in {p.r, p.w} \cup fs => f \notin lost
  <2>1. \A f \in High : f \in fs => table.at[f] = Closed
    <3> SUFFICES ASSUME NEW f \in fs PROVE table.at[f] = Closed
      OBVIOUS
    <3>1. f \in Fd /\ f \notin {p.r, p.w} /\ p.t.at[f] = Closed
      BY <1>5, <1>10 DEF fs
    <3> QED BY <3>1, <1>4
  <2> QED BY <2>1, <1>1, <1>3, FreshLemma
<1>12. Sound(table', fdOf, stack, held, lost \cup fs)
  <2>1. lost \cup fs \subseteq Fd
    BY <1>1, <1>10
  <2>2. \A f \in High : /\ f \in {p.r, p.w} => f \in (lost \cup {p.r, p.w}) \cup fs
                        /\ f \in lost \cup fs <=> f \in (lost \cup {p.r, p.w}) \cup fs /\ f \notin {p.r, p.w}
    BY <1>10, <1>11
  <2> QED BY <1>8, <1>9, <2>1, <2>2, CloseLostLemma
<1>13. /\ stack' \in Seq(Entry) /\ Len(stack') = n /\ n \in Nat /\ n > 0 /\ Len(stack) \in {n - 1, n}
       /\ \A i \in 1 .. n - 1 : stack'[i] = stack[i]
       /\ stack'[n] = e /\ Len(stack) # n
  BY <1>1, <1>2, <1>6
<1>14. d.fd \in High => d.fd \in fs /\ d.fd \notin table'.keep /\ table'.at[d.fd] = p.t.at[0]
  <2> SUFFICES ASSUME d.fd \in High
               PROVE d.fd \in fs /\ d.fd \notin table'.keep /\ table'.at[d.fd] = p.t.at[0]
    OBVIOUS
  <2>1. d.fd \in fs /\ d.fd \in Fd /\ d.fd \notin Std
    BY NumberLemma DEF fs
  <2>2. d.fd \notin u.keep /\ u.at[d.fd] = p.t.at[0]
    BY <1>5, <1>7, <2>1, NumberLemma DEF Within
  <2>3. d.fd \notin {p.r, p.w}
    BY <1>10, <2>1
  <2> QED BY <1>8, <2>1, <2>2, <2>3, CloseSetLemma
<1>15. Restorable(table', stack'[n])
  <2>1. ASSUME \A k \in Std : table.at[k] # Closed
        PROVE  d.fd = None \/ (d.fd \in High /\ table'.at[d.fd] = table.at[0])
    <3>1. \A k \in Std : k \in Fd /\ k \notin {p.r, p.w} /\ p.t.at[k] = table.at[k]
      BY <2>1, <1>3, <1>4, NumberLemma
    <3>2. d.fd # None => d.fd \notin Std /\ d.fd \in Fd
      BY <2>1, <3>1, <1>5
    <3>3. d.fd # None => d.fd \in High
      BY <3>2 DEF High
    <3> QED BY <3>1, <3>3, <1>1, <1>14
  <2> QED BY <2>1, <1>6, <1>13 DEF Restorable
<1>16. Sound(table', fdOf, stack', held, lost)
  <2>1. \A k \in Std : stack'[n].old[k] \in High => stack'[n].old[k] \in lost \cup fs /\ stack'[n].old[k] \notin table'.keep
    BY <1>6, <1>13, <1>14, NumberLemma
  <2>2. \A k \in Std, l \in Std : stack'[n].old[k] = stack'[n].old[l] /\ stack'[n].old[k] \in High => k = l
    BY <1>6, <1>13, NumberLemma
  <2>3. \A f \in High : f \in lost <=> f \in lost \cup fs /\ \A k \in Std : stack'[n].old[k] # f
    <3>1. \A f \in High : f \in fs <=> \E k \in Std : stack'[n].old[k] = f
      BY <1>1, <1>6, <1>10, <1>13, <1>14, NumberLemma
    <3> QED BY <3>1, <1>11
  <2>4. stack' \in Seq(Entry) /\ n \in Nat /\ n = Len(stack') /\ n > 0 /\ Len(stack) \in {n - 1, n} /\ Len(stack) # n
        /\ lost \subseteq Fd /\ \A i \in 1 .. n - 1 : stack'[i] = stack[i]
    BY <1>1, <1>13
  <2> HIDE DEF n
  <2> QED BY <1>12, <1>15, <2>1, <2>2, <2>3, <2>4, RestackLemma
<1> QED BY <1>2, <1>16, InvTypes DEF RedirInv

-----------------------------------------------------------------------------
(* UnixFD objects *)

\* An object that nothing refers to has no descriptor.
LEMMA FreeObject ==
  ASSUME RedirInv, NEW o \in Object, Refs(o, stack) = 0
  PROVE  fdOf[o] = None
<1>1. o \notin held /\ ~Mentioned(stack, o)
  BY InvTypes, RefsLemma
<1> QED BY <1>1 DEF RedirInv, Sound

LEMMA FdInitStep ==
  ASSUME RedirInv, NEW o \in Object, FdInit(o)
  PROVE  RedirInv'
<1> DEFINE f == Lowest(table)
           u == Put(table, f, "file", FALSE)
<1>1. /\ table \in Table /\ fdOf \in [Object -> FdOrNone] /\ lost \subseteq Fd
      /\ Sound(table, fdOf, stack, held, lost) /\ fdOf[o] = None
  BY InvTypes, FreeObject DEF RedirInv, FdInit
<1>2. f # None /\ table' = u /\ fdOf' = [fdOf EXCEPT ![o] = f] /\ held' = held \cup {o}
      /\ UNCHANGED <<stack, base, lost>>
  BY DEF FdInit
<1>3. f \in Fd /\ table.at[f] = Closed
  BY <1>1, <1>2, LowestLemma DEF Table
<1>4. "file" \in File /\ "file" # Closed
  BY RedirectionAssumption, DescriptorAssumption
<1>5. u \in Table /\ u.at = [table.at EXCEPT ![f] = "file"] /\ u.keep = table.keep \ {f}
  BY <1>1, <1>3, <1>4 DEF Put, Table
<1> HIDE DEF u, f
<1>6. Within(table, u, {f})
  BY <1>1, <1>3, <1>4, <1>5, NumberLemma DEF Within, Table
<1>7. Sound(u, fdOf, stack, held, lost \cup {f})
  BY <1>1, <1>6, WithinSound
<1>8. \A g \in High : g \in lost <=> g \in lost \cup {f} /\ g # f
  BY <1>1, <1>3, FreshLemma
<1>9. Sound(u, [fdOf EXCEPT ![o] = f], stack, held \cup {o}, lost)
  <2>1. u \in Table /\ u.keep \ Std \subseteq u.keep \ {f} /\ f \in lost \cup {f}
    BY <1>5
  <2> QED BY <1>1, <1>7, <1>8, <2>1, GiveLemma
<1> QED BY <1>2, <1>9, InvTypes DEF RedirInv

LEMMA FdDupStep ==
  ASSUME RedirInv, NEW p \in Object, NEW o \in Object, FdDup(p, o)
  PROVE  RedirInv'
<1> DEFINE d == DupFd(table, fdOf[p])
<1>1. /\ table \in Table /\ fdOf \in [Object -> FdOrNone] /\ lost \subseteq Fd
      /\ Sound(table, fdOf, stack, held, lost) /\ fdOf[o] = None
  BY InvTypes, FreeObject DEF RedirInv, FdDup
<1>2. d.fd # None /\ table' = d.t /\ fdOf' = [fdOf EXCEPT ![o] = d.fd] /\ held' = held \cup {o}
      /\ UNCHANGED <<stack, base, lost>>
  BY DEF FdDup
<1>3. Duped(table, fdOf[p], d)
  BY <1>1, <1>2, DupWithin
<1> HIDE DEF d
<1>4. /\ d.fd \in Fd /\ table.at[d.fd] = Closed /\ d.t \in Table /\ d.t.keep \subseteq table.keep \ {d.fd}
      /\ Within(table, d.t, {d.fd})
  BY <1>3 DEF Duped
<1>7. Sound(d.t, fdOf, stack, held, lost \cup {d.fd})
  BY <1>1, <1>4, WithinSound
<1>8. \A g \in High : g \in lost <=> g \in lost \cup {d.fd} /\ g # d.fd
  BY <1>1, <1>4, FreshLemma
<1>9. Sound(d.t, [fdOf EXCEPT ![o] = d.fd], stack, held \cup {o}, lost)
  <2>1. d.t.keep \ Std \subseteq d.t.keep \ {d.fd} /\ d.fd \in lost \cup {d.fd}
    BY <1>4
  <2> QED BY <1>1, <1>4, <1>7, <1>8, <2>1, GiveLemma
<1> QED BY <1>2, <1>9, InvTypes DEF RedirInv

\* An object gives up its descriptor, which is closed.
LEMMA ReleaseLemma ==
  ASSUME NEW t, NEW fd, NEW st, NEW hd, NEW ls, Sound(t, fd, st, hd, ls), NEW o \in Object, NEW u \in Table,
         \A g \in High : u.at[g] = IF g = fd[o] THEN Closed ELSE t.at[g],
         u.keep \ Std \subseteq t.keep \ {fd[o]}
  PROVE  Sound(u, [fd EXCEPT ![o] = None], st, hd \ {o}, ls)
<1> DEFINE gd == [fd EXCEPT ![o] = None]
<1>1. t \in Table /\ fd \in [Object -> FdOrNone] /\ st \in Seq(Entry) /\ ls \subseteq Fd
  BY DEF Sound
<1>2. gd \in [Object -> FdOrNone] /\ gd[o] = None /\ \A p \in Object : p # o => gd[p] = fd[p]
  BY <1>1 DEF FdOrNone
<1> HIDE DEF gd
<1>3. ASSUME NEW f \in High PROVE OwnedAt(u, gd, st, ls, f)
  <2>1. OwnedAt(t, fd, st, ls, f) /\ f # None
    BY NumberLemma DEF Sound
  <2>2. HeldAt(gd, f) <=> HeldAt(fd, f) /\ f # fd[o]
    BY <1>2, <2>1 DEF HeldAt, OwnedAt
  <2>3. f = fd[o] => HeldAt(fd, f)
    BY DEF HeldAt
  <2>4. \A p \in Object, q \in Object : gd[p] = f /\ gd[q] = f => p = q
    BY <1>2, <2>1 DEF OwnedAt
  <2> QED BY <2>1, <2>2, <2>3, <2>4 DEF OwnedAt
<1>4. ASSUME NEW i \in 1 .. Len(st) PROVE Restorable(u, st[i])
  <2>1. Restorable(t, st[i])
    BY DEF Sound
  <2>2. ASSUME NEW k \in Std, st[i].old[k] \in High PROVE u.at[st[i].old[k]] = t.at[st[i].old[k]]
    <3>1. SavedAt(st, st[i].old[k])
      BY DEF SavedAt
    <3>2. st[i].old[k] # fd[o]
      BY <2>2, <3>1 DEF Sound, OwnedAt, HeldAt
    <3> QED BY <2>2, <3>2
  <2> QED BY <2>1, <2>2 DEF Restorable
<1>5. ASSUME NEW f \in u.keep \ Std
      PROVE  f \in ls \/ \E p \in Object : gd[p] = f /\ PassedBy(st, p)
  <2>1. f \in t.keep \ Std /\ f # fd[o]
    OBVIOUS
  <2>2. f \in ls \/ \E p \in Object : fd[p] = f /\ PassedBy(st, p)
    BY <2>1 DEF Sound
  <2> QED BY <2>1, <2>2, <1>2
<1>6. \A p \in Object : gd[p] # None => p \in hd \ {o} \/ Mentioned(st, p)
  BY <1>2 DEF Sound
<1> QED BY <1>1, <1>2, <1>3, <1>4, <1>5, <1>6 DEF Sound, gd

LEMMA FdCloseStep ==
  ASSUME RedirInv, NEW o \in Object, FdClose(o)
  PROVE  RedirInv'
<1>1. /\ table \in Table /\ Sound(table, fdOf, stack, held, lost)
      /\ table' = Close(table, fdOf[o]) /\ fdOf' = [fdOf EXCEPT ![o] = None]
      /\ UNCHANGED <<held, stack, base, lost>>
  BY InvTypes DEF RedirInv, FdClose
<1>2. /\ table' \in Table
      /\ \A g \in High : table'.at[g] = IF g = fdOf[o] THEN Closed ELSE table.at[g]
      /\ table'.keep \ Std \subseteq table.keep \ {fdOf[o]}
  BY <1>1, CloseLemma, NumberLemma
<1>3. Sound(table', [fdOf EXCEPT ![o] = None], stack, held \ {o}, lost)
  BY <1>1, <1>2, ReleaseLemma
<1>4. Sound(table', [fdOf EXCEPT ![o] = None], stack, held, lost)
  BY <1>3 DEF Sound
<1> QED BY <1>1, <1>4, InvTypes DEF RedirInv

LEMMA DropVariableStep ==
  ASSUME RedirInv, NEW o \in Object, DropVariable(o)
  PROVE  RedirInv'
<1>1. /\ table \in Table /\ Sound(table, fdOf, stack, held, lost) /\ stack \in Seq(Entry) /\ o \in held
      /\ fdOf \in [Object -> FdOrNone]
      /\ held' = held \ {o} /\ UNCHANGED <<stack, base, lost>>
  BY InvTypes DEF RedirInv, DropVariable
<1>2. CASE Refs(o, stack) - 1 = 0
  <2>1. table' = (IF fdOf[o] > 2 THEN Close(table, fdOf[o]) ELSE table) /\ fdOf' = [fdOf EXCEPT ![o] = None]
    BY <1>2 DEF DropVariable
  <2>2. /\ table' \in Table
        /\ \A g \in High : table'.at[g] = IF g = fdOf[o] THEN Closed ELSE table.at[g]
        /\ table'.keep \ Std \subseteq table.keep \ {fdOf[o]}
    <3>1. CASE fdOf[o] > 2
      BY <3>1, <2>1, <1>1, CloseLemma, NumberLemma
    <3>2. CASE ~(fdOf[o] > 2)
      <4>1. fdOf[o] = None \/ fdOf[o] \in Fd
        BY <1>1 DEF FdOrNone
      <4>2. fdOf[o] \notin High /\ (fdOf[o] = None \/ fdOf[o] \in Std)
        BY <4>1, <3>2, NumberLemma DEF High
      <4>3. table' = table
        BY <3>2, <2>1
      <4>4. None \notin table.keep
        BY <1>1, NumberLemma DEF Table
      <4> QED BY <4>2, <4>3, <4>4, <1>1
    <3> QED BY <3>1, <3>2
  <2>3. Sound(table', [fdOf EXCEPT ![o] = None], stack, held \ {o}, lost)
    BY <1>1, <2>2, ReleaseLemma
  <2> QED BY <1>1, <2>1, <2>3, InvTypes DEF RedirInv
<1>3. CASE Refs(o, stack) - 1 # 0
  <2>1. table' = table /\ fdOf' = fdOf
    BY <1>3 DEF DropVariable
  <2>2. Mentioned(stack, o)
    BY <1>1, <1>3, RefsLemma
  <2>3. Sound(table, fdOf, stack, held \ {o}, lost)
    BY <1>1, <2>2 DEF Sound
  <2> QED BY <1>1, <2>1, <2>3, InvTypes DEF RedirInv
<1> QED BY <1>2, <1>3

-----------------------------------------------------------------------------
(* The specification *)

RedirSpec == RedirInit /\ [][RedirNext]_redirVars

LEMMA NextStep == RedirInv /\ [RedirNext]_redirVars => RedirInv'
<1> SUFFICES ASSUME RedirInv, [RedirNext]_redirVars PROVE RedirInv'
  OBVIOUS
<1>1. CASE NewRedir
  BY <1>1, NewRedirStep
<1>2. CASE EndCommand \/ Unwind
  BY <1>2, PopStep DEF EndCommand, Unwind
<1>3. CASE BuiltinExec
  BY <1>3, BuiltinExecStep
<1>4. CASE LastPipe
  BY <1>4, LastPipeStep
<1>5. CASE NoPipeLeft \/ UNCHANGED redirVars
  BY <1>5 DEF NoPipeLeft, redirVars, RedirInv
<1>6. ASSUME NEW e \in RedirArg, AddRedirOp(e[1], e[2]) PROVE RedirInv'
  BY <1>6, AddRedirOpStep
<1>7. ASSUME NEW o \in Object, AddCmdArg(o) \/ FdInit(o) \/ FdClose(o) \/ DropVariable(o) PROVE RedirInv'
  BY <1>7, AddCmdArgStep, FdInitStep, FdCloseStep, DropVariableStep
<1>8. ASSUME NEW p \in Object, NEW o \in Object, FdDup(p, o) PROVE RedirInv'
  BY <1>8, FdDupStep
<1>9. ASSUME NEW forked \in BOOLEAN, DoRedir(forked) \/ ForkAndExec(forked) PROVE RedirInv'
  BY <1>9, DoRedirStep, ForkAndExecStep
<1>10. ASSUME NEW kind \in ForkKind, ForkParent(kind) \/ ForkChild(kind) \/ ForkFails(kind) PROVE RedirInv'
  BY <1>10, ForkParentStep, ForkChildStep, ForkFailsStep
<1> QED BY <1>1, <1>2, <1>3, <1>4, <1>5, <1>6, <1>7, <1>8, <1>9, <1>10 DEF RedirNext

\* Owners, copies and references are as RedirInv says after any actions of a shell process
\* and its forks.
THEOREM Invariant == RedirSpec => []RedirInv
<1> QED BY InitStep, NextStep, PTL DEF RedirSpec

\* One owner for every open descriptor above the standard ones, none for a closed one:
\* what the restorers, the UnixFD objects and ~UnixFdObject close is their own.
THEOREM OwnedTheorem == RedirSpec => []DescriptorsOwned
<1>1. RedirInv => DescriptorsOwned
  <2> SUFFICES ASSUME RedirInv, NEW f \in Fd \ Std
               PROVE  Cardinality(Owners(f)) = IF IsOpen(table, f) THEN 1 ELSE 0
    BY DEF DescriptorsOwned
  <2>1. f \in High /\ OwnedAt(table, fdOf, stack, lost, f)
    BY DEF RedirInv, Sound, High
  <2> DEFINE saved == {<<"saved", p[1], p[2]>> : p \in {p \in (1 .. Len(stack)) \X Std : stack[p[1]].old[p[2]] = f}}
             objects == {<<"object", o>> : o \in {o \in Object : fdOf[o] = f}}
             gone == {<<"lost", x>> : x \in lost \cap {f}}
  <2>2. Owners(f) = saved \cup objects \cup gone
    BY DEF Owners
  <2>3. ~SavedAt(stack, f) => saved = {}
    BY DEF SavedAt
  <2>4. ~HeldAt(fdOf, f) => objects = {}
    BY DEF HeldAt
  <2>5. f \notin lost => gone = {}
    OBVIOUS
  <2>6. CASE SavedAt(stack, f)
    <3>1. PICK i \in 1 .. Len(stack), k \in Std : stack[i].old[k] = f
      BY <2>6 DEF SavedAt
    <3>2. ASSUME NEW p \in (1 .. Len(stack)) \X Std, stack[p[1]].old[p[2]] = f
          PROVE  p[1] = i /\ p[2] = k
      BY <2>1, <3>1, <3>2 DEF OwnedAt
    <3>3. <<i, k>> \in {p \in (1 .. Len(stack)) \X Std : stack[p[1]].old[p[2]] = f}
      BY <3>1
    <3>4. saved = {<<"saved", i, k>>}
      BY <3>2, <3>3
    <3>5. objects = {} /\ gone = {} /\ IsOpen(table, f)
      BY <2>1, <2>4, <2>5, <2>6 DEF OwnedAt, IsOpen
    <3> QED BY <2>2, <3>4, <3>5, FS_Singleton
  <2>7. CASE HeldAt(fdOf, f)
    <3>1. PICK o \in Object : fdOf[o] = f
      BY <2>7 DEF HeldAt
    <3>2. objects = {<<"object", o>>}
      BY <2>1, <3>1 DEF OwnedAt
    <3>3. saved = {} /\ gone = {} /\ IsOpen(table, f)
      BY <2>1, <2>3, <2>5, <2>7 DEF OwnedAt, IsOpen
    <3> QED BY <2>2, <3>2, <3>3, FS_Singleton
  <2>8. CASE f \in lost
    <3>1. gone = {<<"lost", f>>}
      BY <2>8
    <3>2. saved = {} /\ objects = {} /\ IsOpen(table, f)
      BY <2>1, <2>3, <2>4, <2>8 DEF OwnedAt, IsOpen
    <3> QED BY <2>2, <3>1, <3>2, FS_Singleton
  <2>9. CASE ~SavedAt(stack, f) /\ ~HeldAt(fdOf, f) /\ f \notin lost
    <3>1. ~IsOpen(table, f)
      BY <2>1, <2>9 DEF OwnedAt, IsOpen
    <3> QED BY <2>2, <2>3, <2>4, <2>5, <2>9, <3>1, FS_EmptySet
  <2> QED BY <2>6, <2>7, <2>8, <2>9
<1> QED BY <1>1, Invariant, PTL

\* A program started now keeps, beside the standard descriptors, only what a command line
\* still being run has passed (ADD_CMD_ARG, ~RedirObject) or a failed fork has left.
THEOREM InheritsTheorem == RedirSpec => []InheritsOnlyPassed
<1>1. RedirInv => InheritsOnlyPassed
  <2> SUFFICES ASSUME RedirInv, NEW f \in table.keep \ Std PROVE f \in Passed \cup lost
    BY DEF InheritsOnlyPassed
  <2>1. CASE f \in lost
    BY <2>1
  <2>2. CASE \E o \in Object : fdOf[o] = f /\ PassedBy(stack, o)
    <3>1. PICK o \in Object : fdOf[o] = f /\ PassedBy(stack, o)
      BY <2>2
    <3>2. PICK i \in 1 .. Len(stack) : PassedIn(stack[i], o)
      BY <3>1 DEF PassedBy
    <3>3. stack[i].ops \in Seq(Operation)
      BY <3>2, InvTypes, EntryLemma
    <3>4. <<"NOP", o>> \in ToSet(stack[i].ops)
      BY <3>2, <3>3 DEF PassedIn, ToSet
    <3> QED BY <3>1, <3>2, <3>4 DEF Passed
  <2> QED BY <2>1, <2>2 DEF RedirInv, Sound
<1> QED BY <1>1, Invariant, PTL

\* The part of RestoredAsBefore an action that takes the newest restorer away must show.
Restored == \A i \in Top.set : table'.at[i] = Before[i] \/ (i = Lowest(table) /\ ForkAndExec(TRUE))

LEMMA PopRestores ==
  ASSUME RedirInv, PopRestorer(table, {}), Saved
  PROVE  Restored
<1>1. Len(stack) > base /\ Sound(table, fdOf, stack, held, lost)
  BY DEF RedirInv, PopRestorer
<1>2. PICK u \in Table : /\ table' = CloseSet(u, {})
                         /\ Top.done => \A k \in Top.set : u.at[k] = Before[k]
                         /\ ~Top.done => \A k \in Std : u.at[k] = table.at[k]
  BY <1>1, PopLemma
<1>3. table' = u
  BY <1>2, CloseNothing
<1>4. Top.set \subseteq Std
  BY <1>1, InvTypes, EntryLemma
<1>5. ~Top.done => \A k \in Top.set : u.at[k] = Before[k]
  BY <1>2, <1>4 DEF Before
<1> QED BY <1>2, <1>3, <1>5 DEF Restored

LEMMA DoRedirRestores ==
  ASSUME RedirInv, NEW forked \in BOOLEAN, DoRedir(forked), Len(stack') < Len(stack), Saved
  PROVE  Restored
<1> DEFINE r == Applied(forked)
           e == Redirected
           st == Append(Front(stack), e)
<1>1. Len(stack) > base /\ ~Top.done
  BY DEF DoRedir
<1>2. /\ e \in Entry /\ e.ops = Top.ops /\ r.t \in Table /\ e.done /\ e.set = Top.set
      /\ e.old = SavedNow.old /\ e.was = [i \in Std |-> table.at[i]]
      /\ Sound(r.t, fdOf, st, held, lost \cup r.lost)
  BY <1>1, RedirectedLemma
<1>3. \/ stack' = st
      \/ Drop(Destroyed(r.t, e), Front(stack), {})
  BY DEF DoRedir, Applied, Redirected, SavedNow
<1> HIDE DEF r, e
<1>4. /\ stack \in Seq(Entry) /\ stack # <<>> /\ Top \in Entry
      /\ Front(stack) \in Seq(Entry) /\ Len(Front(stack)) = Len(stack) - 1 /\ Len(stack) \in Nat /\ Len(stack) > 0
  BY <1>1, InvTypes, FrontLemma
<1>5. Len(st) = Len(stack) /\ st[Len(stack)] = e /\ Len(stack) \in 1 .. Len(st)
  <2>1. Len(st) = Len(Front(stack)) + 1 /\ st[Len(Front(stack)) + 1] = e
    BY <1>2, <1>4, AppendLemma
  <2> QED BY <2>1, <1>4
<1> DEFINE dead == Dropped(Front(stack))
           u == CloseDropped(Destroyed(r.t, e), dead)
<1>6. \A k \in Std : u.at[k] = RestoreFDs(r.t, e).at[k]
  BY <1>2, <1>4, DropLemma
<1>7. Drop(Destroyed(r.t, e), Front(stack), {})
  BY <1>3, <1>5
<1>8. table' = CloseSet(u, {})
  BY <1>7 DEF Drop
<1>9. u \in Table
  <2> DEFINE fd == [o \in Object |-> IF o \in dead THEN None ELSE fdOf[o]]
  <2>1. Sound(u, fd, Front(stack), held, lost \cup r.lost)
    BY <1>2, <1>4, DropLemma
  <2> QED BY <2>1 DEF Sound
<1> HIDE DEF u, dead, st
<1>10. table' = u
  BY <1>8, <1>9, CloseNothing
<1>11. Restorable(r.t, e)
  BY <1>2, <1>5 DEF Sound
<1>12. /\ \A k \in Std : e.was[k] # Closed /\ e.was[k] = Before[k]
       /\ \A k \in e.set : e.old[k] # None
  BY <1>1, <1>2 DEF Saved, Before, Copies, SavedNow
<1>13. \A k \in Top.set : RestoreFDs(r.t, e).at[k] = e.was[k] /\ k \in Std
  <2>1. \A k \in e.set : RestoreFDs(r.t, e).at[k] = e.was[k]
    BY <1>2, <1>11, <1>12, RestorableLemma
  <2> QED BY <2>1, <1>2, <1>4, EntryLemma
<1> QED BY <1>6, <1>10, <1>12, <1>13 DEF Restored

LEMMA ForkAndExecRestores ==
  ASSUME RedirInv, NEW forked \in BOOLEAN, ForkAndExec(forked), Saved
  PROVE  Restored
<1> DEFINE p == Pipe(table)
<1>1. /\ p.r \in Fd /\ p.r = Lowest(table)
      /\ Sound(Close(p.t, p.w), fdOf, stack, held, lost \cup {p.r})
      /\ Sound(CloseOnExec(p.t, p.w), fdOf, stack, held, lost \cup {p.r, p.w})
  BY SelfPipeLemma DEF ForkAndExec
<1>2. /\ \/ PopRestorer(Close(p.t, p.w), {p.r}) /\ forked
         \/ PopRestorer(CloseOnExec(p.t, p.w), {})
      /\ Len(stack) > base /\ Top.done
  BY DEF ForkAndExec
<1>3. Top.set \subseteq Std /\ Std \subseteq Fd
  BY <1>2, InvTypes, EntryLemma, NumberLemma
<1> HIDE DEF p
<1>4. CASE PopRestorer(Close(p.t, p.w), {p.r}) /\ forked
  <2>1. PICK u \in Table : table' = CloseSet(u, {p.r}) /\ \A k \in Top.set : u.at[k] = Before[k]
    BY <1>1, <1>2, <1>4, PopLemma
  <2>2. \A k \in Top.set : k # p.r => table'.at[k] = Before[k]
    BY <2>1, <1>3, CloseSetLemma
  <2> QED BY <2>2, <1>1, <1>4 DEF Restored
<1>5. CASE PopRestorer(CloseOnExec(p.t, p.w), {})
  <2>1. PICK u \in Table : table' = CloseSet(u, {}) /\ \A k \in Top.set : u.at[k] = Before[k]
    BY <1>1, <1>2, <1>5, PopLemma
  <2> QED BY <2>1, CloseNothing DEF Restored
<1> QED BY <1>2, <1>4, <1>5

\* No other action takes a restorer away.
LEMMA OthersKeep ==
  ASSUME RedirInv, NewRedir \/ BuiltinExec \/ LastPipe \/ (\E e \in RedirArg : AddRedirOp(e[1], e[2]))
                   \/ \E o \in Object : AddCmdArg(o)
  PROVE  ~(Len(stack') < Len(stack))
<1>1. stack \in Seq(Entry) /\ Len(stack) \in Nat
  BY InvTypes
<1>2. CASE NewRedir \/ LastPipe
  <2>1. \E e : stack' = Append(stack, e)
    BY <1>2 DEF NewRedir, LastPipe
  <2>2. Len(stack') = Len(stack) + 1
    BY <2>1, <1>1
  <2> QED BY <2>2, <1>1
<1>3. CASE BuiltinExec \/ (\E e \in RedirArg : AddRedirOp(e[1], e[2])) \/ \E o \in Object : AddCmdArg(o)
  <2>1. Len(stack') = Len(stack)
    <3>1. DOMAIN stack' = DOMAIN stack
      BY <1>3 DEF BuiltinExec, AddRedirOp, AddCmdArg
    <3>2. RedirInv'
      BY <1>3, BuiltinExecStep, AddRedirOpStep, AddCmdArgStep
    <3>3. stack' \in Seq(Entry)
      BY <3>2 DEF RedirInv, Sound
    <3> QED BY <1>1, <3>1, <3>3, LenProperties
  <2> QED BY <2>1, <1>1
<1> QED BY <1>2, <1>3

\* The end of a command, or the exception that leaves it, puts back what was there.
THEOREM RestoredTheorem == RedirSpec => RestoredAsBefore
<1> DEFINE Step == Len(stack') < Len(stack) /\ Saved =>
                     \A i \in Top.set : table'.at[i] = Before[i] \/ (i = Lowest(table) /\ ForkAndExec(TRUE))
<1>1. RedirInv /\ [RedirNext]_redirVars => [Step]_redirVars
  <2> SUFFICES ASSUME RedirInv, RedirNext, Len(stack') < Len(stack), Saved
               PROVE  Restored
    BY DEF Restored
  <2>1. Len(stack) \in Nat
    BY InvTypes
  <2>2. CASE EndCommand \/ Unwind
    BY <2>2, PopRestores DEF EndCommand, Unwind
  <2>3. ASSUME NEW forked \in BOOLEAN, DoRedir(forked) PROVE Restored
    BY <2>3, DoRedirRestores
  <2>4. ASSUME NEW forked \in BOOLEAN, ForkAndExec(forked) PROVE Restored
    BY <2>4, ForkAndExecRestores
  <2>5. CASE stack' = stack
    BY <2>1, <2>5
  <2>6. NoPipeLeft => stack' = stack
    BY DEF NoPipeLeft
  <2>7. \A o \in Object : FdInit(o) \/ FdClose(o) \/ DropVariable(o) => stack' = stack
    BY DEF FdInit, FdClose, DropVariable
  <2>8. \A p, o \in Object : FdDup(p, o) => stack' = stack
    BY DEF FdDup
  <2>9. \A kind \in ForkKind : ForkParent(kind) \/ ForkChild(kind) \/ ForkFails(kind) => stack' = stack
    BY DEF ForkParent, ForkChild, ForkFails
  <2> QED BY <2>2, <2>3, <2>4, <2>5, <2>6, <2>7, <2>8, <2>9, OthersKeep DEF RedirNext
<1> QED BY <1>1, Invariant, PTL DEF RedirSpec, RestoredAsBefore
=============================================================================
