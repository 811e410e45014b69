-------------------------- MODULE CommandPathProofs --------------------------
(* A stale entry of the path cache costs one failure, for any names,          *)
(* directories, values of PATH and size of the cache.                         *)
EXTENDS CommandPath, WellFoundedInduction, TLAPS

-----------------------------------------------------------------------------
(* The invariant *)

PathTypeOK ==
  /\ files \in [Dir -> [Cmd -> FileKind]]
  /\ path \in PathValue \cup {Unset}
  /\ cache \in [DOMAIN cache -> Dir]
  /\ fails \in [Cmd -> 0 .. 2]

\* A name that has failed and stays cached names something that is no program.
FailedIsStuck == \A c \in Cmd : fails[c] # 0 /\ Cached(c) => Stuck(c)

PathInv == PathTypeOK /\ FailedIsStuck /\ SecondRunFinds

-----------------------------------------------------------------------------
(* The search *)

(* A set of positions of a sequence that is not empty has a first one. *)
LEMMA FirstPosition ==
  ASSUME NEW S, S \subseteq Nat, S # {}
  PROVE  \E i \in S : \A j \in S : i <= j
<1>1. PICK i \in S : \A j \in S : ~ (<<j, i>> \in OpToRel(<, Nat))
  BY WFMin, NatLessThanWellFounded
<1>2. \A j \in S : ~ (j < i)
  BY <1>1 DEF OpToRel
<1> QED
  BY <1>2

(* The search finds nothing, or a directory that has a program or a directory under the
   name (searchPath). *)
LEMMA SearchLemma ==
  ASSUME PathTypeOK, NEW c \in Cmd, NEW dflt \in BOOLEAN
  PROVE  \/ Search(c, dflt) = Nowhere
         \/ /\ Search(c, dflt) \in Dir
            /\ files[Search(c, dflt)][c] \in {"program", "directory"}
<1> DEFINE dirs == Prefix(dflt)
           hits == Hits(c, dflt)
<1>1. dirs \in Seq(Dir) /\ hits \subseteq Nat
  BY CommandPathAssumption DEF Prefix, Hits, PathTypeOK
<1>2. CASE hits = {}
  BY <1>2 DEF Search
<1>3. CASE hits # {}
  <2>1. First(hits) \in hits
    BY <1>1, <1>3, FirstPosition DEF First
  <2>2. First(hits) \in DOMAIN dirs /\ files[dirs[First(hits)]][c] \in {"program", "directory"}
    BY <2>1 DEF Hits
  <2>3. dirs[First(hits)] \in Dir
    BY <2>2, <1>1
  <2> QED
    BY <2>2, <2>3, <1>3 DEF Search
<1> QED
  BY <1>2, <1>3

(* What remembering a name does to the cache: it gets the directory the search finds, at
   most one other name leaves it, and the others keep theirs (FilePathCache::searchPath). *)
LEMMA RememberedLemma ==
  ASSUME PathTypeOK, NEW c \in Cmd, NEW dflt \in BOOLEAN, NEW m \in Remembered(c, dflt)
  PROVE  /\ m \in [DOMAIN m -> Dir]
         /\ c \in DOMAIN m <=> Found(c, dflt) # Nowhere
         /\ c \in DOMAIN m => m[c] = Found(c, dflt)
         /\ \A x \in DOMAIN m \ {c} : x \in DOMAIN cache /\ m[x] = cache[x]
<1>0. Nowhere \notin Dir /\ cache \in [DOMAIN cache -> Dir]
  BY CommandPathAssumption DEF Nowhere, PathTypeOK
<1>1. CASE Cached(c)
  BY <1>0, <1>1 DEF Remembered, Found, Cached
<1>2. CASE ~Cached(c) /\ Search(c, dflt) = Nowhere
  BY <1>0, <1>2 DEF Remembered, Found, Cached
<1>3. CASE ~Cached(c) /\ Search(c, dflt) # Nowhere
  <2>1. Search(c, dflt) \in Dir
    BY <1>3, SearchLemma
  <2>2. PICK old : /\ old \in [DOMAIN old -> Dir] /\ DOMAIN old \subseteq DOMAIN cache
                   /\ \A x \in DOMAIN old : old[x] = cache[x]
                   /\ m = With(old, c, Search(c, dflt))
    BY <1>0, <1>3 DEF Remembered, Without, Restrict
  <2> QED
    BY <1>0, <1>3, <2>1, <2>2 DEF With, Found, Cached
<1> QED
  BY <1>1, <1>2, <1>3

-----------------------------------------------------------------------------
(* The steps *)

(* What can be resolved depends on the files and on PATH only, not on the cache. *)
LEMMA ResolvableLemma ==
  ASSUME NEW c \in Cmd, UNCHANGED <<files, path>>
  PROVE  Resolvable(c)' = Resolvable(c)
<1>1. \A dflt \in BOOLEAN : Prefix(dflt)' = Prefix(dflt)
  BY DEF Prefix
<1>2. \A dflt \in BOOLEAN : Hits(c, dflt)' = Hits(c, dflt)
  BY <1>1 DEF Hits
<1>3. \A dflt \in BOOLEAN : Search(c, dflt)' = Search(c, dflt)
  BY <1>1, <1>2 DEF Search
<1> QED
  BY <1>3 DEF Resolvable

(* Running a command, with the search along PATH or along the default path. *)
LEMMA RunStep ==
  ASSUME PathInv, NEW c \in Cmd, NEW dflt \in BOOLEAN, Run(c, dflt)
  PROVE  PathInv'
<1> DEFINE d == Found(c, dflt)
           kind == IF d = Nowhere THEN "absent" ELSE files[d][c]
<1>0. PathTypeOK /\ Nowhere \notin Dir
  BY CommandPathAssumption DEF PathInv, Nowhere
<1>1. PICK m \in Remembered(c, dflt) :
        cache' = Forget(m, c, kind = "absent" /\ ~(handler /\ d = Nowhere))
  BY DEF Run
<1>2. /\ m \in [DOMAIN m -> Dir]
      /\ c \in DOMAIN m <=> d # Nowhere
      /\ c \in DOMAIN m => m[c] = d
      /\ \A x \in DOMAIN m \ {c} : x \in DOMAIN cache /\ m[x] = cache[x]
  BY <1>0, RememberedLemma
<1>3. kind \in FileKind
  BY <1>0, <1>2 DEF PathTypeOK, FileKind
<1>4. /\ cache' \in [DOMAIN cache' -> Dir]
      /\ c \in DOMAIN cache' => kind # "absent" /\ d # Nowhere /\ cache'[c] = d
      /\ \A x \in DOMAIN cache' \ {c} : x \in DOMAIN cache /\ cache'[x] = cache[x]
  <2>1. CASE kind = "absent" /\ ~(handler /\ d = Nowhere)
    BY <1>1, <1>2, <2>1 DEF Forget, Without, Restrict
  <2>2. CASE ~(kind = "absent" /\ ~(handler /\ d = Nowhere))
    BY <1>1, <1>2, <2>2 DEF Forget
  <2> QED
    BY <2>1, <2>2
<1>5. UNCHANGED <<files, path, handler>>
  BY DEF Run
<1>6. \A x \in Cmd \ {c} :
        fails'[x] = IF x \in DOMAIN cache \ DOMAIN cache' THEN 0 ELSE fails[x]
  BY DEF Run
<1>7. fails'[c] = IF kind = "program" \/ (handler /\ (d = Nowhere \/ kind = "directory")) THEN 0
                  ELSE IF fails[c] = 2 THEN 2 ELSE fails[c] + 1
  BY DEF Run
<1> HIDE DEF kind, d
<1>8. PathTypeOK'
  <2>1. DOMAIN fails' = Cmd /\ fails' = [x \in Cmd |-> fails'[x]]
    BY DEF Run
  <2>2. \A x \in Cmd : fails'[x] \in 0 .. 2
    BY <1>0, <1>6, <1>7 DEF PathTypeOK
  <2> QED
    BY <1>0, <1>4, <1>5, <2>1, <2>2 DEF PathTypeOK
<1>9. FailedIsStuck'
  <2> SUFFICES ASSUME NEW x \in Cmd, fails'[x] # 0, x \in DOMAIN cache'
               PROVE  files[cache'[x]][x] \in {"plain", "directory"}
    BY <1>5 DEF FailedIsStuck, Cached, Stuck
  <2>1. CASE x = c
    <3>1. kind # "program" /\ kind # "absent"
      BY <2>1, <1>4, <1>7
    <3>2. kind = files[cache'[c]][c]
      BY <2>1, <1>4 DEF kind
    <3> QED
      BY <2>1, <3>1, <3>2, <1>3 DEF FileKind
  <2>2. CASE x # c
    BY <2>2, <1>4, <1>6 DEF PathInv, FailedIsStuck, Cached, Stuck
  <2> QED
    BY <2>1, <2>2
<1>10. SecondRunFinds'
  <2>0. \A x \in Cmd : Resolvable(x)' = Resolvable(x)
    BY <1>5, ResolvableLemma
  <2> SUFFICES ASSUME NEW x \in Cmd, fails'[x] = 2, Resolvable(x)
               PROVE  Stuck(x)'
    BY <2>0 DEF SecondRunFinds
  <2>1. x \in DOMAIN cache'
    <3>1. CASE x = c
      <4>1. fails[c] # 0 /\ kind # "program"
        BY <3>1, <1>7, <1>0 DEF PathTypeOK
      <4>2. Cached(c)
        <5> SUFFICES ASSUME ~Cached(c) PROVE FALSE
          OBVIOUS
        <5>1. d = Search(c, dflt)
          BY DEF d, Found
        <5>2. d # Nowhere /\ files[d][c] = "program"
          BY <5>1, <3>1 DEF Resolvable
        <5> QED
          BY <5>2, <4>1 DEF kind
      <4>3. d = cache[c] /\ files[d][c] \in {"plain", "directory"}
        BY <4>1, <4>2 DEF PathInv, FailedIsStuck, Stuck, d, Found
      <4>4. d \in Dir
        BY <4>2, <4>3, <1>0 DEF PathTypeOK, Cached
      <4>5. d # Nowhere /\ kind # "absent"
        BY <4>3, <4>4, <1>0 DEF kind
      <4>6. cache' = m
        BY <4>5, <1>1 DEF Forget, kind, d
      <4> QED
        BY <4>5, <4>6, <1>2, <3>1
    <3>2. CASE x # c
      <4>1. fails'[x] = fails[x] /\ ~(x \in DOMAIN cache \ DOMAIN cache')
        BY <3>2, <1>6
      <4>2. x \in DOMAIN cache
        BY <4>1 DEF PathInv, SecondRunFinds, Stuck, Cached
      <4> QED
        BY <4>1, <4>2
    <3> QED
      BY <3>1, <3>2
  <2> QED
    BY <2>1, <1>9 DEF FailedIsStuck, Cached
<1> QED
  BY <1>8, <1>9, <1>10 DEF PathInv

(* hash: remembering a name, forgetting one, or all. *)
LEMMA HashStep ==
  ASSUME PathInv, NEW c \in Cmd, Hash(c) \/ HashRemove(c) \/ HashClear
  PROVE  PathInv'
<1>1. fails' = [x \in Cmd |-> 0] /\ UNCHANGED <<files, path>>
  BY DEF Hash, HashRemove, HashClear
<1>2. cache' \in [DOMAIN cache' -> Dir]
  <2>1. CASE Hash(c)
    BY <2>1, RememberedLemma DEF Hash, PathInv
  <2>2. CASE HashRemove(c)
    BY <2>2 DEF HashRemove, Without, Restrict, PathInv, PathTypeOK
  <2>3. CASE HashClear
    BY <2>3 DEF HashClear
  <2> QED
    BY <2>1, <2>2, <2>3
<1> QED
  BY <1>1, <1>2 DEF PathInv, PathTypeOK, FailedIsStuck, SecondRunFinds

(* Behind the shell's back: $PATH is assigned, a file changes. *)
LEMMA WorldStep ==
  ASSUME PathInv, SetPath \/ \E d \in Dir, c \in Cmd : ChangeFile(d, c)
  PROVE  PathInv'
<1>1. CASE SetPath
  BY <1>1 DEF SetPath, PathInv, PathTypeOK, FailedIsStuck, SecondRunFinds
<1>2. ASSUME NEW d \in Dir, NEW c \in Cmd, ChangeFile(d, c)
      PROVE  PathInv'
  <2>1. /\ files' \in [Dir -> [Cmd -> FileKind]]
        /\ \A e \in Dir, x \in Cmd \ {c} : files'[e][x] = files[e][x]
    BY <1>2 DEF ChangeFile, PathInv, PathTypeOK
  <2>2. /\ fails' \in [Cmd -> 0 .. 2] /\ fails'[c] = 0
        /\ \A x \in Cmd \ {c} : fails'[x] = fails[x]
    BY <1>2 DEF ChangeFile, PathInv, PathTypeOK
  <2>3. UNCHANGED <<path, cache>>
    BY <1>2 DEF ChangeFile
  <2>4. PathTypeOK'
    BY <2>1, <2>2, <2>3 DEF PathInv, PathTypeOK
  <2>5. FailedIsStuck'
    BY <2>1, <2>2, <2>3 DEF PathInv, PathTypeOK, FailedIsStuck, Stuck, Cached
  <2>6. \A x \in Cmd \ {c}, dflt \in BOOLEAN : Search(x, dflt)' = Search(x, dflt)
    <3> SUFFICES ASSUME NEW x \in Cmd \ {c}, NEW dflt \in BOOLEAN
                 PROVE  Search(x, dflt)' = Search(x, dflt)
      OBVIOUS
    <3>1. Prefix(dflt)' = Prefix(dflt) /\ Prefix(dflt) \in Seq(Dir)
      BY <2>3, CommandPathAssumption DEF Prefix, PathInv, PathTypeOK
    <3>2. \A i \in DOMAIN Prefix(dflt) : files'[Prefix(dflt)[i]][x] = files[Prefix(dflt)[i]][x]
      BY <3>1, <2>1
    <3>3. Hits(x, dflt)' = Hits(x, dflt)
      BY <3>1, <3>2 DEF Hits
    <3> QED
      BY <3>1, <3>3 DEF Search
  <2>7. SecondRunFinds'
    <3> SUFFICES ASSUME NEW x \in Cmd, fails'[x] = 2, Resolvable(x)'
                 PROVE  Stuck(x)'
      BY DEF SecondRunFinds
    <3>1. x # c /\ fails[x] = 2
      BY <2>2
    <3>2. Resolvable(x)
      <4> SUFFICES ASSUME NEW dflt \in BOOLEAN
                   PROVE  Search(x, dflt) # Nowhere /\ files[Search(x, dflt)][x] = "program"
        BY DEF Resolvable
      <4>1. Search(x, dflt)' # Nowhere /\ files'[Search(x, dflt)'][x] = "program"
        BY DEF Resolvable
      <4>2. Search(x, dflt)' = Search(x, dflt)
        BY <2>6, <3>1
      <4>3. Search(x, dflt) \in Dir
        BY <4>1, <4>2, SearchLemma DEF PathInv
      <4> QED
        BY <4>1, <4>2, <4>3, <2>1, <3>1
    <3>3. x \in DOMAIN cache'
      BY <3>1, <3>2, <2>3 DEF PathInv, SecondRunFinds, Stuck, Cached
    <3> QED
      BY <3>3, <2>5 DEF FailedIsStuck, Cached
  <2> QED
    BY <2>4, <2>5, <2>7 DEF PathInv
<1> QED
  BY <1>1, <1>2

(* A stale entry of the cache costs one failure: ENOENT drops it, and the next run of the
   name searches again. The invariant that makes it so is FailedIsStuck. *)
THEOREM StaleOnce ==
  PathSpec => []SecondRunFinds
<1>1. PathInit => PathInv
  BY DEF PathInit, PathInv, PathTypeOK, FailedIsStuck, SecondRunFinds
<1>2. PathInv /\ [PathNext]_pathVars => PathInv'
  <2> SUFFICES ASSUME PathInv, [PathNext]_pathVars
               PROVE  PathInv'
    OBVIOUS
  <2>1. CASE HashClear \/ \E c \in Cmd : Hash(c) \/ HashRemove(c)
    <3>1. CASE \E c \in Cmd : Hash(c) \/ HashRemove(c)
      BY <3>1, HashStep
    <3>2. CASE HashClear
      BY <3>2 DEF HashClear, PathInv, PathTypeOK, FailedIsStuck, SecondRunFinds
    <3> QED
      BY <2>1, <3>1, <3>2
  <2>2. CASE SetPath \/ \E d \in Dir, c \in Cmd : ChangeFile(d, c)
    BY <2>2, WorldStep
  <2>3. CASE \E c \in Cmd : RunCommand(c) \/ CommandP(c)
    BY <2>3, RunStep DEF RunCommand, CommandP
  <2>4. CASE UNCHANGED pathVars
    <3>1. \A c \in Cmd : Resolvable(c)' = Resolvable(c)
      BY <2>4, ResolvableLemma DEF pathVars
    <3> QED
      BY <2>4, <3>1 DEF pathVars, PathInv, PathTypeOK, FailedIsStuck, SecondRunFinds, Stuck, Cached
  <2> QED
    BY <2>1, <2>2, <2>3, <2>4 DEF PathNext
<1>3. PathInv => SecondRunFinds
  BY DEF PathInv
<1> QED
  BY <1>1, <1>2, <1>3, PTL DEF PathSpec

=============================================================================
