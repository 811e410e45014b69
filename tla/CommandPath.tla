----------------------------- MODULE CommandPath -----------------------------
(* How the name of an external command becomes a program: the search along    *)
(* PATH, the cache of earlier searches, the entry dropped when the program    *)
(* turns out not to exist, the fallback handler, and the builtin commands     *)
(* command, hash and exec, while files come and go behind the shell's back.   *)
EXTENDS Naturals, FiniteSets, Sequences, Functions

CONSTANTS
  Cmd,       \* names without a slash, none of them user-defined or builtin
  Dir,       \* directories
  PathValue, \* values of PATH, sequences of directories
  Unset,     \* PATH is not in the environment
  Default,   \* VAL_DEFAULT_PATH
  MaxCache   \* FilePathCache::MAX_CACHE_SIZE

ASSUME CommandPathAssumption ==
  /\ MaxCache \in Nat \ {0}
  /\ PathValue \subseteq Seq(Dir) /\ Default \in Seq(Dir) /\ "nowhere" \notin Dir
  /\ Unset \notin PathValue

VARIABLES
  files,    \* what each directory has under each name
  path,     \* PATH
  handler,  \* $CMD_FALLBACK is set
  cache,    \* FilePathCache::map: the directory each cached name was found in
  fails     \* history: failures in a row of each name while nothing changed

pathVars == <<files, path, handler, cache, fails>>

FileKind == {"absent", "program", "plain", "directory"}
Nowhere == "nowhere"

PathInit ==
  /\ files \in [Dir -> [Cmd -> FileKind]]
  /\ path \in PathValue \cup {Unset}
  /\ handler \in BOOLEAN
  /\ cache = <<>> /\ fails = [c \in Cmd |-> 0]

(* The search itself: the first directory with something under the name whose *)
(* mode has S_IXUSR, a directory included.                                    *)
Prefix(dflt) == IF path = Unset \/ dflt THEN Default ELSE path
Hits(c, dflt) == {i \in DOMAIN Prefix(dflt) : files[Prefix(dflt)[i]][c] \in {"program", "directory"}}
First(S) == CHOOSE i \in S : \A j \in S : i <= j
Search(c, dflt) == IF Hits(c, dflt) = {} THEN Nowhere ELSE Prefix(dflt)[First(Hits(c, dflt))]

(* searchPath: a cached name is answered without looking; what the search     *)
(* finds is cached under the name, in place of an arbitrary entry (the first  *)
(* of a hash map) when the cache is full.                                     *)
Cached(c) == c \in DOMAIN cache
Found(c, dflt) == IF Cached(c) THEN cache[c] ELSE Search(c, dflt)
Without(f, cs) == Restrict(f, DOMAIN f \ cs)
With(f, c, d) == [x \in DOMAIN f \cup {c} |-> IF x = c THEN d ELSE f[x]]
Remembered(c, dflt) ==
  IF Cached(c) \/ Search(c, dflt) = Nowhere THEN {cache}
  ELSE IF Cardinality(DOMAIN cache) < MaxCache THEN {With(cache, c, Search(c, dflt))}
  ELSE {With(Without(cache, {x}), c, Search(c, dflt)) : x \in DOMAIN cache}

(* removePath, when execve has failed with ENOENT.                            *)
Forget_never(m, c, gone) == m
Forget(m, c, gone) == IF gone THEN Without(m, {c}) ELSE m

(* CmdResolver, callCommand, forkAndExec: with a fallback handler, a name     *)
(* that was not found, or was found as a directory, goes to the handler;      *)
(* a program that execve does not find leaves the cache.                      *)
Run(c, dflt) ==
  LET d == Found(c, dflt)
      kind == IF d = Nowhere THEN "absent" ELSE files[d][c]
  IN  /\ \E m \in Remembered(c, dflt) :
           cache' = Forget(m, c, kind = "absent" /\ ~(handler /\ d = Nowhere))
      /\ fails' = [x \in Cmd |->
                     IF x # c THEN IF x \in DOMAIN cache \ DOMAIN cache' THEN 0 ELSE fails[x]
                     ELSE IF kind = "program" \/ (handler /\ (d = Nowhere \/ kind = "directory")) THEN 0
                     ELSE IF fails[c] = 2 THEN 2 ELSE fails[c] + 1]
      /\ UNCHANGED <<files, path, handler>>

(* A plain command line; command NAME; command -p NAME.                       *)
RunCommand(c) == Run(c, FALSE)
CommandP(c) == Run(c, TRUE)

(* hash NAME, hash -r NAME, hash -r.                                          *)
Hash(c) ==
  /\ cache' \in Remembered(c, FALSE)
  /\ fails' = [x \in Cmd |-> 0]
  /\ UNCHANGED <<files, path, handler>>
HashRemove(c) ==
  /\ cache' = Without(cache, {c})
  /\ fails' = [x \in Cmd |-> 0]
  /\ UNCHANGED <<files, path, handler>>
HashClear ==
  /\ cache' = <<>>
  /\ fails' = [x \in Cmd |-> 0]
  /\ UNCHANGED <<files, path, handler>>

(* The environment: $PATH is assigned, a file appears, goes or loses its mode.*)
SetPath ==
  /\ path' \in (PathValue \cup {Unset}) \ {path}
  /\ fails' = [c \in Cmd |-> 0]
  /\ UNCHANGED <<files, handler, cache>>
ChangeFile(d, c) ==
  /\ \E k \in FileKind \ {files[d][c]} : files' = [files EXCEPT ![d][c] = k]
  /\ fails' = [fails EXCEPT ![c] = 0]
  /\ UNCHANGED <<path, handler, cache>>

PathNext ==
  \/ HashClear \/ SetPath
  \/ \E c \in Cmd : RunCommand(c) \/ CommandP(c) \/ Hash(c) \/ HashRemove(c)
  \/ \E d \in Dir, c \in Cmd : ChangeFile(d, c)

PathSpec == PathInit /\ [][PathNext]_pathVars

-----------------------------------------------------------------------------
(* A stale entry costs one failure: while nothing changes, the second run of  *)
(* a name that PATH can resolve does not fail, because ENOENT has dropped the *)
(* entry, unless what the entry names exists and is no program: EACCES keeps  *)
(* the entry, and every later run fails like the first.                       *)
Resolvable(c) ==
  \A dflt \in BOOLEAN : Search(c, dflt) # Nowhere /\ files[Search(c, dflt)][c] = "program"
Stuck(c) == Cached(c) /\ files[cache[c]][c] \in {"plain", "directory"}
SecondRunFinds ==
  \A c \in Cmd : fails[c] = 2 /\ Resolvable(c) => Stuck(c)

=============================================================================
