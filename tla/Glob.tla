--------------------------------- MODULE Glob ---------------------------------
(* Patterns of file names (misc/glob.hpp; GlobIter and addGlobbingPath of     *)
(* vm.cpp). A pattern is a sequence of fragments: a text, or one of the metas *)
(* ANY and MANY. Its tokens are the characters of the texts and the metas; an *)
(* empty text is the token NUL, which an iterator stands on and no name has.  *)
(* A pattern is read by an index into its tokens.                             *)
EXTENDS WorkingDir

ANY == <<"?">>
MANY == <<"*">>
Metas == {ANY, MANY}
Tokens(pattern) == FlattenSeq([i \in DOMAIN pattern |-> IF pattern[i] = <<>> THEN <<"NUL">> ELSE pattern[i]])
IsAny(p, k) == k <= Len(p) /\ p[k] = "?"
IsZeroOrMore(p, k) == k <= Len(p) /\ p[k] = "*"
IsEnd(p, k) == k = Len(p) + 1
IsEndOrSep(p, k) == IsEnd(p, k) \/ p[k] = "/"

(* One component of a pattern and one name. Every part of a pattern that is   *)
(* behind a * is tried at the next place of the name when it fails.           *)
MatchDots(p, k, name) ==
  LET after == k + Len(name)
  IN  IF /\ after <= Len(p) + 1
         /\ \A i \in k .. after - 1 : p[i] = "."
         /\ IsEndOrSep(p, after)
      THEN [ret |-> IF Len(name) = 1 THEN "DOT" ELSE "DOTDOT", at |-> after]
      ELSE [ret |-> "FAILED", at |-> k]
RECURSIVE Finish(_, _), Retry(_, _, _, _, _, _), Align(_, _, _, _)
Finish(p, k) ==
  CASE IsEndOrSep(p, k) -> [ret |-> "MATCHED", at |-> k]
    [] OTHER -> IF IsZeroOrMore(p, k) THEN Finish(p, k + 1) ELSE [ret |-> "FAILED", at |-> k]
Retry(p, k, name, i, old, cp) ==
  CASE i > Len(name) -> Finish(p, k)
    [] i <= Len(name) /\ IsEndOrSep(p, k) -> Retry(p, old, name, cp, old, cp + 1)
    [] OTHER ->
         IF p[k] = name[i] \/ IsAny(p, k) THEN Retry(p, k + 1, name, i + 1, old, cp)
         ELSE IF IsZeroOrMore(p, k)
              THEN IF IsEndOrSep(p, k + 1) THEN [ret |-> "MATCHED", at |-> k + 1]
                   ELSE Retry(p, k + 1, name, i, k + 1, i + 1)
              ELSE Retry(p, old, name, cp, old, cp + 1)
Align(p, k, name, i) ==
  CASE i > Len(name) -> Finish(p, k)
    [] i <= Len(name) /\ IsEndOrSep(p, k) -> [ret |-> "FAILED", at |-> k]
    [] OTHER ->
         IF IsZeroOrMore(p, k) THEN Retry(p, k, name, i, 0, 0)
         ELSE IF p[k] = name[i] \/ IsAny(p, k) THEN Align(p, k + 1, name, i + 1)
              ELSE [ret |-> "FAILED", at |-> k]
WildCardMatcher_hidden(p, k, name, options) == (* hidden names are like others *)
  IF name \in {<<".">>, <<".", ".">>} THEN MatchDots(p, k, name) ELSE Align(p, k, name, 1)
WildCardMatcher(p, k, name, options) ==
  CASE name \in {<<".">>, <<".", ".">>} -> MatchDots(p, k, name)
    [] name[1] = "." /\ Len(name) > 1 /\ name # <<".", ".">> /\ ~IsEndOrSep(p, k) /\ p[k] # "." /\ "DOTGLOB" \notin options ->
         [ret |-> "FAILED", at |-> k]
    [] OTHER -> Align(p, k, name, 1)

(* Where the pattern starts: what comes before its first meta, up to a "/".   *)
ResolveBaseDir(sh, p, options) ==
  LET metas == {k \in DOMAIN p : p[k] \in {"?", "*"}}
      seps == {k \in DOMAIN p : p[k] = "/" /\ \A m \in metas : k < m}
      add(path, ch) == IF ch = "/" /\ path # <<>> /\ Last(path) = "/" THEN path ELSE Append(path, ch)
      text == FoldLeft(add, <<>>, SubSeq(p, 1, Max(seps)))
  IN  IF seps = {} THEN [base |-> <<".">>, at |-> 1]
      ELSE [base |-> IF "TILDE" \in options THEN ExpandTilde(sh, text, TRUE) ELSE text, at |-> Max(seps) + 1]
PopDir(path) ==
  LET seps == {k \in DOMAIN path : path[k] = "/"}
      final == SubSeq(path, Max(seps) + 1, Len(path))
  IN  CASE path = <<".">> -> <<".", ".">>
        [] path = <<".", ".">> -> <<".", ".", "/", ".", ".">>
        [] seps = {} -> <<".">>
        [] seps = {1} -> <<"/">>
        [] OTHER -> IF final \in {<<>>, <<".", ".">>} THEN path \o <<"/", ".", ".", "/">> ELSE SubSeq(path, 1, Max(seps) - 1)

(* A directory is read entry by entry. What is left of the pattern goes on in *)
(* the directories that match; with FASTGLOB a ".." ends the search below and *)
(* goes on above with what is left behind it, once.                           *)
NameIn(base, name) ==
  LET path == IF base = <<".">> THEN <<>> ELSE base
  IN  (IF path # <<>> /\ Last(path) # "/" THEN Append(path, "/") ELSE path) \o name
RECURSIVE ConsumeSeps(_, _), ConsumeDots(_, _, _)
ConsumeSeps(p, k) == IF ~IsEnd(p, k) /\ p[k] = "/" THEN ConsumeSeps(p, k + 1) ELSE k
ConsumeDots(p, k, name) ==
  LET after == ConsumeSeps(p, k)
      path == IF after > k THEN Append(name, "/") ELSE name
  IN  IF after <= Len(p) /\ p[after] = "." /\ IsEndOrSep(p, after + 1) THEN ConsumeDots(p, after + 1, Append(path, "."))
      ELSE [at |-> after, name |-> path]
Listing(sh, base) ==
  LET dir == Walk(sh.fs, sh.cwd, base)
  IN  CASE dir \in DOMAIN sh.fs -> IF sh.fs[dir].readable
                                   THEN <<<<".">>, <<".", ".">>>> \o [k \in DOMAIN sh.fs[dir].items |-> sh.fs[dir].items[k].name]
                                   ELSE <<>>
        [] OTHER -> <<>>
(* A search g is made by a shell, for a pattern, under options; it stands     *)
(* (c) at an entry n of a directory and an index k of the pattern.            *)
Done(s, at, found) == [s |-> s, at |-> at, found |-> found]
RECURSIVE Match(_, _)
AfterEntry(g, c, ret, r) ==
  CASE r.s = -2 -> Match(g, [c EXCEPT !.k = r.at, !.n = 1, !.found = r.found])
    [] OTHER -> IF ret = "MATCHED" THEN Match(g, [c EXCEPT !.n = @ + 1, !.found = r.found]) ELSE [r EXCEPT !.at = c.k]
MatchEntry(g, c, ret, below, rest) ==
  CASE ~below \/ IsEnd(g.p, rest.at) ->
         AfterEntry(g, c, ret, Done(0, c.k, IF IsEnd(g.p, rest.at) THEN Append(c.found, rest.name) ELSE c.found))
    [] OTHER ->
         IF ret = "DOTDOT" /\ "FASTGLOB" \in g.options THEN Done(-2, rest.at, c.found)
         ELSE AfterEntry(g, c, ret, Match(g, [base |-> rest.name, k |-> rest.at, n |-> 1, found |-> c.found]))
MatchName(g, c, name, hit, below) ==
  IF hit.ret = "FAILED" THEN Match(g, [c EXCEPT !.n = @ + 1])
  ELSE MatchEntry(g, c, hit.ret, below, IF below THEN ConsumeDots(g.p, hit.at, name) ELSE [at |-> hit.at, name |-> name])
MatchIn(g, c, listing) ==
  IF c.n > Len(listing) THEN Done(0, c.k, c.found)
  ELSE MatchName(g, c, NameIn(c.base, listing[c.n]), WildCardMatcher(g.p, c.k, listing[c.n], g.options),
                 IsDir(g.sh.fs, g.sh.cwd, NameIn(c.base, listing[c.n])))
Match(g, c) == MatchIn(g, c, Listing(g.sh, c.base))
RECURSIVE Invoke(_, _, _, _)
Above(g, base, r) == IF r.s = -2 THEN Invoke(g, PopDir(base), r.at, r.found) ELSE r.found
Invoke(g, base, k, found) == Above(g, base, Match(g, [base |-> base, k |-> k, n |-> 1, found |-> found]))
GlobFrom(g, from) == Invoke(g, from.base, from.at, <<>>)
GlobMatcher(sh, p, options) == GlobFrom([sh |-> sh, p |-> p, options |-> options], ResolveBaseDir(sh, p, options))

(* The words of a pattern follow, sorted, the arguments that are there.       *)
Alphabet == <<"*", ".", "/", "?", "a", "b", "l", "u", "~">>
Rank(ch) == CHOOSE k \in DOMAIN Alphabet : Alphabet[k] = ch
RECURSIVE Before(_, _)
Before(x, y) ==
  IF x = <<>> \/ y = <<>> THEN x = <<>> /\ y # <<>>
  ELSE IF x[1] = y[1] THEN Before(Tail(x), Tail(y)) ELSE Rank(x[1]) < Rank(y[1])
Globbed(argv, found, options) ==
  IF found # <<>> \/ "NULLGLOB" \in options THEN [err |-> "", argv |-> argv \o SortSeq(found, Before)]
  ELSE [err |-> "GlobbingError", argv |-> argv]
AddGlobbingPath(sh, argv, pattern, options) == Globbed(argv, GlobMatcher(sh, Tokens(pattern), options), options)
=============================================================================
