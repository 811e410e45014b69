-------------------------------- MODULE Files --------------------------------
(* A tree of directories as system calls see it. A path and a name are        *)
(* sequences of characters; a directory has its parent and its entries in the *)
(* order readdir gives them; an entry that is a link gives another directory. *)
(* What is no directory of the tree is a plain file.                          *)
EXTENDS SequencesExt, FiniteSetsExt

Root == "root"
Missing == "missing"
NoPath == <<"unset">>   \* a variable that is not set, a path nobody has

Entry(name, ino) == [name |-> name, ino |-> ino, link |-> FALSE]
Link(name, ino) == [name |-> name, ino |-> ino, link |-> TRUE]
Dir(up, items) == [up |-> up, items |-> items, readable |-> TRUE]

Absolute(path) == path # NoPath /\ path # <<>> /\ path[1] = "/"
Components(path) ==
  LET add(parts, ch) == IF ch = "/" THEN Append(parts, <<>>) ELSE [parts EXCEPT ![Len(parts)] = Append(@, ch)]
  IN  SelectSeq(FoldLeft(add, <<<<>>>>, path), LAMBDA part : part # <<>>)

Lookup(fs, dir, name) ==
  LET here == {k \in DOMAIN fs[dir].items : fs[dir].items[k].name = name}
  IN  CASE name = <<".">> -> dir
        [] name = <<".", ".">> -> fs[dir].up
        [] OTHER -> IF here = {} THEN Missing ELSE fs[dir].items[CHOOSE k \in here : TRUE].ino
Walk(fs, cwd, path) ==
  LET step(at, name) == IF at \in DOMAIN fs THEN Lookup(fs, at, name) ELSE Missing
      found == FoldLeft(step, IF Absolute(path) THEN Root ELSE cwd, Components(path))
  IN  IF path \in {<<>>, NoPath} \/ (Last(path) = "/" /\ found \notin DOMAIN fs) THEN Missing ELSE found
IsDir(fs, cwd, path) == Walk(fs, cwd, path) \in DOMAIN fs
IsSameFile(fs, cwd, p, q) == Walk(fs, cwd, p) # Missing /\ Walk(fs, cwd, p) = Walk(fs, cwd, q)

(* getRealpath("."): up to the root by entries that are no links; a directory *)
(* that has been removed has no path.                                         *)
RECURSIVE RealPath(_, _)
RealPath(fs, dir) ==
  LET up == fs[dir].up
      here == {k \in DOMAIN fs[up].items : fs[up].items[k].ino = dir /\ ~fs[up].items[k].link}
      above == RealPath(fs, up)
  IN  CASE dir = Root -> <<"/">>
        [] dir # Root /\ (here = {} \/ above = NoPath) -> NoPath
        [] OTHER -> (IF up = Root THEN <<>> ELSE above) \o <<"/">> \o fs[up].items[CHOOSE k \in here : TRUE].name
=============================================================================
