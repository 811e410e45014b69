----------------------------- MODULE WorkingDir -----------------------------
(* The working directory of the shell (core.cpp, cd and pwd of cmd.cpp): the  *)
(* directory of the process, the path by which the shell says it came there   *)
(* (logicalWorkingDir) and PWD and OLDPWD, which scripts may set. Directories *)
(* can be removed and renamed by others between two commands.                 *)
EXTENDS Files

(* Paths to stacks and back. The root is an element of a stack like another:  *)
(* dots can take it away.                                                     *)
CreatePathStack(path) == (IF Absolute(path) THEN <<<<"/">>>> ELSE <<>>) \o Components(path)
Joined(stack) ==
  IF Len(stack) = 1 THEN <<"/">> ELSE FlattenSeq([i \in 1 .. Len(stack) - 1 |-> <<"/">> \o stack[i + 1]])
Resolve(base, parts) ==
  LET step(stack, part) ==
        CASE part = <<".", ".">> -> IF stack = <<>> THEN stack ELSE Front(stack)
          [] part = <<".">> -> stack
          [] OTHER -> Append(stack, part)
  IN  FoldLeft(step, base, parts)
ExpandDots(sh, base, path) ==
  LET stack == CreatePathStack(path)
      from == IF Absolute(base) THEN base ELSE RealPath(sh.fs, sh.cwd)
      relative == stack # <<>> /\ Head(stack) # <<"/">>
  IN  CASE path \in {<<>>, NoPath} \/ (relative /\ from = NoPath) -> <<>>
        [] relative /\ from # NoPath -> Joined(Resolve(CreatePathStack(from), stack))
        [] OTHER -> Joined(Resolve(<<>>, stack))

(* Start: PWD is kept when it names the directory the shell is in.            *)
SetPWDs(sh) ==
  LET real == RealPath(sh.fs, sh.cwd)
      kept == real # NoPath /\ Absolute(sh.pwd) /\ IsSameFile(sh.fs, sh.cwd, sh.pwd, real)
      pwd == CASE kept -> sh.pwd [] ~kept /\ real = NoPath -> <<".">> [] OTHER -> real
      old == IF Absolute(sh.oldpwd) /\ IsDir(sh.fs, sh.cwd, sh.oldpwd) THEN sh.oldpwd ELSE pwd
  IN  [sh EXCEPT !.pwd = pwd, !.oldpwd = old]
Start(sh) ==
  LET set == SetPWDs(sh)
  IN  [set EXCEPT !.logical = IF Absolute(set.pwd) THEN ExpandDots(set, NoPath, set.pwd) ELSE <<>>]

GetWorkingDir(sh, useLogical) ==
  CASE ~useLogical -> RealPath(sh.fs, sh.cwd)
    [] OTHER -> IF IsDir(sh.fs, sh.cwd, sh.logical) THEN sh.logical ELSE NoPath

ChangeWorkingDir_noLogical(sh, dest, useLogical) == (* cd -P leaves the logical path as it was *)
  LET actual == IF useLogical THEN ExpandDots(sh, sh.logical, dest) ELSE dest
      moved == [sh EXCEPT !.cwd = Walk(sh.fs, sh.cwd, actual), !.oldpwd = sh.pwd, !.ret = 0]
      path == IF useLogical THEN actual ELSE RealPath(sh.fs, moved.cwd)
  IN  CASE ~IsDir(sh.fs, sh.cwd, actual) -> [sh EXCEPT !.ret = 1]
        [] useLogical -> [moved EXCEPT !.pwd = path, !.logical = path]
        [] OTHER -> [moved EXCEPT !.pwd = path]
ChangeWorkingDir_physicalWalk(sh, dest, useLogical) == (* chdir before the dots are gone *)
  LET actual == IF useLogical THEN ExpandDots(sh, sh.logical, dest) ELSE dest
      moved == [sh EXCEPT !.cwd = Walk(sh.fs, sh.cwd, dest), !.oldpwd = sh.pwd, !.ret = 0]
      path == RealPath(sh.fs, moved.cwd)
  IN  IF IsDir(sh.fs, sh.cwd, dest) THEN [moved EXCEPT !.pwd = path, !.logical = path] ELSE [sh EXCEPT !.ret = 1]
ChangeWorkingDir(sh, dest, useLogical) ==
  LET actual == IF useLogical THEN ExpandDots(sh, sh.logical, dest) ELSE dest
      said == [sh EXCEPT !.oldpwd = IF sh.pwd = NoPath THEN <<>> ELSE sh.pwd, !.ret = 0]
      moved == [said EXCEPT !.cwd = Walk(sh.fs, sh.cwd, actual)]
      path == IF useLogical THEN actual ELSE RealPath(sh.fs, moved.cwd)
  IN  CASE dest = <<>> -> said
        [] dest # <<>> /\ ~IsDir(sh.fs, sh.cwd, actual) -> [sh EXCEPT !.ret = 1]
        [] OTHER -> IF path = NoPath THEN moved ELSE [moved EXCEPT !.pwd = path, !.logical = path]

(* cd [-LP] [dir]: what it goes to, and the error when that is not set.       *)
Destination(sh, args) ==
  CASE args = <<>> -> sh.home
    [] args # <<>> /\ args[1] = <<"-">> -> sh.oldpwd
    [] OTHER -> args[1]
Cd(sh, useLogical, args) ==
  LET dest == Destination(sh, args)
  IN  IF dest = NoPath THEN [sh EXCEPT !.ret = 1] ELSE ChangeWorkingDir(sh, dest, useLogical)

(* A leading ~: HOME, PWD when it is right, OLDPWD when it is a directory, or *)
(* the home of a user; what cannot be expanded stays.                         *)
Users == [me |-> <<"/", "a">>, u |-> <<"/", "b">>]
ExpandTilde(sh, str, useHOME) ==
  LET slashes == {k \in DOMAIN str : str[k] = "/"}
      at == IF slashes = {} THEN Len(str) + 1 ELSE Min(slashes)
      prefix == SubSeq(str, 1, at - 1)
      rest == SubSeq(str, at, Len(str))
      real == RealPath(sh.fs, sh.cwd)
      expanded ==
        CASE prefix = <<"~">> -> IF useHOME /\ sh.home # NoPath THEN sh.home ELSE Users["me"]
          [] prefix = <<"~", "+">> ->
               IF real # NoPath /\ Absolute(sh.pwd) /\ IsSameFile(sh.fs, sh.cwd, sh.pwd, real) THEN sh.pwd
               ELSE IF real # NoPath THEN real ELSE prefix
          [] prefix = <<"~", "-">> -> IF Absolute(sh.oldpwd) /\ IsDir(sh.fs, sh.cwd, sh.oldpwd) THEN sh.oldpwd ELSE prefix
          [] OTHER -> IF Len(prefix) = 2 /\ prefix[2] \in DOMAIN Users THEN Users[prefix[2]] ELSE prefix
  IN  IF str = <<>> \/ str[1] # "~" THEN str ELSE expanded \o rest
=============================================================================
