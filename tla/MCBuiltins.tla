------------------------------ MODULE MCBuiltins ------------------------------
(* Builtin commands on small inputs: masks and modes, lines to read, words to *)
(* print, files to test, names and patterns (task is one of these), and a     *)
(* shell (sh) that changes its directory while others change the tree.        *)
EXTENDS Builtins, Glob

CONSTANT MaxMoves    \* bound: commands of the shell and changes of the tree

VARIABLES task, sh, undisturbed, prev, last, moves
vars == <<task, sh, undisturbed, prev, last, moves>>

Texts(chars, n) == UNION {[1 .. k -> chars] : k \in 0 .. n}
JoinBy(parts, sep) == FlattenSeq([k \in DOMAIN parts |-> IF k = 1 THEN parts[k] ELSE sep \o parts[k]])

(* The trees: /a/b with a file, /b and what is hidden; l is a link to /a/b.   *)
Plain(hidden) ==
  "root" :> Dir("root", <<Entry(<<"a">>, "A"), Entry(<<"b">>, "B"), Entry(<<"a", "b">>, "file1")>> \o hidden)
  @@ "A" :> Dir("root", <<Entry(<<"b">>, "AB"), Entry(<<"a">>, "file2")>>)
  @@ "AB" :> Dir("A", <<Entry(<<"a">>, "file3")>>)
  @@ "B" :> [Dir("root", <<Entry(<<"a">>, "file4")>>) EXCEPT !.readable = FALSE]
Trees == {Plain(<<>>), Plain(<<Entry(<<".", "a">>, "file5"), Link(<<"l">>, "AB")>>)}
Shell(fs, cwd, pwd, oldpwd) ==
  Start([fs |-> fs, cwd |-> cwd, pwd |-> pwd, oldpwd |-> oldpwd, home |-> <<"/", "a">>, logical |-> <<>>, ret |-> 0])
Inherited == {NoPath, <<"/", "l">>, <<"/", "a", "/", "b">>, <<"a">>}
NoCd == [dest |-> NoPath, logical |-> TRUE, moved |-> FALSE]

Kinds1 == {"umask", "octal", "read", "echo", "escape", "options", "file", "number", "name", "path"}
Init ==
  /\ task \in [of : Kinds1] \cup [of : {"cd"}]
  /\ sh \in IF task.of = "cd" THEN {Shell(fs, cwd, pwd, old) : fs \in Trees, cwd \in {"root", "AB"}, pwd, old \in Inherited}
            ELSE {Shell(fs, "root", NoPath, NoPath) : fs \in IF task.of = "path" THEN Trees ELSE {Plain(<<>>)}}
  /\ undisturbed = TRUE /\ last = NoCd /\ moves = 0
  /\ prev = Walk(sh.fs, sh.cwd, sh.oldpwd)

Clauses == [who : {<<>>, <<"u">>, <<"g", "o">>, <<"a">>}, op : {"+", "-", "="}, perms : {<<>>, <<"r">>, <<"x", "w">>}]
ClauseText(c) == c.who \o <<c.op>> \o c.perms
SomeMasks == {{}, {<<"g", "w">>, <<"o", "w">>, <<"u", "x">>}, Mask}
EchoWords == {<<"-", "n">>, <<"-", "e">>, <<"-", "n", "E">>, <<"-", "n", "a">>, <<"-", "-">>, <<"-">>, <<"a">>, <<"\\", "n">>}
ReadWords == {<<"-", "r">>, <<"-", "p">>, <<"-", "r", "p">>, <<"-", "p", "r">>, <<"-", "a">>, <<"-", "r", "a">>, <<"-", "-">>, <<"a">>}
Files1 == {Absent} \cup
  {[Absent EXCEPT !.kind = k, !.bits = b, !.mtime = t, !.ino = i] :
     k \in {"file", "dir", "fifo"}, b \in SUBSET {"set-user-id", "sticky"}, t \in 1 .. 2, i \in 1 .. 2}
(* Numbers as they are written, with their value, and texts that are none.    *)
Written(n, base) ==
  IF n < base THEN <<Digits[n + 1]>> ELSE <<Digits[n \div base + 1], Digits[(n % base) + 1]>>
Spellings(n) ==
  {Written(n, 10)} \cup {before \o Written(n, 8) : before \in {<<"0">>, <<"0", "0">>, <<"0", "o">>, <<"0", "O">>}}
    \cup {before \o Written(n, 16) : before \in {<<"0", "x">>, <<"0", "X">>}}
Number(text, value) == [text |-> text, valid |-> value \in -20 .. MaxInt, value |-> value]
Numbers ==
  UNION {{Number(text, n) : text \in Spellings(n)} : n \in {0, 1, 8, 9, 19, 20}}
    \cup UNION {{Number(<<"-">> \o text, -n) : text \in Spellings(n)} : n \in {0, 1, 10, 20, 21}}
    \cup {[text |-> text, valid |-> FALSE, value |-> 0] :
             text \in {<<>>, <<"-">>, <<"+", "2">>, <<"-", "-", "1">>, <<"0", "8">>, <<"0", "x">>, <<"0", "o">>, <<"0", "o", "8">>,
                       <<"0", "-", "1">>, <<"a">>, <<"1", "a">>, <<" ", "1">>, <<"0", "0", "x", "1">>}}
Parts == {<<"*">>, <<"?">>, <<"a">>, <<"*", "b">>, <<".", ".">>, <<".">>, <<".", "*">>, <<"a", "*">>}
Starts == {<<>>, <<"/">>, <<"/", "/">>, <<"~", "/">>, <<"a", "/">>}
Options1 == {{}, {"TILDE", "DOTGLOB"}, {"TILDE", "FASTGLOB"}}

(* An input is put to the commands it is for.                                 *)
Ask(inputs) == task' \in inputs /\ UNCHANGED <<sh, undisturbed, prev, last, moves>>
Umasks == task = [of |-> "umask"] /\ Ask([of : {"modes"}, mask : SomeMasks, clauses : UNION {[1 .. n -> Clauses] : n \in 1 .. 2}])
Octals == task = [of |-> "octal"] /\ Ask([of : {"mask"}, mask : SUBSET Mask])
Reads ==
  /\ task = [of |-> "read"]
  /\ Ask([of : {"line"}, text : Texts({"a", " ", ":", "\\", "\n"}, 5), backslash : BOOLEAN,
          ifs : {{":"}, {" ", ":"}}, names : 0 .. 3])
Echoes == task = [of |-> "echo"] /\ Ask([of : {"words"}, words : Texts(EchoWords, 3)])
Escapes == task = [of |-> "escape"] /\ Ask([of : {"text"}, text : Texts({"a", "\\", "n", "c", "0", "x"}, 4)])
OptionsOf == task = [of |-> "options"] /\ Ask([of : {"given"}, words : Texts(ReadWords, 4)])
FilesTested == task = [of |-> "file"] /\ Ask([of : {"files"}, x : Files1, y : Files1])
NumbersTested == task = [of |-> "number"] /\ Ask([of : {"numbers"}, x : Numbers, y : Numbers])
NamesMatched ==
  /\ task = [of |-> "name"]
  /\ Ask([of : {"match"}, pattern : Texts({"a", "b", ".", "*", "?"}, 4), name : Texts({"a", "b", "."}, 4) \ {<<>>}, dot : BOOLEAN])
PathsMatched ==
  /\ task = [of |-> "path"]
  /\ Ask([of : {"glob"}, start : Starts, parts : UNION {[1 .. n -> Parts] : n \in 1 .. 3}, end : {<<>>, <<"/">>}, options : Options1])

(* The shell, and those who remove and rename directories.                    *)
Climbs(path) == (* leads above the root, by name *)
  LET parts == Components(IF Absolute(path) THEN path ELSE sh.logical \o <<"/">> \o path)
      depth(k) == Cardinality({i \in 1 .. k : parts[i] \notin {<<".">>, <<".", ".">>}}) - Cardinality({i \in 1 .. k : parts[i] = <<".", ".">>})
  IN  \E k \in DOMAIN parts : depth(k) < 0
Dests == {<<>>, <<"/">>, <<"/", "a">>, <<"b">>, <<".", ".">>, <<"l">>, <<"l", "/", ".", ".">>, <<".", "/", "a", "/">>,
          <<".", ".", "/", "b">>, <<"/", ".", ".", "/", "a">>, <<"-">>}
ChangeDir ==
  \E args \in {<<>>} \cup {<<dest>> : dest \in Dests}, useLogical \in BOOLEAN :
    LET dest == Destination(sh, args)
        done == Cd(sh, useLogical, args)
        moved == done.ret = 0 /\ dest # <<>>
    IN  /\ task.of = "cd" /\ moves < MaxMoves
        /\ ~useLogical \/ ~Climbs(dest) (* expandDots drops the root itself: see the README *)
        /\ sh' = done
        /\ last' = [dest |-> dest, logical |-> useLogical, moved |-> moved]
        /\ prev' = IF done.ret = 0 THEN sh.cwd ELSE prev
        /\ moves' = moves + 1
        /\ UNCHANGED <<task, undisturbed>>
Disturb(new) ==
  /\ task.of = "cd" /\ moves < MaxMoves
  /\ sh' = new /\ moves' = moves + 1 /\ undisturbed' = FALSE /\ last' = NoCd
  /\ UNCHANGED <<task, prev>>
AssignPWD == \E value \in {NoPath, <<"/", "b">>} : Disturb([sh EXCEPT !.pwd = value])
RemoveEntry(dir, ino) == [sh.fs EXCEPT ![dir].items = SelectSeq(@, LAMBDA item : item.ino # ino \/ item.link)]
RemoveDir == Disturb([sh EXCEPT !.fs = [RemoveEntry("A", "AB") EXCEPT !["AB"].items = <<>>]])
MoveDir == (* /a/b to /b/b *)
  /\ \E k \in DOMAIN sh.fs["A"].items : sh.fs["A"].items[k].ino = "AB"
  /\ Disturb([sh EXCEPT !.fs = [RemoveEntry("A", "AB") EXCEPT !["B"].items = Append(@, Entry(<<"b">>, "AB")), !["AB"].up = "B"]])

Next ==
  \/ Umasks \/ Octals \/ Reads \/ Echoes \/ Escapes \/ OptionsOf \/ FilesTested \/ NumbersTested \/ NamesMatched \/ PathsMatched
  \/ ChangeDir \/ AssignPWD \/ RemoveDir \/ MoveDir
Spec == Init /\ [][Next]_vars

(* A bit of the mask is what the last clause that is about it says, or what   *)
(* it was; and what umask and umask -S print sets the mask they print         *)
(* (cmd.cpp:1743-1938).                                                       *)
About(c, b) == b[1] \in (IF c.who \in {<<>>, <<"a">>} THEN ToSet(Classes) ELSE ToSet(c.who)) /\ (c.op = "=" \/ b[2] \in ToSet(c.perms))
Taken(c, b) == IF c.op = "=" THEN b[2] \notin ToSet(c.perms) ELSE c.op = "-"
Lasting(cs, b) == {k \in DOMAIN cs : About(cs[k], b)}
Said(said, mask, cs) ==
  said.ret = 0 /\ said.mask = {b \in Mask : IF Lasting(cs, b) = {} THEN b \in mask ELSE Taken(cs[Max(Lasting(cs, b))], b)}
Refused(word) == Umask(task.mask, <<<<"-", "-">>, word \o <<"q">>>>).ret = 1
SetBack(out) == \A m \in SomeMasks : Umask(m, <<out>>) = [ret |-> 0, mask |-> task.mask, out |-> <<>>]
MaskAsSaid ==
  /\ task.of = "modes" =>
       /\ ClauseText(task.clauses[1])[1] # "-" =>
            Said(Umask(task.mask, <<JoinBy([k \in DOMAIN task.clauses |-> ClauseText(task.clauses[k])], <<",">>)>>), task.mask, task.clauses)
       /\ Refused(ClauseText(task.clauses[1]))
  /\ task.of = "mask" => \A words \in {<<>>, <<<<"-", "S">>>>} : SetBack(Umask(task.mask, words).out)

(* read: a line is cut at the separators that are not escaped; spaces around  *)
(* one belong to it. The last name gets what is left, without the spaces at   *)
(* its end when a space is a separator (cmd.cpp:950-1114).                    *)
Unit(ch, escaped) == [ch |-> ch, sep |-> ~escaped /\ ch \in task.ifs]
RECURSIVE Units(_), DropSeps(_), FieldsOf(_, _)
Units(s) ==
  IF s = <<>> \/ s[1] = "\n" THEN <<>>
  ELSE IF s[1] # "\\" \/ ~task.backslash THEN <<Unit(s[1], FALSE)>> \o Units(Tail(s))
  ELSE IF Len(s) = 1 THEN <<>>
  ELSE (IF s[2] = "\n" THEN <<>> ELSE <<Unit(s[2], TRUE)>>) \o Units(Tail2(s))
DropSeps(us) == IF us # <<>> /\ us[1].sep /\ us[1].ch = " " THEN DropSeps(Tail(us)) ELSE us
Chars(us) == [k \in DOMAIN us |-> us[k].ch]
FieldsOf(us, names) ==
  LET from == DropSeps(us)
      seps == {k \in DOMAIN from : from[k].sep}
      after == DropSeps(SubSeq(from, Min(seps), Len(from)))
      rest == IF after # <<>> /\ after[1].sep THEN Tail(after) ELSE after
  IN  IF names <= 1 \/ seps = {} THEN <<Chars(from)>>
      ELSE <<SubSeq(Chars(from), 1, Min(seps) - 1)>> \o FieldsOf(rest, names - 1)
FieldsAsSplit ==
  task.of = "line" =>
    LET got == Read(task.text, task)
        fields == FieldsOf(Units(task.text), task.names)
        n == Len(fields)
        wanted == [fields EXCEPT ![n] = IF " " \in task.ifs THEN DropSpaces(@) ELSE @]
    IN  IF task.names = 0 THEN got.REPLY = wanted[1]
        ELSE /\ SubSeq(got.reply, 1, n) = wanted
             /\ \A k \in n + 1 .. task.names : got.reply[k] = <<>>

(* The options are the words before the first that is none, letter by letter, *)
(* and echo prints all that follows them; a text whose \ are doubled is       *)
(* printed as it is (cmd.cpp:474-538, misc/opt.hpp:313-373).                  *)
RECURSIVE Letters(_, _), OptionList(_)
Letters(word, after) == (* of one word: the options, and the words it takes *)
  LET rest == Letters(Tail(word), after)
  IN  CASE word = <<>> -> [given |-> <<>>, ok |-> TRUE, words |-> 1]
        [] word # <<>> /\ word[1] = "r" -> [rest EXCEPT !.given = <<<<"r", NoText>>>> \o @]
        [] word = <<"p">> /\ after = <<>> -> [given |-> <<>>, ok |-> FALSE, words |-> 1]
        [] word # <<>> /\ word[1] = "p" /\ (Len(word) > 1 \/ after # <<>>) ->
             IF Len(word) > 1 THEN [given |-> <<<<"p", Tail(word)>>>>, ok |-> TRUE, words |-> 1]
             ELSE [given |-> <<<<"p", after[1]>>>>, ok |-> TRUE, words |-> 2]
        [] OTHER -> [given |-> <<>>, ok |-> FALSE, words |-> 0]
OptionList(words) ==
  LET first == Letters(Tail(words[1]), Tail(words))
      rest == OptionList(SubSeq(words, first.words + 1, Len(words)))
  IN  IF words = <<>> \/ words[1] \in {<<"a">>, <<"-">>} THEN [given |-> <<>>, used |-> 0]
      ELSE IF words[1] = <<"-", "-">> THEN [given |-> <<>>, used |-> 1]
      ELSE IF ~first.ok THEN [given |-> first.given, used |-> first.words]
      ELSE [given |-> first.given \o rest.given, used |-> first.words + rest.used]
IsOption(word) == Len(word) > 1 /\ word[1] = "-" /\ ToSet(Tail(word)) \subseteq {"n", "e", "E"}
OptionsLeadWords ==
  /\ task.of = "given" =>
       LET got == Options(task.words, <<":", "r", "p", ":">>) IN got.given = OptionList(task.words).given /\ got.index = OptionList(task.words).used + 1
  /\ task.of = "words" =>
       LET n == Max({k \in 0 .. Len(task.words) : \A i \in 1 .. k : IsOption(task.words[i])})
           text == JoinBy(SubSeq(task.words, n + 1, Len(task.words)), <<" ">>)
           letters == ToSet(FlattenSeq(SubSeq(task.words, 1, n)))
           quiet == "n" \in letters \/ (n < Len(task.words) /\ task.words[n + 1] = <<"-", "n", "a">>)
       IN  "e" \notin letters => Echo(task.words) = IF quiet THEN text ELSE text \o <<"\n">>
  /\ task.of = "text" =>
       Echo(<<<<"-", "e">>, FlattenSeq([k \in DOMAIN task.text |-> IF task.text[k] = "\\" THEN <<"\\", "\\">> ELSE <<task.text[k]>>])>>)
         = task.text \o <<"\n">>

(* test: a file is of one kind if it is there; newer and older exclude each   *)
(* other and turn with their operands. Two numbers compare as their values    *)
(* do, however they are written (decimal, octal after 0 or 0o, hex after 0x,  *)
(* signed 64 bits), and all refuse what is no number or out of range          *)
(* (cmd.cpp:664-927, misc/num_util.hpp:263-281).                              *)
TestsAgree ==
  /\ task.of = "files" =>
       LET files == <<"x">> :> [stat |-> task.x, link |-> FALSE] @@ <<"y">> :> [stat |-> task.y, link |-> TRUE]
           is(op) == Test(<<<<"-", op>>, <<"x">>>>, files, {}) = 0
           compare(x, op, y) == Test(<<<<x>>, <<"-">> \o op, <<y>>>>, files, {}) = 0
       IN  /\ is("e") <=> \E op \in DOMAIN Kinds : is(op)
           /\ Cardinality({op \in DOMAIN Kinds : is(op)}) <= 1
           /\ compare("x", <<"n", "t">>, "y") <=> compare("y", <<"o", "t">>, "x")
           /\ ~(compare("x", <<"n", "t">>, "y") /\ compare("x", <<"o", "t">>, "y"))
           /\ compare("x", <<"e", "f">>, "y") => is("e") /\ compare("y", <<"e", "f">>, "x")
           /\ compare("x", <<"n", "t">>, "y") \/ compare("x", <<"o", "t">>, "y") => is("e")
  /\ task.of = "numbers" =>
       LET answer(op) == Test(<<task.x.text, <<"-">> \o op, task.y.text>>, <<>>, {})
           is(op, holds) == answer(op) = IF task.x.valid /\ task.y.valid THEN IF holds THEN 0 ELSE 1 ELSE 2
       IN  /\ is(<<"e", "q">>, task.x.value = task.y.value) /\ is(<<"n", "e">>, task.x.value # task.y.value)
           /\ is(<<"l", "t">>, task.x.value < task.y.value) /\ is(<<"g", "t">>, task.x.value > task.y.value)
           /\ is(<<"l", "e">>, task.x.value <= task.y.value) /\ is(<<"g", "e">>, task.x.value >= task.y.value)

(* The commands do with their words and lines what the four parts say, each   *)
(* found a second way: the mask clause by clause from the last, the fields by *)
(* cutting the line, the options word by word, the numbers from their values. *)
(* Which bit test -g looks at is not part of it (README, section 5).           *)
AnswersAgree == MaskAsSaid /\ FieldsAsSplit /\ OptionsLeadWords /\ TestsAgree

(* A name matches when its characters can be laid along the pattern, hidden   *)
(* names only along a "." that is written; a pattern finds every path whose   *)
(* names match its own, once (misc/glob.hpp, vm.cpp:1141-1207). With fastglob *)
(* it finds the same files, if no link is in the way.                         *)
RECURSIVE Along(_, _)
Along(p, name) ==
  IF p = <<>> THEN name = <<>>
  ELSE \/ p[1] = "*" /\ Along(Tail(p), name)
       \/ p[1] = "*" /\ name # <<>> /\ Along(p, Tail(name))
       \/ p[1] # "*" /\ name # <<>> /\ p[1] \in {"?", name[1]} /\ Along(Tail(p), Tail(name))
NameMatches(p, name, dot) ==
  CASE name \in {<<".">>, <<".", ".">>} -> p = name
    [] OTHER -> Along(p, name) /\ (name[1] = "." => dot \/ p[1] = ".")
HasMeta(part) == "*" \in ToSet(part) \/ "?" \in ToSet(part)
Base(text) == IF "/" \in ToSet(text) THEN text ELSE <<".">>
FoundIn(paths, part, options) ==
  IF part = <<".">> THEN {NameIn(path, part) : path \in {q \in paths : IsDir(sh.fs, sh.cwd, q)}}
  ELSE {NameIn(f[1], f[2]) : f \in {g \in UNION {{path} \X ToSet(Listing(sh, path)) : path \in paths} :
                                      NameMatches(part, g[2], "DOTGLOB" \in options)}}
Found(options) ==
  LET first == Min({k \in DOMAIN task.parts : HasMeta(task.parts[k])})
      text == (IF task.start = <<"/", "/">> THEN <<"/">> ELSE IF task.start = <<"~", "/">> /\ "TILDE" \in options THEN <<"/", "a", "/">> ELSE task.start)
                \o FlattenSeq([k \in 1 .. first - 1 |-> task.parts[k] \o <<"/">>])
      paths == FoldLeft(LAMBDA found, part : FoundIn(found, part, options), {Base(text)}, SubSeq(task.parts, first, Len(task.parts)))
  IN  IF task.end = <<>> THEN paths ELSE {path \o <<"/">> : path \in {q \in paths : IsDir(sh.fs, sh.cwd, q)}}
Pattern == task.start \o JoinBy(task.parts, <<"/">>) \o task.end
Files2(paths) == {Walk(sh.fs, sh.cwd, path) : path \in paths}
NoLinks == \A d \in DOMAIN sh.fs : \A k \in DOMAIN sh.fs[d].items : ~sh.fs[d].items[k].link
FindsAll(got, found, options) ==
  IF "FASTGLOB" \in options THEN NoLinks => Files2(ToSet(Tail(got.argv))) = Files2(found)
  ELSE /\ ToSet(Tail(got.argv)) = found /\ Cardinality(found) = Len(got.argv) - 1
       /\ (got.err = "") <=> Len(got.argv) > 1
GlobFinds ==
  /\ task.of = "match" =>
       ((WildCardMatcher(task.pattern, 1, task.name, IF task.dot THEN {"DOTGLOB"} ELSE {}).ret # "FAILED")
          <=> NameMatches(task.pattern, task.name, task.dot))
  /\ task.of = "glob" /\ (\E k \in DOMAIN task.parts : HasMeta(task.parts[k])) =>
       FindsAll(AddGlobbingPath(sh, <<<<"echo">>>>, [k \in DOMAIN Pattern |-> <<Pattern[k]>>], task.options), Found(task.options), task.options)

(* The path by which the shell says where it is leads where it is, until some *)
(* one changes the tree, and the next cd makes it right again; OLDPWD and ~-  *)
(* lead back to where the last cd came from, ~+ here.                         *)
LogicalIsHere ==
  task.of = "cd" =>
    LET at(text) == Walk(sh.fs, sh.cwd, ExpandTilde(sh, text, TRUE))
        known == RealPath(sh.fs, sh.cwd) # NoPath
    IN  /\ undisturbed \/ (last.moved /\ known) => Walk(sh.fs, sh.cwd, sh.logical) = sh.cwd
        /\ undisturbed => Walk(sh.fs, sh.cwd, sh.oldpwd) = prev /\ at(<<"~", "-">>) = prev
        /\ known => at(<<"~", "+">>) = sh.cwd

(* cd goes to the directory its operand names: by the names on the way there  *)
(* when it is logical, by the directories themselves when it is not; and it   *)
(* goes nowhere when there is no such directory (core.cpp:189-228).           *)
Target(dest, logical) ==
  LET parts == Components(IF Absolute(dest) THEN dest ELSE sh.logical \o <<"/">> \o dest)
      by(names, part) == IF part = <<".">> THEN names ELSE IF part # <<".", ".">> THEN Append(names, part) ELSE IF names = <<>> THEN names ELSE Front(names)
  IN  Walk(sh.fs, sh.cwd, IF logical THEN <<"/">> \o JoinBy(FoldLeft(by, <<>>, parts), <<"/">>) ELSE dest)
GoesThere ==
  LET target == Target(last'.dest, last'.logical)
  IN  last'.dest \notin {NoPath, <<>>} /\ moves' > moves => (last'.moved <=> target \in DOMAIN sh.fs) /\ sh'.cwd = IF last'.moved THEN target ELSE sh.cwd
CdGoesThere == [][GoesThere]_vars
=============================================================================
