------------------------------- MODULE Builtins -------------------------------
(* Builtin commands that work on texts (cmd.cpp): the options they share,     *)
(* echo, test, read and umask. A text is a sequence of characters; a command  *)
(* gives a status and what it prints or changes.                              *)
EXTENDS SequencesExt, FiniteSetsExt, Integers

NoText == <<"none">>
Tail2(s) == SubSeq(s, 3, Len(s))

(* Options: one call of GetOptState, on the words after the command's name.   *)
(* next is what is left of a word of several options.                         *)
GetOptState == [index |-> 1, next |-> <<>>, optArg |-> NoText, opt |-> ""]
GetOpt(st, words, optStr) ==
  LET start == [st EXCEPT !.optArg = NoText, !.opt = "", !.next = <<>>]
      word == words[st.index]
      rest == IF st.next = <<>> THEN Tail(word) ELSE st.next
      at == {k \in DOMAIN optStr : optStr[k] = rest[1] /\ rest[1] # ":"}
      k == Min(at)
      next == Tail(rest)
      after == st.index + 1
      takes == k < Len(optStr) /\ optStr[k + 1] = ":"
  IN  IF \/ st.index > Len(words)
         \/ word = <<>> \/ word[1] # "-" \/ word = <<"-">>
      THEN [start EXCEPT !.opt = "-1"]
      ELSE IF word = <<"-", "-">> THEN [start EXCEPT !.index = after, !.opt = "-1"]
      ELSE IF at = {} THEN [start EXCEPT !.next = rest, !.opt = "?"]
      ELSE IF ~takes THEN [start EXCEPT !.next = next, !.index = IF next = <<>> THEN after ELSE @, !.opt = rest[1]]
      ELSE IF next # <<>> THEN [start EXCEPT !.optArg = next, !.index = after, !.opt = rest[1]]
      ELSE IF after > Len(words)
           THEN [start EXCEPT !.index = after, !.opt = IF optStr[1] = ":" THEN ":" ELSE "?"]
           ELSE [start EXCEPT !.optArg = words[after], !.index = after + 1, !.opt = rest[1]]
(* All of them: <<option, argument>>, how they ended and the next word.       *)
RECURSIVE OptionsFrom(_, _, _, _)
OptionsFrom(st, words, optStr, given) ==
  LET next == GetOpt(st, words, optStr)
  IN  IF next.opt \in {"-1", "?", ":"} THEN [given |-> given, how |-> next.opt, index |-> next.index]
      ELSE OptionsFrom(next, words, optStr, Append(given, <<next.opt, next.optArg>>))
Options(words, optStr) == OptionsFrom(GetOptState, words, optStr, <<>>)
Given(options, o) == \E k \in DOMAIN options.given : options.given[k][1] = o

(* Numbers, in the range the model gives an int64: decimal, or octal after 0  *)
(* or 0o, or hex after 0x; and "-" is the only sign.                          *)
MaxInt == 19
Digits == <<"0", "1", "2", "3", "4", "5", "6", "7", "8", "9", "a", "b", "c", "d", "e", "f">>
Digit(ch) == IF ch \in ToSet(Digits) THEN (CHOOSE k \in DOMAIN Digits : Digits[k] = ch) - 1 ELSE 99
Value(s, base) == FoldLeft(LAMBDA n, ch : n * base + Digit(ch), 0, s)
AllDigits(s, base) == s # <<>> /\ \A k \in DOMAIN s : Digit(s[k]) < base
ParseDecimal(s) == IF AllDigits(s, 10) /\ (s[1] = "0" => Len(s) = 1) THEN Value(s, 10) ELSE -1
ParseOctalOrHex(s, base) == IF AllDigits(s, base) THEN Value(s, base) ELSE -1
ParseBase_decimal(s) == (* what is not hex is decimal *)
  IF IsPrefix(<<"0", "x">>, s) THEN [base |-> 16, digits |-> Tail2(s)] ELSE [base |-> 10, digits |-> s]
ParseBase(s) == (* the base, and what is left to read in it *)
  CASE s = <<>> -> [base |-> -1, digits |-> s]
    [] s # <<>> /\ s[1] # "0" -> [base |-> 10, digits |-> s]
    [] OTHER -> IF Len(s) = 1 THEN [base |-> 8, digits |-> s]
                ELSE IF s[2] \in {"x", "X"} THEN [base |-> 16, digits |-> Tail2(s)]
                ELSE [base |-> 8, digits |-> IF s[2] \in {"o", "O"} THEN Tail2(s) ELSE Tail(s)]
ParseInteger(s, base) ==
  LET at == IF base = 0 THEN ParseBase(s) ELSE [base |-> base, digits |-> s]
  IN  CASE at.base \in {8, 16} -> ParseOctalOrHex(at.digits, at.base)
        [] at.base = 10 -> ParseDecimal(at.digits)
        [] OTHER -> -1
ConvertToNum(s) ==
  LET negate == s # <<>> /\ s[1] = "-"
      n == ParseInteger(IF negate THEN Tail(s) ELSE s, 0)
  IN  IF n = -1 \/ n > MaxInt + (IF negate THEN 1 ELSE 0) THEN [ok |-> FALSE, n |-> 0]
      ELSE [ok |-> TRUE, n |-> IF negate THEN -n ELSE n]

(* parseEscapeSeq: the code at a "\", and how many characters it takes.       *)
NoEscape == [code |-> "", size |-> 0]
Simple == [a |-> "\\a", b |-> "\\b", e |-> "\\e", n |-> "\\n", t |-> "\\t"]
Run(s, from, limit, base) == (* digits from there on, no more than limit *)
  LET ends == {n \in 0 .. limit : from + n - 1 <= Len(s) /\ \A k \in from .. from + n - 1 : Digit(s[k]) < base}
  IN  SubSeq(s, from, from + Max(ends) - 1)
Escape(s, needOctalPrefix) ==
  LET next == s[2]
      hex == Run(s, 3, CASE next = "x" -> 2 [] next = "u" -> 4 [] OTHER -> 8, 16)
      octal == Run(s, IF needOctalPrefix THEN 3 ELSE 2, 3, 8)
      coded(n, size) == [code |-> ToString(n), size |-> size]
  IN  CASE Len(s) < 2 \/ s[1] # "\\" -> NoEscape
        [] s[1] = "\\" /\ Len(s) >= 2 /\ next = "\\" -> [code |-> "\\", size |-> 2]
        [] s[1] = "\\" /\ Len(s) >= 2 /\ next \in DOMAIN Simple -> [code |-> Simple[next], size |-> 2]
        [] s[1] = "\\" /\ Len(s) >= 2 /\ next \in {"x", "u", "U"} -> IF hex = <<>> THEN NoEscape ELSE coded(Value(hex, 16), 2 + Len(hex))
        [] OTHER ->
             IF Digit(next) < 8 /\ (needOctalPrefix => next = "0")
             THEN coded(Value(octal, 8), (IF needOctalPrefix THEN 2 ELSE 1) + Len(octal))
             ELSE NoEscape

(* echo: \c ends it at once, without the newline.                             *)
RECURSIVE Interpreted(_)
Interpreted(s) ==
  LET escape == Escape(s, TRUE)
      rest == Interpreted(IF escape.size = 0 THEN Tail(s) ELSE SubSeq(s, escape.size + 1, Len(s)))
  IN  CASE s = <<>> -> [text |-> <<>>, stop |-> FALSE]
        [] s # <<>> /\ s[1] = "\\" /\ Len(s) > 1 /\ s[2] = "c" -> [text |-> <<>>, stop |-> TRUE]
        [] OTHER -> [rest EXCEPT !.text = <<IF escape.size > 0 THEN escape.code ELSE s[1]>> \o @]
RECURSIVE Printed(_, _)
Printed(words, interpEscape) ==
  LET first == IF interpEscape THEN Interpreted(words[1]) ELSE [text |-> words[1], stop |-> FALSE]
      rest == Printed(Tail(words), interpEscape)
  IN  CASE words = <<>> -> [text |-> <<>>, stop |-> FALSE]
        [] words # <<>> /\ (first.stop \/ Len(words) = 1) -> first
        [] OTHER -> [rest EXCEPT !.text = first.text \o <<" ">> \o @]
Echo(words) ==
  LET options == Options(words, <<"n", "e", "E">>)
      escapes == SelectSeq(options.given, LAMBDA o : o[1] # "n")
      from == IF options.index > 1 /\ words[options.index - 1] = <<"-", "-">> THEN options.index - 1 ELSE options.index
      said == Printed(SubSeq(words, from, Len(words)), escapes # <<>> /\ Last(escapes)[1] = "e")
  IN  IF said.stop \/ Given(options, "n") THEN said.text ELSE said.text \o <<"\n">>

(* test: what stat says of a file; a link to nothing has no target.           *)
Absent == [kind |-> "", bits |-> {}, access |-> {}, size |-> 0, mtime |-> 0, ino |-> 0, user |-> FALSE, group |-> FALSE]
Kinds == [b |-> "block", c |-> "char", d |-> "dir", f |-> "file", p |-> "fifo", S |-> "socket"]
Comparison(op, x, y) == (* of two numbers *)
  CASE op = <<"-", "e", "q">> -> x = y
    [] op = <<"-", "n", "e">> -> x # y
    [] op = <<"-", "l", "t">> -> x < y
    [] op = <<"-", "g", "t">> -> x > y
    [] op = <<"-", "l", "e">> -> x <= y
    [] OTHER -> x >= y
IntOps == {<<"-", "e", "q">>, <<"-", "n", "e">>, <<"-", "l", "t">>, <<"-", "g", "t">>, <<"-", "l", "e">>, <<"-", "g", "e">>}
FileOps == {<<"-", "n", "t">>, <<"-", "o", "t">>, <<"-", "e", "f">>}
StrOps == {<<"=", "=">>, <<"=">>, <<"!", "=">>, <<"<">>, <<">">>}
RECURSIVE Precedes(_, _)
Precedes(x, y) == (* in the order of the characters *)
  CASE x = <<>> \/ y = <<>> -> x = <<>> /\ y # <<>>
    [] OTHER -> IF x[1] = y[1] THEN Precedes(Tail(x), Tail(y)) ELSE Digit(x[1]) < Digit(y[1])
CompareStr(op, x, y) ==
  CASE op = <<"!", "=">> -> x # y
    [] op = <<"<">> -> Precedes(x, y)
    [] op = <<">">> -> Precedes(y, x)
    [] OTHER -> x = y
CompareFile(op, x, y) ==
  /\ x # Absent /\ y # Absent
  /\ CASE op = <<"-", "n", "t">> -> y.mtime < x.mtime
       [] op = <<"-", "o", "t">> -> x.mtime < y.mtime
       [] OTHER -> x.ino = y.ino
DevFd == <<"/", "d", "e", "v", "/", "f", "d", "/">>
ParseFD(s) ==
  LET n == ConvertToNum(IF IsPrefix(DevFd, s) THEN SubSeq(s, Len(DevFd) + 1, Len(s)) ELSE s)
  IN  IF n.ok /\ n.n >= 0 THEN n.n ELSE -1
TestFile(op, path, files, ttys) == (* -g looks at the bit of -u *)
  LET file == files[path]
  IN  CASE op \in {"a", "e"} -> file.stat # Absent
        [] op \in DOMAIN Kinds -> file.stat.kind = Kinds[op]
        [] op \in {"g", "u"} -> "set-user-id" \in file.stat.bits
        [] op = "k" -> "sticky" \in file.stat.bits
        [] op \in {"h", "L"} -> file.link
        [] op \in {"r", "w", "x"} -> op \in file.stat.access
        [] op = "s" -> file.stat.size # 0
        [] op = "t" -> ParseFD(path) \in ttys
        [] op = "O" -> file.stat.user
        [] OTHER -> file.stat.group
TestOps == DOMAIN Kinds \cup {"a", "e", "g", "h", "k", "L", "r", "s", "t", "u", "w", "x", "O", "G"}
Status(b) == IF b THEN 0 ELSE 1
Test(words, files, ttys) ==
  LET op == words[1]
      n1 == ConvertToNum(words[1])
      n2 == ConvertToNum(words[3])
  IN  CASE Len(words) = 0 -> 1
        [] Len(words) = 1 -> Status(words[1] # <<>>)
        [] Len(words) = 2 ->
             IF Len(op) # 2 \/ op[1] # "-" THEN 2
             ELSE IF op[2] \in {"z", "n"} THEN Status((words[2] = <<>>) = (op[2] = "z"))
             ELSE IF op[2] \notin TestOps THEN 2 ELSE Status(TestFile(op[2], words[2], files, ttys))
        [] Len(words) = 3 ->
             IF words[2] \in StrOps THEN Status(CompareStr(words[2], words[1], words[3]))
             ELSE IF words[2] \in FileOps THEN Status(CompareFile(words[2], files[words[1]].stat, files[words[3]].stat))
             ELSE IF words[2] \in IntOps /\ n1.ok /\ n2.ok THEN Status(Comparison(words[2], n1.n, n2.n)) ELSE 2
        [] OTHER -> 2

(* read: characters one by one until a newline. A byte 255 reads as the end.  *)
(* skip says how many separators may follow before one ends a field: spaces   *)
(* do not count, and one that is no space counts as part of those before it.  *)
Spaces == {" ", "\t", "\n"}
EOF == "EOF"
Getc(input, at) == IF at > Len(input) \/ input[at] = "FF" THEN EOF ELSE input[at]
Reading == [at |-> 1, prev |-> FALSE, skip |-> 1, buf |-> <<>>, fields |-> <<>>, ch |-> ""]
ReadChar(st, ch, o) ==
  LET sep == ch \in o.ifs /\ ~st.prev
      next == [st EXCEPT !.at = @ + 1, !.prev = o.backslash /\ ch = "\\" /\ ~@, !.ch = ch]
  IN  CASE st.prev /\ ch = "\n" -> next
        [] o.backslash /\ ~st.prev /\ ch = "\\" -> next
        [] sep /\ st.skip > 0 /\ ch \in Spaces -> next
        [] sep /\ st.skip = 2 /\ ch \notin Spaces -> [next EXCEPT !.skip = 1]
        [] OTHER ->
             IF sep /\ Len(st.fields) + 1 < o.names
             THEN [next EXCEPT !.fields = Append(@, st.buf), !.buf = <<>>, !.skip = IF ch \in Spaces THEN 2 ELSE 1]
             ELSE [next EXCEPT !.buf = Append(@, ch), !.skip = 0]
RECURSIVE ReadLine(_, _, _)
ReadLine(st, input, o) ==
  LET ch == Getc(input, st.at)
  IN  IF ch = EOF \/ (ch = "\n" /\ ~st.prev) THEN [st EXCEPT !.at = @ + 1, !.ch = ch]
      ELSE ReadLine(ReadChar(st, ch, o), input, o)
RECURSIVE DropSpaces(_)
DropSpaces(s) == IF s # <<>> /\ Last(s) \in Spaces THEN DropSpaces(Front(s)) ELSE s
(* The line goes to REPLY when no name is given, else its fields to reply.    *)
Read(input, o) ==
  LET st == ReadLine(Reading, input, o)
      buf == IF o.ifs \cap Spaces # {} THEN DropSpaces(st.buf) ELSE st.buf
      given == Append(st.fields, buf)
  IN  [ret |-> IF st.ch = EOF THEN 1 ELSE 0, rest |-> SubSeq(input, st.at, Len(input)),
       REPLY |-> IF o.names = 0 THEN buf ELSE <<>>,
       reply |-> [k \in 1 .. o.names |-> IF k <= Len(given) THEN given[k] ELSE <<>>]]

(* umask: the mask is the set of what is taken from <<class, permission>>.    *)
Classes == <<"u", "g", "o">>
Perms == <<"r", "w", "x">>
Mask == ToSet(Classes) \X ToSet(Perms)
PrintSymbolic(mask) ==
  LET allowed(c) == SelectSeq(Perms, LAMBDA perm : <<c, perm>> \notin mask)
  IN  FlattenSeq([k \in 1 .. 3 |-> (IF k > 1 THEN <<",">> ELSE <<>>) \o <<Classes[k], "=">> \o allowed(Classes[k])])
Bit(mask, c, perm, value) == IF <<c, perm>> \in mask THEN value ELSE 0
PrintOctal(mask) ==
  LET digit(c) == Digits[Bit(mask, c, "r", 4) + Bit(mask, c, "w", 2) + Bit(mask, c, "x", 1) + 1]
  IN  <<"0", digit("u"), digit("g"), digit("o")>>
ParseOctal(s) == (* no more than 0777 *)
  LET n == ParseInteger(s, 8)
      at(c, perm) == 3 * (3 - (CHOOSE k \in 1 .. 3 : Classes[k] = c)) + 3 - (CHOOSE k \in 1 .. 3 : Perms[k] = perm)
  IN  IF n \in 0 .. 511 THEN [ok |-> TRUE, mask |-> {b \in Mask : (n \div 2 ^ at(b[1], b[2])) % 2 = 1}]
      ELSE [ok |-> FALSE, mask |-> {}]
Prefix(s, chars) == CHOOSE n \in 0 .. Len(s) : (\A k \in 1 .. n : s[k] \in chars) /\ (n < Len(s) => s[n + 1] \notin chars)
ParseMode(s, mask) ==
  LET n == Prefix(s, {"u", "g", "o", "a"})
      who == IF n = 0 \/ "a" \in ToSet(SubSeq(s, 1, n)) THEN ToSet(Classes) ELSE ToSet(SubSeq(s, 1, n))
      after == SubSeq(s, n + 2, Len(s))
      m == Prefix(after, ToSet(Perms))
      named == who \X ToSet(SubSeq(after, 1, m))
      new == CASE s[n + 1] = "+" -> mask \ named
               [] s[n + 1] = "-" -> mask \cup named
               [] OTHER -> (mask \cup (who \X ToSet(Perms))) \ named
  IN  IF n = Len(s) \/ s[n + 1] \notin {"+", "-", "="} \/ (m < Len(after) /\ after[m + 1] # ",")
      THEN [ok |-> FALSE, mask |-> mask, rest |-> <<>>]
      ELSE [ok |-> TRUE, mask |-> new, rest |-> SubSeq(after, m + 1, Len(after))]
RECURSIVE ParseSymbolicMode(_, _)
FurtherModes(first) ==
  IF ~first.ok \/ first.rest = <<>> THEN [ok |-> first.ok, mask |-> first.mask]
  ELSE ParseSymbolicMode(Tail(first.rest), first.mask)
ParseSymbolicMode(s, mask) == FurtherModes(ParseMode(s, mask))
(* umask [-p] [-S] [mode]: an operand that is wrong changes nothing.          *)
Operand(value, mask) ==
  IF value # <<>> /\ Digit(value[1]) < 10 THEN ParseOctal(value) ELSE ParseSymbolicMode(value, mask)
UmaskSet(mask, symbolic, parsed) ==
  IF parsed.ok THEN [ret |-> 0, mask |-> parsed.mask, out |-> IF symbolic THEN PrintSymbolic(parsed.mask) ELSE <<>>]
  ELSE [ret |-> 1, mask |-> mask, out |-> <<>>]
UmaskWith(mask, words, options) ==
  CASE options.how = "?" -> [ret |-> 2, mask |-> mask, out |-> <<>>]
    [] options.how # "?" /\ options.index > Len(words) ->
         [ret |-> 0, mask |-> mask, out |-> IF Given(options, "S") THEN PrintSymbolic(mask) ELSE PrintOctal(mask)]
    [] OTHER -> UmaskSet(mask, Given(options, "S"), Operand(words[options.index], mask))
Umask(mask, words) == UmaskWith(mask, words, Options(words, <<"p", "S">>))
=============================================================================
