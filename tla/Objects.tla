------------------------------- MODULE Objects -------------------------------
(* Values and the objects they refer to, and the native methods on them       *)
(* (builtin.h, object.cpp). A value is a type and a text; the text of an      *)
(* object is its name in the heap, so two variables may share it. A method    *)
(* gives the world after it and a value, nothing when it returns Void, or the *)
(* name of the error it raises. Numbers wrap or overflow at the ends of Ints *)
(* and a string is a sequence of characters. Left out: floating point beyond  *)
(* conversions, regular expressions beyond "occurs in", and file names.       *)
EXTENDS Types

Val(t, v) == [t |-> t, v |-> v]
NoVal == Val(NoType, <<>>)
Invalid == Val(T("Invalid"), <<>>)
Null == Val(T("null"), <<>>)
Bool(b) == Val(Boolean, IF b THEN <<"true">> ELSE <<"false">>)
IsTrue(v) == v.v = <<"true">>
Num(i) == Val(IntType, <<Text(i)>>)
IntIn(v) == IF v.t = IntType THEN IntOf[v.v[1]] ELSE 0 (* no program that is well typed asks for that *)
Str(s) == Val(String, s)

(* The world: the globals, the environment, the heap, the events so far, and  *)
(* the buffer conversions write to (VMState, toStrBuf).                       *)
World == [globals |-> <<>>, env |-> <<>>, heap |-> <<>>, log |-> <<>>, buf |-> <<>>]
Object(kind, items) == [kind |-> kind, items |-> items, of |-> "", at |-> 0, on |-> FALSE]
NewKey(w) == "#" \o ToString(Cardinality(DOMAIN w.heap) + 1)
Alloc(w, object) == [w EXCEPT !.heap = (NewKey(w) :> object) @@ @]
Obj(w, v) == w.heap[v.v[1]]
SetItems(w, v, items) == [w EXCEPT !.heap[v.v[1]].items = items]

Ok(w, v) == [w |-> w, ret |-> v, err |-> ""]
Fail(w, name) == [w |-> w, ret |-> NoVal, err |-> name]
Make(w, t, object) == Ok(Alloc(w, object), Val(t, <<NewKey(w)>>))

(* instanceOf: an invalid value is of every option type.                      *)
InstanceOf(v, t) ==
  IF v = Invalid THEN IsOption(t) ELSE IsSameOrBaseTypeOf(t, v.t)

(* The end of a child: what it said is what its parent sees of it, as text or *)
(* as words, and its status is that of the substitution or the pipeline.      *)
Output(log) == FlattenSeq([i \in DOMAIN log |-> IF log[i].what = "cmd" THEN Tail(log[i].argv) ELSE <<>>])
Ended(w, t, how, log) ==
  LET seen == [w EXCEPT !.log = Append(@, [what |-> "child", how |-> how, log |-> log])]
      words == Output(log)
      status == [seen EXCEPT !.globals = ("?" :> Val(IntType, <<how>>)) @@ @]
  IN  CASE t = String -> Ok(status, Str(FlattenSeq(words)))
        [] t = StringArray -> Make(status, StringArray, Object("array", [i \in DOMAIN words |-> Str(words[i])]))
        [] t = Boolean -> Ok(status, Bool(how = "0"))
        [] t.n = "pipe%%" -> Make(seen, t, Object("pipe", <<>>))
        [] OTHER -> Ok(seen, Val(t, <<"started">>))
MaxFrames == 4

(* Conversions to text. An element that is invalid, or nesting deeper than    *)
(* the stack allows, fails; a method then empties the buffer it wrote to.     *)
MaxDepth == 4
IsContainer(w, v) == v.v # <<>> /\ v.v[1] \in DOMAIN w.heap /\ v.t.n \in {"Array", "Map", "Tuple"}
Parts(w, v) == IF v.t.n = "Map" THEN FlattenSeq(Obj(w, v).items) ELSE Obj(w, v).items
JoinTexts(texts, delim) ==
  FlattenSeq([i \in DOMAIN texts |-> IF i = 1 THEN texts[i] ELSE delim \o texts[i]])
NoText == [err |-> "none", s |-> <<>>]
Failed(results) == {i \in DOMAIN results : results[i].err # ""}
FirstFailed(results) == CHOOSE i \in Failed(results) : \A j \in Failed(results) : i <= j
Joined(results, n, delim) == JoinTexts([i \in 1 .. n |-> results[i].s], delim)
RECURSIVE ToText(_, _, _, _)
ToText(w, v, interp, depth) ==
  LET plain == interp /\ v.t.n # "Map"
      parts == Parts(w, v)
      within(texts) ==
        IF Failed(texts) # {} THEN texts[FirstFailed(texts)]
        ELSE [err |-> "", s |-> IF plain THEN Joined(texts, Len(texts), <<" ">>) ELSE <<"[">> \o Joined(texts, Len(texts), <<",">>) \o <<"]">>]
  IN  CASE v = Invalid -> [err |-> "UnwrappingError", s |-> <<>>]
        [] v # Invalid /\ ~IsContainer(w, v) -> [err |-> "", s |-> v.v]
        [] depth = MaxDepth -> [err |-> "StackOverflowError", s |-> <<>>]
        [] OTHER -> within([i \in DOMAIN parts |-> ToText(w, parts[i], plain, depth + 1)])
Written(w, s) == IF w.buf = <<>> THEN Ok(w, Str(s)) ELSE Ok([w EXCEPT !.buf = @ \o s], Invalid)
ConvertBy(w, text, left) == IF text.err # "" THEN Fail([w EXCEPT !.buf = left], text.err) ELSE Written(w, text.s)
Convert_keepBuffer(w, v, interp) == (* what a failure wrote stays in the buffer *)
  ConvertBy(w, ToText(w, v, interp, 0), <<"[">>)
Convert(w, v, interp) == ConvertBy(w, ToText(w, v, interp, 0), <<>>)
JoinItems(w, items, texts, first, delim) == (* an invalid element leaves what came before it in the buffer *)
  IF Failed(texts) = {} THEN Written(w, Joined(texts, Len(items), delim))
  ELSE Fail([w EXCEPT !.buf = IF items[first] # Invalid THEN <<>> ELSE IF first = 1 THEN @ ELSE @ \o Joined(texts, first - 1, delim) \o delim],
            texts[first].err)
Join(w, v, delim) ==
  LET join(items, texts) == JoinItems(w, items, texts, FirstFailed(texts), delim)
  IN  join(Obj(w, v).items, [i \in DOMAIN Obj(w, v).items |-> ToText(w, Obj(w, v).items[i], FALSE, 1)])

(* As arguments of a command: what has CMD_ARG is spread, the rest is STR.    *)
RECURSIVE Arguments(_, _, _)
Arguments(w, v, depth) ==
  LET plain(text) == [err |-> text.err, s |-> <<Str(text.s)>>]
      spread(args) == IF Failed(args) # {} THEN args[FirstFailed(args)] ELSE [err |-> "", s |-> FlattenSeq([i \in DOMAIN args |-> args[i].s])]
  IN  CASE v.t.n \notin {"Array", "Tuple"} -> plain(ToText(w, v, FALSE, depth))
        [] depth = MaxDepth -> [err |-> "StackOverflowError", s |-> <<>>]
        [] OTHER -> spread([i \in DOMAIN Parts(w, v) |-> Arguments(w, Parts(w, v)[i], depth + 1)])
CmdArgOf(w, args) == IF args.err # "" THEN Fail(w, args.err) ELSE Make(w, StringArray, Object("array", args.s))
CmdArg(w, v) == CmdArgOf(w, Arguments(w, v, 0))

(* Integers: sums and products are checked, the quotient of MinInt and -1 and *)
(* the opposite of MinInt are not (C++ leaves them undefined).                *)
MinInt == -8
Checked(w, i) == IF i \in Ints THEN Ok(w, Num(i)) ELSE Fail(w, "ArithmeticError")
Magnitude(i) == IF i < 0 THEN -i ELSE i
Quotient(a, b) == LET q == Magnitude(a) \div Magnitude(b) IN IF (a < 0) = (b < 0) THEN q ELSE -q
IntMethod(w, name, a, b) ==
  CASE name = "ADD" -> Checked(w, a + b)
    [] name = "SUB" -> Checked(w, a - b)
    [] name = "MUL" -> Checked(w, a * b)
    [] name \in {"DIV", "MOD"} /\ b = 0 -> Fail(w, "ArithmeticError")
    [] name \in {"DIV", "MOD"} /\ a = MinInt /\ b = -1 -> Fail(w, "undefined")
    [] name = "DIV" -> Ok(w, Num(Quotient(a, b)))
    [] name = "MOD" -> Ok(w, Num(a - b * Quotient(a, b)))
    [] name = "EQ" -> Ok(w, Bool(a = b))
    [] name = "NE" -> Ok(w, Bool(a # b))
    [] name = "LT" -> Ok(w, Bool(a < b))
    [] name = "GT" -> Ok(w, Bool(a > b))
    [] name = "LE" -> Ok(w, Bool(a <= b))
    [] name = "GE" -> Ok(w, Bool(a >= b))
    [] name = "TO_FLOAT" -> Ok(w, Val(Float, <<Text(a)>>))
    [] name = "MINUS" -> IF a = MinInt THEN Fail(w, "undefined") ELSE Ok(w, Num(-a))
    [] name = "NOT" -> Ok(w, Num(-a - 1))
    [] OTHER -> Ok(w, Num(a))

(* Indices from the end are negative; a range may be empty.                   *)
ResolveIndex(index, size) == LET i == IF index < 0 THEN size + index ELSE index IN IF i \in 0 .. size - 1 THEN i ELSE -1
End(i, size) == IF i < 0 THEN size + i ELSE i
HasSlice(s, from, to) == 0 <= End(from, Len(s)) /\ End(from, Len(s)) <= End(to, Len(s)) /\ End(to, Len(s)) <= Len(s)
Slice(s, from, to) == SubSeq(s, End(from, Len(s)) + 1, End(to, Len(s)))

(* Strings.                                                                   *)
OccursAt(s, t, pos) == pos + Len(t) <= Len(s) /\ SubSeq(s, pos + 1, pos + Len(t)) = t
Positions(s, t) == {pos \in 0 .. Len(s) : OccursAt(s, t, pos)}
Find(s, t, from) == LET at == {pos \in Positions(s, t) : pos >= from} IN IF at = {} THEN -1 ELSE CHOOSE p \in at : \A q \in at : p <= q
LastIndexOf(s, t) == LET at == Positions(s, t) IN IF at = {} THEN -1 ELSE CHOOSE p \in at : \A q \in at : q <= p
RECURSIVE Split(_, _)
Split(s, delim) ==
  LET at == Find(s, delim, 0)
  IN  IF at = -1 THEN <<s>> ELSE <<SubSeq(s, 1, at)>> \o Split(SubSeq(s, at + Len(delim) + 1, Len(s)), delim)
StringParts(w, name, s, args) ==
  LET slice(from, to) == IF HasSlice(s, from, to) THEN Ok(w, Str(Slice(s, from, to))) ELSE Fail(w, "OutOfRangeError")
      get == ResolveIndex(IntIn(args[1]), Len(s))
  IN  CASE name = "GET" -> IF get = -1 THEN Fail(w, "OutOfRangeError") ELSE Ok(w, Str(<<s[get + 1]>>))
        [] name = "slice" -> slice(IntIn(args[1]), IntIn(args[2]))
        [] name = "from" -> slice(IntIn(args[1]), Len(s))
        [] OTHER -> slice(0, IntIn(args[1]))
StringSearch(w, name, s, t, args) ==
  CASE name = "startsWith" -> Ok(w, Bool(OccursAt(s, t, 0)))
    [] name = "endsWith" -> Ok(w, Bool(Len(t) <= Len(s) /\ OccursAt(s, t, Len(s) - Len(t))))
    [] name = "indexOf" -> Ok(w, Num(Find(s, t, 0)))
    [] name = "lastIndexOf" -> Ok(w, Num(LastIndexOf(s, t)))
    [] name = "split" ->
         LET parts == IF t = <<>> THEN <<s>> ELSE Split(s, t)
         IN  Make(w, StringArray, Object("array", [i \in DOMAIN parts |-> Str(parts[i])]))
    [] name = "replace" -> Ok(w, Str(IF t = <<>> THEN s ELSE JoinTexts(Split(s, t), args[2].v)))
    [] OTHER -> Ok(w, Bool(Positions(s, t) # {})) (* MATCH *)
StringMethod(w, name, s, args) ==
  CASE name = "EQ" -> Ok(w, Bool(s = args[1].v))
    [] name = "empty" -> Ok(w, Bool(s = <<>>))
    [] name = "size" -> Ok(w, Num(Len(s)))
    [] name \in {"GET", "slice", "from", "to"} -> StringParts(w, name, s, args)
    [] OTHER -> StringSearch(w, name, s, args[1].v, args)
(* concatAsStr (CONCAT, APPEND): MaxString is StringObject::MAX_SIZE.          *)
MaxString == 12
Concat(w, left, right) ==
  IF Len(left.v) + Len(right.v) > MaxString THEN Fail(w, "OutOfRangeError") ELSE Ok(w, Str(left.v \o right.v))

(* Arrays. Most give the array itself; an iterator looks at the array as it   *)
(* is when it is asked.                                                       *)
MaxArray == 4
Less(x, y) == IF x.t = IntType THEN IntIn(x) < IntIn(y) ELSE Len(x.v) < Len(y.v)
Placed(w, name, v, args) == (* what needs an index there is *)
  LET items == Obj(w, v).items
      at == ResolveIndex(IntIn(args[1]), Len(items))
      set(new) == SetItems(w, v, new)
  IN  CASE name = "get" -> Ok(w, IF at = -1 THEN Invalid ELSE items[at + 1])
        [] name # "get" /\ at = -1 -> Fail(w, "OutOfRangeError")
        [] name = "GET" -> Ok(w, items[at + 1])
        [] name = "SET" -> Ok(set([items EXCEPT ![at + 1] = args[2]]), NoVal)
        [] name = "swap" -> Ok(set([items EXCEPT ![at + 1] = args[2]]), items[at + 1])
        [] OTHER -> Ok(set(RemoveAt(items, at + 1)), items[at + 1]) (* remove *)
Ends1(w, name, v) == (* what needs an element *)
  LET items == Obj(w, v).items
  IN  CASE items = <<>> -> Fail(w, "OutOfRangeError")
        [] name = "peek" -> Ok(w, Last(items))
        [] name = "pop" -> Ok(SetItems(w, v, Front(items)), Last(items))
        [] OTHER -> Ok(SetItems(w, v, Tail(items)), Head(items)) (* shift *)
Insert(w, v, index, x) == (* the end is a place to insert at, an empty array's only one *)
  LET items == Obj(w, v).items
      size == Len(items)
      at == IF index = size THEN size ELSE ResolveIndex(index, size)
  IN  IF size = MaxArray \/ at = -1 THEN Fail(w, "OutOfRangeError") ELSE Ok(SetItems(w, v, InsertAt(items, at + 1, x)), NoVal)
Extend(w, v, value) == (* what fits is there when the rest does not *)
  LET items == Obj(w, v).items
      other == Obj(w, value).items
      room == MaxArray - Len(items)
  IN  CASE value = v -> Ok(w, v)
        [] Len(other) > room -> Fail(SetItems(w, v, items \o SubSeq(other, 1, room)), "OutOfRangeError")
        [] OTHER -> Ok(SetItems(w, v, items \o other), v)
SliceOf(w, v, from, to) ==
  LET items == Obj(w, v).items
  IN  IF HasSlice(items, from, to) THEN Make(w, v.t, Object("array", Slice(items, from, to))) ELSE Fail(w, "OutOfRangeError")
NextOf(w, v, items) == (* the next item of an iterator, as the object is now *)
  LET at == Obj(w, v).at
  IN  IF at >= Len(items) THEN Fail(w, "OutOfRangeError") ELSE Ok([w EXCEPT !.heap[v.v[1]].at = at + 1], items[at + 1])
ArrayMethod(w, name, v, args) ==
  LET items == Obj(w, v).items
      iterated == w.heap[Obj(w, v).of].items
      giving(r, x) == IF r.err = "" THEN [r EXCEPT !.ret = x] ELSE r
  IN  CASE name \in {"GET", "get", "SET", "swap", "remove"} -> Placed(w, name, v, args)
        [] name \in {"peek", "pop", "shift"} -> Ends1(w, name, v)
        [] name = "push" -> Insert(w, v, Len(items), args[1])
        [] name = "add" -> giving(Insert(w, v, Len(items), args[1]), v)
        [] name = "unshift" -> Insert(w, v, 0, args[1])
        [] name = "insert" -> Insert(w, v, IntIn(args[1]), args[2])
        [] name = "extend" -> Extend(w, v, args[1])
        [] name = "slice" -> SliceOf(w, v, IntIn(args[1]), IntIn(args[2]))
        [] name = "from" -> SliceOf(w, v, IntIn(args[1]), Len(items))
        [] name = "to" -> SliceOf(w, v, 0, IntIn(args[1]))
        [] name = "copy" -> Make(w, v.t, Object("array", items))
        [] name = "reverse" -> Ok(SetItems(w, v, Reverse(items)), v)
        [] name = "sort" -> Ok(SetItems(w, v, SortSeq(items, Less)), v)
        [] name = "join" -> Join(w, v, args[1].v)
        [] name = "size" -> Ok(w, Num(Len(items)))
        [] name = "empty" -> Ok(w, Bool(items = <<>>))
        [] name = "clear" -> Ok(SetItems(w, v, <<>>), NoVal)
        [] name = "ITER" -> Make(w, v.t, [Object("iter", <<>>) EXCEPT !.of = v.v[1]])
        [] name = "HAS_NEXT" -> Ok(w, Bool(Obj(w, v).at < Len(iterated)))
        [] name = "NEXT" -> NextOf(w, v, iterated)
        [] OTHER -> CmdArg(w, v)

(* Maps, in the order their entries were made. While an iterator on it lives  *)
(* (live names the objects that do) a map cannot be changed.                  *)
Locked_never(w, live, v) == FALSE
Locked(w, live, v) == \E k \in live : w.heap[k].kind = "mapIter" /\ w.heap[k].of = v.v[1]
MapMethod(w, live, name, v, args) ==
  LET items == Obj(w, v).items
      keys == {i \in DOMAIN items : items[i][1] = args[1]}
      here == CHOOSE i \in keys : TRUE
      found == keys # {}
      old == IF found THEN items[here][2] ELSE Invalid
      put == SetItems(w, v, IF found THEN [items EXCEPT ![here][2] = args[2]] ELSE Append(items, args))
      iter == Obj(w, v)
      iterated == w.heap[iter.of].items
  IN  CASE name \in {"SET", "put", "default", "remove", "swap", "clear"} /\ Locked(w, live, v) -> Fail(w, "InvalidOperationError")
        [] name = "GET" -> IF found THEN Ok(w, old) ELSE Fail(w, "KeyNotFoundError")
        [] name = "SET" -> Ok(put, NoVal)
        [] name = "put" -> Ok(put, old)
        [] name = "default" -> IF found THEN Ok(w, old) ELSE Ok(put, args[2])
        [] name = "size" -> Ok(w, Num(Len(items)))
        [] name = "empty" -> Ok(w, Bool(items = <<>>))
        [] name = "get" -> Ok(w, old)
        [] name = "find" -> Ok(w, Bool(found))
        [] name = "remove" -> Ok(IF found THEN SetItems(w, v, RemoveAt(items, here)) ELSE w, Bool(found))
        [] name = "swap" -> IF found THEN Ok(put, old) ELSE Fail(w, "KeyNotFoundError")
        [] name = "copy" -> Make(w, v.t, Object("map", items))
        [] name = "clear" -> Ok(SetItems(w, v, <<>>), NoVal)
        [] name = "ITER" -> Make(w, v.t, [Object("mapIter", <<>>) EXCEPT !.of = v.v[1]])
        [] name = "HAS_NEXT" -> Ok(w, Bool(iter.at < Len(iterated)))
        [] name = "NEXT" ->
             LET next == NextOf(w, v, iterated)
             IN  IF next.err # "" THEN next ELSE Make(next.w, TupleType(v.t.e), Object("tuple", next.ret))
        [] OTHER -> Ok(w, NoVal)

(* A call of a method; undefined when the receiver has no such method.        *)
Invoke(w, live, name, args) ==
  LET v == args[1]
      rest == Tail(args)
      operand == IF rest # <<>> /\ rest[1].t = IntType THEN IntIn(rest[1]) ELSE 0
  IN  CASE name \in {"STR", "INTERP"} -> Convert(w, v, name = "INTERP")
        [] v = Invalid \/ LookupMethod(v.t, name) = NoMethod -> Fail(w, "undefined")
        [] v.t = IntType -> IntMethod(w, name, IntIn(v), operand)
        [] v.t = Float -> Ok(w, IF name = "TO_INT" THEN Val(IntType, v.v) ELSE v)
        [] v.t = Boolean -> Ok(w, Bool(IF name = "NOT" THEN ~IsTrue(v) ELSE v = rest[1]))
        [] v.t = UnixFD -> Ok(w, Bool(name = "BOOL"))
        [] v.t = String -> StringMethod(w, name, v.v, rest)
        [] v.t.n = "Array" -> ArrayMethod(w, name, v, rest)
        [] v.t.n = "Map" -> MapMethod(w, live, name, v, rest)
        [] OTHER -> CmdArg(w, v)
=============================================================================
