------------------------------ MODULE MCLibrary ------------------------------
(* Calls of native methods, one after the other, on an array, an array of     *)
(* options, a map, two iterators and two strings (module Objects), with what  *)
(* read does to the map it stores its fields in. due says which keys each     *)
(* iterator on the map still has to give.                                     *)
EXTENDS Objects

CONSTANT MaxCalls   \* bound: calls of methods that follow each other

VARIABLES w, slot, due, last, calls
vars == <<w, slot, due, last, calls>>

Letters == {<<"x">>, <<"y">>}
Texts(n) == UNION {[1 .. k -> {"x", "y"}] : k \in 0 .. n}
IntArray == ArrayType(IntType)
OptArray == ArrayType(OptionType(IntType))
MapOf == MapType(String, IntType)
Items(is) == [k \in DOMAIN is |-> Num(is[k])]

Subjects == {"array", "map", "text"}
SlotsOf(subject) ==
  CASE subject = "array" -> {"a", "b", "o", "i"}
    [] subject = "map" -> {"m", "i", "j"}
    [] OTHER -> {"s", "t"}
NoCall == [name |-> "", args |-> <<>>, ret |-> NoVal, err |-> ""]
Heap(subject, a) ==
  IF subject = "map"
  THEN "#1" :> Object("map", <<<<Str(<<"x">>), Num(1)>>, <<Str(<<"y">>), Num(2)>>>>)
  ELSE [k \in {"#1", "#2", "#3"} |->
          Object("array", CASE k = "#1" -> Items(a) [] k = "#2" -> Items(<<2, 0>>) [] OTHER -> <<Num(1), Invalid>>)]
Slot(subject, s, t) ==
  CASE subject = "array" -> [a |-> Val(IntArray, <<"#1">>), b |-> Val(IntArray, <<"#2">>), o |-> Val(OptArray, <<"#3">>), i |-> Null]
    [] subject = "map" -> [m |-> Val(MapOf, <<"#1">>), i |-> Null, j |-> Null]
    [] OTHER -> [s |-> Str(s), t |-> Str(t)]

Init ==
  \E subject \in Subjects, a \in {<<>>, <<1>>, <<2, 1, 0>>}, s \in Texts(4), t \in Texts(2) :
     /\ subject # "text" => s = <<>> /\ t = <<>>
     /\ subject # "array" => a = <<>>
     /\ w = [World EXCEPT !.heap = Heap(subject, a)]
     /\ slot = Slot(subject, s, t)
     /\ due = [x \in DOMAIN slot |-> {}]
     /\ last = NoCall
     /\ calls = 0

Indices == {Num(i) : i \in -2 .. 2}
Keys(v) == [k \in DOMAIN Obj(w, v).items |-> Obj(w, v).items[k][1]]
Live == {slot[x].v[1] : x \in {y \in DOMAIN slot : y \in {"i", "j"} /\ slot[y] # Null}}
Called(name, args) == Invoke(w, Live, name, args)

(* A result is not kept: its object goes with it.                             *)
Kept(new) == [new EXCEPT !.heap = [k \in DOMAIN w.heap |-> new.heap[k]]]
Call(c, r) ==
  /\ w' = Kept(r.w)
  /\ last' = [name |-> c.name, args |-> c.args, ret |-> r.ret, err |-> r.err]
  /\ calls' = calls + 1
  /\ UNCHANGED <<slot, due>>

Calls(xs, names, args) == [x : xs, name : names, args : args]
ArrayCalls ==
  UNION {Calls({"a", "b"}, {"peek", "pop", "shift", "copy", "reverse", "sort", "size", "empty", "clear", "CMD_ARG", "STR", "INTERP"}, {<<>>}),
         Calls({"a"}, {"GET", "get", "remove", "from", "to"}, {<<at>> : at \in Indices}),
         Calls({"a"}, {"SET", "swap", "insert"}, {<<at, Num(3)>> : at \in Indices}),
         Calls({"a"}, {"slice"}, Indices \X Indices),
         Calls({"a"}, {"push", "add", "unshift"}, {<<Num(3)>>}),
         UNION {Calls({x}, {"extend"}, {<<slot[x]>>}) : x \in {"a", "b"}},
         Calls({"o"}, {"STR", "INTERP", "reverse", "CMD_ARG"}, {<<>>}),
         Calls({"a"}, {"join"}, {<<Str(<<"x">>)>>})} (* with o, the buffer would keep what was written: see the README *)
MapCalls ==
  LET keys == {Str(<<"x">>), Str(<<"z">>)}
  IN  UNION {Calls({"m"}, {"size", "empty", "copy", "clear", "STR"}, {<<>>}),
             Calls({"m"}, {"GET", "get", "find", "remove"}, {<<k>> : k \in keys}),
             Calls({"m"}, {"SET", "put", "default", "swap"}, {<<k, Num(3)>> : k \in keys})}
Callable ==
  CASE "a" \in DOMAIN slot -> ArrayCalls
    [] "m" \in DOMAIN slot -> MapCalls
    [] OTHER -> {}
NativeCall == calls < MaxCalls /\ \E c \in Callable : Call(c, Called(c.name, <<slot[c.x]>> \o c.args))

(* An iterator is made in a variable and lives until the variable goes.       *)
Iterate(x, i) ==
  LET r == Called("ITER", <<slot[x]>>)
  IN  /\ calls < MaxCalls /\ {x, i} \subseteq DOMAIN slot /\ slot[i] = Null
      /\ w' = r.w /\ slot' = [slot EXCEPT ![i] = r.ret]
      /\ due' = [due EXCEPT ![i] = IF x = "m" THEN ToSet(Keys(slot[x])) ELSE {}]
      /\ last' = NoCall /\ calls' = calls + 1
Forget(i) ==
  /\ i \in DOMAIN slot /\ slot[i] # Null /\ i \in {"i", "j"} /\ calls < MaxCalls
  /\ slot' = [slot EXCEPT ![i] = Null] /\ due' = [due EXCEPT ![i] = {}]
  /\ last' = NoCall /\ calls' = calls + 1 /\ UNCHANGED w

(* A turn of a for-in loop: HAS_NEXT, and NEXT at once when it says so.       *)
Given(i, r) == IF slot[i].t = MapOf THEN r.w.heap[r.ret.v[1]].items[1] ELSE r.ret
Next1(i, r, key) ==
  /\ w' = Kept(r.w)
  /\ due' = [due EXCEPT ![i] = @ \ {key}]
  /\ last' = [name |-> "NEXT", args |-> <<>>, ret |-> key, err |-> r.err]
  /\ calls' = calls + 1 /\ UNCHANGED slot
Turn(i) ==
  /\ i \in DOMAIN slot /\ slot[i] # Null /\ i \in {"i", "j"} /\ calls < MaxCalls
  /\ IsTrue(Called("HAS_NEXT", <<slot[i]>>).ret)
  /\ \E r \in {Called("NEXT", <<slot[i]>>)} : Next1(i, r, Given(i, r))

(* builtin_read empties the map reply and puts the fields it reads there. It  *)
(* does not look whether the map is iterated; a script that never does both   *)
(* is what DueGiven is about.                                                 *)
Read ==
  /\ "m" \in DOMAIN slot /\ calls < MaxCalls
  /\ Live = {}
  /\ w' = SetItems(w, slot["m"], <<<<Str(<<"z">>), Num(1)>>>>)
  /\ last' = NoCall /\ calls' = calls + 1 /\ UNCHANGED <<slot, due>>

Next ==
  \/ NativeCall \/ Read
  \/ \E i \in {"i", "j"} : Iterate("a", i) \/ Iterate("m", i) \/ Forget(i) \/ Turn(i)
Spec == Init /\ [][Next]_vars

(* An iterator gives every key its map had when it was made, and each once:   *)
(* what it still has to give is what the map has from where it is.            *)
DueGiven ==
  \A i \in DOMAIN slot \cap {"i", "j"} :
    slot[i] # Null /\ slot[i].t = MapOf =>
      due[i] = {Keys(slot["m"])[k] : k \in w.heap[slot[i].v[1]].at + 1 .. Len(Keys(slot["m"]))}

(* Methods that undo each other, or share their work, agree. What one has     *)
(* written to make a text is gone when the next begins, or that one would     *)
(* give no value (builtin.h:64-100).                                          *)
Do(name, args) == Called(name, args)
Then(r, name, args) == Invoke(r.w, Live, name, args)
Same(r, q) == r.err = q.err /\ r.ret = q.ret
ItemsIn(r, v) == r.w.heap[v.v[1]].items
Count(x, items) == Cardinality({k \in DOMAIN items : items[k] = x})
ArraysAgree(v) ==
  LET items == Obj(w, v).items
      size == Len(items)
  IN  /\ \A i \in -size - 1 .. size :
           LET put == Do("insert", <<v, Num(i), Num(7)>>)
               taken == Then(put, "remove", <<v, Num(IF i < 0 THEN i - 1 ELSE i)>>)
               left == Do("to", <<v, Num(i)>>)
               right == Do("from", <<v, Num(i)>>)
           IN  /\ put.err = "" => taken.ret = Num(7) /\ ItemsIn(taken, v) = items
               /\ (put.err = "") <=> size < MaxArray /\ (left.err = "")
               /\ left.err = right.err
               /\ left.err = "" => ItemsIn(left, left.ret) \o ItemsIn(right, right.ret) = items
               /\ i >= 0 /\ size > 0 => Same(Do("GET", <<v, Num(i)>>), Do("GET", <<v, Num(IF i < size THEN i - size ELSE i)>>))
      /\ size < MaxArray => ItemsIn(Then(Do("unshift", <<v, Num(7)>>), "shift", <<v>>), v) = items
      /\ LET sorted == ItemsIn(Do("sort", <<v>>), v)
         IN  /\ \A k \in 1 .. size : Count(items[k], sorted) = Count(items[k], items)
             /\ \A k \in 2 .. size : ~Less(sorted[k], sorted[k - 1])
TextsAgree(s, t) ==
  LET size == Len(s.v)
      parts == Do("split", <<s, t>>)
      at == IntIn(Do("indexOf", <<s, t>>).ret)
      final == IntIn(Do("lastIndexOf", <<s, t>>).ret)
      occurs == at >= 0
      found(i) == Do("slice", <<s, Num(i), Num(i + Len(t.v))>>).ret
  IN  /\ Then(parts, "join", <<parts.ret, t>>).ret = s
      /\ t.v # <<>> => \A k \in DOMAIN ItemsIn(parts, parts.ret) : ~IsTrue(Do("MATCH", <<ItemsIn(parts, parts.ret)[k], t>>).ret)
      /\ Do("replace", <<s, t, t>>).ret = s
      /\ occurs <=> final >= 0 /\ (occurs => found(at) = t /\ found(final) = t /\ at <= final)
      /\ IsTrue(Do("startsWith", <<s, t>>).ret) <=> (at = 0)
      /\ IsTrue(Do("endsWith", <<s, t>>).ret) <=> occurs /\ final = size - Len(t.v)
      /\ \A i \in -size - 1 .. size + 1 :
           LET left == Do("to", <<s, Num(i)>>)
               right == Do("from", <<s, Num(i)>>)
           IN  left.err = right.err /\ (left.err = "" => left.ret.v \o right.ret.v = s.v)
MethodsAgree ==
  /\ w.buf = <<>>
  /\ "a" \in DOMAIN slot => ArraysAgree(slot["a"])
  /\ "s" \in DOMAIN slot => TextsAgree(slot["s"], slot["t"])
===============================================================================
