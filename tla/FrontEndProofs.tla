---------------------------- MODULE FrontEndProofs ----------------------------
(* What the front end promises, for any paths, names and number of            *)
(* statements: a failed compilation leaves nothing behind, no handle outlives *)
(* its type, a slot has one owner, and no script reads what is not set. One   *)
(* inductive invariant carries all four: what the point under way keeps is    *)
(* closed under itself, and so is what there is now.                          *)
EXTENDS FrontEnd, SequenceTheorems, FiniteSetTheorems, TLAPS

-----------------------------------------------------------------------------
(* The types of the variables.                                                *)
Key == ({"var", "cmd", "type"} \X (Name \cup Holder)) \cup ({"holder"} \X Nat \X BOOLEAN)
HandleSet == [commit : Nat, type : Nat, index : Nat, mod : Nat,
              kind : {"var", "alias", "global_mod", "named_mod"}]
Scope == UNION {[D -> HandleSet] : D \in {E \in SUBSET Key : IsFiniteSet(E)}}
ModType == [mod : Nat, handles : Scope, children : SUBSET (Nat \X BOOLEAN), index : Nat]
Entry == [path : Path \cup {"(root)"}, type : Nat]
ContextSet == [mod : Nat, scope : Scope, queue : Seq(Path), holder : Holder \cup {""},
               optional : BOOLEAN]
Instr == [op : {"store", "load", "enter", "leave"}, index : Nat,
          owner : {None} \cup (Nat \X (Name \cup {""}) \X Nat)]
Compilations == {"eval", "complete", "shared", "separate"}

FrontTyped ==
  /\ entries \in Seq(Entry) /\ pool \in Seq(ModType) /\ gvar \in Nat /\ root \in Scope
  /\ contexts \in Seq(ContextSet) /\ code \in Seq(Instr)
  /\ DOMAIN globals \subseteq Nat
  /\ entry \in Compilations \cup {Idle, "run"}
  /\ point \in [mods : Nat, gvar : Nat, commit : Nat, types : Nat]
  /\ ran \in Seq(Nat) /\ apart \subseteq Nat /\ raised \in BOOLEAN

-----------------------------------------------------------------------------
(* The inductive invariant.                                                   *)
Sealed(m) == entries[m].type # Unsealed

\* A handle of the first types and slots, where ps are the types.
HandleOK(ps, h, types, slots) ==
  /\ h.type \in 1 .. types /\ h.index < slots
  /\ IsHolder(h) => ps[h.type].mod # None

\* The first modules, types and slots, the names of the root scope, what has
\* been stored and what has run refer to nothing beyond them.
Kept(mods, types, slots) ==
  /\ mods \in 1 .. Len(entries) /\ types \in 0 .. Len(pool) /\ slots \in 0 .. gvar
  /\ \A k \in DOMAIN root : HandleOK(pool, root[k], types, slots)
  /\ \A t \in 1 .. types :
       /\ \A k \in DOMAIN pool[t].handles : HandleOK(pool, pool[t].handles[k], types, slots)
       /\ \A c \in pool[t].children : c[1] \in 1 .. types /\ pool[c[1]].mod # None
       /\ pool[t].mod # None => /\ pool[t].mod \in 2 .. mods /\ entries[pool[t].mod].type = t
                                /\ pool[t].index < slots
  /\ \A m \in 1 .. mods : Sealed(m) => entries[m].type \in 1 .. types /\ pool[entries[m].type].mod = m
  /\ \A i \in DOMAIN globals : i < slots
  /\ \A i \in DOMAIN ran : ran[i] \in 1 .. mods /\ Sealed(ran[i])
  /\ \A m \in apart : m \in 1 .. mods /\ Sealed(m)

\* What is set when the instruction at p of the code begins.
Storing(i) == i.op \in {"store", "leave"}
ApartIndex == {pool[entries[m].type].index : m \in apart}
SetAt(p) == DOMAIN globals \cup ApartIndex \cup {code[q].index : q \in {q \in 1 .. p - 1 : Storing(code[q])}}
SetByEnd == SetAt(Len(code) + 1)

\* The names of the root scope and the first types are set, or will be by then.
SetFor(types, set) ==
  /\ \A k \in DOMAIN root : root[k].index \in set
  /\ \A t \in 1 .. types :
       /\ \A k \in DOMAIN pool[t].handles : pool[t].handles[k].index \in set
       /\ pool[t].mod # None => pool[t].index \in set

\* A handle a statement may use: what it names is there, and set by then.
Sound(h) == HandleOK(pool, h, Len(pool), gvar) /\ (~raised => h.index \in SetByEnd)

\* The scope goes on from the root scope as it was when the point was taken.
Continues(scope) ==
  /\ DOMAIN root \subseteq DOMAIN scope
  /\ \A k \in DOMAIN scope : IF k \in DOMAIN root THEN scope[k] = root[k]
                             ELSE scope[k].commit >= Size(root)
Numbered(scope) == \A k \in DOMAIN scope : scope[k].commit < Size(scope)

PointKept ==
  /\ Kept(point.mods, point.types, point.gvar)
  /\ ~raised => SetFor(point.types, DOMAIN globals \cup ApartIndex)
  /\ saved = <<SubSeq(entries, 1, point.mods), SubSeq(pool, 1, point.types), root>>
  /\ point.commit = Size(root)

ContextsInv ==
  /\ entry \in Compilations
  /\ contexts[1].mod \in 1 .. Len(entries)
  /\ entry \in {"eval", "shared"} => contexts[1].mod = RootMod
  /\ entry = "separate" => contexts[1].mod = point.mods + 1 /\ ~Sealed(contexts[1].mod)
  /\ entry # "separate" => contexts[1].mod <= point.mods
  /\ contexts[1].mod = RootMod => Continues(contexts[1].scope) /\ Numbered(contexts[1].scope)
  /\ \A i \in 2 .. Len(contexts) :
       /\ contexts[i].mod \in point.mods + 1 .. Len(entries) /\ ~Sealed(contexts[i].mod)
       /\ \A j \in 1 .. i - 1 : contexts[j].mod < contexts[i].mod
  /\ \A i \in DOMAIN contexts : \A k \in DOMAIN contexts[i].scope : Sound(contexts[i].scope[k])

\* The variables that have a slot, and what is stored in slots or will be.
ScopeVars(scope) ==
  {<<scope[k].index, scope[k].mod, scope[k].type>> : k \in {x \in DOMAIN scope : scope[x].kind = "var"}}
Vars ==
  ScopeVars(root) \cup (UNION {ScopeVars(contexts[i].scope) : i \in DOMAIN contexts})
    \cup (UNION {ScopeVars(pool[t].handles) : t \in DOMAIN pool})
Stores ==
  {<<i, globals[i]>> : i \in DOMAIN globals}
    \cup {<<code[p].index, code[p].owner>> : p \in {q \in DOMAIN code : Storing(code[q])}}
SlotsAgree ==
  /\ \A v, w \in Vars : v[1] = w[1] => v = w
  /\ \A v \in Vars, s \in Stores : v[1] = s[1] => <<s[2][1], s[2][3]>> = <<v[2], v[3]>>

CodeInv ==
  /\ \A p \in DOMAIN code : Storing(code[p]) => code[p].index < gvar
  /\ ~raised => \A p \in DOMAIN code : code[p].op = "load" => code[p].index \in SetAt(p)
  /\ \A p \in DOMAIN code : code[p].op = "enter" =>
       /\ code[p].index \in point.mods + 1 .. Len(entries)
       /\ Sealed(code[p].index) \/ \E i \in 2 .. Len(contexts) : contexts[i].mod = code[p].index
       /\ \A i \in DOMAIN ran : ran[i] # code[p].index
       /\ \A q \in DOMAIN code : code[q].op = "enter" /\ code[q].index = code[p].index => q = p

FrontInv ==
  /\ FrontTyped
  /\ Kept(Len(entries), Len(pool), gvar)
  /\ ~raised => SetFor(Len(pool), SetByEnd)
  /\ Numbered(root)
  /\ contexts = <<>> => entry \in {Idle, "run"}
  /\ entry = Idle => contexts = <<>> /\ code = <<>>
  /\ contexts # <<>> => PointKept /\ ContextsInv
  /\ SlotsAgree
  /\ CodeInv
  /\ \A i, j \in DOMAIN ran : ran[i] = ran[j] => i = j
  /\ illegal \subseteq ApartIndex
-----------------------------------------------------------------------------
(* Scopes                                                                     *)

LEMMA ScopeType ==
  /\ \A s \in Scope : /\ IsFiniteSet(DOMAIN s) /\ DOMAIN s \subseteq Key /\ s \in [DOMAIN s -> HandleSet]
                      /\ \A k \in DOMAIN s : s[k] \in HandleSet
                      /\ Size(s) \in Nat
  /\ \A D \in SUBSET Key : IsFiniteSet(D) => [D -> HandleSet] \subseteq Scope
<1>1. ASSUME NEW s \in Scope
      PROVE  /\ IsFiniteSet(DOMAIN s) /\ DOMAIN s \subseteq Key /\ s \in [DOMAIN s -> HandleSet]
             /\ \A k \in DOMAIN s : s[k] \in HandleSet
             /\ Size(s) \in Nat
  <2>1. PICK D \in {E \in SUBSET Key : IsFiniteSet(E)} : s \in [D -> HandleSet]
    BY DEF Scope
  <2> QED
    BY <2>1, FS_CardinalityType DEF Size
<1> QED
  BY <1>1 DEF Scope

\* u is s with more names, numbered from the size of s.
Grown(s, u) ==
  /\ u \in Scope
  /\ DOMAIN s \subseteq DOMAIN u /\ \A k \in DOMAIN s : u[k] = s[k]
  /\ Size(s) <= Size(u)
  /\ \A k \in DOMAIN u \ DOMAIN s : u[k].commit \in Size(s) .. Size(u) - 1

LEMMA GrownTrans ==
  ASSUME NEW s \in Scope, NEW u, NEW v, Grown(s, u), Grown(u, v)
  PROVE  Grown(s, v)
<1>1. Size(s) \in Nat /\ Size(u) \in Nat /\ Size(v) \in Nat
  BY ScopeType DEF Grown
<1>2. ASSUME NEW k \in DOMAIN v \ DOMAIN s
      PROVE  v[k].commit \in Size(s) .. Size(v) - 1
  <2>1. CASE k \in DOMAIN u
    BY <1>1, <1>2, <2>1 DEF Grown
  <2>2. CASE k \notin DOMAIN u
    BY <1>1, <1>2, <2>2 DEF Grown
  <2> QED
    BY <2>1, <2>2
<1> QED
  BY <1>1, <1>2 DEF Grown

LEMMA AddLemma ==
  ASSUME NEW s \in Scope, NEW key \in Key, key \notin DOMAIN s, NEW h \in HandleSet
  PROVE  LET u == Add(s, key, h)
         IN  /\ Grown(s, u) /\ DOMAIN u = DOMAIN s \cup {key}
             /\ u[key] = [h EXCEPT !.commit = Size(s)]
<1> DEFINE u == Add(s, key, h)
<1>a. PICK v : v = u
  OBVIOUS
<1>1. Size(s) \in Nat /\ IsFiniteSet(DOMAIN s) /\ DOMAIN s \subseteq Key /\ \A k \in DOMAIN s : s[k] \in HandleSet
  BY ScopeType
<1>2. DOMAIN u = DOMAIN s \cup {key} /\ u[key] = [h EXCEPT !.commit = Size(s)]
      /\ \A k \in DOMAIN s : u[k] = s[k]
  BY DEF Add
<1>3. IsFiniteSet(DOMAIN u) /\ Size(u) = Size(s) + 1
  BY <1>1, <1>2, FS_AddElement DEF Size
<1>4. [h EXCEPT !.commit = Size(s)] \in HandleSet
  BY <1>1 DEF HandleSet
<1>5. u \in [DOMAIN u -> HandleSet]
  BY <1>1, <1>2, <1>4 DEF Add
<1>6. u \in Scope
  BY <1>1, <1>2, <1>3, <1>5, ScopeType
<1>7. u[key].commit = Size(s)
  BY <1>2 DEF HandleSet
<1>8. Grown(s, v)
  <2> HIDE DEF u
  <2>1. \A k \in DOMAIN v \ DOMAIN s : v[k].commit = Size(s)
    BY <1>a, <1>2, <1>7
  <2> QED
    BY <1>a, <1>1, <1>2, <1>3, <1>6, <2>1 DEF Grown
<1> QED
  BY <1>a, <1>2, <1>8

LEMMA AddAllLemma ==
  ASSUME NEW s \in Scope, NEW new, IsFiniteSet(DOMAIN new), DOMAIN new \subseteq Key,
         \A k \in DOMAIN new : new[k] \in HandleSet
  PROVE  LET u == AddAll(s, new)
         IN  /\ Grown(s, u) /\ DOMAIN u = DOMAIN s \cup DOMAIN new
             /\ \A k \in DOMAIN u \ DOMAIN s : u[k] = [new[k] EXCEPT !.commit = u[k].commit]
<1> DEFINE fresh == DOMAIN new \ DOMAIN s
           n == Cardinality(fresh)
           IsPlace(f) == f \in [fresh -> 0 .. n - 1] /\ IsInjective(f)
           place == CHOOSE f \in [fresh -> 0 .. n - 1] : IsInjective(f)
           u == AddAll(s, new)
<1>1. Size(s) \in Nat /\ IsFiniteSet(DOMAIN s) /\ DOMAIN s \subseteq Key /\ \A k \in DOMAIN s : s[k] \in HandleSet
  BY ScopeType
<1>2. IsFiniteSet(fresh) /\ n \in Nat
  BY FS_Difference, FS_CardinalityType
<1>3. place \in [fresh -> 0 .. n - 1]
  <2>1. IsFiniteSet(0 .. n - 1) /\ Cardinality(0 .. n - 1) = n
    BY <1>2, FS_Interval
  <2>2. ExistsBijection(fresh, 0 .. n - 1)
    BY <1>2, <2>1, FS_SameCardinalityBij
  <2>3. \E f \in [fresh -> 0 .. n - 1] : IsInjective(f)
    BY <2>2 DEF ExistsBijection, Bijection, Injection
  <2> QED
    BY <2>3
<1>4. u = [k \in DOMAIN s \cup fresh |->
             IF k \in fresh THEN [new[k] EXCEPT !.commit = Size(s) + place[k]] ELSE s[k]]
  BY DEF AddAll
<1>5. DOMAIN u = DOMAIN s \cup fresh /\ DOMAIN u = DOMAIN s \cup DOMAIN new
  BY <1>4
<1>6. IsFiniteSet(DOMAIN u) /\ Size(u) = Size(s) + n
  <2>1. DOMAIN s \cap fresh = {} /\ Cardinality({}) = 0
    BY FS_EmptySet
  <2> QED
    <3>1. Cardinality(DOMAIN s \cup fresh) = Cardinality(DOMAIN s) + Cardinality(fresh) - 0
      BY <1>1, <1>2, <2>1, FS_Union
    <3>2. IsFiniteSet(DOMAIN s \cup fresh) /\ Cardinality(DOMAIN s) \in Nat
      BY <1>1, <1>2, FS_Union, FS_CardinalityType
    <3> HIDE DEF fresh, n, u
    <3> QED
      BY <1>2, <1>5, <3>1, <3>2 DEF Size, n
<1>7. ASSUME NEW k \in fresh
      PROVE  /\ u[k] \in HandleSet /\ u[k].commit \in Size(s) .. Size(u) - 1
             /\ u[k] = [new[k] EXCEPT !.commit = u[k].commit]
  <2>1. PICK c : c = Size(s) + place[k]
    OBVIOUS
  <2>2. u[k] = [new[k] EXCEPT !.commit = c]
    BY <1>4, <2>1
  <2>3. c \in Nat /\ c \in Size(s) .. Size(u) - 1
    <3>1. place[k] \in 0 .. n - 1
      BY <1>3
    <3> HIDE DEF place, n, u, fresh
    <3> QED
      BY <1>1, <1>2, <1>6, <2>1, <3>1
  <2>4. u[k] \in HandleSet /\ u[k].commit = c
    BY <2>2, <2>3 DEF HandleSet
  <2> QED
    BY <2>2, <2>3, <2>4
<1>8. \A k \in DOMAIN s : u[k] = s[k]
  BY <1>4
<1>9. u \in [DOMAIN u -> HandleSet]
  <2>1. \A k \in DOMAIN u : u[k] \in HandleSet
    BY <1>1, <1>5, <1>7, <1>8
  <2> QED
    BY <1>4, <1>5, <2>1
<1>10. u \in Scope
  BY <1>1, <1>5, <1>6, <1>9, ScopeType
<1>11. Grown(s, u)
  <2>1. DOMAIN u \ DOMAIN s = fresh
    BY <1>5
  <2> HIDE DEF place, n, u, fresh
  <2> QED
    BY <1>1, <1>2, <1>5, <1>6, <1>7, <1>8, <1>10, <2>1 DEF Grown
<1> QED
  BY <1>5, <1>7, <1>11

-----------------------------------------------------------------------------
(* What an import adds to a scope                                             *)

\* A name of the type t, or of one of its handles, that has no slot of its own.
FromType(types, t, h) ==
  /\ h.kind # "var"
  /\ \/ h.type = t /\ h.index = types[t].index
     \/ /\ h.kind = "alias"
        /\ \E k \in DOMAIN types[t].handles :
             h.type = types[t].handles[k].type /\ h.index = types[t].handles[k].index
Imports(s, u, types, t) == Grown(s, u) /\ \A k \in DOMAIN u \ DOMAIN s : FromType(types, t, u[k])

LEMMA Recommit ==
  ASSUME NEW h \in HandleSet, NEW c, NEW g, g = [h EXCEPT !.commit = c]
  PROVE  g.kind = h.kind /\ g.type = h.type /\ g.index = h.index /\ g.mod = h.mod
BY DEF HandleSet

LEMMA TypeFields ==
  ASSUME NEW types \in Seq(ModType), NEW t \in 1 .. Len(types)
  PROVE  /\ t \in Nat /\ types[t] \in ModType /\ types[t].mod \in Nat /\ types[t].index \in Nat
         /\ types[t].handles \in Scope /\ types[t].children \in SUBSET (Nat \X BOOLEAN)
<1>1. t \in Nat /\ types[t] \in ModType
  BY ElementOfSeq, LenProperties
<1> QED
  BY <1>1 DEF ModType

LEMMA GivenLemma ==
  ASSUME NEW types \in Seq(ModType), NEW t \in 1 .. Len(types), NEW m \in Nat, NEW global \in BOOLEAN
  PROVE  LET g == Given(types, t, m, global)
         IN  /\ IsFiniteSet(DOMAIN g) /\ DOMAIN g \subseteq Key
             /\ \A k \in DOMAIN g : g[k] \in HandleSet /\ FromType(types, t, g[k])
<1>1. PICK g : g = Given(types, t, m, global)
  OBVIOUS
<1>2. PICK holder : holder = HolderName(types[t].mod, global)
  OBVIOUS
<1>3. /\ types[t].mod \in Nat /\ types[t].index \in Nat /\ types[t].handles \in Scope
      /\ IsFiniteSet(DOMAIN types[t].handles) /\ DOMAIN types[t].handles \subseteq Key
      /\ \A k \in DOMAIN types[t].handles : types[t].handles[k] \in HandleSet
  BY TypeFields, ScopeType
<1>4. PICK names : names = IF global THEN Importable(types[t]) ELSE {}
  OBVIOUS
<1>5. names \subseteq DOMAIN types[t].handles
  BY <1>4 DEF Importable
<1>6. g = [k \in {holder} \cup names |->
             IF k = holder THEN ToHolder(types, t, m, HolderKind(global)) ELSE Foreign(types[t].handles[k])]
  BY <1>1, <1>2, <1>4 DEF Given
<1>7. holder \in Key
  BY <1>2, <1>3 DEF HolderName, Key
<1>8. IsFiniteSet(DOMAIN g) /\ DOMAIN g \subseteq Key
  <2>1. IsFiniteSet(names)
    BY <1>3, <1>5, FS_Subset
  <2>2. IsFiniteSet({holder})
    BY FS_Singleton
  <2> QED
    BY <1>3, <1>5, <1>6, <1>7, <2>1, <2>2, FS_Union
<1>9. ASSUME NEW k \in DOMAIN g
      PROVE  g[k] \in HandleSet /\ FromType(types, t, g[k])
  <2>1. CASE k = holder
    <3>1. g[k] = Handle(0, t, types[t].index, m, HolderKind(global))
      BY <1>6, <2>1 DEF ToHolder
    <3> QED
      BY <1>3, <3>1 DEF Handle, HolderKind, HandleSet, FromType
  <2>2. CASE k # holder
    <3>1. k \in DOMAIN types[t].handles /\ g[k] = Foreign(types[t].handles[k])
      BY <1>5, <1>6, <2>2
    <3>2. PICK h \in HandleSet : h = types[t].handles[k]
      BY <1>3, <3>1
    <3>3. g[k] \in HandleSet /\ g[k].kind = "alias" /\ g[k].type = h.type /\ g[k].index = h.index
      BY <3>1, <3>2 DEF Foreign, HandleSet
    <3> QED
      BY <3>1, <3>2, <3>3 DEF FromType
  <2> QED
    BY <2>1, <2>2
<1> QED
  BY <1>1, <1>8, <1>9

LEMMA AddedFrom ==
  ASSUME NEW s \in Scope, NEW new, IsFiniteSet(DOMAIN new), DOMAIN new \subseteq Key,
         NEW types, NEW t, \A k \in DOMAIN new : new[k] \in HandleSet /\ FromType(types, t, new[k])
  PROVE  Imports(s, AddAll(s, new), types, t)
<1>1. PICK u : u = AddAll(s, new)
  OBVIOUS
<1>2. /\ Grown(s, u) /\ DOMAIN u = DOMAIN s \cup DOMAIN new
      /\ \A k \in DOMAIN u \ DOMAIN s : u[k] = [new[k] EXCEPT !.commit = u[k].commit]
  <2>1. \A k \in DOMAIN new : new[k] \in HandleSet
    OBVIOUS
  <2> QED
    BY <1>1, <2>1, AddAllLemma
<1>3. ASSUME NEW k \in DOMAIN u \ DOMAIN s
      PROVE  FromType(types, t, u[k])
  <2>1. k \in DOMAIN new /\ new[k] \in HandleSet
    BY <1>2, <1>3
  <2>2. u[k].kind = new[k].kind /\ u[k].type = new[k].type /\ u[k].index = new[k].index
    BY <1>2, <1>3, <2>1 DEF HandleSet
  <2> QED
    BY <2>1, <2>2 DEF FromType
<1> QED
  BY <1>1, <1>2, <1>3 DEF Imports

LEMMA ImportsTrans ==
  ASSUME NEW s \in Scope, NEW u, NEW v, NEW types, NEW t, Imports(s, u, types, t), Imports(u, v, types, t)
  PROVE  Imports(s, v, types, t)
<1>1. Grown(s, v)
  BY GrownTrans DEF Imports
<1>2. ASSUME NEW k \in DOMAIN v \ DOMAIN s
      PROVE  FromType(types, t, v[k])
  <2>1. CASE k \in DOMAIN u
    BY <1>2, <2>1 DEF Imports, Grown
  <2>2. CASE k \notin DOMAIN u
    BY <1>2, <2>2 DEF Imports
  <2> QED
    BY <2>1, <2>2
<1> QED
  BY <1>1, <1>2 DEF Imports

LEMMA ImportLemma ==
  ASSUME NEW types \in Seq(ModType), NEW t \in 1 .. Len(types), NEW m \in Nat, NEW s \in Scope,
         NEW global \in BOOLEAN
  PROVE  Imports(s, Import(s, types, t, m, global), types, t)
<1>1. CASE HolderName(types[t].mod, global) \in DOMAIN s
  <2>1. Size(s) \in Nat
    BY ScopeType
  <2>2. Imports(s, s, types, t)
    BY <2>1 DEF Imports, Grown
  <2> QED
    BY <1>1, <2>2 DEF Import
<1>2. CASE HolderName(types[t].mod, global) \notin DOMAIN s
  BY <1>2, GivenLemma, AddedFrom DEF Import
<1> QED
  BY <1>1, <1>2

LEMMA SourceImportLemma ==
  ASSUME NEW types \in Seq(ModType), NEW t \in 1 .. Len(types), NEW m \in Nat, NEW s \in Scope,
         NEW h \in Holder \cup {""}
  PROVE  Imports(s, SourceImport(s, types, t, m, h), types, t)
<1>1. \A global \in BOOLEAN : Imports(s, Import(s, types, t, m, global), types, t)
  BY ImportLemma
<1>2. PICK u : u = Import(s, types, t, m, h = "")
  OBVIOUS
<1>3. Imports(s, u, types, t) /\ u \in Scope
  BY <1>1, <1>2 DEF Imports, Grown
<1>4. CASE h = ""
  BY <1>2, <1>3, <1>4 DEF SourceImport
<1>5. CASE h # ""
  <2>1. PICK new : new = [k \in Named(h) |-> ToHolder(types, t, m, "alias")]
    OBVIOUS
  <2>2. /\ IsFiniteSet(DOMAIN new) /\ DOMAIN new \subseteq Key
        /\ \A k \in DOMAIN new : new[k] \in HandleSet /\ FromType(types, t, new[k])
    <3>1. DOMAIN new = Named(h)
      BY <2>1
    <3>2. IsFiniteSet(Named(h))
      <4>1. IsFiniteSet({<<"var", h>>} \cup {<<"cmd", h>>})
        BY FS_Singleton, FS_Union
      <4>2. IsFiniteSet(({<<"var", h>>} \cup {<<"cmd", h>>}) \cup {<<"type", h>>})
        BY <4>1, FS_Singleton, FS_Union
      <4>3. Named(h) = ({<<"var", h>>} \cup {<<"cmd", h>>}) \cup {<<"type", h>>}
        BY DEF Named
      <4> QED
        BY <4>2, <4>3
    <3>3. Named(h) \subseteq Key
      <4>1. h \in Name \cup Holder
        BY <1>5
      <4>2. {<<"var", h>>, <<"cmd", h>>, <<"type", h>>} \subseteq {"var", "cmd", "type"} \X (Name \cup Holder)
        <5>1. PICK names : names = Name \cup Holder
          OBVIOUS
        <5>2. \A x \in {"var", "cmd", "type"} : <<x, h>> \in {"var", "cmd", "type"} \X names
          BY <4>1, <5>1
        <5> QED
          BY <5>1, <5>2
      <4> QED
        BY <4>2 DEF Named, Key
    <3>4. types[t].index \in Nat /\ t \in Nat
      BY TypeFields
    <3>5. \A k \in DOMAIN new : new[k] = Handle(0, t, types[t].index, m, "alias")
      BY <2>1 DEF ToHolder
    <3>6. Handle(0, t, types[t].index, m, "alias") \in HandleSet
      BY <3>4 DEF Handle, HandleSet
    <3>7. FromType(types, t, Handle(0, t, types[t].index, m, "alias"))
      BY DEF Handle, FromType
    <3> QED
      BY <3>1, <3>2, <3>3, <3>5, <3>6, <3>7
  <2>3. SourceImport(s, types, t, m, h) = AddAll(u, new)
    BY <1>2, <1>5, <2>1 DEF SourceImport
  <2>4. Imports(u, AddAll(u, new), types, t)
    BY <1>3, <2>2, AddedFrom
  <2> QED
    BY <1>3, <2>3, <2>4, ImportsTrans
<1> QED
  BY <1>4, <1>5

(* What an import gives is as sound as the type it comes from.                *)
LEMMA FromOK ==
  ASSUME NEW ps, NEW n \in Nat, NEW t \in 1 .. n, NEW slots, ps[t].mod # None, ps[t].index < slots,
         \A k \in DOMAIN ps[t].handles : HandleOK(ps, ps[t].handles[k], n, slots),
         NEW h, FromType(ps, t, h)
  PROVE  HandleOK(ps, h, n, slots)
<1>1. CASE h.type = t /\ h.index = ps[t].index
  BY <1>1 DEF HandleOK
<1>2. CASE h.kind = "alias"
  BY <1>2 DEF FromType, HandleOK, IsHolder
<1> QED
  BY <1>1, <1>2 DEF FromType

LEMMA FromSet ==
  ASSUME NEW ps, NEW t, NEW set, ps[t].index \in set,
         \A k \in DOMAIN ps[t].handles : ps[t].handles[k].index \in set,
         NEW h, FromType(ps, t, h)
  PROVE  h.index \in set
BY DEF FromType

(* The type a module is sealed with holds what its scope has.                 *)
LEMMA ToModTypeLemma ==
  ASSUME NEW scope \in Scope, NEW m \in Nat, gvar \in Nat
  PROVE  LET type == ToModType(scope, m)
         IN  /\ type \in ModType /\ type.mod = m /\ type.index = gvar
             /\ \A k \in DOMAIN type.handles : k \in DOMAIN scope /\ type.handles[k] = scope[k]
             /\ \A c \in type.children : \E k \in DOMAIN scope : IsHolder(scope[k]) /\ c[1] = scope[k].type
<1>1. PICK type : type = ToModType(scope, m)
  OBVIOUS
<1>2. PICK own, handles, kids :
        own = Own(scope, m) /\ handles = Restrict(scope, own) /\ kids = Children(scope)
  OBVIOUS
<1>3. type = [mod |-> m, handles |-> handles, children |-> kids, index |-> gvar]
  BY <1>1, <1>2 DEF ToModType
<1>4. /\ IsFiniteSet(DOMAIN scope) /\ DOMAIN scope \subseteq Key
      /\ \A k \in DOMAIN scope : scope[k] \in HandleSet
  BY ScopeType
<1>5. own \subseteq DOMAIN scope
  BY <1>2 DEF Own
<1>6. handles = [k \in own |-> scope[k]]
  BY <1>2 DEF Restrict
<1>7. handles \in Scope
  <2>1. IsFiniteSet(own) /\ own \in SUBSET Key
    BY <1>4, <1>5, FS_Subset
  <2>2. handles \in [own -> HandleSet]
    BY <1>4, <1>5, <1>6
  <2> QED
    BY <2>1, <2>2, ScopeType
<1>8. \A c \in kids : /\ c \in Nat \X BOOLEAN
                      /\ \E k \in DOMAIN scope : IsHolder(scope[k]) /\ c[1] = scope[k].type
  <2> SUFFICES ASSUME NEW c \in kids
               PROVE  /\ c \in Nat \X BOOLEAN
                      /\ \E k \in DOMAIN scope : IsHolder(scope[k]) /\ c[1] = scope[k].type
    OBVIOUS
  <2>1. PICK t \in Held(scope) :
          c = <<t, \E k \in DOMAIN scope : scope[k].type = t /\ scope[k].kind = "global_mod">>
    BY <1>2 DEF Children
  <2>2. PICK k \in DOMAIN scope : IsHolder(scope[k]) /\ t = scope[k].type
    BY <2>1 DEF Held
  <2>3. t \in Nat
    BY <1>4, <2>2 DEF HandleSet
  <2>4. (\E x \in DOMAIN scope : scope[x].type = t /\ scope[x].kind = "global_mod") \in BOOLEAN
    OBVIOUS
  <2> QED
    BY <2>1, <2>2, <2>3, <2>4
<1>9. type \in ModType
  BY <1>3, <1>7, <1>8 DEF ModType
<1> QED
  BY <1>1, <1>3, <1>5, <1>6, <1>8, <1>9

LEMMA SamePrefix ==
  ASSUME NEW S, NEW s \in Seq(S), NEW u \in Seq(S), NEW n \in Nat, n <= Len(s), n <= Len(u),
         \A i \in 1 .. n : u[i] = s[i]
  PROVE  SubSeq(u, 1, n) = SubSeq(s, 1, n)
<1>1. \A i \in 1 .. n : s[i] \in S /\ u[i] \in S
  BY ElementOfSeq, LenProperties
<1>2. /\ SubSeq(s, 1, n) \in Seq(S) /\ Len(SubSeq(s, 1, n)) = n
      /\ \A i \in 1 .. n : SubSeq(s, 1, n)[i] = s[i]
  BY <1>1, SubSeqProperties
<1>3. /\ SubSeq(u, 1, n) \in Seq(S) /\ Len(SubSeq(u, 1, n)) = n
      /\ \A i \in 1 .. n : SubSeq(u, 1, n)[i] = u[i]
  BY <1>1, SubSeqProperties
<1> QED
  BY <1>2, <1>3, SeqEqual

LEMMA PrefixLemma ==
  ASSUME NEW S, NEW s \in Seq(S), NEW n \in Nat, n <= Len(s)
  PROVE  /\ SubSeq(s, 1, n) \in Seq(S) /\ Len(SubSeq(s, 1, n)) = n
         /\ \A i \in 1 .. n : SubSeq(s, 1, n)[i] = s[i]
<1>1. \A i \in 1 .. n : s[i] \in S
  BY ElementOfSeq, LenProperties
<1> QED
  BY <1>1, SubSeqProperties

LEMMA EmptyScope ==
  <<>> \in Scope /\ DOMAIN <<>> = {} /\ Size(<<>>) = 0
<1>1. DOMAIN <<>> = {} /\ <<>> \in [{} -> HandleSet]
  OBVIOUS
<1>2. IsFiniteSet({}) /\ Cardinality({}) = 0
  BY FS_EmptySet
<1> QED
  BY <1>1, <1>2, ScopeType DEF Size

(* The scope of a sealed module, made again, names its own handles and what   *)
(* it imported.                                                               *)
LEMMA AgainScopeLemma ==
  ASSUME pool \in Seq(ModType), NEW t \in 1 .. Len(pool),
         \A c \in pool[t].children : c[1] \in 1 .. Len(pool)
  PROVE  /\ AgainScope(t) \in Scope
         /\ \A k \in DOMAIN AgainScope(t) :
              \E d \in 1 .. Len(pool) : FromType(pool, d, AgainScope(t)[k])
                                        /\ (d = t \/ \E c \in pool[t].children : d = c[1])
<1>1. PICK m, kids : m = pool[t].mod /\ kids = pool[t].children
  OBVIOUS
<1>2. PICK own : own = [k \in DOMAIN pool[t].handles |-> Alias(pool[t].handles[k], m)]
  OBVIOUS
<1>3. PICK from : from = [c \in kids |-> Given(pool, c[1], m, c[2])]
  OBVIOUS
<1>4. PICK names : names = UNION {DOMAIN from[c] : c \in kids}
  OBVIOUS
<1>5. PICK giver :
        giver = [k \in names |-> CHOOSE c \in kids : k \in DOMAIN Given(pool, c[1], m, c[2])]
  OBVIOUS
<1>6. PICK all : all = [k \in names |-> from[giver[k]][k]]
  OBVIOUS
<1>7. PICK first : first = AddAll(<<>>, own)
  OBVIOUS
<1>8. AgainScope(t) = AddAll(first, all)
  <2>1. names = UNION {DOMAIN Given(pool, c[1], m, c[2]) : c \in kids}
    BY <1>3, <1>4
  <2>2. \A k \in names : giver[k] \in kids
    BY <1>5, <2>1
  <2>3. all = [k \in names |-> Given(pool, giver[k][1], m, giver[k][2])[k]]
    BY <1>3, <1>6, <2>2
  <2> QED
    BY <1>1, <1>2, <1>5, <1>7, <2>1, <2>3 DEF AgainScope
<1>9. /\ m \in Nat /\ kids \in SUBSET (Nat \X BOOLEAN)
      /\ IsFiniteSet(DOMAIN pool[t].handles) /\ DOMAIN pool[t].handles \subseteq Key
      /\ \A k \in DOMAIN pool[t].handles : pool[t].handles[k] \in HandleSet
  BY <1>1, TypeFields, ScopeType
<1>10. Imports(<<>>, first, pool, t) /\ first \in Scope
  <2>1. ASSUME NEW k \in DOMAIN own
        PROVE  own[k] \in HandleSet /\ FromType(pool, t, own[k])
    <3>1. k \in DOMAIN pool[t].handles /\ own[k] = Alias(pool[t].handles[k], m)
      BY <1>2, <2>1
    <3>2. PICK h \in HandleSet : h = pool[t].handles[k]
      BY <1>9, <3>1
    <3>3. own[k] \in HandleSet /\ own[k].kind = "alias" /\ own[k].type = h.type /\ own[k].index = h.index
      BY <1>9, <3>1, <3>2 DEF Alias, HandleSet
    <3> QED
      BY <3>1, <3>2, <3>3 DEF FromType
  <2>2. DOMAIN own = DOMAIN pool[t].handles
    BY <1>2
  <2> QED
    BY <1>7, <1>9, <2>1, <2>2, EmptyScope, AddedFrom DEF Imports, Grown
<1>11. \A c \in kids : /\ c[1] \in 1 .. Len(pool)
                       /\ IsFiniteSet(DOMAIN from[c]) /\ DOMAIN from[c] \subseteq Key
                       /\ \A k \in DOMAIN from[c] : from[c][k] \in HandleSet /\ FromType(pool, c[1], from[c][k])
  <2> SUFFICES ASSUME NEW c \in kids
               PROVE  /\ c[1] \in 1 .. Len(pool)
                      /\ IsFiniteSet(DOMAIN from[c]) /\ DOMAIN from[c] \subseteq Key
                      /\ \A k \in DOMAIN from[c] : from[c][k] \in HandleSet /\ FromType(pool, c[1], from[c][k])
    OBVIOUS
  <2>1. c[1] \in 1 .. Len(pool) /\ c[2] \in BOOLEAN /\ from[c] = Given(pool, c[1], m, c[2])
    BY <1>1, <1>3, <1>9
  <2> QED
    BY <1>9, <2>1, GivenLemma
<1>12. IsFiniteSet(kids)
  <2>1. IsFiniteSet((1 .. Len(pool)) \X BOOLEAN)
    <3>1. IsFiniteSet(1 .. Len(pool))
      BY LenProperties, FS_Interval
    <3>2. IsFiniteSet(BOOLEAN)
      <4>1. IsFiniteSet({TRUE} \cup {FALSE}) /\ BOOLEAN = {TRUE} \cup {FALSE}
        BY FS_Singleton, FS_Union
      <4> QED
        BY <4>1
    <3> QED
      BY <3>1, <3>2, FS_Product
  <2>2. kids \subseteq (1 .. Len(pool)) \X BOOLEAN
    BY <1>9, <1>11
  <2> QED
    BY <2>1, <2>2, FS_Subset
<1>13. IsFiniteSet(names)
  <2>1. PICK doms : doms = {DOMAIN from[c] : c \in kids}
    OBVIOUS
  <2>2. PICK f : f = [c \in kids |-> DOMAIN from[c]]
    OBVIOUS
  <2>3. f \in Surjection(kids, doms)
    BY <2>1, <2>2 DEF Surjection
  <2>4. IsFiniteSet(doms)
    BY <1>12, <2>3, FS_Surjection
  <2>5. \A D \in doms : IsFiniteSet(D)
    BY <1>11, <2>1
  <2> QED
    BY <1>4, <2>1, <2>4, <2>5, FS_UNION
<1>14. ASSUME NEW k \in names
       PROVE  /\ giver[k] \in kids /\ k \in DOMAIN from[giver[k]] /\ k \in Key
              /\ all[k] \in HandleSet /\ FromType(pool, giver[k][1], all[k])
  <2>1. giver[k] \in kids /\ k \in DOMAIN from[giver[k]]
    BY <1>3, <1>4, <1>5
  <2> QED
    BY <1>6, <1>11, <2>1
<1>15. PICK s : s = AgainScope(t)
  OBVIOUS
<1>16. /\ Grown(first, s) /\ DOMAIN s = DOMAIN first \cup names
       /\ \A k \in DOMAIN s \ DOMAIN first : s[k] = [all[k] EXCEPT !.commit = s[k].commit]
  <2>1. DOMAIN all = names /\ names \subseteq Key
    BY <1>6, <1>14
  <2>2. IsFiniteSet(DOMAIN all) /\ DOMAIN all \subseteq Key
    BY <1>13, <2>1
  <2>3. \A k \in DOMAIN all : all[k] \in HandleSet
    BY <1>14, <2>1
  <2> QED
    <3>1. s = AddAll(first, all) /\ first \in Scope
      BY <1>8, <1>10, <1>15
    <3>2. LET u == AddAll(first, all)
          IN  /\ Grown(first, u) /\ DOMAIN u = DOMAIN first \cup DOMAIN all
              /\ \A k \in DOMAIN u \ DOMAIN first : u[k] = [all[k] EXCEPT !.commit = u[k].commit]
      BY <2>2, <2>3, <3>1, AddAllLemma, Zenon
    <3> QED
      BY <2>1, <3>1, <3>2
<1>17. ASSUME NEW k \in DOMAIN s
       PROVE  \E d \in 1 .. Len(pool) : FromType(pool, d, s[k]) /\ (d = t \/ \E c \in kids : d = c[1])
  <2>1. CASE k \in DOMAIN first
    <3>1. s[k] = first[k] /\ FromType(pool, t, first[k])
      BY <1>10, <1>16, <2>1, EmptyScope DEF Grown, Imports
    <3> QED
      BY <3>1
  <2>2. CASE k \notin DOMAIN first
    <3>1. k \in names /\ s[k] = [all[k] EXCEPT !.commit = s[k].commit]
      BY <1>16, <1>17, <2>2
    <3>2. s[k].kind = all[k].kind /\ s[k].type = all[k].type /\ s[k].index = all[k].index
      BY <1>14, <3>1 DEF HandleSet
    <3>3. FromType(pool, giver[k][1], s[k])
      BY <1>14, <3>1, <3>2 DEF FromType
    <3> QED
      BY <1>11, <1>14, <3>1, <3>3
  <2> QED
    BY <2>1, <2>2
<1> QED
  BY <1>1, <1>15, <1>16, <1>17 DEF Grown

-----------------------------------------------------------------------------
(* What a step of a compilation keeps                                         *)

(* What refers to nothing beyond the first modules, types and slots still     *)
(* does when these stay what they are.                                        *)
LEMMA KeptSame ==
  ASSUME NEW mods, NEW types, NEW slots, Kept(mods, types, slots), FrontTyped, FrontTyped',
         root' = root, globals' = globals, ran' = ran, apart' = apart,
         mods <= Len(entries'), types <= Len(pool'), slots <= gvar',
         \A m \in 1 .. mods : entries'[m] = entries[m],
         \A t \in 1 .. types : pool'[t] = pool[t]
  PROVE  Kept(mods, types, slots)'
<1>1. /\ Len(entries) \in Nat /\ Len(entries') \in Nat /\ Len(pool) \in Nat /\ Len(pool') \in Nat
      /\ gvar \in Nat /\ gvar' \in Nat
  BY LenProperties DEF FrontTyped
<1>2. mods \in 1 .. Len(entries') /\ types \in 0 .. Len(pool') /\ slots \in 0 .. gvar'
  BY <1>1 DEF Kept
<1>3. ASSUME NEW h, HandleOK(pool, h, types, slots)
      PROVE  HandleOK(pool', h, types, slots)
  BY <1>3 DEF HandleOK
<1>4. \A k \in DOMAIN root' : HandleOK(pool', root'[k], types, slots)
  BY <1>3 DEF Kept
<1>5. ASSUME NEW t \in 1 .. types
      PROVE  /\ \A k \in DOMAIN pool'[t].handles : HandleOK(pool', pool'[t].handles[k], types, slots)
             /\ \A c \in pool'[t].children : c[1] \in 1 .. types /\ pool'[c[1]].mod # None
             /\ pool'[t].mod # None => /\ pool'[t].mod \in 2 .. mods /\ entries'[pool'[t].mod].type = t
                                       /\ pool'[t].index < slots
  <2>1. pool'[t] = pool[t]
    OBVIOUS
  <2>2. \A k \in DOMAIN pool[t].handles : HandleOK(pool', pool[t].handles[k], types, slots)
    BY <1>3 DEF Kept
  <2>3. \A c \in pool[t].children : c[1] \in 1 .. types /\ pool'[c[1]].mod # None
    BY DEF Kept
  <2>4. pool[t].mod # None => /\ pool[t].mod \in 2 .. mods /\ entries[pool[t].mod].type = t
                              /\ pool[t].index < slots
    BY DEF Kept
  <2>5. pool[t].mod \in 2 .. mods => pool[t].mod \in 1 .. mods
    BY <1>1, <1>2
  <2>6. pool[t].mod # None => entries'[pool[t].mod].type = t
    BY <2>4, <2>5
  <2> QED
    BY <2>1, <2>2, <2>3, <2>4, <2>6
<1>6. ASSUME NEW m \in 1 .. mods, entries'[m].type # Unsealed
      PROVE  entries'[m].type \in 1 .. types /\ pool'[entries'[m].type].mod = m
  <2>1. Sealed(m) => entries[m].type \in 1 .. types /\ pool[entries[m].type].mod = m
    BY DEF Kept
  <2> QED
    BY <1>6, <2>1 DEF Sealed
<1>7. /\ \A i \in DOMAIN globals' : i < slots
      /\ \A i \in DOMAIN ran' : ran'[i] \in 1 .. mods /\ entries'[ran'[i]].type # Unsealed
      /\ \A m \in apart' : m \in 1 .. mods /\ entries'[m].type # Unsealed
  BY DEF Kept, Sealed
<1> QED
  BY <1>2, <1>4, <1>5, <1>6, <1>7 DEF Kept, Sealed

(* A statement of a script: it adds to what there is and touches nothing that *)
(* was there when the point was taken.                                        *)
Extends ==
  /\ UNCHANGED <<root, globals, ran, raised, illegal, apart, entry, point, saved>>
  /\ Len(entries) <= Len(entries')
  /\ \A m \in 1 .. Len(entries) : Sealed(m) \/ m <= point.mods => entries'[m] = entries[m]
  /\ Len(pool) <= Len(pool') /\ \A t \in 1 .. Len(pool) : pool'[t] = pool[t]
  /\ gvar <= gvar'
  /\ Len(code) <= Len(code') /\ \A p \in 1 .. Len(code) : code'[p] = code[p]

LEMMA ApartStays ==
  ASSUME FrontTyped, FrontTyped', apart' = apart,
         \A m \in apart : /\ entries'[m] = entries[m]
                          /\ entries[m].type \in 1 .. Len(pool)
                          /\ pool'[entries[m].type] = pool[entries[m].type]
  PROVE  ApartIndex' = ApartIndex
BY DEF ApartIndex

LEMMA PointStays ==
  ASSUME FrontTyped, FrontTyped', PointKept, Extends
  PROVE  PointKept' /\ ApartIndex' = ApartIndex
<1>1. PICK mods, types, slots : mods = point.mods /\ types = point.types /\ slots = point.gvar
  OBVIOUS
<1>2. Kept(mods, types, slots)
  BY <1>1 DEF PointKept
<1>3. /\ Len(entries) \in Nat /\ Len(entries') \in Nat /\ Len(pool) \in Nat /\ Len(pool') \in Nat
      /\ gvar \in Nat /\ gvar' \in Nat
  BY LenProperties DEF FrontTyped
<1>4. mods \in 1 .. Len(entries) /\ types \in 0 .. Len(pool) /\ slots \in 0 .. gvar
  BY <1>2 DEF Kept
<1>5. /\ mods <= Len(entries') /\ types <= Len(pool') /\ slots <= gvar'
      /\ \A m \in 1 .. mods : entries'[m] = entries[m]
      /\ \A t \in 1 .. types : pool'[t] = pool[t]
  BY <1>1, <1>3, <1>4 DEF Extends
<1>6. Kept(mods, types, slots)'
  BY <1>2, <1>5, KeptSame DEF Extends
<1>7. ApartIndex' = ApartIndex
  <2>1. ASSUME NEW m \in apart
        PROVE  /\ entries'[m] = entries[m]
               /\ entries[m].type \in 1 .. Len(pool)
               /\ pool'[entries[m].type] = pool[entries[m].type]
    <3>1. m \in 1 .. mods /\ entries[m].type \in 1 .. types
      BY <1>2 DEF Kept, Sealed
    <3>2. entries[m].type \in 1 .. Len(pool)
      BY <1>3, <1>4, <3>1
    <3> QED
      BY <1>5, <3>1, <3>2
  <2> QED
    BY <2>1, ApartStays DEF Extends
<1>8. ~raised' => SetFor(types, DOMAIN globals \cup ApartIndex)'
  <2>1. ~raised => SetFor(types, DOMAIN globals \cup ApartIndex)
    BY <1>1 DEF PointKept
  <2>2. raised' = raised /\ root' = root /\ globals' = globals
    BY DEF Extends
  <2> QED
    BY <1>5, <1>7, <2>1, <2>2 DEF SetFor
<1>9. saved' = <<SubSeq(entries', 1, mods), SubSeq(pool', 1, types), root'>>
  <2>1. saved = <<SubSeq(entries, 1, mods), SubSeq(pool, 1, types), root>>
    BY <1>1 DEF PointKept
  <2>2. SubSeq(entries', 1, mods) = SubSeq(entries, 1, mods)
    BY <1>3, <1>4, <1>5, SamePrefix DEF FrontTyped
  <2>3. SubSeq(pool', 1, types) = SubSeq(pool, 1, types)
    BY <1>3, <1>4, <1>5, SamePrefix DEF FrontTyped
  <2> QED
    BY <2>1, <2>2, <2>3 DEF Extends
<1>10. point' = point /\ root' = root /\ point.commit = Size(root)
  BY DEF Extends, PointKept
<1> QED
  BY <1>1, <1>6, <1>7, <1>8, <1>9, <1>10 DEF PointKept, Kept, SetFor, Sealed

(* What is set before an instruction stays set before it.                     *)
LEMMA SetStays ==
  ASSUME FrontTyped, FrontTyped', Extends, ApartIndex' = ApartIndex
  PROVE  /\ \A p \in 1 .. Len(code) + 1 : SetAt(p)' = SetAt(p)
         /\ SetByEnd \subseteq SetByEnd'
         /\ \A p \in 1 .. Len(code') : Storing(code'[p]) => code'[p].index \in SetByEnd'
<1>1. /\ Len(code) \in Nat /\ Len(code') \in Nat /\ Len(code) <= Len(code')
      /\ \A p \in 1 .. Len(code) : code'[p] = code[p]
      /\ globals' = globals
  BY LenProperties DEF FrontTyped, Extends
<1>2. PICK n \in Nat : n = Len(code) + 1
  BY <1>1
<1>3. PICK l \in Nat : l = Len(code') + 1
  BY <1>1
<1>4. n <= l
  BY <1>1, <1>2, <1>3
<1>5. ASSUME NEW p \in 1 .. n
      PROVE  SetAt(p)' = SetAt(p)
  <2>1. \A q \in 1 .. p - 1 : code'[q] = code[q]
    BY <1>1, <1>2
  <2> QED
    BY <1>1, <2>1 DEF SetAt
<1>6. SetAt(n) \subseteq SetAt(l)'
  <2>1. \A q \in 1 .. n - 1 : q \in 1 .. l - 1 /\ code'[q] = code[q]
    BY <1>1, <1>2, <1>4
  <2> QED
    BY <1>1, <2>1 DEF SetAt
<1>7. SetByEnd \subseteq SetByEnd'
  BY <1>2, <1>3, <1>6 DEF SetByEnd, SetAt
<1>8. ASSUME NEW p \in 1 .. Len(code'), Storing(code'[p])
      PROVE  code'[p].index \in SetByEnd'
  <2>1. p \in 1 .. l - 1
    BY <1>1, <1>3
  <2>2. code'[p].index \in SetAt(l)'
    BY <1>8, <2>1 DEF SetAt
  <2> QED
    BY <1>3, <2>2 DEF SetByEnd, SetAt
<1> QED
  BY <1>2, <1>5, <1>7, <1>8

(* The variables and what is stored                                           *)
LEMMA VarsOf ==
  ASSUME NEW v
  PROVE  v \in Vars <=> \/ v \in ScopeVars(root)
                        \/ \E i \in DOMAIN contexts : v \in ScopeVars(contexts[i].scope)
                        \/ \E t \in DOMAIN pool : v \in ScopeVars(pool[t].handles)
BY Zenon DEF Vars

LEMMA VarIn ==
  ASSUME NEW scope, NEW v
  PROVE  v \in ScopeVars(scope) <=>
           \E k \in DOMAIN scope : /\ scope[k].kind = "var"
                                   /\ v = <<scope[k].index, scope[k].mod, scope[k].type>>
BY DEF ScopeVars

LEMMA SlotBounds ==
  ASSUME FrontInv
  PROVE  (\A v \in Vars : v[1] < gvar) /\ (\A s \in Stores : s[1] < gvar)
<1>1. \A k \in DOMAIN root : root[k].index < gvar
  BY DEF FrontInv, Kept, HandleOK
<1>2. \A t \in 1 .. Len(pool) : \A k \in DOMAIN pool[t].handles : pool[t].handles[k].index < gvar
  BY DEF FrontInv, Kept, HandleOK
<1>3. \A i \in DOMAIN contexts : \A k \in DOMAIN contexts[i].scope : contexts[i].scope[k].index < gvar
  <2>1. CASE contexts = <<>>
    BY <2>1
  <2>2. CASE contexts # <<>>
    BY <2>2 DEF FrontInv, ContextsInv, Sound, HandleOK
  <2> QED
    BY <2>1, <2>2
<1>4. DOMAIN pool = 1 .. Len(pool) /\ DOMAIN code = 1 .. Len(code)
  BY LenProperties DEF FrontInv, FrontTyped
<1>5. ASSUME NEW v \in Vars
      PROVE  v[1] < gvar
  <2>1. CASE v \in ScopeVars(root)
    BY <1>1, <2>1 DEF ScopeVars
  <2>2. CASE \E i \in DOMAIN contexts : v \in ScopeVars(contexts[i].scope)
    BY <1>3, <2>2 DEF ScopeVars
  <2>3. CASE \E t \in DOMAIN pool : v \in ScopeVars(pool[t].handles)
    BY <1>2, <1>4, <2>3 DEF ScopeVars
  <2> QED
    BY <2>1, <2>2, <2>3, VarsOf
<1>6. ASSUME NEW s \in Stores
      PROVE  s[1] < gvar
  <2>1. CASE \E i \in DOMAIN globals : s = <<i, globals[i]>>
    BY <2>1 DEF FrontInv, Kept
  <2>2. CASE \E p \in DOMAIN code : Storing(code[p]) /\ s = <<code[p].index, code[p].owner>>
    BY <2>2 DEF FrontInv, CodeInv
  <2> QED
    BY <2>1, <2>2 DEF Stores
<1> QED
  BY <1>5, <1>6

LEMMA SlotsGrow ==
  ASSUME FrontTyped, SlotsAgree, \A v \in Vars : v[1] < gvar, \A s \in Stores : s[1] < gvar,
         NEW m, NEW n, NEW t,
         Vars' \subseteq Vars \cup {<<gvar, m, t>>},
         Stores' \subseteq Stores \cup {<<gvar, <<m, n, t>>>>}
  PROVE  SlotsAgree'
<1>1. PICK slot \in Nat : slot = gvar
  BY DEF FrontTyped
<1>2. PICK vars, stores : vars = Vars' /\ stores = Stores'
  OBVIOUS
<1>3. /\ \A v \in vars : v \in Vars \/ v = <<slot, m, t>>
      /\ \A s \in stores : s \in Stores \/ s = <<slot, <<m, n, t>>>>
  BY <1>1, <1>2
<1>4. (\A v \in Vars : v[1] # slot) /\ (\A s \in Stores : s[1] # slot)
  BY <1>1
<1>5. \A v, w \in vars : v[1] = w[1] => v = w
  BY <1>3, <1>4 DEF SlotsAgree
<1>6. ASSUME NEW v \in vars, NEW s \in stores, v[1] = s[1]
      PROVE  <<s[2][1], s[2][3]>> = <<v[2], v[3]>>
  <2>1. CASE v = <<slot, m, t>>
    BY <1>3, <1>4, <1>6, <2>1
  <2>2. CASE v \in Vars
    BY <1>3, <1>4, <1>6, <2>2 DEF SlotsAgree
  <2> QED
    BY <1>3, <2>1, <2>2
<1> QED
  BY <1>2, <1>5, <1>6 DEF SlotsAgree

(* The code                                                                   *)
CodeStep ==
  /\ Len(code') <= Len(code) + 1
  /\ \A p \in 1 .. Len(code') : p = Len(code) + 1 =>
       /\ Storing(code'[p]) => code'[p].index < gvar'
       /\ code'[p].op = "load" /\ ~raised => code'[p].index \in SetByEnd
       /\ code'[p].op = "enter" =>
            /\ code'[p].index = Len(entries) + 1 /\ code'[p].index = Len(entries')
            /\ \E i \in 2 .. Len(contexts') : contexts'[i].mod = code'[p].index
  /\ \A i \in 2 .. Len(contexts) :
       \/ entries'[contexts[i].mod].type # Unsealed
       \/ \E j \in 2 .. Len(contexts') : contexts'[j].mod = contexts[i].mod

LEMMA CodeGrows ==
  ASSUME FrontInv, contexts # <<>>, FrontTyped', Extends, ApartIndex' = ApartIndex, CodeStep
  PROVE  CodeInv'
<1> USE DEF CodeStep
<1>1. /\ Len(code) \in Nat /\ Len(code') \in Nat /\ Len(code) <= Len(code')
      /\ \A p \in 1 .. Len(code) : code'[p] = code[p]
      /\ DOMAIN code = 1 .. Len(code) /\ DOMAIN code' = 1 .. Len(code')
      /\ Len(entries) \in Nat /\ Len(entries') \in Nat /\ Len(entries) <= Len(entries')
      /\ gvar \in Nat /\ gvar' \in Nat /\ gvar <= gvar'
  BY LenProperties DEF FrontInv, FrontTyped, Extends
<1>2. CodeInv /\ point.mods \in 1 .. Len(entries) /\ \A i \in DOMAIN ran : ran[i] \in 1 .. Len(entries)
  BY DEF FrontInv, PointKept, Kept
<1>3. \A p \in 1 .. Len(code') : p \in 1 .. Len(code) \/ p = Len(code) + 1
  BY <1>1
<1>4. \A m \in 1 .. Len(entries) : Sealed(m) => entries'[m] = entries[m]
  BY DEF Extends
<1>5. raised' = raised /\ ran' = ran /\ point' = point
  BY DEF Extends
<1>6. ASSUME NEW p \in 1 .. Len(code'), Storing(code'[p])
      PROVE  code'[p].index < gvar'
  <2>1. CASE p \in 1 .. Len(code)
    <3>1. code[p].index < gvar
      BY <1>1, <1>2, <1>6, <2>1 DEF CodeInv
    <3>2. code[p] \in Instr
      BY <2>1, ElementOfSeq DEF FrontInv, FrontTyped
    <3>3. code[p].index \in Nat
      BY <3>2 DEF Instr
    <3> QED
      BY <1>1, <2>1, <3>1, <3>3
  <2> QED
    BY <1>3, <1>6, <2>1
<1>7. ASSUME ~raised', NEW p \in 1 .. Len(code'), code'[p].op = "load"
      PROVE  code'[p].index \in SetAt(p)'
  <2>1. p \in 1 .. Len(code) + 1 /\ SetAt(p)' = SetAt(p)
    BY <1>1, <1>3, SetStays DEF FrontInv
  <2>2. CASE p \in 1 .. Len(code)
    BY <1>1, <1>2, <1>5, <1>7, <2>1, <2>2 DEF CodeInv
  <2>3. CASE p = Len(code) + 1
    BY <1>5, <1>7, <2>1, <2>3 DEF SetByEnd
  <2> QED
    BY <1>3, <2>2, <2>3
<1>8. ASSUME NEW p \in 1 .. Len(code), code[p].op = "enter"
      PROVE  /\ code[p].index \in point.mods + 1 .. Len(entries)
             /\ code[p].index \in point.mods + 1 .. Len(entries')
             /\ \/ entries'[code[p].index].type # Unsealed
                \/ \E i \in 2 .. Len(contexts') : contexts'[i].mod = code[p].index
             /\ \A i \in DOMAIN ran : ran[i] # code[p].index
             /\ \A q \in 1 .. Len(code) : code[q].op = "enter" /\ code[q].index = code[p].index => q = p
  <2>1. /\ code[p].index \in point.mods + 1 .. Len(entries)
        /\ Sealed(code[p].index) \/ \E i \in 2 .. Len(contexts) : contexts[i].mod = code[p].index
        /\ \A i \in DOMAIN ran : ran[i] # code[p].index
        /\ \A q \in 1 .. Len(code) : code[q].op = "enter" /\ code[q].index = code[p].index => q = p
    BY <1>1, <1>2, <1>8 DEF CodeInv
  <2>2. code[p].index \in 1 .. Len(entries) /\ code[p].index \in point.mods + 1 .. Len(entries')
    BY <1>1, <1>2, <2>1
  <2>3. CASE Sealed(code[p].index)
    BY <1>4, <2>1, <2>2, <2>3 DEF Sealed
  <2>4. CASE ~Sealed(code[p].index)
    BY <2>1, <2>2, <2>4
  <2> QED
    BY <2>1, <2>2, <2>3, <2>4
<1>9. ASSUME NEW p \in 1 .. Len(code'), code'[p].op = "enter"
      PROVE  /\ code'[p].index \in point.mods + 1 .. Len(entries')
             /\ \/ entries'[code'[p].index].type # Unsealed
                \/ \E i \in 2 .. Len(contexts') : contexts'[i].mod = code'[p].index
             /\ \A i \in DOMAIN ran : ran[i] # code'[p].index
             /\ \A q \in 1 .. Len(code') : code'[q].op = "enter" /\ code'[q].index = code'[p].index => q = p
  <2>1. CASE p \in 1 .. Len(code)
    <3>1. ASSUME NEW q \in 1 .. Len(code'), code'[q].op = "enter", code'[q].index = code'[p].index
          PROVE  q = p
      <4>1. CASE q \in 1 .. Len(code)
        BY <1>1, <1>8, <1>9, <2>1, <3>1, <4>1
      <4>2. CASE q = Len(code) + 1
        <5>1. code'[q].index = Len(entries) + 1
          BY <3>1, <4>2
        <5>2. code'[p].index \in point.mods + 1 .. Len(entries)
          BY <1>1, <1>8, <1>9, <2>1
        <5> QED
          BY <1>1, <1>2, <3>1, <5>1, <5>2
      <4> QED
        BY <1>3, <4>1, <4>2
    <3> QED
      BY <1>1, <1>8, <1>9, <2>1, <3>1
  <2>2. CASE p = Len(code) + 1
    <3>1. /\ code'[p].index = Len(entries) + 1 /\ code'[p].index = Len(entries')
          /\ \E i \in 2 .. Len(contexts') : contexts'[i].mod = code'[p].index
      BY <1>9, <2>2
    <3>2. code'[p].index \in point.mods + 1 .. Len(entries')
      BY <1>1, <1>2, <3>1
    <3>3. \A i \in DOMAIN ran : ran[i] # code'[p].index
      BY <1>1, <1>2, <3>1
    <3>4. ASSUME NEW q \in 1 .. Len(code'), code'[q].op = "enter", code'[q].index = code'[p].index
          PROVE  q = p
      <4>1. CASE q \in 1 .. Len(code)
        <5>1. code'[q].index \in point.mods + 1 .. Len(entries)
          BY <1>1, <1>8, <3>4, <4>1
        <5> QED
          BY <1>1, <1>2, <3>1, <3>4, <5>1
      <4> QED
        BY <1>3, <2>2, <4>1
    <3> QED
      BY <3>1, <3>2, <3>3, <3>4
  <2> QED
    BY <1>3, <2>1, <2>2
<1> QED
  BY <1>1, <1>5, <1>6, <1>7, <1>9 DEF CodeInv, Sealed

(* The scopes being compiled                                                  *)
LEMMA ScopeGoesOn ==
  ASSUME root \in Scope, NEW s \in Scope, NEW u, Grown(s, u), Continues(s), Numbered(s)
  PROVE  Continues(u) /\ Numbered(u)
<1>1. u \in Scope /\ Size(s) \in Nat /\ Size(u) \in Nat /\ Size(root) \in Nat /\ Size(s) <= Size(u)
  BY ScopeType DEF Grown
<1>2. Size(root) <= Size(s)
  <2>1. IsFiniteSet(DOMAIN s) /\ DOMAIN root \subseteq DOMAIN s
    BY ScopeType DEF Continues
  <2> QED
    BY <2>1, FS_Subset DEF Size
<1>3. ASSUME NEW k \in DOMAIN u
      PROVE  /\ IF k \in DOMAIN root THEN u[k] = root[k] ELSE u[k].commit >= Size(root)
             /\ u[k].commit < Size(u)
  <2>1. CASE k \in DOMAIN s
    <3>1. s[k] \in HandleSet
      BY <2>1, ScopeType
    <3>2. s[k].commit \in Nat /\ u[k] = s[k] /\ s[k].commit < Size(s)
      BY <2>1, <3>1 DEF HandleSet, Grown, Numbered
    <3> QED
      BY <1>1, <2>1, <3>2 DEF Continues
  <2>2. CASE k \notin DOMAIN s
    <3>1. u[k].commit \in Size(s) .. Size(u) - 1 /\ k \notin DOMAIN root
      BY <1>3, <2>2 DEF Grown, Continues
    <3> QED
      BY <1>1, <1>2, <3>1
  <2> QED
    BY <2>1, <2>2
<1> QED
  BY <1>3 DEF Continues, Numbered, Grown

LEMMA SoundStays ==
  ASSUME FrontTyped, FrontTyped', Extends, ApartIndex' = ApartIndex,
         NEW h \in HandleSet, Sound(h)
  PROVE  HandleOK(pool', h, Len(pool'), gvar') /\ (~raised => h.index \in SetByEnd') /\ Sound(h)'
<1>1. /\ Len(pool) \in Nat /\ Len(pool') \in Nat /\ Len(pool) <= Len(pool')
      /\ gvar \in Nat /\ gvar' \in Nat /\ gvar <= gvar'
  BY LenProperties DEF FrontTyped, Extends
<1>2. h.type \in 1 .. Len(pool) /\ h.index < gvar /\ h.index \in Nat /\ pool'[h.type] = pool[h.type]
  BY DEF Sound, HandleOK, HandleSet, Extends
<1>3. HandleOK(pool', h, Len(pool'), gvar')
  BY <1>1, <1>2 DEF Sound, HandleOK
<1>4. ~raised => h.index \in SetByEnd'
  BY SetStays DEF Sound
<1>5. raised' = raised
  BY DEF Extends
<1> QED
  BY <1>3, <1>4, <1>5 DEF Sound, HandleOK

ScopesStep ==
  /\ Len(contexts') \in 1 .. Len(contexts) + 1
  /\ \A i \in 1 .. Len(contexts') : i <= Len(contexts) =>
       /\ contexts'[i].mod = contexts[i].mod
       /\ entries'[contexts[i].mod].type = entries[contexts[i].mod].type
       /\ Grown(contexts[i].scope, contexts'[i].scope)
       /\ \A k \in DOMAIN contexts'[i].scope \ DOMAIN contexts[i].scope :
            /\ HandleOK(pool', contexts'[i].scope[k], Len(pool'), gvar')
            /\ ~raised => contexts'[i].scope[k].index \in SetByEnd'
  /\ \A i \in 1 .. Len(contexts') : i > Len(contexts) =>
       /\ Len(entries') = Len(entries) + 1 /\ entries'[Len(entries) + 1].type = Unsealed
       /\ contexts'[i].mod = Len(entries) + 1 /\ contexts'[i].scope = <<>>

LEMMA ContextsGrow ==
  ASSUME FrontInv, contexts # <<>>, FrontTyped', Extends, ApartIndex' = ApartIndex, ScopesStep
  PROVE  ContextsInv'
<1> USE DEF ScopesStep
<1>1. /\ Len(contexts) \in Nat \ {0} /\ Len(contexts') \in Nat \ {0}
      /\ DOMAIN contexts = 1 .. Len(contexts) /\ DOMAIN contexts' = 1 .. Len(contexts')
      /\ Len(entries) \in Nat /\ Len(entries') \in Nat /\ Len(entries) <= Len(entries')
  BY LenProperties, EmptySeq DEF FrontInv, FrontTyped, Extends
<1>2. /\ ContextsInv /\ point.mods \in 1 .. Len(entries) /\ root \in Scope
      /\ entry' = entry /\ root' = root /\ raised' = raised /\ point' = point
  BY DEF FrontInv, FrontTyped, PointKept, Kept, Extends
<1>3. \A i \in 1 .. Len(contexts) :
        /\ contexts[i].scope \in Scope
        /\ \A k \in DOMAIN contexts[i].scope : contexts[i].scope[k] \in HandleSet
  <2>1. \A i \in 1 .. Len(contexts) : contexts[i] \in ContextSet
    BY ElementOfSeq DEF FrontInv, FrontTyped
  <2>2. \A i \in 1 .. Len(contexts) : contexts[i].scope \in Scope
    BY <2>1 DEF ContextSet
  <2> QED
    BY <2>2, ScopeType
<1>4. 1 \in 1 .. Len(contexts') /\ 1 <= Len(contexts) /\ 1 \in 1 .. Len(contexts)
  BY <1>1
<1>5. /\ contexts'[1].mod = contexts[1].mod /\ Grown(contexts[1].scope, contexts'[1].scope)
      /\ entries'[contexts[1].mod].type = entries[contexts[1].mod].type
  BY <1>4
<1>6. /\ contexts[1].mod \in 1 .. Len(entries')
      /\ entry \in {"eval", "shared"} => contexts[1].mod = RootMod
      /\ entry = "separate" => contexts[1].mod = point.mods + 1 /\ entries'[contexts[1].mod].type = Unsealed
      /\ entry # "separate" => contexts[1].mod <= point.mods
  <2>1. /\ contexts[1].mod \in 1 .. Len(entries)
        /\ entry \in {"eval", "shared"} => contexts[1].mod = RootMod
        /\ entry = "separate" => contexts[1].mod = point.mods + 1 /\ ~Sealed(contexts[1].mod)
        /\ entry # "separate" => contexts[1].mod <= point.mods
    BY <1>2 DEF ContextsInv
  <2> QED
    BY <1>1, <1>5, <2>1 DEF Sealed
<1>7. contexts[1].mod = RootMod => Continues(contexts'[1].scope) /\ Numbered(contexts'[1].scope)
  BY <1>2, <1>3, <1>4, <1>5, ScopeGoesOn DEF ContextsInv
<1>8. \A i \in 1 .. Len(contexts') : i <= Len(contexts) \/ i = Len(contexts) + 1
  BY <1>1
<1>9. ASSUME NEW i \in 2 .. Len(contexts')
      PROVE  /\ contexts'[i].mod \in point.mods + 1 .. Len(entries')
             /\ entries'[contexts'[i].mod].type = Unsealed
             /\ \A j \in 1 .. i - 1 : contexts'[j].mod < contexts'[i].mod
  <2>1. i \in 1 .. Len(contexts') /\ \A j \in 1 .. i - 1 : j \in 1 .. Len(contexts') /\ j <= Len(contexts)
    BY <1>1
  <2>2. CASE i <= Len(contexts)
    <3>1. i \in 2 .. Len(contexts) /\ contexts'[i].mod = contexts[i].mod
      BY <1>1, <2>1, <2>2
    <3>2. /\ contexts[i].mod \in point.mods + 1 .. Len(entries) /\ ~Sealed(contexts[i].mod)
          /\ \A j \in 1 .. i - 1 : contexts[j].mod < contexts[i].mod
      BY <1>2, <3>1 DEF ContextsInv
    <3>3. entries'[contexts[i].mod].type = entries[contexts[i].mod].type
      BY <2>1, <2>2
    <3>4. contexts'[i].mod \in point.mods + 1 .. Len(entries')
      BY <1>1, <1>2, <3>1, <3>2
    <3> QED
      BY <2>1, <3>1, <3>2, <3>3, <3>4 DEF Sealed
  <2>3. CASE i = Len(contexts) + 1
    <3>1. /\ Len(entries') = Len(entries) + 1 /\ entries'[Len(entries) + 1].type = Unsealed
          /\ contexts'[i].mod = Len(entries) + 1
      BY <1>1, <2>1, <2>3
    <3>2. \A j \in 1 .. Len(contexts) : contexts[j].mod \in 1 .. Len(entries)
      <4>1. \A j \in 2 .. Len(contexts) : contexts[j].mod \in point.mods + 1 .. Len(entries)
        BY <1>2 DEF ContextsInv
      <4>2. contexts[1].mod \in 1 .. Len(entries)
        BY <1>2 DEF ContextsInv
      <4> QED
        BY <1>1, <1>2, <4>1, <4>2
    <3>3. \A j \in 1 .. i - 1 : contexts'[j].mod = contexts[j].mod /\ contexts[j].mod \in 1 .. Len(entries)
      BY <1>1, <2>1, <2>3, <3>2
    <3> QED
      BY <1>1, <1>2, <3>1, <3>3
  <2> QED
    BY <1>8, <2>1, <2>2, <2>3
<1>10. ASSUME NEW i \in 1 .. Len(contexts'), NEW k \in DOMAIN contexts'[i].scope
       PROVE  /\ HandleOK(pool', contexts'[i].scope[k], Len(pool'), gvar')
              /\ ~raised => contexts'[i].scope[k].index \in SetByEnd'
  <2>1. CASE i <= Len(contexts)
    <3>1. CASE k \in DOMAIN contexts[i].scope
      <4>1. i \in 1 .. Len(contexts) /\ contexts'[i].scope[k] = contexts[i].scope[k]
        BY <1>1, <2>1, <3>1 DEF Grown
      <4>2. Sound(contexts[i].scope[k])
        BY <1>1, <1>2, <3>1, <4>1 DEF ContextsInv
      <4>3. contexts[i].scope[k] \in HandleSet
        BY <1>3, <3>1, <4>1
      <4> QED
        BY <4>1, <4>2, <4>3, SoundStays DEF FrontInv
    <3>2. CASE k \notin DOMAIN contexts[i].scope
      BY <1>10, <2>1, <3>2
    <3> QED
      BY <3>1, <3>2
  <2>2. CASE i = Len(contexts) + 1
    <3>1. contexts'[i].scope = <<>>
      BY <1>1, <2>2
    <3> QED
      BY <1>10, <3>1
  <2> QED
    BY <1>8, <2>1, <2>2
<1>11. \A i \in DOMAIN contexts' : \A k \in DOMAIN contexts'[i].scope :
         HandleOK(pool', contexts'[i].scope[k], Len(pool'), gvar')
         /\ (~raised' => contexts'[i].scope[k].index \in SetByEnd')
  BY <1>1, <1>2, <1>10
<1>12. entry' \in Compilations
  BY <1>2 DEF ContextsInv
<1>13. contexts'[1].mod = RootMod => Continues(contexts[1].scope)' /\ Numbered(contexts[1].scope)'
  BY <1>2, <1>5, <1>7 DEF Continues, Numbered
<1> QED
  BY <1>2, <1>5, <1>6, <1>9, <1>11, <1>12, <1>13 DEF ContextsInv, Sealed, Sound, HandleOK

(* Modules, types and slots                                                   *)
TypesStep ==
  /\ \A m \in 1 .. Len(entries') : entries'[m].type # Unsealed =>
       \/ m \in 1 .. Len(entries) /\ Sealed(m)
       \/ entries'[m].type \in 1 .. Len(pool') /\ pool'[entries'[m].type].mod = m
  /\ \A t \in 1 .. Len(pool') : t > Len(pool) =>
       /\ \A k \in DOMAIN pool'[t].handles : HandleOK(pool', pool'[t].handles[k], Len(pool'), gvar')
       /\ \A c \in pool'[t].children : c[1] \in 1 .. Len(pool') /\ pool'[c[1]].mod # None
       /\ pool'[t].mod # None => /\ pool'[t].mod \in 2 .. Len(entries')
                                 /\ entries'[pool'[t].mod].type = t /\ pool'[t].index < gvar'

LEMMA KeptGrows ==
  ASSUME FrontTyped, FrontTyped', Kept(Len(entries), Len(pool), gvar),
         Len(entries) <= Len(entries'), Len(pool) <= Len(pool'), gvar <= gvar',
         \A t \in 1 .. Len(pool) : pool'[t] = pool[t],
         \A m \in 1 .. Len(entries) : Sealed(m) => entries'[m] = entries[m],
         TypesStep,
         root' = root \/ \A k \in DOMAIN root' : HandleOK(pool', root'[k], Len(pool'), gvar'),
         globals' = globals \/ \A i \in DOMAIN globals' : i < gvar',
         ran' = ran \/ \A i \in DOMAIN ran' : ran'[i] \in 1 .. Len(entries') /\ entries'[ran'[i]].type # Unsealed,
         \A m \in apart' : m \in apart \/ (m \in 1 .. Len(entries') /\ entries'[m].type # Unsealed)
  PROVE  Kept(Len(entries), Len(pool), gvar)'
<1> USE DEF TypesStep
<1>1. /\ Len(entries) \in Nat /\ Len(entries') \in Nat /\ Len(pool) \in Nat /\ Len(pool') \in Nat
      /\ gvar \in Nat /\ gvar' \in Nat /\ DOMAIN globals \subseteq Nat
  BY LenProperties DEF FrontTyped
<1>2. Len(entries') \in 1 .. Len(entries') /\ Len(pool') \in 0 .. Len(pool') /\ gvar' \in 0 .. gvar'
  <2>1. 1 <= Len(entries)
    BY DEF Kept
  <2> QED
    BY <1>1, <2>1
<1>3. ASSUME NEW h \in HandleSet, HandleOK(pool, h, Len(pool), gvar)
      PROVE  HandleOK(pool', h, Len(pool'), gvar')
  <2>1. h.type \in 1 .. Len(pool) /\ h.index < gvar /\ h.index \in Nat
    BY <1>3 DEF HandleOK, HandleSet
  <2> QED
    BY <1>1, <1>3, <2>1 DEF HandleOK
<1>4. \A k \in DOMAIN root' : HandleOK(pool', root'[k], Len(pool'), gvar')
  <2>1. CASE root' = root
    <3>1. \A k \in DOMAIN root : root[k] \in HandleSet /\ HandleOK(pool, root[k], Len(pool), gvar)
      BY ScopeType DEF FrontTyped, Kept
    <3> QED
      BY <1>3, <2>1, <3>1
  <2> QED
    BY <2>1
<1>5. ASSUME NEW t \in 1 .. Len(pool')
      PROVE  /\ \A k \in DOMAIN pool'[t].handles : HandleOK(pool', pool'[t].handles[k], Len(pool'), gvar')
             /\ \A c \in pool'[t].children : c[1] \in 1 .. Len(pool') /\ pool'[c[1]].mod # None
             /\ pool'[t].mod # None => /\ pool'[t].mod \in 2 .. Len(entries')
                                       /\ entries'[pool'[t].mod].type = t /\ pool'[t].index < gvar'
  <2>1. CASE t \in 1 .. Len(pool)
    <3>1. /\ pool'[t] = pool[t] /\ pool[t].handles \in Scope /\ pool[t].index \in Nat
          /\ \A k \in DOMAIN pool[t].handles : pool[t].handles[k] \in HandleSet
      BY <2>1, TypeFields, ScopeType DEF FrontTyped
    <3>2. \A k \in DOMAIN pool[t].handles : HandleOK(pool', pool[t].handles[k], Len(pool'), gvar')
      BY <1>3, <2>1, <3>1 DEF Kept
    <3>3. \A c \in pool[t].children : c[1] \in 1 .. Len(pool') /\ pool'[c[1]].mod # None
      <4>1. \A c \in pool[t].children : c[1] \in 1 .. Len(pool) /\ pool[c[1]].mod # None
        BY <2>1 DEF Kept
      <4> QED
        BY <1>1, <4>1
    <3>4. pool[t].mod # None => /\ pool[t].mod \in 2 .. Len(entries) /\ entries[pool[t].mod].type = t
                                /\ pool[t].index < gvar
      BY <2>1 DEF Kept
    <3>5. pool[t].mod # None => entries'[pool[t].mod].type = t
      <4>1. pool[t].mod \in 2 .. Len(entries) => pool[t].mod \in 1 .. Len(entries)
        BY <1>1
      <4>2. t # Unsealed
        BY <2>1 DEF Unsealed
      <4> QED
        BY <3>4, <4>1, <4>2 DEF Sealed
    <3> QED
      BY <1>1, <3>1, <3>2, <3>3, <3>4, <3>5
  <2>2. CASE t > Len(pool)
    BY <2>2
  <2> QED
    BY <1>1, <2>1, <2>2
<1>6. ASSUME NEW m \in 1 .. Len(entries), Sealed(m)
      PROVE  /\ m \in 1 .. Len(entries') /\ entries'[m].type # Unsealed
             /\ entries'[m].type \in 1 .. Len(pool') /\ pool'[entries'[m].type].mod = m
  <2>1. entries[m].type \in 1 .. Len(pool) /\ pool[entries[m].type].mod = m /\ entries'[m] = entries[m]
    BY <1>6 DEF Kept
  <2> QED
    BY <1>1, <1>6, <2>1 DEF Sealed
<1>7. \A m \in 1 .. Len(entries') : entries'[m].type # Unsealed =>
        entries'[m].type \in 1 .. Len(pool') /\ pool'[entries'[m].type].mod = m
  BY <1>6
<1>8. \A i \in DOMAIN globals' : i < gvar'
  <2>1. \A i \in DOMAIN globals : i < gvar /\ i \in Nat
    BY <1>1 DEF Kept
  <2>2. \A i \in DOMAIN globals : i < gvar'
    BY <1>1, <2>1
  <2> QED
    BY <2>2
<1>9. \A i \in DOMAIN ran' : ran'[i] \in 1 .. Len(entries') /\ entries'[ran'[i]].type # Unsealed
  BY <1>6 DEF Kept
<1>10. \A m \in apart' : m \in 1 .. Len(entries') /\ entries'[m].type # Unsealed
  BY <1>6 DEF Kept
<1> QED
  BY <1>2, <1>4, <1>5, <1>7, <1>8, <1>9, <1>10 DEF Kept, Sealed

LEMMA StoresOf ==
  ASSUME NEW s
  PROVE  s \in Stores <=> \/ \E i \in DOMAIN globals : s = <<i, globals[i]>>
                          \/ \E p \in DOMAIN code : Storing(code[p]) /\ s = <<code[p].index, code[p].owner>>
BY Zenon DEF Stores

LEMMA VarsGrow ==
  ASSUME FrontTyped, FrontTyped', Extends, ScopesStep, NEW m, NEW t,
         \A i \in 1 .. Len(contexts') : i <= Len(contexts) =>
           \A k \in DOMAIN contexts'[i].scope \ DOMAIN contexts[i].scope :
             LET h == contexts'[i].scope[k]
             IN  h.kind = "var" => h.index = gvar /\ h.mod = m /\ h.type = t,
         \A d \in 1 .. Len(pool') : d > Len(pool) => ScopeVars(pool'[d].handles) \subseteq Vars
  PROVE  Vars' \subseteq Vars \cup {<<gvar, m, t>>}
<1>1. /\ DOMAIN pool = 1 .. Len(pool) /\ DOMAIN pool' = 1 .. Len(pool')
      /\ DOMAIN contexts = 1 .. Len(contexts) /\ DOMAIN contexts' = 1 .. Len(contexts')
      /\ Len(pool) \in Nat /\ Len(pool') \in Nat /\ Len(contexts) \in Nat /\ Len(contexts') \in Nat
  BY LenProperties DEF FrontTyped
<1>2. ASSUME NEW v \in Vars'
      PROVE  v \in Vars \/ v = <<gvar, m, t>>
  <2>1. \/ v \in ScopeVars(root)'
        \/ \E i \in DOMAIN contexts' : v \in ScopeVars(contexts'[i].scope)
        \/ \E d \in DOMAIN pool' : v \in ScopeVars(pool'[d].handles)
    <3>1. v \in Vars' <=> \/ v \in ScopeVars(root)'
                          \/ \E i \in DOMAIN contexts' : v \in ScopeVars(contexts'[i].scope)
                          \/ \E d \in DOMAIN pool' : v \in ScopeVars(pool'[d].handles)
      BY Zenon DEF Vars
    <3> QED
      BY <1>2, <3>1
  <2>2. CASE v \in ScopeVars(root)'
    <3>1. v \in ScopeVars(root)
      BY <2>2 DEF Extends, ScopeVars
    <3> QED
      BY <3>1, VarsOf
  <2>3. ASSUME NEW i \in DOMAIN contexts', v \in ScopeVars(contexts'[i].scope)
        PROVE  v \in Vars \/ v = <<gvar, m, t>>
    <3>1. PICK k \in DOMAIN contexts'[i].scope :
            /\ contexts'[i].scope[k].kind = "var"
            /\ v = <<contexts'[i].scope[k].index, contexts'[i].scope[k].mod, contexts'[i].scope[k].type>>
      BY <2>3, VarIn
    <3>2. CASE i <= Len(contexts) /\ k \in DOMAIN contexts[i].scope
      <4>1. contexts'[i].scope[k] = contexts[i].scope[k] /\ i \in DOMAIN contexts
        BY <1>1, <2>3, <3>2 DEF ScopesStep, Grown
      <4>2. v \in ScopeVars(contexts[i].scope)
        BY <3>1, <3>2, <4>1, VarIn
      <4> QED
        BY <4>1, <4>2, VarsOf
    <3>3. CASE i <= Len(contexts) /\ k \notin DOMAIN contexts[i].scope
      BY <1>1, <2>3, <3>1, <3>3
    <3>4. CASE ~(i <= Len(contexts))
      <4>1. contexts'[i].scope = <<>>
        BY <1>1, <2>3, <3>4 DEF ScopesStep
      <4> QED
        BY <3>1, <4>1, EmptyScope
    <3> QED
      BY <3>2, <3>3, <3>4
  <2>4. ASSUME NEW d \in DOMAIN pool', v \in ScopeVars(pool'[d].handles)
        PROVE  v \in Vars
    <3>1. CASE d \in 1 .. Len(pool)
      <4>1. pool'[d] = pool[d] /\ d \in DOMAIN pool
        BY <1>1, <3>1 DEF Extends
      <4> QED
        BY <2>4, <4>1, VarsOf
    <3>2. CASE d > Len(pool)
      BY <1>1, <2>4, <3>2
    <3> QED
      BY <1>1, <2>4, <3>1, <3>2
  <2> QED
    BY <2>1, <2>2, <2>3, <2>4
<1> QED
  BY <1>2

LEMMA StoresGrow ==
  ASSUME FrontTyped, FrontTyped', Extends, Len(code') <= Len(code) + 1, NEW o,
         \A p \in 1 .. Len(code') : p = Len(code) + 1 /\ Storing(code'[p]) =>
           code'[p].index = gvar /\ code'[p].owner = o
  PROVE  Stores' \subseteq Stores \cup {<<gvar, o>>}
<1>1. /\ DOMAIN code = 1 .. Len(code) /\ DOMAIN code' = 1 .. Len(code')
      /\ Len(code) \in Nat /\ Len(code') \in Nat
  BY LenProperties DEF FrontTyped
<1>2. ASSUME NEW s \in Stores'
      PROVE  s \in Stores \/ s = <<gvar, o>>
  <2>1. \/ \E i \in DOMAIN globals' : s = <<i, globals'[i]>>
        \/ \E p \in DOMAIN code' : Storing(code'[p]) /\ s = <<code'[p].index, code'[p].owner>>
    <3>1. s \in Stores' <=> \/ \E i \in DOMAIN globals' : s = <<i, globals'[i]>>
                            \/ \E p \in DOMAIN code' : Storing(code'[p]) /\ s = <<code'[p].index, code'[p].owner>>
      BY Zenon DEF Stores
    <3> QED
      BY <1>2, <3>1
  <2>2. CASE \E i \in DOMAIN globals' : s = <<i, globals'[i]>>
    BY <2>2, StoresOf DEF Extends
  <2>3. ASSUME NEW p \in DOMAIN code', Storing(code'[p]), s = <<code'[p].index, code'[p].owner>>
        PROVE  s \in Stores \/ s = <<gvar, o>>
    <3>1. CASE p \in 1 .. Len(code)
      BY <1>1, <2>3, <3>1, StoresOf DEF Extends
    <3>2. CASE p = Len(code) + 1
      BY <1>1, <2>3, <3>2
    <3> QED
      BY <1>1, <2>3, <3>1, <3>2
  <2> QED
    BY <2>1, <2>2, <2>3
<1> QED
  BY <1>2

(* A statement keeps the invariant when what it adds is sound, set by the end *)
(* of the code, and takes no slot of another variable.                        *)
TypesSet ==
  \A t \in 1 .. Len(pool') : t > Len(pool) /\ ~raised =>
    /\ \A k \in DOMAIN pool'[t].handles : pool'[t].handles[k].index \in SetByEnd'
    /\ pool'[t].mod # None => pool'[t].index \in SetByEnd'

LEMMA StepKeeps ==
  ASSUME FrontInv, contexts # <<>>, FrontTyped', Extends, ScopesStep, CodeStep, TypesStep, TypesSet, SlotsAgree'
  PROVE  FrontInv'
<1>1. FrontTyped /\ PointKept /\ ContextsInv /\ entry \in Compilations
  BY DEF FrontInv, ContextsInv
<1>2. PointKept' /\ ApartIndex' = ApartIndex
  BY <1>1, PointStays
<1>3. ContextsInv' /\ contexts' # <<>>
  <2>1. Len(contexts') >= 1 /\ Len(<<>>) = 0
    BY EmptySeq DEF ScopesStep
  <2> QED
    BY <1>2, <2>1, ContextsGrow
<1>4. CodeInv'
  BY <1>2, CodeGrows
<1>5. Kept(Len(entries), Len(pool), gvar)'
  <2>1. Kept(Len(entries), Len(pool), gvar)
    BY DEF FrontInv
  <2>2. /\ Len(entries) <= Len(entries') /\ Len(pool) <= Len(pool') /\ gvar <= gvar'
        /\ \A t \in 1 .. Len(pool) : pool'[t] = pool[t]
        /\ \A m \in 1 .. Len(entries) : Sealed(m) => entries'[m] = entries[m]
        /\ root' = root /\ globals' = globals /\ ran' = ran /\ \A m \in apart' : m \in apart
    BY DEF Extends
  <2> QED
    BY <1>1, <2>1, <2>2, KeptGrows
<1>6. ~raised' => SetFor(Len(pool), SetByEnd)'
  <2>1. SUFFICES ASSUME ~raised
                 PROVE  /\ \A k \in DOMAIN root : root[k].index \in SetByEnd'
                        /\ \A t \in 1 .. Len(pool') :
                             /\ \A k \in DOMAIN pool'[t].handles : pool'[t].handles[k].index \in SetByEnd'
                             /\ pool'[t].mod # None => pool'[t].index \in SetByEnd'
    BY DEF SetFor, Extends
  <2>2. SetFor(Len(pool), SetByEnd) /\ SetByEnd \subseteq SetByEnd'
    BY <1>1, <1>2, <2>1, SetStays DEF FrontInv
  <2>3. ASSUME NEW t \in 1 .. Len(pool')
        PROVE  /\ \A k \in DOMAIN pool'[t].handles : pool'[t].handles[k].index \in SetByEnd'
               /\ pool'[t].mod # None => pool'[t].index \in SetByEnd'
    <3>1. CASE t \in 1 .. Len(pool)
      <4>1. pool'[t] = pool[t]
        BY <3>1 DEF Extends
      <4> QED
        BY <2>2, <3>1, <4>1 DEF SetFor
    <3>2. CASE t > Len(pool)
      BY <2>1, <3>2 DEF TypesSet
    <3> QED
      <4>1. Len(pool) \in Nat /\ Len(pool') \in Nat
        BY <1>1, LenProperties DEF FrontTyped
      <4> QED
        BY <3>1, <3>2, <4>1
  <2> QED
    BY <2>2, <2>3 DEF SetFor
<1>7. Numbered(root)'
  BY DEF FrontInv, Numbered, Extends
<1>8. entry' # Idle /\ \A i, j \in DOMAIN ran' : ran'[i] = ran'[j] => i = j
  BY <1>1 DEF FrontInv, Extends, Compilations, Idle
<1>9. illegal' \subseteq ApartIndex'
  BY <1>2 DEF FrontInv, Extends
<1> QED
  BY <1>2, <1>3, <1>4, <1>5, <1>6, <1>7, <1>8, <1>9 DEF FrontInv

-----------------------------------------------------------------------------
(* The statements                                                             *)
LEMMA GrownRefl ==
  ASSUME NEW s \in Scope
  PROVE  Grown(s, s)
<1>1. Size(s) \in Nat
  BY ScopeType
<1> QED
  BY <1>1 DEF Grown

LEMMA CtxFacts ==
  ASSUME FrontInv, Compiling
  PROVE  /\ contexts # <<>> /\ contexts \in Seq(ContextSet) /\ Len(contexts) \in Nat \ {0}
         /\ DOMAIN contexts = 1 .. Len(contexts) /\ Ctx = contexts[Len(contexts)]
         /\ Ctx \in ContextSet /\ Ctx.mod \in Nat /\ Ctx.scope \in Scope /\ Ctx.queue \in Seq(Path)
         /\ Ctx.mod \in 1 .. Len(entries)
         /\ \A k \in DOMAIN Ctx.scope : Ctx.scope[k] \in HandleSet /\ Sound(Ctx.scope[k])
<1>1. /\ contexts # <<>> /\ contexts \in Seq(ContextSet) /\ Len(contexts) \in Nat \ {0}
      /\ DOMAIN contexts = 1 .. Len(contexts) /\ Ctx = contexts[Len(contexts)]
  BY LenProperties, EmptySeq DEF FrontInv, FrontTyped, Compiling, Ctx
<1>2. Ctx \in ContextSet
  BY <1>1, ElementOfSeq
<1>3. Ctx.mod \in Nat /\ Ctx.scope \in Scope /\ Ctx.queue \in Seq(Path)
  BY <1>2 DEF ContextSet
<1>4. Ctx.mod \in 1 .. Len(entries)
  <2>1. ContextsInv /\ point.mods \in 1 .. Len(entries) /\ Len(entries) \in Nat
    BY <1>1, LenProperties DEF FrontInv, FrontTyped, PointKept, Kept
  <2>2. \A i \in 2 .. Len(contexts) : contexts[i].mod \in point.mods + 1 .. Len(entries)
    BY <2>1 DEF ContextsInv
  <2>3. contexts[1].mod \in 1 .. Len(entries)
    BY <2>1 DEF ContextsInv
  <2> QED
    BY <1>1, <2>1, <2>2, <2>3
<1>5. \A k \in DOMAIN Ctx.scope : Sound(Ctx.scope[k])
  BY <1>1 DEF FrontInv, ContextsInv
<1>6. \A k \in DOMAIN Ctx.scope : Ctx.scope[k] \in HandleSet
  BY <1>3, ScopeType
<1> QED
  BY <1>1, <1>2, <1>3, <1>4, <1>5, <1>6

LEMMA WithCtxLemma ==
  ASSUME FrontInv, Compiling, NEW c \in ContextSet
  PROVE  /\ WithCtx(c) \in Seq(ContextSet) /\ Len(WithCtx(c)) = Len(contexts)
         /\ WithCtx(c)[Len(contexts)] = c
         /\ \A i \in 1 .. Len(contexts) - 1 : WithCtx(c)[i] = contexts[i]
<1>1. contexts \in Seq(ContextSet) /\ Len(contexts) \in 1 .. Len(contexts) /\ Len(contexts) \in Nat
  BY CtxFacts
<1>2. PICK u : u = [contexts EXCEPT ![Len(contexts)] = c]
  OBVIOUS
<1>3. /\ u \in Seq(ContextSet) /\ Len(u) = Len(contexts)
      /\ \A i \in 1 .. Len(contexts) : u[i] = IF i = Len(contexts) THEN c ELSE contexts[i]
  BY <1>1, <1>2, ExceptSeq
<1>4. u[Len(contexts)] = c /\ \A i \in 1 .. Len(contexts) - 1 : u[i] = contexts[i]
  BY <1>1, <1>3
<1>5. WithCtx(c) = u
  BY <1>2 DEF WithCtx
<1> QED
  BY <1>3, <1>4, <1>5

(* Only the scope of the module being compiled grows.                         *)
TopStep ==
  /\ entries' = entries /\ Len(contexts') = Len(contexts)
  /\ \A i \in 1 .. Len(contexts) - 1 : contexts'[i] = contexts[i]
  /\ contexts'[Len(contexts)].mod = Ctx.mod
  /\ Grown(Ctx.scope, contexts'[Len(contexts)].scope)
  /\ \A k \in DOMAIN contexts'[Len(contexts)].scope \ DOMAIN Ctx.scope :
       /\ HandleOK(pool', contexts'[Len(contexts)].scope[k], Len(pool'), gvar')
       /\ ~raised => contexts'[Len(contexts)].scope[k].index \in SetByEnd'

LEMMA TopGrows ==
  ASSUME FrontInv, Compiling, TopStep
  PROVE  /\ ScopesStep
         /\ \A i \in 2 .. Len(contexts) : \E j \in 2 .. Len(contexts') : contexts'[j].mod = contexts[i].mod
<1>1. Len(contexts) \in Nat \ {0} /\ Ctx = contexts[Len(contexts)] /\ contexts \in Seq(ContextSet)
  BY CtxFacts
<1>2. ASSUME NEW i \in 1 .. Len(contexts) - 1
      PROVE  Grown(contexts[i].scope, contexts[i].scope)
  <2>1. i \in 1 .. Len(contexts)
    BY <1>1
  <2>2. contexts[i] \in ContextSet
    BY <1>1, <2>1, ElementOfSeq
  <2>3. contexts[i].scope \in Scope
    BY <2>2 DEF ContextSet
  <2> QED
    BY <2>3, GrownRefl
<1>3. \A i \in 1 .. Len(contexts) : i \in 1 .. Len(contexts) - 1 \/ i = Len(contexts)
  BY <1>1
<1>4. \A i \in 1 .. Len(contexts) : contexts'[i].mod = contexts[i].mod
  BY <1>1, <1>3 DEF TopStep
<1>5. ASSUME NEW i \in 1 .. Len(contexts)
      PROVE  /\ Grown(contexts[i].scope, contexts'[i].scope)
             /\ \A k \in DOMAIN contexts'[i].scope \ DOMAIN contexts[i].scope :
                  /\ HandleOK(pool', contexts'[i].scope[k], Len(pool'), gvar')
                  /\ ~raised => contexts'[i].scope[k].index \in SetByEnd'
  <2>1. CASE i = Len(contexts)
    BY <1>1, <2>1 DEF TopStep
  <2>2. CASE i \in 1 .. Len(contexts) - 1
    BY <1>2, <2>2 DEF TopStep
  <2> QED
    BY <1>3, <2>1, <2>2
<1>6. Len(contexts') = Len(contexts) /\ entries' = entries
  BY DEF TopStep
<1>7. \A i \in 1 .. Len(contexts') : i <= Len(contexts)
  BY <1>1, <1>6
<1> QED
  BY <1>1, <1>4, <1>5, <1>6, <1>7 DEF ScopesStep

LEMMA NoTypes ==
  ASSUME FrontTyped, pool' = pool, entries' = entries
  PROVE  TypesStep /\ TypesSet
<1>1. Len(pool) \in Nat
  BY LenProperties DEF FrontTyped
<1>2. \A t \in 1 .. Len(pool) : ~(t > Len(pool))
  BY <1>1
<1> QED
  BY <1>2 DEF TypesStep, TypesSet, Sealed

LEMMA SlotsStep ==
  ASSUME FrontInv, FrontTyped', Extends, ScopesStep, CodeStep, NEW m, NEW n, NEW t,
         \A i \in 1 .. Len(contexts') : i <= Len(contexts) =>
           \A k \in DOMAIN contexts'[i].scope \ DOMAIN contexts[i].scope :
             LET h == contexts'[i].scope[k]
             IN  h.kind = "var" => h.index = gvar /\ h.mod = m /\ h.type = t,
         \A d \in 1 .. Len(pool') : d > Len(pool) => ScopeVars(pool'[d].handles) \subseteq Vars,
         \A p \in 1 .. Len(code') : p = Len(code) + 1 /\ Storing(code'[p]) =>
           code'[p].index = gvar /\ code'[p].owner = <<m, n, t>>
  PROVE  SlotsAgree'
<1>1. FrontTyped /\ SlotsAgree /\ Len(code') <= Len(code) + 1
  BY DEF FrontInv, CodeStep
<1>2. (\A v \in Vars : v[1] < gvar) /\ (\A s \in Stores : s[1] < gvar)
  BY SlotBounds
<1>3. Vars' \subseteq Vars \cup {<<gvar, m, t>>}
  BY <1>1, VarsGrow
<1>4. Stores' \subseteq Stores \cup {<<gvar, <<m, n, t>>>>}
  BY <1>1, StoresGrow
<1> QED
  BY <1>1, <1>2, <1>3, <1>4, SlotsGrow

LEMMA EmitLemma ==
  ASSUME FrontTyped, NEW i \in Instr, Emit(<<i>>)
  PROVE  /\ code' \in Seq(Instr) /\ Len(code') = Len(code) + 1 /\ Len(code) \in Nat
         /\ \A p \in 1 .. Len(code) : code'[p] = code[p]
         /\ code'[Len(code) + 1] = i
<1>1. code \in Seq(Instr) /\ Len(code) \in Nat /\ code' = code \o <<i>>
  BY LenProperties DEF FrontTyped, Emit
<1>2. <<i>> \in Seq(Instr) /\ Len(<<i>>) = 1 /\ <<i>>[1] = i
  OBVIOUS
<1>3. /\ code \o <<i>> \in Seq(Instr) /\ Len(code \o <<i>>) = Len(code) + Len(<<i>>)
      /\ \A p \in 1 .. Len(code) + Len(<<i>>) :
           (code \o <<i>>)[p] = IF p <= Len(code) THEN code[p] ELSE <<i>>[p - Len(code)]
  BY <1>1, <1>2, ConcatProperties
<1>4. PICK n, s : n = Len(code) /\ n \in Nat /\ s = code \o <<i>>
  BY <1>1
<1>5. \A p \in 1 .. n + 1 : s[p] = IF p <= n THEN code[p] ELSE <<i>>[p - n]
  BY <1>2, <1>3, <1>4
<1>6. s[n + 1] = i
  <2>1. n + 1 \in 1 .. n + 1 /\ ~(n + 1 <= n) /\ (n + 1) - n = 1
    BY <1>4
  <2> QED
    BY <1>2, <1>5, <2>1
<1>7. \A p \in 1 .. n : s[p] = code[p]
  BY <1>4, <1>5
<1> QED
  BY <1>1, <1>2, <1>3, <1>4, <1>6, <1>7

LEMMA TopKeeps ==
  ASSUME FrontInv, Compiling, FrontTyped', Extends, TopStep, TypesStep, TypesSet,
         Len(code') <= Len(code) + 1, NEW m, NEW n, NEW t,
         \A p \in 1 .. Len(code') : p = Len(code) + 1 =>
           /\ Storing(code'[p]) => code'[p].index < gvar'
           /\ Storing(code'[p]) => code'[p].index = gvar /\ code'[p].owner = <<m, n, t>>
           /\ code'[p].op = "load" /\ ~raised => code'[p].index \in SetByEnd
           /\ code'[p].op # "enter",
         \A k \in DOMAIN contexts'[Len(contexts)].scope \ DOMAIN Ctx.scope :
           LET h == contexts'[Len(contexts)].scope[k]
           IN  h.kind = "var" => h.index = gvar /\ h.mod = m /\ h.type = t,
         \A d \in 1 .. Len(pool') : d > Len(pool) => ScopeVars(pool'[d].handles) \subseteq Vars
  PROVE  FrontInv'
<1>1. contexts # <<>> /\ Len(contexts) \in Nat \ {0} /\ Ctx = contexts[Len(contexts)]
  BY CtxFacts
<1>2. ScopesStep /\ \A i \in 2 .. Len(contexts) : \E j \in 2 .. Len(contexts') : contexts'[j].mod = contexts[i].mod
  BY TopGrows
<1>3. CodeStep
  BY <1>2 DEF CodeStep
<1>4. ASSUME NEW i \in 1 .. Len(contexts'), i <= Len(contexts),
             NEW k \in DOMAIN contexts'[i].scope \ DOMAIN contexts[i].scope
      PROVE  LET h == contexts'[i].scope[k]
             IN  h.kind = "var" => h.index = gvar /\ h.mod = m /\ h.type = t
  <2>1. CASE i = Len(contexts)
    BY <1>1, <1>4, <2>1
  <2>2. CASE i # Len(contexts)
    <3>1. i \in 1 .. Len(contexts) - 1
      BY <1>1, <1>4, <2>2 DEF TopStep
    <3>2. contexts'[i] = contexts[i]
      BY <3>1 DEF TopStep
    <3> QED
      BY <1>4, <3>2
  <2> QED
    BY <2>1, <2>2
<1>5. SlotsAgree'
  BY <1>2, <1>3, <1>4, SlotsStep
<1> QED
  BY <1>1, <1>2, <1>3, <1>5, StepKeeps

(* What a statement that adds no name and no code keeps.                      *)
LEMMA QuietKeeps ==
  ASSUME FrontInv, Compiling, FrontTyped', Extends, TopStep, pool' = pool, code' = code,
         \A k \in DOMAIN contexts'[Len(contexts)].scope \ DOMAIN Ctx.scope :
           contexts'[Len(contexts)].scope[k].kind # "var"
  PROVE  FrontInv'
<1>1. Len(code) \in Nat /\ FrontTyped /\ Len(pool) \in Nat
  BY LenProperties DEF FrontInv, FrontTyped
<1>2. TypesStep /\ TypesSet
  BY <1>1, NoTypes DEF TopStep
<1>3. Len(code') <= Len(code) + 1 /\ \A p \in 1 .. Len(code') : p # Len(code) + 1
  BY <1>1
<1>4. \A d \in 1 .. Len(pool') : ~(d > Len(pool))
  BY <1>1
<1> QED
  BY <1>2, <1>3, <1>4, TopKeeps

LEMMA StayExtends ==
  ASSUME FrontTyped, Stay, gvar' = gvar \/ gvar' = gvar + 1,
         UNCHANGED illegal,
         Len(entries) <= Len(entries'),
         \A m \in 1 .. Len(entries) : Sealed(m) \/ m <= point.mods => entries'[m] = entries[m],
         Len(pool) <= Len(pool'), \A t \in 1 .. Len(pool) : pool'[t] = pool[t],
         Len(code) <= Len(code'), \A p \in 1 .. Len(code) : code'[p] = code[p]
  PROVE  Extends
BY DEF FrontTyped, Extends, Stay, runVars

LEMMA SameExtends ==
  ASSUME FrontTyped, Stay, entries' = entries, pool' = pool, gvar' = gvar, code' = code
  PROVE  Extends
<1>1. Len(entries) \in Nat /\ Len(pool) \in Nat /\ Len(code) \in Nat
  BY LenProperties DEF FrontTyped
<1>2. UNCHANGED illegal
  BY DEF Stay, runVars
<1> QED
  BY <1>1, <1>2, StayExtends

LEMMA PathsTyped ==
  Paths \subseteq Seq(Path)
<1> SUFFICES ASSUME NEW ps \in Paths
             PROVE  ps \in Seq(Path)
  OBVIOUS
<1>1. PICK k \in 1 .. MaxPaths : ps \in [1 .. k -> Path]
  BY Zenon DEF Paths
<1> QED
  BY <1>1, FrontEndAssumption, SeqDef

LEMMA StayTyped ==
  ASSUME FrontTyped, Stay, entries' \in Seq(Entry), pool' \in Seq(ModType), gvar' \in Nat,
         contexts' \in Seq(ContextSet), code' \in Seq(Instr)
  PROVE  FrontTyped'
BY DEF FrontTyped, Stay, runVars

LEMMA SourceKeeps ==
  ASSUME FrontInv, NEW ps \in Paths, NEW h \in Holder \cup {""}, NEW optional \in BOOLEAN,
         Source(ps, h, optional)
  PROVE  FrontInv'
<1>1. Compiling /\ Stay /\ UNCHANGED <<entries, pool, gvar, code>>
  BY DEF Source, Parsing
<1>2. FrontTyped /\ Len(entries) \in Nat /\ Len(pool) \in Nat /\ Len(code) \in Nat
  BY LenProperties DEF FrontInv, FrontTyped
<1>3. PICK c : c = [Ctx EXCEPT !.queue = ps, !.holder = h, !.optional = optional]
  OBVIOUS
<1>4. c \in ContextSet /\ c.mod = Ctx.mod /\ c.scope = Ctx.scope
  <2>1. ps \in Seq(Path)
    BY PathsTyped
  <2>2. Ctx \in ContextSet
    BY <1>1, CtxFacts
  <2> QED
    BY <1>3, <2>1, <2>2 DEF ContextSet
<1>5. contexts' = WithCtx(c)
  BY <1>3 DEF Source
<1>6. /\ contexts' \in Seq(ContextSet) /\ Len(contexts') = Len(contexts)
      /\ contexts'[Len(contexts)] = c
      /\ \A i \in 1 .. Len(contexts) - 1 : contexts'[i] = contexts[i]
  BY <1>1, <1>4, <1>5, WithCtxLemma
<1>7. FrontTyped'
  BY <1>1, <1>2, <1>6, StayTyped DEF FrontTyped
<1>8. Extends
  BY <1>1, <1>2, SameExtends
<1>9. TopStep
  BY <1>1, <1>4, <1>6, CtxFacts, GrownRefl DEF TopStep
<1> QED
  BY <1>1, <1>4, <1>6, <1>7, <1>8, <1>9, QuietKeeps

LEMMA TakenLemma ==
  ASSUME FrontInv, Sourcing
  PROVE  /\ Taken \in ContextSet /\ Taken.mod = Ctx.mod /\ Taken.scope = Ctx.scope
         /\ Taken.holder = Ctx.holder /\ Head(Ctx.queue) \in Path
<1>1. Ctx \in ContextSet /\ Ctx.queue \in Seq(Path) /\ Ctx.queue # <<>>
  BY CtxFacts DEF Sourcing
<1>2. Tail(Ctx.queue) \in Seq(Path) /\ Head(Ctx.queue) \in Path
  BY <1>1, HeadTailProperties
<1>3. PICK q : q = Tail(Ctx.queue)
  OBVIOUS
<1>4. Taken = [Ctx EXCEPT !.queue = q]
  BY <1>3 DEF Taken
<1> QED
  BY <1>1, <1>2, <1>3, <1>4 DEF ContextSet

LEMMA MissingKeeps ==
  ASSUME FrontInv, Missing
  PROVE  FrontInv'
<1>1. Sourcing /\ Compiling /\ Stay /\ UNCHANGED <<entries, pool, gvar, code>> /\ contexts' = WithCtx(Taken)
  BY DEF Missing, Sourcing
<1>2. FrontTyped
  BY DEF FrontInv
<1>3. Taken \in ContextSet /\ Taken.mod = Ctx.mod /\ Taken.scope = Ctx.scope
  BY <1>1, TakenLemma
<1>4. /\ contexts' \in Seq(ContextSet) /\ Len(contexts') = Len(contexts)
      /\ contexts'[Len(contexts)] = Taken
      /\ \A i \in 1 .. Len(contexts) - 1 : contexts'[i] = contexts[i]
  BY <1>1, <1>3, WithCtxLemma
<1>5. FrontTyped'
  BY <1>1, <1>2, <1>4, StayTyped DEF FrontTyped
<1>6. Extends
  BY <1>1, <1>2, SameExtends
<1>7. TopStep
  BY <1>1, <1>3, <1>4, CtxFacts, GrownRefl DEF TopStep
<1> QED
  BY <1>1, <1>3, <1>4, <1>5, <1>6, <1>7, QuietKeeps

LEMMA UseKeeps ==
  ASSUME FrontInv, Compiling, NEW key \in DOMAIN Ctx.scope, Use(key)
  PROVE  FrontInv'
<1>1. Stay /\ UNCHANGED <<entries, pool, gvar, contexts>>
  BY DEF Use
<1>2. FrontTyped /\ Len(entries) \in Nat /\ Len(pool) \in Nat /\ Len(contexts) \in Nat \ {0}
      /\ contexts[Len(contexts)] = Ctx /\ Ctx.scope \in Scope
  BY CtxFacts, LenProperties DEF FrontInv, FrontTyped
<1>3. PICK i : i = [op |-> "load", index |-> Ctx.scope[key].index, owner |-> None]
  OBVIOUS
<1>4. Ctx.scope[key] \in HandleSet /\ Sound(Ctx.scope[key])
  BY CtxFacts
<1>5. i \in Instr /\ i.op = "load" /\ ~Storing(i) /\ (~raised => i.index \in SetByEnd)
  BY <1>3, <1>4 DEF Instr, HandleSet, Storing, Sound
<1>6. Emit(<<i>>)
  BY <1>3 DEF Use
<1>7. /\ code' \in Seq(Instr) /\ Len(code') = Len(code) + 1 /\ Len(code) \in Nat
      /\ \A p \in 1 .. Len(code) : code'[p] = code[p]
      /\ code'[Len(code) + 1] = i
  BY <1>2, <1>5, <1>6, EmitLemma
<1>8. FrontTyped'
  BY <1>1, <1>2, <1>7, StayTyped DEF FrontTyped
<1>9. Extends
  <2>1. UNCHANGED illegal
    BY <1>1 DEF Stay, runVars
  <2> QED
    BY <1>1, <1>2, <1>7, <2>1, StayExtends
<1>10. TopStep
  BY <1>1, <1>2, GrownRefl DEF TopStep
<1>11. TypesStep /\ TypesSet
  BY <1>1, <1>2, NoTypes
<1>12. \A p \in 1 .. Len(code') : p = Len(code) + 1 =>
         /\ ~Storing(code'[p]) /\ code'[p].op # "enter"
         /\ ~raised => code'[p].index \in SetByEnd
  BY <1>5, <1>7
<1>13. \A d \in 1 .. Len(pool') : ~(d > Len(pool))
  BY <1>1, <1>2
<1>14. DOMAIN contexts'[Len(contexts)].scope \ DOMAIN Ctx.scope = {}
  BY <1>1, <1>2
<1>15. Len(code') <= Len(code) + 1
  BY <1>7
<1> QED
  BY <1>8, <1>9, <1>10, <1>11, <1>12, <1>13, <1>14, <1>15, TopKeeps

LEMMA DefineKeeps ==
  ASSUME FrontInv, NEW n \in Name, NEW t \in 1 .. Len(pool) + 1, Define(n, t)
  PROVE  FrontInv'
<1>1. Compiling /\ Stay /\ entries' = entries /\ gvar' = gvar + 1 /\ Var(n) \notin DOMAIN Ctx.scope
  BY DEF Define, Parsing
<1>2. /\ FrontTyped /\ Len(entries) \in Nat /\ Len(pool) \in Nat /\ Len(contexts) \in Nat \ {0}
      /\ contexts[Len(contexts)] = Ctx /\ Ctx \in ContextSet /\ Ctx.scope \in Scope /\ Ctx.mod \in Nat
      /\ gvar \in Nat
  BY <1>1, CtxFacts, LenProperties DEF FrontInv, FrontTyped
<1>3. /\ pool' \in Seq(ModType) /\ Len(pool) <= Len(pool') /\ t \in 1 .. Len(pool') /\ Len(pool') \in Nat
      /\ \A d \in 1 .. Len(pool) : pool'[d] = pool[d]
      /\ \A d \in 1 .. Len(pool') : d > Len(pool) => pool'[d] = Reified
  <2>1. DOMAIN pool = 1 .. Len(pool) /\ pool \in Seq(ModType)
    BY <1>2, LenProperties DEF FrontTyped
  <2>2. CASE t \in DOMAIN pool
    <3>1. pool' = pool
      BY <2>2 DEF Define
    <3> QED
      BY <1>2, <2>1, <2>2, <3>1
  <2>3. CASE t \notin DOMAIN pool
    <3>1. t = Len(pool) + 1 /\ pool' = Append(pool, Reified)
      <4>1. t = Len(pool) + 1
        BY <1>2, <2>1, <2>3
      <4> QED
        BY <2>3, <4>1 DEF Define
    <3>2. Reified \in ModType
      BY EmptyScope DEF Reified, ModType, None
    <3>3. /\ pool' \in Seq(ModType) /\ Len(pool') = Len(pool) + 1
          /\ \A d \in 1 .. Len(pool) : pool'[d] = pool[d]
          /\ pool'[Len(pool) + 1] = Reified
      BY <2>1, <3>1, <3>2, AppendProperties
    <3> QED
      BY <1>2, <3>1, <3>3
  <2> QED
    BY <2>2, <2>3
<1>4. PICK h : h = Handle(0, t, gvar, Ctx.mod, "var")
  OBVIOUS
<1>5. h \in HandleSet /\ h.type = t /\ h.index = gvar /\ h.mod = Ctx.mod /\ h.kind = "var"
  BY <1>2, <1>4 DEF Handle, HandleSet
<1>6. PICK scope : scope = Add(Ctx.scope, Var(n), h)
  OBVIOUS
<1>7. Var(n) \in Key
  BY DEF Var, Key
<1>8. Grown(Ctx.scope, scope) /\ DOMAIN scope = DOMAIN Ctx.scope \cup {Var(n)}
      /\ scope[Var(n)] = [h EXCEPT !.commit = Size(Ctx.scope)]
  <2>1. PICK s, key : s = Ctx.scope /\ key = Var(n)
    OBVIOUS
  <2>2. LET u == Add(s, key, h)
        IN  Grown(s, u) /\ DOMAIN u = DOMAIN s \cup {key} /\ u[key] = [h EXCEPT !.commit = Size(s)]
    <3>1. s \in Scope /\ key \in Key /\ key \notin DOMAIN s /\ h \in HandleSet
      BY <1>1, <1>2, <1>5, <1>7, <2>1
    <3> QED
      BY <3>1, AddLemma, Zenon
  <2> QED
    BY <1>6, <2>1, <2>2
<1>9. PICK c : c = [Ctx EXCEPT !.scope = scope]
  OBVIOUS
<1>10. c \in ContextSet /\ c.mod = Ctx.mod /\ c.scope = scope
  BY <1>2, <1>8, <1>9 DEF ContextSet, Grown
<1>11. contexts' = WithCtx(c)
  BY <1>4, <1>6, <1>9 DEF Define
<1>12. /\ contexts' \in Seq(ContextSet) /\ Len(contexts') = Len(contexts)
       /\ contexts'[Len(contexts)] = c
       /\ \A i \in 1 .. Len(contexts) - 1 : contexts'[i] = contexts[i]
  BY <1>1, <1>10, <1>11, WithCtxLemma
<1>13. PICK i : i = [op |-> "store", index |-> gvar, owner |-> <<Ctx.mod, n, t>>]
  OBVIOUS
<1>14. i \in Instr /\ i.op = "store" /\ i.index = gvar /\ i.owner = <<Ctx.mod, n, t>>
  <2>1. n \in Name \cup {""} /\ t \in Nat
    <3>1. n \in Name \cup {""}
      BY Zenon
    <3>2. t \in Nat
      BY <1>2
    <3> QED
      BY <3>1, <3>2
  <2>2. PICK o : o = <<Ctx.mod, n, t>>
    OBVIOUS
  <2>3. o \in Nat \X (Name \cup {""}) \X Nat
    BY <1>2, <2>1, <2>2
  <2> QED
    BY <1>2, <1>13, <2>2, <2>3 DEF Instr
<1>15. /\ code' \in Seq(Instr) /\ Len(code') = Len(code) + 1 /\ Len(code) \in Nat
       /\ \A p \in 1 .. Len(code) : code'[p] = code[p]
       /\ code'[Len(code) + 1] = i
  <2>1. Emit(<<i>>)
    BY <1>13 DEF Define
  <2> QED
    BY <1>2, <1>14, <2>1, EmitLemma
<1>16. FrontTyped'
  <2>1. entries' \in Seq(Entry) /\ gvar' \in Nat
    BY <1>1, <1>2 DEF FrontTyped
  <2> QED
    BY <1>1, <1>2, <1>3, <1>12, <1>15, <2>1, StayTyped
<1>17. Extends
  <2>1. UNCHANGED illegal
    BY <1>1 DEF Stay, runVars
  <2> QED
    <3>1. Len(entries) <= Len(entries') /\ Len(code) <= Len(code')
      BY <1>1, <1>2, <1>15
    <3> QED
      BY <1>1, <1>2, <1>3, <1>15, <2>1, <3>1, StayExtends
<1>18. gvar \in SetByEnd'
  <2>1. PointKept
    BY <1>1, CtxFacts DEF FrontInv
  <2>2. ApartIndex' = ApartIndex
    BY <1>2, <1>16, <1>17, <2>1, PointStays
  <2>3. Len(code) + 1 \in 1 .. Len(code') /\ Storing(code'[Len(code) + 1])
    BY <1>14, <1>15 DEF Storing
  <2> QED
    BY <1>2, <1>14, <1>15, <1>16, <1>17, <2>2, <2>3, SetStays
<1>19. TopStep
  <2>1. ASSUME NEW k \in DOMAIN c.scope \ DOMAIN Ctx.scope
        PROVE  HandleOK(pool', c.scope[k], Len(pool'), gvar') /\ (~raised => c.scope[k].index \in SetByEnd')
    <3>1. c.scope[k] = [h EXCEPT !.commit = Size(Ctx.scope)]
      BY <1>8, <1>10, <2>1
    <3>2. c.scope[k].type = t /\ c.scope[k].index = gvar /\ c.scope[k].kind = "var"
      BY <1>5, <3>1 DEF HandleSet
    <3> QED
      BY <1>1, <1>2, <1>3, <1>18, <3>2 DEF HandleOK, IsHolder
  <2> QED
    BY <1>1, <1>8, <1>10, <1>12, <2>1 DEF TopStep
<1>20. \A k \in DOMAIN c.scope \ DOMAIN Ctx.scope :
         c.scope[k].index = gvar /\ c.scope[k].mod = Ctx.mod /\ c.scope[k].type = t
  <2>1. \A k \in DOMAIN c.scope \ DOMAIN Ctx.scope : c.scope[k] = [h EXCEPT !.commit = Size(Ctx.scope)]
    BY <1>8, <1>10
  <2> QED
    BY <1>5, <2>1 DEF HandleSet
<1>21. DOMAIN Reified.handles = {} /\ Reified.children = {} /\ Reified.mod = None
  BY EmptyScope DEF Reified
<1>22. TypesStep
  <2>1. \A m \in 1 .. Len(entries') : entries'[m].type # Unsealed => m \in 1 .. Len(entries) /\ Sealed(m)
    BY <1>1 DEF Sealed
  <2> QED
    BY <1>3, <1>21, <2>1 DEF TypesStep
<1>23. TypesSet
  BY <1>3, <1>21 DEF TypesSet
<1>24. \A d \in 1 .. Len(pool') : d > Len(pool) => ScopeVars(pool'[d].handles) \subseteq Vars
  BY <1>3, <1>21, VarIn
<1>25. \A p \in 1 .. Len(code') : p = Len(code) + 1 =>
         /\ code'[p].index = gvar /\ code'[p].index < gvar' /\ code'[p].owner = <<Ctx.mod, n, t>>
         /\ code'[p].op # "load" /\ code'[p].op # "enter"
  BY <1>1, <1>2, <1>14, <1>15
<1>26. Len(code') <= Len(code) + 1
  BY <1>15
<1>27. PICK m : m = Ctx.mod
  OBVIOUS
<1>28. \A p \in 1 .. Len(code') : p = Len(code) + 1 =>
         /\ Storing(code'[p]) => code'[p].index < gvar'
         /\ Storing(code'[p]) => code'[p].index = gvar /\ code'[p].owner = <<m, n, t>>
         /\ code'[p].op = "load" /\ ~raised => code'[p].index \in SetByEnd
         /\ code'[p].op # "enter"
  BY <1>25, <1>27
<1>29. \A k \in DOMAIN contexts'[Len(contexts)].scope \ DOMAIN Ctx.scope :
         LET g == contexts'[Len(contexts)].scope[k]
         IN  g.kind = "var" => g.index = gvar /\ g.mod = m /\ g.type = t
  BY <1>12, <1>20, <1>27
<1> QED
  BY <1>1, <1>16, <1>17, <1>19, <1>22, <1>23, <1>24, <1>26, <1>28, <1>29, TopKeeps

LEMMA RegisterLemma ==
  ASSUME FrontTyped, NEW p \in Path
  PROVE  /\ Register(p) \in Seq(Entry) /\ Len(Register(p)) = Len(entries) + 1 /\ Len(entries) \in Nat
         /\ \A m \in 1 .. Len(entries) : Register(p)[m] = entries[m]
         /\ Register(p)[Len(entries) + 1].type = Unsealed
<1>1. PICK e : e = [path |-> p, type |-> Unsealed]
  OBVIOUS
<1>2. e \in Entry /\ e.type = Unsealed
  BY <1>1 DEF Entry, Unsealed
<1>3. entries \in Seq(Entry) /\ Len(entries) \in Nat
  BY LenProperties DEF FrontTyped
<1>4. Register(p) = Append(entries, e)
  BY <1>1 DEF Register
<1> QED
  BY <1>2, <1>3, <1>4, AppendProperties

LEMMA ContextTyped ==
  ASSUME NEW m \in Nat, NEW scope \in Scope
  PROVE  Context(m, scope) \in ContextSet /\ Context(m, scope).mod = m /\ Context(m, scope).scope = scope
<1>1. PICK hs : hs = Holder \cup {""}
  OBVIOUS
<1>2. "" \in hs
  BY <1>1, Zenon
<1>3. <<>> \in Seq(Path)
  BY EmptySeq
<1> QED
  BY <1>1, <1>2, <1>3 DEF Context, ContextSet

LEMMA EnterKeeps ==
  ASSUME FrontInv, EnterModule
  PROVE  FrontInv'
<1>1. Sourcing /\ Compiling /\ Stay /\ UNCHANGED <<pool, gvar>>
  BY DEF EnterModule, Sourcing
<1>2. /\ FrontTyped /\ Len(entries) \in Nat /\ Len(pool) \in Nat /\ Len(contexts) \in Nat \ {0}
      /\ contexts \in Seq(ContextSet) /\ contexts[Len(contexts)] = Ctx /\ contexts # <<>>
  BY <1>1, CtxFacts, LenProperties DEF FrontInv, FrontTyped
<1>3. PICK p \in Path : p = Head(Ctx.queue)
  BY <1>1, TakenLemma
<1>4. entries' = Register(p)
  BY <1>3 DEF EnterModule
<1>5. /\ entries' \in Seq(Entry) /\ Len(entries') = Len(entries) + 1
      /\ \A m \in 1 .. Len(entries) : entries'[m] = entries[m]
      /\ entries'[Len(entries) + 1].type = Unsealed
  BY <1>2, <1>4, RegisterLemma
<1>6. PICK c : c = Context(Len(entries) + 1, <<>>)
  OBVIOUS
<1>7. c \in ContextSet /\ c.mod = Len(entries) + 1 /\ c.scope = <<>>
  BY <1>2, <1>6, ContextTyped, EmptyScope
<1>8. PICK cs : cs = WithCtx(Taken)
  OBVIOUS
<1>9. /\ cs \in Seq(ContextSet) /\ Len(cs) = Len(contexts) /\ cs[Len(contexts)] = Taken
      /\ \A i \in 1 .. Len(contexts) - 1 : cs[i] = contexts[i]
  BY <1>1, <1>8, TakenLemma, WithCtxLemma
<1>10. contexts' = Append(cs, c)
  BY <1>5, <1>6, <1>8 DEF EnterModule
<1>11. /\ contexts' \in Seq(ContextSet) /\ Len(contexts') = Len(contexts) + 1
       /\ \A i \in 1 .. Len(contexts) : contexts'[i] = cs[i]
       /\ contexts'[Len(contexts) + 1] = c
  BY <1>2, <1>7, <1>9, <1>10, AppendProperties
<1>12. PICK i : i = [op |-> "enter", index |-> Len(entries) + 1, owner |-> None]
  OBVIOUS
<1>13. i \in Instr /\ i.op = "enter" /\ i.index = Len(entries) + 1
  BY <1>2, <1>12 DEF Instr
<1>14. /\ code' \in Seq(Instr) /\ Len(code') = Len(code) + 1 /\ Len(code) \in Nat
       /\ \A q \in 1 .. Len(code) : code'[q] = code[q]
       /\ code'[Len(code) + 1] = i
  <2>1. Emit(<<i>>)
    BY <1>5, <1>12 DEF EnterModule
  <2> QED
    BY <1>2, <1>13, <2>1, EmitLemma
<1>15. FrontTyped'
  BY <1>1, <1>2, <1>5, <1>11, <1>14, StayTyped DEF FrontTyped
<1>16. Extends
  <2>1. UNCHANGED illegal
    BY <1>1 DEF Stay, runVars
  <2>2. Len(entries) <= Len(entries') /\ Len(code) <= Len(code') /\ Len(pool) <= Len(pool')
    BY <1>1, <1>2, <1>5, <1>14
  <2> QED
    BY <1>1, <1>2, <1>5, <1>14, <2>1, <2>2, StayExtends
<1>17. \A j \in 1 .. Len(contexts) :
         /\ contexts'[j].mod = contexts[j].mod /\ contexts'[j].scope = contexts[j].scope
         /\ contexts[j].mod \in 1 .. Len(entries) /\ contexts[j].scope \in Scope
  <2> SUFFICES ASSUME NEW j \in 1 .. Len(contexts)
               PROVE  /\ contexts'[j].mod = contexts[j].mod /\ contexts'[j].scope = contexts[j].scope
                      /\ contexts[j].mod \in 1 .. Len(entries) /\ contexts[j].scope \in Scope
    OBVIOUS
  <2>1. contexts'[j] = cs[j]
    BY <1>11
  <2>2. cs[j].mod = contexts[j].mod /\ cs[j].scope = contexts[j].scope
    <3>1. CASE j = Len(contexts)
      BY <1>1, <1>2, <1>9, <3>1, TakenLemma
    <3>2. CASE j # Len(contexts)
      BY <1>2, <1>9, <3>2
    <3> QED
      BY <3>1, <3>2
  <2>3. contexts[j].scope \in Scope
    <3>1. contexts[j] \in ContextSet
      BY <1>2, ElementOfSeq
    <3> QED
      BY <3>1 DEF ContextSet
  <2>4. contexts[j].mod \in 1 .. Len(entries)
    <3>1. ContextsInv /\ point.mods \in 1 .. Len(entries)
      BY <1>2 DEF FrontInv, PointKept, Kept
    <3>2. contexts[1].mod \in 1 .. Len(entries)
      BY <3>1 DEF ContextsInv
    <3>3. j \in 2 .. Len(contexts) => contexts[j].mod \in point.mods + 1 .. Len(entries)
      BY <3>1 DEF ContextsInv
    <3> QED
      BY <1>2, <3>1, <3>2, <3>3
  <2> QED
    BY <2>1, <2>2, <2>3, <2>4
<1>18. ScopesStep
  <2>1. \A j \in 1 .. Len(contexts) : Grown(contexts[j].scope, contexts'[j].scope)
    BY <1>17, GrownRefl
  <2>2. \A j \in 1 .. Len(contexts') : j <= Len(contexts) => j \in 1 .. Len(contexts)
    BY <1>2
  <2>3. \A j \in 1 .. Len(contexts') : j > Len(contexts) => j = Len(contexts) + 1
    BY <1>2, <1>11
  <2> QED
    BY <1>2, <1>5, <1>7, <1>11, <1>17, <2>1, <2>2, <2>3 DEF ScopesStep
<1>19. TypesStep /\ TypesSet
  <2>1. \A m \in 1 .. Len(entries') : entries'[m].type # Unsealed => m \in 1 .. Len(entries) /\ Sealed(m)
    BY <1>2, <1>5 DEF Sealed
  <2>2. \A t \in 1 .. Len(pool') : ~(t > Len(pool))
    BY <1>1, <1>2
  <2> QED
    BY <2>1, <2>2 DEF TypesStep, TypesSet
<1>20. CodeStep
  <2>1. \A j \in 2 .. Len(contexts) : j \in 2 .. Len(contexts') /\ contexts'[j].mod = contexts[j].mod
    BY <1>2, <1>11, <1>17
  <2>2. Len(contexts) + 1 \in 2 .. Len(contexts') /\ contexts'[Len(contexts) + 1].mod = Len(entries) + 1
    BY <1>2, <1>7, <1>11
  <2> QED
    BY <1>5, <1>13, <1>14, <2>1, <2>2 DEF CodeStep, Storing
<1>21. SlotsAgree'
  <2>1. \A j \in 1 .. Len(contexts') : j <= Len(contexts) =>
          DOMAIN contexts'[j].scope \ DOMAIN contexts[j].scope = {}
    BY <1>2, <1>17
  <2>2. \A d \in 1 .. Len(pool') : ~(d > Len(pool))
    BY <1>1, <1>2
  <2>3. \A q \in 1 .. Len(code') : q = Len(code) + 1 => ~Storing(code'[q])
    BY <1>13, <1>14 DEF Storing
  <2> QED
    BY <1>15, <1>16, <1>18, <1>20, <2>1, <2>2, <2>3, SlotsStep
<1> QED
  BY <1>2, <1>15, <1>16, <1>18, <1>19, <1>20, <1>21, StepKeeps

LEMMA ImportedLemma ==
  ASSUME NEW cs \in Seq(ContextSet), cs # <<>>, NEW types \in Seq(ModType), NEW t \in 1 .. Len(types),
         Imported(cs, types, t)
  PROVE  /\ contexts' \in Seq(ContextSet) /\ Len(contexts') = Len(cs) /\ Len(cs) \in Nat \ {0}
         /\ \A i \in 1 .. Len(cs) - 1 : contexts'[i] = cs[i]
         /\ contexts'[Len(cs)].mod = cs[Len(cs)].mod
         /\ Imports(cs[Len(cs)].scope, contexts'[Len(cs)].scope, types, t)
<1>1. Len(cs) \in Nat \ {0} /\ Len(cs) \in 1 .. Len(cs)
  BY LenProperties, EmptySeq
<1>2. PICK n \in 1 .. Len(cs) : n = Len(cs)
  BY <1>1
<1>3. PICK c \in ContextSet : c = cs[n]
  BY <1>2, ElementOfSeq
<1>4. PICK scope : scope = SourceImport(c.scope, types, t, c.mod, c.holder)
  OBVIOUS
<1>5. PICK d : d = [c EXCEPT !.scope = scope]
  OBVIOUS
<1>6. contexts' = [cs EXCEPT ![n] = d]
  BY <1>2, <1>3, <1>4, <1>5 DEF Imported
<1>7. Imports(c.scope, scope, types, t)
  <2>1. c.scope \in Scope /\ c.mod \in Nat /\ c.holder \in Holder \cup {""}
    BY <1>3 DEF ContextSet
  <2> QED
    BY <1>4, <2>1, SourceImportLemma
<1>8. d \in ContextSet /\ d.mod = c.mod /\ d.scope = scope
  <2>1. scope \in Scope
    BY <1>7 DEF Imports, Grown
  <2> QED
    BY <1>3, <1>5, <2>1 DEF ContextSet
<1>9. /\ contexts' \in Seq(ContextSet) /\ Len(contexts') = Len(cs)
      /\ \A i \in 1 .. Len(cs) : contexts'[i] = IF i = n THEN d ELSE cs[i]
  BY <1>6, <1>8, ExceptSeq
<1> QED
  BY <1>1, <1>2, <1>3, <1>7, <1>8, <1>9

(* A module that is sealed gives what is sound and set by the end of the code.*)
LEMMA FromSealed ==
  ASSUME FrontInv, NEW t \in 1 .. Len(pool), pool[t].mod # None, NEW h, FromType(pool, t, h)
  PROVE  HandleOK(pool, h, Len(pool), gvar) /\ (~raised => h.index \in SetByEnd)
<1>1. /\ Len(pool) \in Nat /\ Kept(Len(entries), Len(pool), gvar)
      /\ ~raised => SetFor(Len(pool), SetByEnd)
  BY LenProperties DEF FrontInv, FrontTyped
<1>2. /\ pool[t].index < gvar
      /\ \A k \in DOMAIN pool[t].handles : HandleOK(pool, pool[t].handles[k], Len(pool), gvar)
  BY <1>1 DEF Kept
<1>3. HandleOK(pool, h, Len(pool), gvar)
  BY <1>1, <1>2, FromOK
<1>4. ASSUME ~raised
      PROVE  h.index \in SetByEnd
  <2>1. /\ pool[t].index \in SetByEnd
        /\ \A k \in DOMAIN pool[t].handles : pool[t].handles[k].index \in SetByEnd
    BY <1>1, <1>4 DEF SetFor
  <2> QED
    BY <2>1, FromSet
<1> QED
  BY <1>3, <1>4

LEMMA ImportKeeps ==
  ASSUME FrontInv, ImportModule
  PROVE  FrontInv'
<1>1. Sourcing /\ Compiling /\ Stay /\ UNCHANGED <<entries, pool, gvar, code>>
  BY DEF ImportModule, Sourcing
<1>2. /\ FrontTyped /\ pool \in Seq(ModType) /\ Len(contexts) \in Nat \ {0}
      /\ contexts \in Seq(ContextSet) /\ contexts[Len(contexts)] = Ctx
  BY <1>1, CtxFacts DEF FrontInv, FrontTyped
<1>3. PICK m \in IdOf(Head(Ctx.queue)) :
        entries[m].type # Unsealed /\ Imported(WithCtx(Taken), pool, entries[m].type)
  BY DEF ImportModule
<1>4. m \in 1 .. Len(entries)
  <2>1. DOMAIN entries = 1 .. Len(entries)
    BY <1>2, LenProperties DEF FrontTyped
  <2> QED
    BY <2>1 DEF IdOf
<1>5. PICK t : t = entries[m].type
  OBVIOUS
<1>6. t \in 1 .. Len(pool) /\ pool[t].mod # None
  <2>1. t \in 1 .. Len(pool) /\ pool[t].mod = m
    BY <1>3, <1>4, <1>5 DEF FrontInv, Kept, Sealed
  <2>2. m # None
    BY <1>4 DEF None
  <2> QED
    BY <2>1, <2>2
<1>7. PICK cs : cs = WithCtx(Taken)
  OBVIOUS
<1>8. /\ cs \in Seq(ContextSet) /\ Len(cs) = Len(contexts) /\ cs[Len(contexts)] = Taken
      /\ \A i \in 1 .. Len(contexts) - 1 : cs[i] = contexts[i]
  BY <1>1, <1>7, TakenLemma, WithCtxLemma
<1>9. cs # <<>> /\ Imported(cs, pool, t)
  BY <1>2, <1>3, <1>5, <1>7, <1>8, EmptySeq
<1>10. /\ contexts' \in Seq(ContextSet) /\ Len(contexts') = Len(contexts)
       /\ \A i \in 1 .. Len(contexts) - 1 : contexts'[i] = contexts[i]
       /\ contexts'[Len(contexts)].mod = Ctx.mod
       /\ Imports(Ctx.scope, contexts'[Len(contexts)].scope, pool, t)
  BY <1>1, <1>2, <1>6, <1>8, <1>9, ImportedLemma, TakenLemma
<1>11. FrontTyped'
  BY <1>1, <1>2, <1>10, StayTyped DEF FrontTyped
<1>12. Extends
  BY <1>1, <1>2, SameExtends
<1>13. ApartIndex' = ApartIndex /\ SetByEnd \subseteq SetByEnd'
  <2>1. PointKept
    BY <1>1 DEF FrontInv, Compiling
  <2>2. ApartIndex' = ApartIndex
    BY <1>2, <1>11, <1>12, <2>1, PointStays
  <2> QED
    BY <1>2, <1>11, <1>12, <2>2, SetStays
<1>14. ASSUME NEW k \in DOMAIN contexts'[Len(contexts)].scope \ DOMAIN Ctx.scope
       PROVE  /\ HandleOK(pool', contexts'[Len(contexts)].scope[k], Len(pool'), gvar')
              /\ ~raised => contexts'[Len(contexts)].scope[k].index \in SetByEnd'
              /\ contexts'[Len(contexts)].scope[k].kind # "var"
  <2>1. FromType(pool, t, contexts'[Len(contexts)].scope[k])
    BY <1>10, <1>14 DEF Imports
  <2>2. contexts'[Len(contexts)].scope[k].kind # "var"
    BY <2>1 DEF FromType
  <2>3. /\ HandleOK(pool, contexts'[Len(contexts)].scope[k], Len(pool), gvar)
        /\ ~raised => contexts'[Len(contexts)].scope[k].index \in SetByEnd
    BY <1>6, <2>1, FromSealed
  <2> QED
    BY <1>1, <1>13, <2>2, <2>3
<1>15. TopStep
  BY <1>1, <1>10, <1>14 DEF TopStep, Imports
<1> QED
  BY <1>1, <1>11, <1>12, <1>14, <1>15, QuietKeeps

(* A module that is sealed, with the scope it was compiled in.                *)
LEMMA SealLemma ==
  ASSUME FrontInv, NEW scope \in Scope, NEW m \in 2 .. Len(entries), ~Sealed(m), CreateModType(scope, m),
         \A k \in DOMAIN scope : HandleOK(pool, scope[k], Len(pool), gvar)
  PROVE  /\ pool' \in Seq(ModType) /\ Len(pool') = Len(pool) + 1 /\ Len(pool) \in Nat
         /\ \A t \in 1 .. Len(pool) : pool'[t] = pool[t]
         /\ LET type == pool'[Len(pool) + 1]
            IN  /\ type.mod = m /\ type.index = gvar
                /\ \A k \in DOMAIN type.handles : k \in DOMAIN scope /\ type.handles[k] = scope[k]
                /\ ScopeVars(type.handles) \subseteq ScopeVars(scope)
         /\ gvar' = gvar + 1 /\ gvar \in Nat /\ gvar' \in Nat
         /\ entries' \in Seq(Entry) /\ Len(entries') = Len(entries) /\ Len(entries) \in Nat
         /\ entries'[m].type = Len(pool) + 1
         /\ \A d \in 1 .. Len(entries) : d # m => entries'[d] = entries[d]
         /\ TypesStep
<1>1. /\ pool \in Seq(ModType) /\ Len(pool) \in Nat /\ DOMAIN pool = 1 .. Len(pool)
      /\ entries \in Seq(Entry) /\ Len(entries) \in Nat /\ gvar \in Nat
      /\ Kept(Len(entries), Len(pool), gvar)
  BY LenProperties DEF FrontInv, FrontTyped
<1>2. m \in 1 .. Len(entries) /\ m \in Nat /\ m # None
  BY <1>1 DEF None
<1>3. TypeOf(m) = Len(pool) + 1 /\ TypeOf(m) \notin DOMAIN pool
  <2>1. ASSUME NEW t \in DOMAIN pool, pool[t].mod = m
        PROVE  FALSE
    <3>1. entries[m].type = t
      BY <1>1, <1>2, <2>1 DEF Kept
    <3> QED
      BY <1>1, <2>1, <3>1 DEF Sealed, Unsealed
  <2> QED
    BY <1>1, <2>1 DEF TypeOf
<1>4. PICK type : type = ToModType(scope, m)
  OBVIOUS
<1>5. /\ type \in ModType /\ type.mod = m /\ type.index = gvar
      /\ \A k \in DOMAIN type.handles : k \in DOMAIN scope /\ type.handles[k] = scope[k]
      /\ \A c \in type.children : \E k \in DOMAIN scope : IsHolder(scope[k]) /\ c[1] = scope[k].type
  BY <1>1, <1>2, <1>4, ToModTypeLemma
<1>6. pool' = Append(pool, type) /\ gvar' = gvar + 1 /\ gvar' \in Nat
      /\ entries' = [entries EXCEPT ![m].type = Len(pool) + 1]
  <2>1. PICK n : n = TypeOf(m)
    OBVIOUS
  <2>2. /\ pool' = IF n \in DOMAIN pool THEN pool ELSE Append(pool, type)
        /\ gvar' = gvar + 1 /\ entries' = [entries EXCEPT ![m].type = n]
    BY <1>4, <2>1 DEF CreateModType
  <2>3. n = Len(pool) + 1 /\ n \notin DOMAIN pool
    BY <1>3, <2>1
  <2>4. pool' = Append(pool, type) /\ entries' = [entries EXCEPT ![m].type = Len(pool) + 1]
    BY <2>2, <2>3, Zenon
  <2>5. gvar' = gvar + 1
    BY <2>2
  <2>6. gvar' \in Nat
    BY <1>1, <2>5
  <2> QED
    BY <2>4, <2>5, <2>6
<1>7. /\ pool' \in Seq(ModType) /\ Len(pool') = Len(pool) + 1
      /\ \A t \in 1 .. Len(pool) : pool'[t] = pool[t]
      /\ pool'[Len(pool) + 1] = type
  BY <1>1, <1>5, <1>6, AppendProperties
<1>8. /\ entries' \in Seq(Entry) /\ Len(entries') = Len(entries)
      /\ entries'[m].type = Len(pool) + 1
      /\ \A d \in 1 .. Len(entries) : d # m => entries'[d] = entries[d]
  <2>1. PICK e : e = [entries[m] EXCEPT !.type = Len(pool) + 1]
    OBVIOUS
  <2>2. entries[m] \in Entry
    BY <1>1, <1>2, ElementOfSeq
  <2>3. e \in Entry /\ e.type = Len(pool) + 1
    <3>1. \A f, n : f \in Entry /\ n \in Nat
                     => [f EXCEPT !.type = n] \in Entry /\ [f EXCEPT !.type = n].type = n
      BY DEF Entry
    <3>2. Len(pool) + 1 \in Nat
      BY <1>1
    <3> QED
      BY <2>1, <2>2, <3>1, <3>2, Zenon
  <2>4. entries' = [entries EXCEPT ![m] = e]
    BY <1>6, <2>1
  <2>5. /\ entries' \in Seq(Entry) /\ Len(entries') = Len(entries)
        /\ \A d \in 1 .. Len(entries) : entries'[d] = IF d = m THEN e ELSE entries[d]
    BY <1>1, <1>2, <2>3, <2>4, ExceptSeq
  <2> QED
    BY <1>2, <2>3, <2>5
<1>9. ScopeVars(type.handles) \subseteq ScopeVars(scope)
  BY <1>5, VarIn
<1>10. TypesStep
  <2>1. ASSUME NEW d \in 1 .. Len(entries'), entries'[d].type # Unsealed
        PROVE  \/ d \in 1 .. Len(entries) /\ Sealed(d)
               \/ entries'[d].type \in 1 .. Len(pool') /\ pool'[entries'[d].type].mod = d
    <3>1. CASE d = m
      BY <1>1, <1>5, <1>7, <1>8, <3>1
    <3>2. CASE d # m
      BY <1>8, <2>1, <3>2 DEF Sealed
    <3> QED
      BY <3>1, <3>2
  <2>2. ASSUME NEW k \in DOMAIN scope
        PROVE  HandleOK(pool', scope[k], Len(pool'), gvar')
    <3>1. scope[k] \in HandleSet
      BY <2>2, ScopeType
    <3>2. HandleOK(pool, scope[k], Len(pool), gvar) /\ scope[k].index \in Nat
      BY <2>2, <3>1 DEF HandleSet
    <3> QED
      BY <1>1, <1>6, <1>7, <3>2 DEF HandleOK
  <2>3. \A k \in DOMAIN type.handles : HandleOK(pool', type.handles[k], Len(pool'), gvar')
    BY <1>5, <2>2
  <2>4. \A c \in type.children : c[1] \in 1 .. Len(pool') /\ pool'[c[1]].mod # None
    BY <1>5, <2>2 DEF HandleOK
  <2>5. \A t \in 1 .. Len(pool') : t > Len(pool) => t = Len(pool) + 1
    BY <1>1, <1>7
  <2>6. type.mod \in 2 .. Len(entries') /\ entries'[type.mod].type = Len(pool) + 1 /\ type.index < gvar'
    BY <1>1, <1>5, <1>6, <1>8
  <2> QED
    BY <1>7, <2>1, <2>3, <2>4, <2>5, <2>6 DEF TypesStep
<1> QED
  BY <1>1, <1>5, <1>6, <1>7, <1>8, <1>9, <1>10

LEMMA ExitKeeps ==
  ASSUME FrontInv, ExitModule
  PROVE  FrontInv'
<1>1. /\ Parsing /\ Compiling /\ Stay /\ Len(contexts) > 1 /\ CreateModType(Ctx.scope, Ctx.mod)
      /\ Imported(Front(contexts), pool', entries'[Ctx.mod].type)
  BY DEF ExitModule, Parsing
<1>2. /\ FrontTyped /\ contexts # <<>> /\ contexts \in Seq(ContextSet) /\ contexts[Len(contexts)] = Ctx
      /\ Ctx.scope \in Scope /\ Len(contexts) \in Nat /\ Len(entries) \in Nat
      /\ \A k \in DOMAIN Ctx.scope : Ctx.scope[k] \in HandleSet /\ Sound(Ctx.scope[k])
      /\ ContextsInv /\ PointKept
  BY <1>1, CtxFacts, LenProperties DEF FrontInv, FrontTyped
<1>3. PICK last \in Nat : last = Len(contexts) /\ last > 1 /\ last \in 2 .. Len(contexts)
  BY <1>1, <1>2
<1>4. PICK m : m = Ctx.mod
  OBVIOUS
<1>5. /\ m \in 2 .. Len(entries) /\ ~Sealed(m)
      /\ \A j \in 1 .. last - 1 : contexts[j].mod < m
      /\ \A j \in 1 .. last - 1 : contexts[j].mod \in 1 .. Len(entries)
  <2>1. /\ m \in point.mods + 1 .. Len(entries) /\ ~Sealed(m)
        /\ \A j \in 1 .. last - 1 : contexts[j].mod < m
    BY <1>2, <1>3, <1>4 DEF ContextsInv
  <2>2. point.mods \in 1 .. Len(entries)
    BY <1>2 DEF PointKept, Kept
  <2>3. contexts[1].mod \in 1 .. Len(entries)
    BY <1>2 DEF ContextsInv
  <2>4. \A j \in 2 .. last - 1 : contexts[j].mod \in point.mods + 1 .. Len(entries)
    BY <1>2, <1>3 DEF ContextsInv
  <2>5. m \in 2 .. Len(entries)
    BY <1>2, <2>1, <2>2
  <2>6. ASSUME NEW j \in 1 .. last - 1
        PROVE  contexts[j].mod \in 1 .. Len(entries)
    <3>1. CASE j = 1
      BY <2>3, <3>1
    <3>2. CASE j \in 2 .. last - 1
      BY <1>2, <2>2, <2>4, <3>2
    <3> QED
      BY <1>3, <3>1, <3>2
  <2> QED
    BY <2>1, <2>5, <2>6
<1>6. PICK n \in Nat : n = Len(pool) + 1
  BY <1>2, LenProperties DEF FrontTyped
<1>7. PICK type : type = pool'[n]
  OBVIOUS
<1>8. /\ pool' \in Seq(ModType) /\ Len(pool') = n /\ Len(pool) \in Nat
      /\ \A t \in 1 .. Len(pool) : pool'[t] = pool[t]
      /\ type.mod = m /\ type.index = gvar
      /\ \A k \in DOMAIN type.handles : k \in DOMAIN Ctx.scope /\ type.handles[k] = Ctx.scope[k]
      /\ ScopeVars(type.handles) \subseteq ScopeVars(Ctx.scope)
      /\ gvar' = gvar + 1 /\ gvar \in Nat /\ gvar' \in Nat
      /\ entries' \in Seq(Entry) /\ Len(entries') = Len(entries)
      /\ entries'[m].type = n
      /\ \A d \in 1 .. Len(entries) : d # m => entries'[d] = entries[d]
      /\ TypesStep
  <2>1. CreateModType(Ctx.scope, m)
    BY <1>1, <1>4
  <2>2. \A k \in DOMAIN Ctx.scope : HandleOK(pool, Ctx.scope[k], Len(pool), gvar)
    BY <1>2 DEF Sound
  <2> QED
    BY <1>2, <1>5, <1>6, <1>7, <2>1, <2>2, SealLemma
<1>9. PICK cs : cs = Front(contexts)
  OBVIOUS
<1>10. /\ cs \in Seq(ContextSet) /\ Len(cs) = last - 1 /\ cs # <<>>
       /\ \A j \in 1 .. last - 1 : cs[j] = contexts[j]
  <2>1. cs = SubSeq(contexts, 1, last - 1)
    BY <1>3, <1>9 DEF Front
  <2>2. /\ SubSeq(contexts, 1, last - 1) \in Seq(ContextSet) /\ Len(SubSeq(contexts, 1, last - 1)) = last - 1
        /\ \A j \in 1 .. last - 1 : SubSeq(contexts, 1, last - 1)[j] = contexts[j]
    BY <1>2, <1>3, PrefixLemma
  <2>3. Len(cs) = last - 1 /\ last - 1 # 0 /\ Len(<<>>) = 0
    BY <1>3, <2>1, <2>2
  <2> QED
    BY <2>1, <2>2, <2>3
<1>11. PICK top \in Nat : top = last - 1 /\ top \in 1 .. Len(contexts)
  BY <1>3
<1>12. /\ contexts' \in Seq(ContextSet) /\ Len(contexts') = top
       /\ \A j \in 1 .. top - 1 : contexts'[j] = contexts[j]
       /\ contexts'[top].mod = contexts[top].mod
       /\ Imports(contexts[top].scope, contexts'[top].scope, pool', n)
  <2>1. Imported(cs, pool', n) /\ n \in 1 .. Len(pool')
    BY <1>1, <1>4, <1>6, <1>8, <1>9
  <2>2. /\ contexts' \in Seq(ContextSet) /\ Len(contexts') = Len(cs)
        /\ \A j \in 1 .. Len(cs) - 1 : contexts'[j] = cs[j]
        /\ contexts'[Len(cs)].mod = cs[Len(cs)].mod
        /\ Imports(cs[Len(cs)].scope, contexts'[Len(cs)].scope, pool', n)
    BY <1>8, <1>10, <2>1, ImportedLemma
  <2>3. top \in 1 .. last - 1 /\ \A j \in 1 .. top - 1 : j \in 1 .. last - 1
    BY <1>3, <1>11
  <2> QED
    BY <1>10, <1>11, <2>2, <2>3
<1>13. PICK i : i = [op |-> "leave", index |-> gvar, owner |-> <<m, "", gvar>>]
  OBVIOUS
<1>14. i \in Instr /\ i.op = "leave" /\ i.index = gvar
  <2>1. PICK names, none, o : names = Name \cup {none} /\ none = "" /\ o = <<m, none, gvar>>
    OBVIOUS
  <2>2. none \in names
    BY <2>1, Zenon
  <2>3. o \in Nat \X names \X Nat
    <3>1. m \in Nat /\ gvar \in Nat
      BY <1>2, <1>5, <1>8
    <3>2. o = <<m, none, gvar>>
      BY <2>1
    <3> QED
      BY <2>2, <3>1, <3>2
  <2>4. i = [op |-> "leave", index |-> gvar, owner |-> o]
    BY <1>13, <2>1
  <2>5. Instr = [op : {"store", "load", "enter", "leave"}, index : Nat, owner : {None} \cup (Nat \X names \X Nat)]
    BY <2>1 DEF Instr
  <2> QED
    BY <1>8, <2>3, <2>4, <2>5
<1>15. /\ code' \in Seq(Instr) /\ Len(code') = Len(code) + 1 /\ Len(code) \in Nat
       /\ \A q \in 1 .. Len(code) : code'[q] = code[q]
       /\ code'[Len(code) + 1] = i
  <2>1. Emit(<<ModuleObject(type)>>)
    BY <1>4, <1>7, <1>8 DEF ExitModule
  <2>2. ModuleObject(type) = i
    BY <1>8, <1>13 DEF ModuleObject
  <2> QED
    BY <1>2, <1>14, <2>1, <2>2, EmitLemma
<1>16. FrontTyped'
  BY <1>1, <1>2, <1>8, <1>12, <1>15, StayTyped
<1>17. Extends
  <2>1. UNCHANGED illegal
    BY <1>1 DEF Stay, runVars
  <2>2. Len(entries) <= Len(entries') /\ Len(code) <= Len(code') /\ Len(pool) <= Len(pool')
    BY <1>2, <1>6, <1>8, <1>15
  <2>3. ASSUME NEW d \in 1 .. Len(entries), Sealed(d) \/ d <= point.mods
        PROVE  entries'[d] = entries[d]
    <3>1. m \in point.mods + 1 .. Len(entries) /\ point.mods \in 1 .. Len(entries)
      BY <1>2, <1>3, <1>4 DEF ContextsInv, PointKept, Kept
    <3>2. d # m
      BY <1>2, <1>5, <2>3, <3>1
    <3> QED
      BY <1>8, <3>2
  <2> QED
    BY <1>1, <1>2, <1>8, <1>15, <2>1, <2>2, <2>3, StayExtends
<1>18. SetByEnd \subseteq SetByEnd' /\ gvar \in SetByEnd'
  <2>1. ApartIndex' = ApartIndex
    BY <1>2, <1>16, <1>17, PointStays
  <2>2. Len(code) + 1 \in 1 .. Len(code') /\ Storing(code'[Len(code) + 1])
    BY <1>14, <1>15 DEF Storing
  <2> QED
    BY <1>2, <1>14, <1>15, <1>16, <1>17, <2>1, <2>2, SetStays
<1>19. TypesSet
  <2>1. ASSUME ~raised
        PROVE  \A k \in DOMAIN type.handles : type.handles[k].index \in SetByEnd'
    BY <1>2, <1>8, <1>18, <2>1 DEF Sound
  <2>2. \A t \in 1 .. Len(pool') : t > Len(pool) => t = n
    BY <1>6, <1>8
  <2> QED
    BY <1>7, <1>8, <1>18, <2>1, <2>2 DEF TypesSet
<1>20. ASSUME NEW h, FromType(pool', n, h)
       PROVE  HandleOK(pool', h, Len(pool'), gvar') /\ (~raised => h.index \in SetByEnd') /\ h.kind # "var"
  <2>1. n \in 1 .. Len(pool') /\ n > Len(pool)
    BY <1>6, <1>8
  <2>2. /\ pool'[n].mod # None /\ pool'[n].index < gvar'
        /\ \A k \in DOMAIN pool'[n].handles : HandleOK(pool', pool'[n].handles[k], Len(pool'), gvar')
    <3>1. m # None
      BY <1>2, <1>5 DEF None
    <3> QED
      BY <1>7, <1>8, <2>1, <3>1 DEF TypesStep
  <2>3. HandleOK(pool', h, Len(pool'), gvar')
    <3>1. Len(pool') \in Nat
      BY <1>8
    <3> QED
      BY <1>20, <2>1, <2>2, <3>1, FromOK
  <2>4. ASSUME ~raised
        PROVE  h.index \in SetByEnd'
    <3>1. /\ pool'[n].index \in SetByEnd'
          /\ \A k \in DOMAIN pool'[n].handles : pool'[n].handles[k].index \in SetByEnd'
      BY <1>7, <1>8, <1>18, <1>19, <2>1, <2>4 DEF TypesSet
    <3> QED
      BY <1>20, <3>1, FromSet
  <2> QED
    BY <1>20, <2>3, <2>4 DEF FromType
<1>21. ASSUME NEW j \in 1 .. Len(contexts')
       PROVE  /\ j <= Len(contexts) /\ contexts'[j].mod = contexts[j].mod
              /\ entries'[contexts[j].mod].type = entries[contexts[j].mod].type
              /\ Grown(contexts[j].scope, contexts'[j].scope)
              /\ \A k \in DOMAIN contexts'[j].scope \ DOMAIN contexts[j].scope :
                   FromType(pool', n, contexts'[j].scope[k])
  <2>1. j \in 1 .. last - 1 /\ j \in 1 .. Len(contexts) /\ j <= Len(contexts)
    BY <1>3, <1>11, <1>12
  <2>2. entries'[contexts[j].mod].type = entries[contexts[j].mod].type
    <3>1. contexts[j].mod # m /\ contexts[j].mod \in 1 .. Len(entries)
      BY <1>2, <1>5, <2>1
    <3> QED
      BY <1>8, <3>1
  <2>3. CASE j = top
    BY <1>12, <2>1, <2>2, <2>3 DEF Imports
  <2>4. CASE j # top
    <3>1. contexts'[j] = contexts[j]
      BY <1>11, <1>12, <2>4
    <3>2. contexts[j].scope \in Scope
      <4>1. contexts[j] \in ContextSet
        BY <1>2, <2>1, ElementOfSeq
      <4> QED
        BY <4>1 DEF ContextSet
    <3> QED
      BY <2>1, <2>2, <3>1, <3>2, GrownRefl
  <2> QED
    BY <2>3, <2>4
<1>22. ScopesStep
  <2>1. Len(contexts') \in 1 .. Len(contexts) + 1
    BY <1>3, <1>11, <1>12
  <2>2. \A j \in 1 .. Len(contexts') : ~(j > Len(contexts))
    BY <1>3, <1>11, <1>12
  <2> QED
    BY <1>20, <1>21, <2>1, <2>2 DEF ScopesStep
<1>23. CodeStep
  <2>1. ASSUME NEW j \in 2 .. Len(contexts)
        PROVE  \/ entries'[contexts[j].mod].type # Unsealed
               \/ \E l \in 2 .. Len(contexts') : contexts'[l].mod = contexts[j].mod
    <3>1. CASE j = last
      <4>1. n # Unsealed
        BY <1>6, <1>8 DEF Unsealed
      <4> QED
        BY <1>2, <1>3, <1>4, <1>8, <3>1, <4>1
    <3>2. CASE j # last
      <4>1. j \in 2 .. Len(contexts') /\ j \in 1 .. Len(contexts')
        BY <1>3, <1>11, <1>12, <3>2
      <4> QED
        BY <1>21, <4>1
    <3> QED
      BY <3>1, <3>2
  <2>2. gvar < gvar'
    BY <1>8
  <2> QED
    BY <1>14, <1>15, <2>1, <2>2 DEF CodeStep
<1>24. SlotsAgree'
  <2>1. \A j \in 1 .. Len(contexts') : \A k \in DOMAIN contexts'[j].scope \ DOMAIN contexts[j].scope :
          contexts'[j].scope[k].kind # "var"
    BY <1>20, <1>21
  <2>2. \A d \in 1 .. Len(pool') : d > Len(pool) => ScopeVars(pool'[d].handles) \subseteq Vars
    <3>1. ScopeVars(Ctx.scope) \subseteq Vars
      <4>1. last \in DOMAIN contexts
        BY <1>2, <1>3, LenProperties
      <4> QED
        BY <1>2, <1>3, <4>1, VarsOf
    <3>2. \A d \in 1 .. Len(pool') : d > Len(pool) => d = n
      BY <1>6, <1>8
    <3> QED
      BY <1>7, <1>8, <3>1, <3>2
  <2>3. \A q \in 1 .. Len(code') : q = Len(code) + 1 /\ Storing(code'[q]) =>
          code'[q].index = gvar /\ code'[q].owner = <<m, "", gvar>>
    <3>1. i.index = gvar /\ i.owner = <<m, "", gvar>>
      BY <1>13, Zenon
    <3> QED
      BY <1>15, <3>1, Zenon
  <2> QED
    BY <1>16, <1>17, <1>22, <1>23, <2>1, <2>2, <2>3, SlotsStep
<1> QED
  BY <1>2, <1>16, <1>17, <1>19, <1>8, <1>22, <1>23, <1>24, StepKeeps

-----------------------------------------------------------------------------
(* The calls of the API                                                       *)

\* What there is stays, but for a module that may be registered.
IdleStep ==
  /\ entry = Idle /\ UNCHANGED <<pool, gvar, root, code, runVars>>
  /\ entries' \in Seq(Entry) /\ Len(entries) <= Len(entries')
  /\ \A m \in 1 .. Len(entries) : entries'[m] = entries[m]
  /\ \A m \in 1 .. Len(entries') : m > Len(entries) => entries'[m].type = Unsealed

LEMMA IdleFacts ==
  ASSUME FrontInv, entry = Idle
  PROVE  /\ contexts = <<>> /\ code = <<>> /\ Len(code) = 0 /\ DOMAIN code = {}
         /\ SetByEnd = DOMAIN globals \cup ApartIndex
<1>1. contexts = <<>> /\ code = <<>>
  BY DEF FrontInv
<1>2. Len(code) = 0 /\ DOMAIN code = {}
  BY <1>1
<1>3. SetByEnd = DOMAIN globals \cup ApartIndex
  BY <1>2 DEF SetByEnd, SetAt
<1> QED
  BY <1>1, <1>2, <1>3

LEMMA IdleKeeps ==
  ASSUME FrontInv, FrontTyped', IdleStep
  PROVE  /\ Kept(Len(entries), Len(pool), gvar)'
         /\ ApartIndex' = ApartIndex /\ SetByEnd' = SetByEnd
         /\ ~raised' => SetFor(Len(pool), SetByEnd)'
         /\ Numbered(root)' /\ CodeInv' /\ Stores' = Stores
         /\ \A i, j \in DOMAIN ran' : ran'[i] = ran'[j] => i = j
         /\ illegal' \subseteq ApartIndex'
<1>1. /\ FrontTyped /\ Len(entries) \in Nat /\ Len(entries') \in Nat /\ Len(pool) \in Nat
      /\ Kept(Len(entries), Len(pool), gvar) /\ gvar \in Nat
  BY LenProperties DEF FrontInv, FrontTyped, IdleStep
<1>2. /\ pool' = pool /\ gvar' = gvar /\ root' = root /\ code' = code /\ globals' = globals
      /\ ran' = ran /\ raised' = raised /\ illegal' = illegal /\ apart' = apart
  BY DEF IdleStep, runVars
<1>3. Kept(Len(entries), Len(pool), gvar)'
  <2>1. TypesStep
    <3>1. \A m \in 1 .. Len(entries') : entries'[m].type # Unsealed => m \in 1 .. Len(entries) /\ Sealed(m)
      BY <1>1 DEF IdleStep, Sealed
    <3>2. \A t \in 1 .. Len(pool') : ~(t > Len(pool))
      BY <1>1, <1>2
    <3> QED
      BY <3>1, <3>2 DEF TypesStep
  <2>2. /\ Len(entries) <= Len(entries') /\ Len(pool) <= Len(pool') /\ gvar <= gvar'
        /\ \A t \in 1 .. Len(pool) : pool'[t] = pool[t]
        /\ \A m \in 1 .. Len(entries) : Sealed(m) => entries'[m] = entries[m]
    BY <1>1, <1>2 DEF IdleStep
  <2>3. \A m \in apart' : m \in apart
    BY <1>2
  <2> QED
    BY <1>1, <1>2, <2>1, <2>2, <2>3, KeptGrows
<1>4. ApartIndex' = ApartIndex
  <2>1. \A m \in apart : /\ entries'[m] = entries[m]
                         /\ entries[m].type \in 1 .. Len(pool)
                         /\ pool'[entries[m].type] = pool[entries[m].type]
    BY <1>1, <1>2 DEF Kept, IdleStep
  <2> QED
    BY <1>1, <1>2, <2>1, ApartStays
<1>5. SetByEnd' = SetByEnd
  BY <1>2, <1>4 DEF SetByEnd, SetAt
<1>6. ~raised' => SetFor(Len(pool), SetByEnd)'
  BY <1>2, <1>5 DEF FrontInv, SetFor
<1>7. Numbered(root)' /\ Stores' = Stores
  BY <1>2 DEF FrontInv, Numbered, Stores
<1>8. CodeInv'
  BY <1>2, IdleFacts DEF CodeInv, IdleStep
<1> QED
  BY <1>2, <1>3, <1>4, <1>5, <1>6, <1>7, <1>8 DEF FrontInv

LEMMA UnreadableKeeps ==
  ASSUME FrontInv, NEW p \in Path, LoadUnreadable(p)
  PROVE  FrontInv'
<1>1. /\ entry = Idle /\ entries' = Register(p)
      /\ UNCHANGED <<pool, gvar, root, contexts, code, runVars, entry, point, saved>>
  BY DEF LoadUnreadable
<1>2. FrontTyped
  BY DEF FrontInv
<1>3. /\ entries' \in Seq(Entry) /\ Len(entries') = Len(entries) + 1 /\ Len(entries) \in Nat
      /\ \A m \in 1 .. Len(entries) : entries'[m] = entries[m]
      /\ entries'[Len(entries) + 1].type = Unsealed
  BY <1>1, <1>2, RegisterLemma
<1>4. FrontTyped'
  BY <1>1, <1>2, <1>3 DEF FrontTyped, runVars
<1>5. IdleStep
  <2>1. \A m \in 1 .. Len(entries') : m > Len(entries) => m = Len(entries) + 1
    BY <1>3
  <2> QED
    BY <1>1, <1>3, <2>1 DEF IdleStep
<1>6. SlotsAgree'
  <2>1. Stores' = Stores
    BY <1>4, <1>5, IdleKeeps
  <2>2. Vars' = Vars
    BY <1>1 DEF Vars, ScopeVars
  <2> QED
    BY <2>1, <2>2 DEF FrontInv, SlotsAgree
<1>7. contexts' = <<>> /\ entry' = Idle /\ code' = <<>>
  BY <1>1, IdleFacts
<1> QED
  BY <1>4, <1>5, <1>6, <1>7, IdleKeeps DEF FrontInv

LEMMA WholeSeq ==
  ASSUME NEW S, NEW s \in Seq(S)
  PROVE  SubSeq(s, 1, Len(s)) = s
<1>1. Len(s) \in Nat
  BY LenProperties
<1>2. /\ SubSeq(s, 1, Len(s)) \in Seq(S) /\ Len(SubSeq(s, 1, Len(s))) = Len(s)
      /\ \A i \in 1 .. Len(s) : SubSeq(s, 1, Len(s))[i] = s[i]
  BY <1>1, PrefixLemma
<1> QED
  BY <1>1, <1>2, SeqEqual

(* A compilation begins: of the root module, of a sealed one, or of one of    *)
(* its own.                                                                   *)
LEMMA BeginKeeps ==
  ASSUME FrontInv, IdleStep, TakePoint, NEW c \in ContextSet, contexts' = <<c>>, entry' \in Compilations,
         c.mod \in 1 .. Len(entries'),
         entry' \in {"eval", "shared"} => c.mod = RootMod,
         entry' = "separate" => c.mod = Len(entries) + 1,
         entry' # "separate" => c.mod <= Len(entries),
         c.mod = RootMod => c.scope = root,
         \A k \in DOMAIN c.scope : Sound(c.scope[k]),
         c.scope = root \/ \A k \in DOMAIN c.scope : c.scope[k].kind # "var"
  PROVE  FrontInv'
<1>1. /\ FrontTyped /\ Len(entries) \in Nat /\ Len(entries') \in Nat /\ Len(pool) \in Nat
      /\ Kept(Len(entries), Len(pool), gvar) /\ gvar \in Nat /\ root \in Scope
      /\ entries \in Seq(Entry) /\ pool \in Seq(ModType)
  BY LenProperties DEF FrontInv, FrontTyped, IdleStep
<1>2. /\ pool' = pool /\ gvar' = gvar /\ root' = root /\ code' = code /\ globals' = globals
      /\ ran' = ran /\ raised' = raised /\ illegal' = illegal /\ apart' = apart
  BY DEF IdleStep, runVars
<1>3. point' = [mods |-> Len(entries), gvar |-> gvar, commit |-> Size(root), types |-> Len(pool)]
      /\ saved' = <<entries, pool, root>>
  BY DEF TakePoint
<1>4. /\ contexts' \in Seq(ContextSet) /\ Len(contexts') = 1 /\ contexts'[1] = c /\ contexts' # <<>>
      /\ DOMAIN contexts' = {1}
  OBVIOUS
<1>5. point' \in [mods : Nat, gvar : Nat, commit : Nat, types : Nat]
  <2>1. Size(root) \in Nat
    BY <1>1, ScopeType
  <2> QED
    BY <1>1, <1>3, <2>1
<1>6. FrontTyped'
  <2>1. entry' \in Compilations \cup {Idle, "run"}
    OBVIOUS
  <2> QED
    BY <1>1, <1>2, <1>4, <1>5, <2>1 DEF FrontTyped, IdleStep
<1>7. /\ Kept(Len(entries), Len(pool), gvar)'
      /\ ApartIndex' = ApartIndex /\ SetByEnd' = SetByEnd
      /\ ~raised' => SetFor(Len(pool), SetByEnd)'
      /\ Numbered(root)' /\ CodeInv' /\ Stores' = Stores
      /\ \A i, j \in DOMAIN ran' : ran'[i] = ran'[j] => i = j
      /\ illegal' \subseteq ApartIndex'
  BY <1>6, IdleKeeps
<1>8. PointKept'
  <2>1. PICK mods, types, slots : mods = Len(entries) /\ types = Len(pool) /\ slots = gvar
    OBVIOUS
  <2>2. /\ mods <= Len(entries') /\ types <= Len(pool') /\ slots <= gvar'
        /\ \A m \in 1 .. mods : entries'[m] = entries[m]
        /\ \A t \in 1 .. types : pool'[t] = pool[t]
    BY <1>1, <1>2, <2>1 DEF IdleStep
  <2>3. Kept(mods, types, slots)'
    BY <1>1, <1>2, <1>6, <2>1, <2>2, KeptSame
  <2>4. point'.mods = mods /\ point'.types = types /\ point'.gvar = slots /\ point'.commit = Size(root')
    BY <1>2, <1>3, <2>1
  <2>5. ~raised' => SetFor(types, DOMAIN globals \cup ApartIndex)'
    <3>1. ~raised => SetFor(types, DOMAIN globals \cup ApartIndex)
      BY <2>1, IdleFacts DEF FrontInv, IdleStep
    <3> QED
      BY <1>2, <1>7, <3>1 DEF SetFor
  <2>6. saved' = <<SubSeq(entries', 1, mods), SubSeq(pool', 1, types), root'>>
    <3>1. SubSeq(entries', 1, mods) = entries
      <4>1. SubSeq(entries', 1, mods) = SubSeq(entries, 1, mods)
        BY <1>1, <2>1, <2>2, SamePrefix DEF IdleStep
      <4> QED
        BY <1>1, <2>1, <4>1, WholeSeq
    <3>2. SubSeq(pool', 1, types) = pool
      BY <1>1, <1>2, <2>1, WholeSeq
    <3> QED
      BY <1>2, <1>3, <3>1, <3>2
  <2> QED
    BY <2>3, <2>4, <2>5, <2>6 DEF PointKept, Kept, SetFor, Sealed
<1>9. ContextsInv'
  <2>1. entry' = "separate" => entries'[c.mod].type = Unsealed
    BY <1>1 DEF IdleStep
  <2>2. c.mod = RootMod => Continues(c.scope) /\ Numbered(c.scope)
    <3>1. Numbered(root) /\ Continues(root)
      BY DEF FrontInv, Continues
    <3> QED
      BY <3>1
  <2>3. \A k \in DOMAIN c.scope : HandleOK(pool', c.scope[k], Len(pool'), gvar')
                                  /\ (~raised' => c.scope[k].index \in SetByEnd')
    BY <1>2, <1>7 DEF Sound
  <2>4. point'.mods = Len(entries)
    BY <1>3
  <2>5. c.mod = RootMod => Continues(contexts[1].scope)' /\ Numbered(contexts[1].scope)'
    BY <1>2, <1>4, <2>2 DEF Continues, Numbered
  <2>6. \A i \in 2 .. Len(contexts') : FALSE
    BY <1>4
  <2> QED
    BY <1>4, <2>1, <2>3, <2>4, <2>5, <2>6 DEF ContextsInv, Sound, Sealed
<1>10. SlotsAgree'
  <2>1. ASSUME NEW v \in Vars'
        PROVE  v \in Vars
    <3>1. \/ v \in ScopeVars(root)'
          \/ \E i \in DOMAIN contexts' : v \in ScopeVars(contexts'[i].scope)
          \/ \E d \in DOMAIN pool' : v \in ScopeVars(pool'[d].handles)
      <4>1. v \in Vars' <=> \/ v \in ScopeVars(root)'
                            \/ \E i \in DOMAIN contexts' : v \in ScopeVars(contexts'[i].scope)
                            \/ \E d \in DOMAIN pool' : v \in ScopeVars(pool'[d].handles)
        BY Zenon DEF Vars
      <4> QED
        BY <2>1, <4>1
    <3>2. CASE v \in ScopeVars(root)'
      <4>1. v \in ScopeVars(root)
        BY <1>2, <3>2 DEF ScopeVars
      <4> QED
        BY <4>1, VarsOf
    <3>3. CASE v \in ScopeVars(c.scope)
      <4>1. c.scope = root
        BY <3>3, VarIn
      <4> QED
        BY <3>3, <4>1, VarsOf
    <3>4. CASE \E d \in DOMAIN pool' : v \in ScopeVars(pool'[d].handles)
      BY <1>2, <3>4, VarsOf
    <3> QED
      BY <1>4, <3>1, <3>2, <3>3, <3>4
  <2> QED
    BY <1>7, <2>1 DEF FrontInv, SlotsAgree
<1>11. entry' # Idle
  BY DEF Compilations, Idle
<1> QED
  BY <1>4, <1>6, <1>7, <1>8, <1>9, <1>10, <1>11 DEF FrontInv

LEMMA RootSound ==
  ASSUME FrontInv
  PROVE  root \in Scope /\ \A k \in DOMAIN root : Sound(root[k])
<1>1. root \in Scope /\ Kept(Len(entries), Len(pool), gvar) /\ (~raised => SetFor(Len(pool), SetByEnd))
  BY DEF FrontInv, FrontTyped
<1>2. ASSUME NEW k \in DOMAIN root
      PROVE  Sound(root[k])
  BY <1>1 DEF Kept, SetFor, Sound
<1> QED
  BY <1>1, <1>2

LEMMA BeginIdle ==
  ASSUME FrontInv, NEW kind, NEW m, NEW scope, Begin(kind, m, scope)
  PROVE  /\ IdleStep /\ TakePoint /\ contexts' = <<Context(m, scope)>> /\ entry' = kind
         /\ entries' = entries /\ Len(entries) \in Nat \ {0}
<1>1. entries \in Seq(Entry) /\ Len(entries) \in Nat /\ Len(entries) >= 1
  BY LenProperties DEF FrontInv, FrontTyped, Kept
<1>2. \A d \in 1 .. Len(entries) : ~(d > Len(entries))
  BY <1>1
<1> QED
  BY <1>1, <1>2 DEF Begin, IdleStep

LEMMA RootKeeps ==
  ASSUME FrontInv, Eval \/ Complete
  PROVE  FrontInv'
<1>1. PICK kind \in {"eval", "complete"} : Begin(kind, RootMod, root)
  BY DEF Eval, Complete
<1>2. /\ IdleStep /\ TakePoint /\ contexts' = <<Context(RootMod, root)>> /\ entry' = kind
      /\ entries' = entries /\ Len(entries) \in Nat \ {0}
  BY <1>1, BeginIdle
<1>3. root \in Scope /\ \A k \in DOMAIN root : Sound(root[k])
  BY RootSound
<1>4. PICK c : c = Context(RootMod, root)
  OBVIOUS
<1>5. c \in ContextSet /\ c.mod = RootMod /\ c.scope = root
  BY <1>3, <1>4, ContextTyped DEF RootMod
<1>6. entry' \in Compilations /\ entry' # "separate"
  BY <1>2 DEF Compilations
<1>7. RootMod \in 1 .. Len(entries') /\ RootMod <= Len(entries)
  BY <1>2 DEF RootMod
<1> QED
  BY <1>2, <1>3, <1>4, <1>5, <1>6, <1>7, BeginKeeps

LEMMA CompleteInKeeps ==
  ASSUME FrontInv, NEW t \in 1 .. Len(pool), CompleteIn(t)
  PROVE  FrontInv'
<1>1. PICK m : m = pool[t].mod
  OBVIOUS
<1>2. m # None /\ Begin("complete", m, AgainScope(t))
  BY <1>1 DEF CompleteIn
<1>3. /\ IdleStep /\ TakePoint /\ contexts' = <<Context(m, AgainScope(t))>> /\ entry' = "complete"
      /\ entries' = entries /\ Len(entries) \in Nat \ {0}
  BY <1>2, BeginIdle
<1>4. /\ pool \in Seq(ModType) /\ Kept(Len(entries), Len(pool), gvar)
      /\ \A c \in pool[t].children : c[1] \in 1 .. Len(pool) /\ pool[c[1]].mod # None
  BY DEF FrontInv, FrontTyped, Kept
<1>5. m \in 2 .. Len(entries) /\ m \in Nat
  BY <1>1, <1>2, <1>3, <1>4 DEF Kept
<1>6. PICK scope : scope = AgainScope(t)
  OBVIOUS
<1>7. /\ scope \in Scope
      /\ \A k \in DOMAIN scope :
           \E d \in 1 .. Len(pool) : FromType(pool, d, scope[k])
                                     /\ (d = t \/ \E c \in pool[t].children : d = c[1])
  BY <1>4, <1>6, AgainScopeLemma
<1>8. ASSUME NEW k \in DOMAIN scope
      PROVE  Sound(scope[k]) /\ scope[k].kind # "var"
  <2>1. PICK d \in 1 .. Len(pool) : FromType(pool, d, scope[k]) /\ (d = t \/ \E c \in pool[t].children : d = c[1])
    BY <1>7
  <2>2. pool[d].mod # None
    BY <1>1, <1>2, <1>4, <2>1
  <2>3. scope[k].kind # "var"
    BY <2>1 DEF FromType
  <2> QED
    BY <2>1, <2>2, <2>3, FromSealed DEF Sound
<1>9. PICK c : c = Context(m, scope)
  OBVIOUS
<1>10. c \in ContextSet /\ c.mod = m /\ c.scope = scope
  BY <1>5, <1>7, <1>9, ContextTyped
<1>11. /\ entry' \in Compilations /\ entry' # "separate" /\ entry' \notin {"eval", "shared"}
       /\ c.mod # RootMod /\ c.mod \in 1 .. Len(entries') /\ c.mod <= Len(entries)
  BY <1>3, <1>5, <1>10 DEF Compilations, RootMod
<1> QED
  BY <1>3, <1>6, <1>8, <1>9, <1>10, <1>11, BeginKeeps

LEMMA LoadKeeps ==
  ASSUME FrontInv, NEW p \in Path, NEW separate \in BOOLEAN, LoadModule(p, separate)
  PROVE  FrontInv'
<1>1. /\ entry = Idle /\ entries' = Register(p) /\ TakePoint
      /\ entry' = IF separate THEN "separate" ELSE "shared"
      /\ UNCHANGED <<pool, gvar, root, code, runVars>>
  BY DEF LoadModule
<1>2. /\ entries' \in Seq(Entry) /\ Len(entries') = Len(entries) + 1 /\ Len(entries) \in Nat
      /\ \A m \in 1 .. Len(entries) : entries'[m] = entries[m]
      /\ entries'[Len(entries) + 1].type = Unsealed
  BY <1>1, RegisterLemma DEF FrontInv
<1>3. IdleStep
  <2>1. \A m \in 1 .. Len(entries') : m > Len(entries) => m = Len(entries) + 1
    BY <1>2
  <2> QED
    BY <1>1, <1>2, <2>1 DEF IdleStep
<1>4. Len(entries) >= 1 /\ root \in Scope /\ \A k \in DOMAIN root : Sound(root[k])
  BY RootSound DEF FrontInv, Kept
<1>5. CASE separate
  <2>1. PICK c : c = Context(Len(entries) + 1, <<>>)
    OBVIOUS
  <2>2. c \in ContextSet /\ c.mod = Len(entries) + 1 /\ c.scope = <<>>
    BY <1>2, <2>1, ContextTyped, EmptyScope
  <2>3. contexts' = <<c>> /\ entry' = "separate" /\ entry' \in Compilations
    BY <1>1, <1>2, <1>5, <2>1 DEF LoadModule, Compilations
  <2>4. c.mod \in 1 .. Len(entries') /\ c.mod # RootMod /\ \A k \in DOMAIN c.scope : FALSE
    BY <1>2, <1>4, <2>2, EmptyScope DEF RootMod
  <2> QED
    BY <1>1, <1>3, <2>2, <2>3, <2>4, BeginKeeps
<1>6. CASE ~separate
  <2>1. PICK c : c = Context(RootMod, root)
    OBVIOUS
  <2>2. c \in ContextSet /\ c.mod = RootMod /\ c.scope = root
    BY <1>4, <2>1, ContextTyped DEF RootMod
  <2>3. contexts' = <<c>> /\ entry' = "shared" /\ entry' \in Compilations
    BY <1>1, <1>6, <2>1 DEF LoadModule, Compilations
  <2>4. c.mod \in 1 .. Len(entries') /\ c.mod <= Len(entries)
    BY <1>2, <1>4, <2>2 DEF RootMod
  <2> QED
    BY <1>1, <1>3, <1>4, <2>2, <2>3, <2>4, BeginKeeps
<1> QED
  BY <1>5, <1>6

(* The end of a script                                                        *)
FinishStep ==
  /\ Len(contexts) = 1 /\ contexts' = <<>> /\ entry' = "run"
  /\ UNCHANGED <<code, globals, ran, raised, illegal, point, saved>>
  /\ Len(entries) <= Len(entries') /\ gvar <= gvar'
  /\ \A m \in 1 .. Len(entries) : Sealed(m) => entries'[m] = entries[m]
  /\ Kept(Len(entries), Len(pool), gvar)'
  /\ ApartIndex \subseteq ApartIndex'
  /\ ~raised => SetFor(Len(pool), SetByEnd)'
  /\ Numbered(root)'
  /\ Vars' \subseteq Vars

LEMMA FinishStepKeeps ==
  ASSUME FrontInv, Compiling, FrontTyped', FinishStep
  PROVE  FrontInv'
<1>1. /\ FrontTyped /\ CodeInv /\ SlotsAgree /\ illegal \subseteq ApartIndex
      /\ DOMAIN code = 1 .. Len(code) /\ Len(code) \in Nat
      /\ gvar \in Nat /\ gvar' \in Nat /\ Len(entries) \in Nat /\ Len(entries') \in Nat
      /\ point.mods \in 1 .. Len(entries)
  BY LenProperties DEF FrontInv, FrontTyped, PointKept, Kept, Compiling
<1>2. /\ code' = code /\ globals' = globals /\ ran' = ran /\ raised' = raised /\ illegal' = illegal
      /\ point' = point /\ Len(entries) <= Len(entries') /\ gvar <= gvar' /\ Len(contexts) = 1
      /\ ApartIndex \subseteq ApartIndex'
  BY DEF FinishStep
<1>3. ASSUME NEW p \in DOMAIN code'
      PROVE  /\ Storing(code'[p]) => code'[p].index < gvar'
             /\ ~raised' => (code'[p].op = "load" => code'[p].index \in SetAt(p)')
             /\ code'[p].op = "enter" =>
                  /\ code'[p].index \in point'.mods + 1 .. Len(entries')
                  /\ entries'[code'[p].index].type # Unsealed
  <2>1. p \in DOMAIN code /\ code'[p] = code[p] /\ code[p].index \in Nat
    <3>1. code[p] \in Instr
      BY <1>1, <1>2, <1>3, ElementOfSeq DEF FrontTyped
    <3> QED
      BY <1>2, <1>3, <3>1 DEF Instr
  <2>2. Storing(code[p]) => code[p].index < gvar'
    BY <1>1, <1>2, <2>1 DEF CodeInv
  <2>3. SetAt(p) \subseteq SetAt(p)'
    BY <1>2 DEF SetAt
  <2>4. ~raised' => (code[p].op = "load" => code[p].index \in SetAt(p)')
    BY <1>1, <1>2, <2>1, <2>3 DEF CodeInv
  <2>5. ASSUME code[p].op = "enter"
        PROVE  /\ code[p].index \in point.mods + 1 .. Len(entries')
               /\ entries'[code[p].index].type # Unsealed
    <3>1. /\ code[p].index \in point.mods + 1 .. Len(entries)
          /\ Sealed(code[p].index) \/ \E i \in 2 .. Len(contexts) : contexts[i].mod = code[p].index
      BY <1>1, <2>1, <2>5 DEF CodeInv
    <3>2. Sealed(code[p].index) /\ code[p].index \in 1 .. Len(entries)
      BY <1>1, <1>2, <3>1
    <3>3. entries'[code[p].index] = entries[code[p].index]
      BY <3>2 DEF FinishStep
    <3> QED
      BY <1>1, <1>2, <3>1, <3>2, <3>3 DEF Sealed
  <2> QED
    BY <1>2, <2>1, <2>2, <2>4, <2>5
<1>4. CodeInv'
  <2>1. \A p \in DOMAIN code : code[p].op = "enter" =>
          /\ \A i \in DOMAIN ran : ran[i] # code[p].index
          /\ \A q \in DOMAIN code : code[q].op = "enter" /\ code[q].index = code[p].index => q = p
    BY <1>1 DEF CodeInv
  <2> QED
    BY <1>2, <1>3, <2>1 DEF CodeInv, Sealed
<1>5. SlotsAgree'
  <2>1. Stores' = Stores
    BY <1>2 DEF Stores
  <2>2. Vars' \subseteq Vars
    BY DEF FinishStep
  <2> QED
    BY <1>1, <2>1, <2>2 DEF SlotsAgree
<1>6. \A i, j \in DOMAIN ran' : ran'[i] = ran'[j] => i = j
  BY <1>2 DEF FrontInv
<1>7. illegal' \subseteq ApartIndex'
  BY <1>1, <1>2
<1>8. contexts' = <<>> /\ entry' = "run" /\ entry' # Idle
  BY DEF FinishStep, Idle
<1> QED
  BY <1>2, <1>4, <1>5, <1>6, <1>7, <1>8 DEF FrontInv, FinishStep

LEMMA VarsLeft ==
  ASSUME contexts' = <<>>,
         ScopeVars(root)' \subseteq Vars,
         \A d \in DOMAIN pool' : ScopeVars(pool'[d].handles) \subseteq Vars
  PROVE  Vars' \subseteq Vars
<1>1. ASSUME NEW v \in Vars'
      PROVE  v \in Vars
  <2>1. v \in Vars' <=> \/ v \in ScopeVars(root)'
                        \/ \E i \in DOMAIN contexts' : v \in ScopeVars(contexts'[i].scope)
                        \/ \E d \in DOMAIN pool' : v \in ScopeVars(pool'[d].handles)
    BY Zenon DEF Vars
  <2>2. DOMAIN contexts' = {}
    OBVIOUS
  <2> QED
    BY <1>1, <2>1, <2>2
<1> QED
  BY <1>1

LEMMA FinishKeeps ==
  ASSUME FrontInv, Finish
  PROVE  FrontInv'
<1>1. /\ Compiling /\ Len(contexts) = 1 /\ entry # "complete" /\ contexts' = <<>> /\ entry' = "run"
      /\ UNCHANGED <<code, globals, ran, raised, illegal, point, saved>>
  BY DEF Finish, Parsing
<1>2. /\ FrontTyped /\ Ctx = contexts[1] /\ Ctx.scope \in Scope /\ ContextsInv /\ PointKept
      /\ \A k \in DOMAIN Ctx.scope : Ctx.scope[k] \in HandleSet /\ Sound(Ctx.scope[k])
      /\ DOMAIN contexts = 1 .. Len(contexts)
  BY <1>1, CtxFacts DEF FrontInv
<1>3. /\ Len(entries) \in Nat /\ Len(pool) \in Nat /\ gvar \in Nat /\ DOMAIN pool = 1 .. Len(pool)
      /\ Kept(Len(entries), Len(pool), gvar) /\ (~raised => SetFor(Len(pool), SetByEnd))
      /\ Numbered(root)
  BY <1>2, LenProperties DEF FrontInv, FrontTyped
<1>4. ScopeVars(Ctx.scope) \subseteq Vars /\ ScopeVars(root) \subseteq Vars
      /\ \A d \in DOMAIN pool : ScopeVars(pool[d].handles) \subseteq Vars
  BY <1>1, <1>2, VarsOf
<1>5. entry' \in Compilations \cup {Idle, "run"} /\ contexts' \in Seq(ContextSet)
  BY <1>1, EmptySeq
<1>6. CASE entry = "separate"
  <2>1. PICK m : m = Ctx.mod
    OBVIOUS
  <2>2. CreateModType(Ctx.scope, m) /\ apart' = apart \cup {m} /\ root' = root
    BY <1>6, <2>1 DEF Finish
  <2>3. m \in 2 .. Len(entries) /\ ~Sealed(m)
    <3>1. m = point.mods + 1 /\ ~Sealed(m) /\ m \in 1 .. Len(entries) /\ point.mods \in 1 .. Len(entries)
      BY <1>2, <1>6, <2>1 DEF ContextsInv, PointKept, Kept
    <3> QED
      BY <1>3, <3>1
  <2>4. PICK n \in Nat : n = Len(pool) + 1
    BY <1>3
  <2>5. PICK type : type = pool'[n]
    OBVIOUS
  <2>6. /\ pool' \in Seq(ModType) /\ Len(pool') = n
        /\ \A t \in 1 .. Len(pool) : pool'[t] = pool[t]
        /\ type.mod = m /\ type.index = gvar
        /\ \A k \in DOMAIN type.handles : k \in DOMAIN Ctx.scope /\ type.handles[k] = Ctx.scope[k]
        /\ ScopeVars(type.handles) \subseteq ScopeVars(Ctx.scope)
        /\ gvar' = gvar + 1 /\ gvar' \in Nat
        /\ entries' \in Seq(Entry) /\ Len(entries') = Len(entries)
        /\ entries'[m].type = n
        /\ \A d \in 1 .. Len(entries) : d # m => entries'[d] = entries[d]
        /\ TypesStep
    <3>1. \A k \in DOMAIN Ctx.scope : HandleOK(pool, Ctx.scope[k], Len(pool), gvar)
      BY <1>2 DEF Sound
    <3> QED
      BY <1>2, <2>2, <2>3, <2>4, <2>5, <3>1, SealLemma
  <2>7. FrontTyped'
    <3>1. apart' \subseteq Nat
      BY <1>2, <1>3, <2>2, <2>3 DEF FrontTyped
    <3> QED
      BY <1>1, <1>2, <1>5, <2>2, <2>6, <3>1 DEF FrontTyped
  <2>8. \A d \in 1 .. Len(entries) : Sealed(d) => entries'[d] = entries[d]
    BY <2>3, <2>6
  <2>9. Kept(Len(entries), Len(pool), gvar)'
    <3>1. \A a \in apart' : a \in apart \/ (a \in 1 .. Len(entries') /\ entries'[a].type # Unsealed)
      <4>1. m \in 1 .. Len(entries') /\ entries'[m].type # Unsealed
        BY <1>3, <2>3, <2>4, <2>6 DEF Unsealed
      <4> QED
        BY <2>2, <4>1
    <3>2. Len(entries) <= Len(entries') /\ Len(pool) <= Len(pool') /\ gvar <= gvar'
      BY <1>3, <2>4, <2>6
    <3>3. root' = root /\ globals' = globals /\ ran' = ran
      BY <1>1, <2>2
    <3> QED
      BY <1>2, <1>3, <2>6, <2>7, <2>8, <3>1, <3>2, <3>3, KeptGrows
  <2>10. ApartIndex \subseteq ApartIndex' /\ gvar \in ApartIndex'
    <3>1. ASSUME NEW i \in ApartIndex
          PROVE  i \in ApartIndex'
      <4>1. PICK a \in apart : i = pool[entries[a].type].index
        BY <3>1 DEF ApartIndex
      <4>2. a \in 1 .. Len(entries) /\ Sealed(a) /\ entries[a].type \in 1 .. Len(pool)
        BY <1>3, <4>1 DEF Kept
      <4>3. entries'[a] = entries[a] /\ pool'[entries[a].type] = pool[entries[a].type]
        BY <2>6, <2>8, <4>2
      <4>4. a \in apart' /\ i = pool'[entries'[a].type].index
        BY <2>2, <4>1, <4>3
      <4> QED
        BY <4>4 DEF ApartIndex
    <3>2. gvar \in ApartIndex'
      <4>1. m \in apart' /\ gvar = pool'[entries'[m].type].index
        BY <2>2, <2>5, <2>6
      <4> QED
        BY <4>1 DEF ApartIndex
    <3> QED
      BY <3>1, <3>2
  <2>11. SetByEnd \subseteq SetByEnd' /\ gvar \in SetByEnd'
    BY <1>1, <2>10 DEF SetByEnd, SetAt
  <2>12. ~raised => SetFor(Len(pool), SetByEnd)'
    <3>1. ASSUME ~raised, NEW t \in 1 .. Len(pool')
          PROVE  /\ \A k \in DOMAIN pool'[t].handles : pool'[t].handles[k].index \in SetByEnd'
                 /\ pool'[t].mod # None => pool'[t].index \in SetByEnd'
      <4>1. CASE t = n
        BY <1>2, <2>5, <2>6, <2>11, <3>1, <4>1 DEF Sound
      <4>2. CASE t # n
        <5>1. t \in 1 .. Len(pool) /\ pool'[t] = pool[t]
          BY <1>3, <2>4, <2>6, <4>2
        <5> QED
          BY <1>3, <2>11, <3>1, <5>1 DEF SetFor
      <4> QED
        BY <4>1, <4>2
    <3>2. ASSUME ~raised
          PROVE  \A k \in DOMAIN root' : root'[k].index \in SetByEnd'
      BY <1>3, <2>2, <2>11, <3>2 DEF SetFor
    <3> QED
      BY <3>1, <3>2 DEF SetFor
  <2>13. Vars' \subseteq Vars
    <3>1. ScopeVars(root)' \subseteq Vars
      BY <1>4, <2>2 DEF ScopeVars
    <3>2. \A d \in DOMAIN pool' : ScopeVars(pool'[d].handles) \subseteq Vars
      <4>1. \A d \in DOMAIN pool' : d = n \/ d \in 1 .. Len(pool)
        BY <1>3, <2>4, <2>6, LenProperties
      <4> QED
        BY <1>3, <1>4, <2>5, <2>6, <4>1
    <3> QED
      BY <1>1, <3>1, <3>2, VarsLeft
  <2>14. Numbered(root)'
    BY <1>3, <2>2 DEF Numbered
  <2>15. FinishStep
    <3>1. Len(entries) <= Len(entries') /\ gvar <= gvar'
      BY <1>3, <2>6
    <3> QED
      BY <1>1, <2>8, <2>9, <2>10, <2>12, <2>13, <2>14, <3>1 DEF FinishStep
  <2> QED
    BY <1>1, <2>7, <2>15, FinishStepKeeps
<1>7. CASE entry # "separate"
  <2>1. root' = Ctx.scope /\ entries' = entries /\ pool' = pool /\ gvar' = gvar /\ apart' = apart
    BY <1>7 DEF Finish
  <2>2. entry \in {"eval", "shared"} /\ Numbered(Ctx.scope)
    BY <1>1, <1>2, <1>7 DEF ContextsInv, Compilations
  <2>3. FrontTyped'
    BY <1>1, <1>2, <1>5, <2>1 DEF FrontTyped
  <2>4. ApartIndex' = ApartIndex /\ SetByEnd' = SetByEnd
    BY <1>1, <2>1 DEF ApartIndex, SetByEnd, SetAt
  <2>5. Kept(Len(entries), Len(pool), gvar)'
    <3>1. TypesStep
      BY <1>2, <2>1, NoTypes
    <3>2. \A k \in DOMAIN root' : HandleOK(pool', root'[k], Len(pool'), gvar')
      BY <1>2, <2>1 DEF Sound
    <3>3. Len(entries) <= Len(entries') /\ Len(pool) <= Len(pool') /\ gvar <= gvar'
      BY <1>3, <2>1
    <3>4. globals' = globals /\ ran' = ran /\ \A a \in apart' : a \in apart
      BY <1>1, <2>1
    <3>5. (\A t \in 1 .. Len(pool) : pool'[t] = pool[t])
          /\ (\A m \in 1 .. Len(entries) : Sealed(m) => entries'[m] = entries[m])
      BY <2>1
    <3> QED
      BY <1>2, <1>3, <2>3, <3>1, <3>2, <3>3, <3>4, <3>5, KeptGrows
  <2>6. ~raised => SetFor(Len(pool), SetByEnd)'
    <3>1. ~raised => \A k \in DOMAIN Ctx.scope : Ctx.scope[k].index \in SetByEnd
      BY <1>2 DEF Sound
    <3> QED
      BY <1>3, <2>1, <2>4, <3>1 DEF SetFor
  <2>7. Vars' \subseteq Vars
    <3>1. ScopeVars(root)' \subseteq Vars
      BY <1>4, <2>1 DEF ScopeVars
    <3> QED
      BY <1>1, <1>4, <2>1, <3>1, VarsLeft
  <2>8. Numbered(root)'
    BY <2>1, <2>2 DEF Numbered
  <2>9. FinishStep
    BY <1>1, <1>3, <2>1, <2>4, <2>5, <2>6, <2>7, <2>8 DEF FinishStep
  <2> QED
    BY <1>1, <2>3, <2>9, FinishStepKeeps
<1> QED
  BY <1>6, <1>7

(* A compilation that fails goes back to the point.                           *)
LEMMA DiscardedScope ==
  ASSUME root \in Scope, Numbered(root), point.commit = Size(root), NEW s \in Scope, s = root \/ Continues(s)
  PROVE  DiscardScope(s) = root
<1>1. /\ \A k \in DOMAIN s : s[k] \in HandleSet
      /\ root \in [DOMAIN root -> HandleSet] /\ Size(root) \in Nat
  BY ScopeType
<1>2. PICK kept : kept = {k \in DOMAIN s : s[k].commit < point.commit}
  OBVIOUS
<1>3. \A k \in DOMAIN s : k \in kept <=> k \in DOMAIN root
  <2>1. CASE s = root
    BY <1>2, <2>1 DEF Numbered
  <2>2. CASE Continues(s)
    <3>1. ASSUME NEW k \in DOMAIN s
          PROVE  k \in kept <=> k \in DOMAIN root
      <4>1. s[k].commit \in Nat
        BY <1>1 DEF HandleSet
      <4>2. CASE k \in DOMAIN root
        BY <1>2, <2>2, <4>2 DEF Continues, Numbered
      <4>3. CASE k \notin DOMAIN root
        <5>1. s[k].commit >= Size(root)
          BY <2>2, <4>3 DEF Continues
        <5>2. ~(s[k].commit < point.commit)
          BY <1>1, <4>1, <5>1
        <5> QED
          BY <1>2, <4>3, <5>2
      <4> QED
        BY <4>2, <4>3
    <3> QED
      BY <3>1
  <2> QED
    BY <2>1, <2>2
<1>4. kept = DOMAIN root /\ \A k \in DOMAIN root : s[k] = root[k]
  <2>1. DOMAIN root \subseteq DOMAIN s /\ \A k \in DOMAIN root : s[k] = root[k]
    BY DEF Continues
  <2> QED
    BY <1>2, <1>3, <2>1
<1>5. DiscardScope(s) = [k \in kept |-> s[k]]
  BY <1>2 DEF DiscardScope, Restrict
<1> QED
  BY <1>1, <1>4, <1>5

LEMMA DiscardLemma ==
  ASSUME FrontInv, Compiling, DiscardAll
  PROVE  /\ entries' = SubSeq(entries, 1, point.mods) /\ pool' = SubSeq(pool, 1, point.types)
         /\ root' = root /\ saved = <<entries', pool', root'>>
         /\ gvar' \in Nat /\ point.gvar <= gvar'
<1>1. /\ FrontTyped /\ PointKept /\ ContextsInv /\ Numbered(root) /\ Len(contexts) \in Nat \ {0}
      /\ contexts \in Seq(ContextSet)
  BY CtxFacts DEF FrontInv
<1>2. /\ point.mods \in 1 .. Len(entries) /\ Len(entries) \in Nat /\ entries \in Seq(Entry)
      /\ point.gvar \in 0 .. gvar /\ gvar \in Nat
      /\ point.commit = Size(root) /\ root \in Scope
      /\ saved = <<SubSeq(entries, 1, point.mods), SubSeq(pool, 1, point.types), root>>
  BY <1>1, LenProperties DEF FrontTyped, PointKept, Kept
<1>3. entries' = SubSeq(entries, 1, point.mods)
  <2>1. CASE point.mods >= Len(entries)
    <3>1. point.mods = Len(entries) /\ entries' = entries
      BY <1>2, <2>1 DEF DiscardAll, DiscardMods
    <3> QED
      BY <1>2, <3>1, WholeSeq
  <2>2. CASE ~(point.mods >= Len(entries))
    BY <2>2 DEF DiscardAll, DiscardMods
  <2> QED
    BY <2>1, <2>2
<1>4. gvar' \in Nat /\ point.gvar <= gvar'
  <2>1. gvar' = gvar \/ gvar' = point.gvar
    BY DEF DiscardAll, DiscardGvar
  <2> QED
    BY <1>2, <2>1
<1>5. root' = root
  <2>1. PICK s : s = IF contexts[1].mod = RootMod THEN contexts[1].scope ELSE root
    OBVIOUS
  <2>2. s \in Scope
    <3>1. contexts[1] \in ContextSet
      BY <1>1, ElementOfSeq
    <3>2. contexts[1].scope \in Scope
      BY <3>1 DEF ContextSet
    <3> QED
      BY <1>2, <2>1, <3>2
  <2>3. s = root \/ Continues(s)
    BY <1>1, <2>1 DEF ContextsInv
  <2>4. root' = DiscardScope(s)
    BY <2>1 DEF DiscardAll
  <2> QED
    BY <1>1, <1>2, <2>2, <2>3, <2>4, DiscardedScope
<1>6. pool' = SubSeq(pool, 1, point.types)
  BY DEF DiscardAll, DiscardTypes
<1> QED
  BY <1>2, <1>3, <1>4, <1>5, <1>6

LEMMA ErrorKeeps ==
  ASSUME FrontInv, Error
  PROVE  FrontInv'
<1>1. /\ Compiling /\ DiscardAll /\ UNCHANGED <<runVars, point, saved>>
      /\ contexts' = <<>> /\ code' = <<>> /\ entry' = Idle
  BY DEF Error, DiscardAll
<1>2. PICK mods, types, slots : mods = point.mods /\ types = point.types /\ slots = point.gvar
  OBVIOUS
<1>3. /\ FrontTyped /\ Kept(mods, types, slots) /\ Numbered(root) /\ CodeInv /\ SlotsAgree
      /\ Len(entries) \in Nat /\ Len(pool) \in Nat /\ gvar \in Nat
      /\ entries \in Seq(Entry) /\ pool \in Seq(ModType)
      /\ ~raised => SetFor(types, DOMAIN globals \cup ApartIndex)
  BY <1>1, <1>2, LenProperties DEF FrontInv, FrontTyped, PointKept, Compiling
<1>4. mods \in 1 .. Len(entries) /\ types \in 0 .. Len(pool) /\ slots \in 0 .. gvar
  BY <1>3 DEF Kept
<1>5. entries' = SubSeq(entries, 1, mods) /\ pool' = SubSeq(pool, 1, types) /\ root' = root
      /\ gvar' \in Nat /\ slots <= gvar'
  BY <1>1, <1>2, DiscardLemma
<1>6. /\ entries' \in Seq(Entry) /\ Len(entries') = mods /\ \A m \in 1 .. mods : entries'[m] = entries[m]
      /\ pool' \in Seq(ModType) /\ Len(pool') = types /\ \A t \in 1 .. types : pool'[t] = pool[t]
  <2>1. mods \in Nat /\ mods <= Len(entries) /\ types \in Nat /\ types <= Len(pool)
    BY <1>3, <1>4
  <2> QED
    BY <1>3, <1>5, <2>1, PrefixLemma
<1>7. FrontTyped'
  <2>1. contexts' \in Seq(ContextSet) /\ code' \in Seq(Instr)
    BY <1>1, EmptySeq
  <2> QED
    BY <1>1, <1>3, <1>5, <1>6, <2>1 DEF FrontTyped, runVars
<1>8. globals' = globals /\ ran' = ran /\ raised' = raised /\ illegal' = illegal /\ apart' = apart
  BY <1>1 DEF runVars
<1>9. Kept(mods, types, slots)'
  <2>1. mods <= Len(entries') /\ types <= Len(pool')
    BY <1>4, <1>6
  <2> QED
    BY <1>3, <1>5, <1>6, <1>7, <1>8, <2>1, KeptSame
<1>10. Kept(Len(entries), Len(pool), gvar)'
  <2>0. gvar' \in Nat /\ slots <= gvar'
    BY <1>5
  <2>1. ASSUME NEW h \in HandleSet, HandleOK(pool', h, types, slots)
        PROVE  HandleOK(pool', h, types, gvar')
    <3>1. h.index \in Nat /\ h.index < slots /\ slots \in Nat
      BY <1>3, <1>4, <2>1 DEF HandleOK, HandleSet
    <3>2. h.index < gvar'
      BY <2>0, <3>1
    <3> QED
      BY <2>1, <3>2 DEF HandleOK
  <2>2. \A k \in DOMAIN root' : HandleOK(pool', root'[k], types, gvar')
    <3>1. \A k \in DOMAIN root' : root'[k] \in HandleSet /\ HandleOK(pool', root'[k], types, slots)
      BY <1>7, <1>9, ScopeType DEF FrontTyped, Kept
    <3> QED
      BY <2>1, <3>1
  <2>3. ASSUME NEW t \in 1 .. types
        PROVE  /\ \A k \in DOMAIN pool'[t].handles : HandleOK(pool', pool'[t].handles[k], types, gvar')
               /\ pool'[t].mod # None => pool'[t].index < gvar'
    <3>1. /\ pool'[t].index \in Nat
          /\ \A k \in DOMAIN pool'[t].handles : pool'[t].handles[k] \in HandleSet
      BY <1>6, TypeFields, ScopeType
    <3>2. /\ \A k \in DOMAIN pool'[t].handles : HandleOK(pool', pool'[t].handles[k], types, slots)
          /\ pool'[t].mod # None => pool'[t].index < slots
      BY <1>9 DEF Kept
    <3>3. slots \in Nat
      BY <1>3, <1>4
    <3>4. \A k \in DOMAIN pool'[t].handles : HandleOK(pool', pool'[t].handles[k], types, gvar')
      BY <2>1, <3>1, <3>2
    <3>5. pool'[t].mod # None => pool'[t].index < gvar'
      BY <2>0, <3>1, <3>2, <3>3
    <3> QED
      BY <3>4, <3>5
  <2>4. ASSUME NEW i \in DOMAIN globals'
        PROVE  i < gvar'
    <3>1. i \in Nat /\ i < slots /\ slots \in Nat
      BY <1>3, <1>4, <1>7, <1>9, <2>4 DEF FrontTyped, Kept
    <3> QED
      BY <1>5, <3>1
  <2>5. /\ mods \in 1 .. Len(entries') /\ types \in 0 .. Len(pool') /\ gvar' \in 0 .. gvar'
        /\ Len(entries') = mods /\ Len(pool') = types
    BY <1>3, <1>4, <1>5, <1>6
  <2>6. /\ \A t \in 1 .. types :
             /\ \A c \in pool'[t].children : c[1] \in 1 .. types /\ pool'[c[1]].mod # None
             /\ pool'[t].mod # None => pool'[t].mod \in 2 .. mods /\ entries'[pool'[t].mod].type = t
        /\ \A m \in 1 .. mods : entries'[m].type # Unsealed =>
             entries'[m].type \in 1 .. types /\ pool'[entries'[m].type].mod = m
        /\ \A i \in DOMAIN ran' : ran'[i] \in 1 .. mods /\ entries'[ran'[i]].type # Unsealed
        /\ \A m \in apart' : m \in 1 .. mods /\ entries'[m].type # Unsealed
    BY <1>9 DEF Kept, Sealed
  <2> QED
    BY <2>2, <2>3, <2>4, <2>5, <2>6 DEF Kept, Sealed
<1>11. ApartIndex' = ApartIndex
  <2>1. \A m \in apart : /\ entries'[m] = entries[m]
                         /\ entries[m].type \in 1 .. Len(pool)
                         /\ pool'[entries[m].type] = pool[entries[m].type]
    <3>1. \A m \in apart : m \in 1 .. mods /\ entries[m].type \in 1 .. types
      BY <1>3 DEF Kept, Sealed
    <3> QED
      BY <1>3, <1>4, <1>6, <3>1
  <2> QED
    BY <1>3, <1>7, <1>8, <2>1, ApartStays
<1>12. ~raised' => SetFor(Len(pool), SetByEnd)'
  <2>1. DOMAIN globals \cup ApartIndex \subseteq SetByEnd'
    BY <1>8, <1>11 DEF SetByEnd, SetAt
  <2> QED
    BY <1>3, <1>5, <1>6, <1>8, <2>1 DEF SetFor
<1>13. DOMAIN code' = {}
  BY <1>1
<1>14. SlotsAgree'
  <2>1. Vars' \subseteq Vars
    <3>1. ScopeVars(root)' \subseteq Vars
      <4>1. ScopeVars(root)' = ScopeVars(root)
        BY <1>5 DEF ScopeVars
      <4> QED
        BY <4>1, VarsOf
    <3>2. \A d \in DOMAIN pool' : ScopeVars(pool'[d].handles) \subseteq Vars
      <4>1. \A d \in DOMAIN pool' : d \in DOMAIN pool /\ pool'[d] = pool[d]
        BY <1>3, <1>4, <1>6, LenProperties
      <4> QED
        BY <4>1, VarsOf
    <3> QED
      BY <1>1, <3>1, <3>2, VarsLeft
  <2>2. Stores' \subseteq Stores
    <3>1. ASSUME NEW s \in Stores'
          PROVE  s \in Stores
      <4>1. s \in Stores' <=> \/ \E i \in DOMAIN globals' : s = <<i, globals'[i]>>
                              \/ \E p \in DOMAIN code' : Storing(code'[p]) /\ s = <<code'[p].index, code'[p].owner>>
        BY Zenon DEF Stores
      <4> QED
        BY <1>8, <1>13, <3>1, <4>1, StoresOf
    <3> QED
      BY <3>1
  <2> QED
    BY <1>3, <2>1, <2>2 DEF SlotsAgree
<1>15. CodeInv'
  BY <1>13 DEF CodeInv
<1>16. Numbered(root)' /\ \A i, j \in DOMAIN ran' : ran'[i] = ran'[j] => i = j
  BY <1>3, <1>5, <1>8 DEF FrontInv, Numbered
<1>17. illegal' \subseteq ApartIndex'
  BY <1>8, <1>11 DEF FrontInv
<1> QED
  BY <1>1, <1>7, <1>10, <1>12, <1>14, <1>15, <1>16, <1>17 DEF FrontInv

(* The run of the code                                                        *)
LEMMA RunFacts ==
  ASSUME FrontInv, Running
  PROVE  /\ contexts = <<>> /\ Len(contexts) = 0 /\ FrontTyped /\ CodeInv /\ SlotsAgree
         /\ Len(entries) \in Nat /\ Len(pool) \in Nat /\ gvar \in Nat /\ Len(code) \in Nat
         /\ DOMAIN code = 1 .. Len(code) /\ DOMAIN globals \subseteq Nat
         /\ Kept(Len(entries), Len(pool), gvar) /\ (~raised => SetFor(Len(pool), SetByEnd))
         /\ illegal \subseteq ApartIndex
<1>1. contexts = <<>>
  BY DEF FrontInv, ContextsInv, Running, Compilations
<1>2. Len(contexts) = 0
  BY <1>1, EmptySeq
<1> QED
  BY <1>1, <1>2, LenProperties DEF FrontInv, FrontTyped

LEMMA CodeTail ==
  ASSUME FrontTyped, code # <<>>, code' = Tail(code)
  PROVE  /\ code' \in Seq(Instr) /\ Len(code) \in Nat \ {0} /\ Len(code') = Len(code) - 1
         /\ Head(code) = code[1] /\ code[1] \in Instr /\ DOMAIN code' = 1 .. Len(code) - 1
         /\ \A p \in 1 .. Len(code) - 1 : p + 1 \in 1 .. Len(code) /\ code'[p] = code[p + 1] /\ code'[p] \in Instr
<1>1. code \in Seq(Instr)
  BY DEF FrontTyped
<1>2. Len(code) \in Nat \ {0}
  BY <1>1, EmptySeq, LenProperties
<1>3. code' \in Seq(Instr) /\ Len(code') = Len(code) - 1 /\ Head(code) = code[1]
  BY <1>1, HeadTailProperties
<1>4. \A p \in 1 .. Len(code) - 1 : code'[p] = code[p + 1]
  BY <1>1, <1>2, HeadTailProperties
<1>5. \A p \in 1 .. Len(code) : code[p] \in Instr
  BY <1>1, ElementOfSeq
<1>6. \A p \in 1 .. Len(code) - 1 : p + 1 \in 1 .. Len(code)
  BY <1>2
<1>7. 1 \in 1 .. Len(code) /\ DOMAIN code' = 1 .. Len(code) - 1
  BY <1>2, <1>3, LenProperties
<1> QED
  BY <1>2, <1>3, <1>4, <1>5, <1>6, <1>7

(* What an instruction does: it is gone from the code, what it stores is in   *)
(* the globals, a module it enters has begun to run.                          *)
ExecStep(i) ==
  /\ code' = Tail(code)
  /\ UNCHANGED <<entries, pool, gvar, root, contexts, illegal, apart, point, saved, entry, raised>>
  /\ DOMAIN globals' = DOMAIN globals \cup (IF Storing(i) THEN {i.index} ELSE {})
  /\ \A j \in DOMAIN globals' : \/ j \in DOMAIN globals /\ globals'[j] = globals[j]
                                \/ Storing(i) /\ j = i.index /\ globals'[j] = i.owner
  /\ \/ ran' = ran /\ i.op # "enter"
     \/ ran' = Append(ran, i.index) /\ i.op = "enter"

LEMMA ExecIs ==
  ASSUME FrontTyped, Exec
  PROVE  code # <<>> /\ Running /\ ExecStep(Head(code))
<1>1. PICK i : i = Head(code)
  OBVIOUS
<1>2. /\ code # <<>> /\ Running /\ code' = Tail(code)
      /\ UNCHANGED <<entries, pool, gvar, root, contexts, illegal, apart, point, saved, entry, raised>>
      /\ globals' = IF i.op \in {"store", "leave"}
                    THEN [j \in DOMAIN globals \cup {i.index} |->
                            IF j = i.index THEN i.owner ELSE globals[j]]
                    ELSE globals
      /\ ran' = IF i.op = "enter" THEN Append(ran, i.index) ELSE ran
  BY <1>1 DEF Exec
<1>3. CASE Storing(i)
  <2>1. globals' = [j \in DOMAIN globals \cup {i.index} |-> IF j = i.index THEN i.owner ELSE globals[j]]
    BY <1>2, <1>3 DEF Storing
  <2>2. ran' = ran /\ i.op # "enter"
    BY <1>2, <1>3 DEF Storing
  <2> QED
    BY <1>1, <1>2, <1>3, <2>1, <2>2 DEF ExecStep
<1>4. CASE ~Storing(i)
  <2>1. globals' = globals
    BY <1>2, <1>4 DEF Storing
  <2> QED
    BY <1>1, <1>2, <1>4, <2>1 DEF ExecStep
<1> QED
  BY <1>3, <1>4

LEMMA ExecSets ==
  ASSUME FrontTyped, code # <<>>, ExecStep(Head(code))
  PROVE  /\ ApartIndex' = ApartIndex
         /\ \A p \in 1 .. Len(code) : SetAt(p + 1) \subseteq SetAt(p)'
         /\ SetByEnd \subseteq SetByEnd'
         /\ Stores' \subseteq Stores
<1>1. /\ Len(code) \in Nat \ {0} /\ Len(code') = Len(code) - 1 /\ DOMAIN code' = 1 .. Len(code) - 1
      /\ Head(code) = code[1] /\ code[1] \in Instr /\ DOMAIN code = 1 .. Len(code)
      /\ \A p \in 1 .. Len(code) - 1 : p + 1 \in 1 .. Len(code) /\ code'[p] = code[p + 1]
  BY CodeTail, LenProperties DEF ExecStep, FrontTyped
<1>2. PICK i : i = code[1]
  OBVIOUS
<1>3. ExecStep(i)
  BY <1>1, <1>2
<1>4. ApartIndex' = ApartIndex
  BY <1>3 DEF ExecStep, ApartIndex
<1>5. ASSUME NEW p \in 1 .. Len(code), NEW x \in SetAt(p + 1)
      PROVE  x \in SetAt(p)'
  <2>1. CASE x \in DOMAIN globals
    BY <1>3, <2>1 DEF ExecStep, SetAt
  <2>2. CASE x \in ApartIndex
    BY <1>4, <2>2 DEF SetAt
  <2>3. CASE \E q \in 1 .. (p + 1) - 1 : Storing(code[q]) /\ x = code[q].index
    <3>1. PICK q \in 1 .. (p + 1) - 1 : Storing(code[q]) /\ x = code[q].index
      BY <2>3
    <3>2. CASE q = 1
      BY <1>2, <1>3, <3>1, <3>2 DEF ExecStep, SetAt
    <3>3. CASE q # 1
      <4>1. PICK r \in 1 .. p - 1 : r = q - 1
        BY <1>1, <3>1, <3>3
      <4>2. r \in 1 .. Len(code) - 1 /\ r + 1 = q
        BY <1>1, <4>1
      <4>3. code'[r] = code[q]
        BY <1>1, <4>2
      <4> QED
        BY <3>1, <4>1, <4>3 DEF SetAt
    <3> QED
      BY <3>2, <3>3
  <2> QED
    BY <2>1, <2>2, <2>3 DEF SetAt
<1>6. SetByEnd \subseteq SetByEnd'
  <2>1. PICK n : n = Len(code)
    OBVIOUS
  <2>2. n \in 1 .. Len(code) /\ Len(code) + 1 = n + 1 /\ Len(code') + 1 = n
    BY <1>1, <2>1
  <2>3. SetAt(n + 1) \subseteq SetAt(n)'
    BY <1>5, <2>2
  <2> QED
    BY <2>2, <2>3 DEF SetByEnd, SetAt
<1>7. ASSUME NEW s \in Stores'
      PROVE  s \in Stores
  <2>1. s \in Stores' <=> \/ \E j \in DOMAIN globals' : s = <<j, globals'[j]>>
                          \/ \E p \in DOMAIN code' : Storing(code'[p]) /\ s = <<code'[p].index, code'[p].owner>>
    BY Zenon DEF Stores
  <2>2. ASSUME NEW j \in DOMAIN globals', s = <<j, globals'[j]>>
        PROVE  s \in Stores
    <3>1. CASE j \in DOMAIN globals /\ globals'[j] = globals[j]
      BY <2>2, <3>1, StoresOf
    <3>2. CASE Storing(i) /\ j = i.index /\ globals'[j] = i.owner
      <4>1. 1 \in DOMAIN code /\ Storing(code[1]) /\ s = <<code[1].index, code[1].owner>>
        BY <1>1, <1>2, <2>2, <3>2
      <4> QED
        BY <4>1, StoresOf
    <3> QED
      BY <1>3, <3>1, <3>2 DEF ExecStep
  <2>3. ASSUME NEW p \in DOMAIN code', Storing(code'[p]), s = <<code'[p].index, code'[p].owner>>
        PROVE  s \in Stores
    <3>1. p + 1 \in DOMAIN code /\ code'[p] = code[p + 1]
      BY <1>1
    <3> QED
      BY <2>3, <3>1, StoresOf
  <2> QED
    BY <1>7, <2>1, <2>2, <2>3
<1> QED
  BY <1>4, <1>5, <1>6, <1>7

LEMMA ExecKeeps ==
  ASSUME FrontInv, Exec
  PROVE  FrontInv'
<1>1. FrontTyped /\ Running /\ code # <<>> /\ ExecStep(Head(code))
  BY ExecIs DEF FrontInv
<1>2. /\ contexts = <<>> /\ Len(contexts) = 0 /\ CodeInv /\ SlotsAgree
      /\ Len(entries) \in Nat /\ Len(pool) \in Nat /\ gvar \in Nat
      /\ DOMAIN code = 1 .. Len(code) /\ DOMAIN globals \subseteq Nat
      /\ Kept(Len(entries), Len(pool), gvar) /\ (~raised => SetFor(Len(pool), SetByEnd))
      /\ illegal \subseteq ApartIndex
  BY <1>1, RunFacts
<1>3. /\ code' \in Seq(Instr) /\ Len(code) \in Nat \ {0}
      /\ Head(code) = code[1] /\ code[1] \in Instr /\ DOMAIN code' = 1 .. Len(code) - 1
      /\ \A p \in 1 .. Len(code) - 1 : p + 1 \in 1 .. Len(code) /\ code'[p] = code[p + 1]
  BY <1>1, CodeTail DEF ExecStep
<1>4. /\ ApartIndex' = ApartIndex /\ SetByEnd \subseteq SetByEnd' /\ Stores' \subseteq Stores
      /\ \A p \in 1 .. Len(code) : SetAt(p + 1) \subseteq SetAt(p)'
  BY <1>1, ExecSets
<1>5. PICK i \in Instr : i = code[1]
  BY <1>3
<1>6. ExecStep(i) /\ 1 \in DOMAIN code /\ i.index \in Nat
  <2>1. ExecStep(i)
    BY <1>1, <1>3, <1>5
  <2>2. 1 \in DOMAIN code
    BY <1>2, <1>3
  <2>3. i.index \in Nat
    BY <1>5 DEF Instr
  <2> QED
    BY <2>1, <2>2, <2>3
<1>7. /\ entries' = entries /\ pool' = pool /\ gvar' = gvar /\ root' = root /\ contexts' = contexts
      /\ illegal' = illegal /\ apart' = apart /\ point' = point /\ saved' = saved /\ entry' = entry
      /\ raised' = raised
  BY <1>6 DEF ExecStep
<1>8. DOMAIN globals' \subseteq Nat /\ \A j \in DOMAIN globals' : j < gvar'
  <2>1. Storing(i) => i.index < gvar
    BY <1>2, <1>5, <1>6 DEF CodeInv
  <2>2. \A j \in DOMAIN globals : j < gvar
    BY <1>2 DEF Kept
  <2> QED
    BY <1>2, <1>6, <1>7, <2>1, <2>2 DEF ExecStep
<1>9. ASSUME i.op = "enter"
      PROVE  /\ i.index \in 1 .. Len(entries) /\ Sealed(i.index)
             /\ \A j \in DOMAIN ran : ran[j] # i.index
             /\ \A q \in DOMAIN code : code[q].op = "enter" /\ code[q].index = i.index => q = 1
  <2>1. /\ i.index \in point.mods + 1 .. Len(entries)
        /\ Sealed(i.index) \/ \E j \in 2 .. Len(contexts) : contexts[j].mod = i.index
        /\ \A j \in DOMAIN ran : ran[j] # i.index
        /\ \A q \in DOMAIN code : code[q].op = "enter" /\ code[q].index = i.index => q = 1
    BY <1>2, <1>5, <1>6, <1>9 DEF CodeInv
  <2>2. i.index \in 1 .. Len(entries)
    BY <1>1, <1>2, <1>6, <2>1 DEF FrontTyped
  <2>3. Sealed(i.index)
    BY <1>2, <2>1
  <2> QED
    BY <2>1, <2>2, <2>3
<1>10. PICK n : n = Len(ran)
  OBVIOUS
<1>11. /\ ran \in Seq(Nat) /\ n \in Nat /\ DOMAIN ran = 1 .. n
       /\ i.op = "enter" => /\ ran' \in Seq(Nat) /\ DOMAIN ran' = 1 .. n + 1 /\ ran'[n + 1] = i.index
                            /\ \A j \in 1 .. n : ran'[j] = ran[j]
  <2>1. ran \in Seq(Nat) /\ n \in Nat /\ DOMAIN ran = 1 .. n
    BY <1>1, <1>10, LenProperties DEF FrontTyped
  <2>2. ASSUME i.op = "enter"
        PROVE  /\ ran' \in Seq(Nat) /\ DOMAIN ran' = 1 .. n + 1 /\ ran'[n + 1] = i.index
               /\ \A j \in 1 .. n : ran'[j] = ran[j]
    <3>1. ran' = Append(ran, i.index)
      BY <1>6, <2>2 DEF ExecStep
    <3>2. ran' \in Seq(Nat) /\ Len(ran') = n + 1 /\ ran'[n + 1] = i.index /\ \A j \in 1 .. n : ran'[j] = ran[j]
      BY <1>6, <1>10, <2>1, <3>1, AppendProperties
    <3> QED
      BY <3>2, LenProperties
  <2> QED
    BY <2>1, <2>2
<1>12. /\ ran' \in Seq(Nat)
       /\ \A j, k \in DOMAIN ran' : ran'[j] = ran'[k] => j = k
       /\ \A j \in DOMAIN ran' : ran'[j] \in 1 .. Len(entries') /\ entries'[ran'[j]].type # Unsealed
       /\ \A j \in DOMAIN ran' : \/ j \in DOMAIN ran /\ ran'[j] = ran[j]
                                 \/ i.op = "enter" /\ ran'[j] = i.index
  <2>1. /\ \A j, k \in DOMAIN ran : ran[j] = ran[k] => j = k
        /\ \A j \in DOMAIN ran : ran[j] \in 1 .. Len(entries) /\ Sealed(ran[j])
    BY <1>2 DEF FrontInv, Kept
  <2>2. CASE i.op # "enter"
    <3>1. ran' = ran
      BY <1>6, <2>2 DEF ExecStep
    <3>2. \A j \in DOMAIN ran : entries'[ran[j]].type # Unsealed
      BY <1>7, <2>1 DEF Sealed
    <3> QED
      BY <1>7, <1>11, <2>1, <3>1, <3>2
  <2>3. CASE i.op = "enter"
    <3>1. \A j \in 1 .. n + 1 : j \in 1 .. n \/ j = n + 1
      BY <1>11
    <3>2. \A j, k \in 1 .. n + 1 : ran'[j] = ran'[k] => j = k
      BY <1>9, <1>11, <2>1, <2>3, <3>1
    <3>3. \A j \in 1 .. n + 1 : ran'[j] \in 1 .. Len(entries) /\ Sealed(ran'[j])
      BY <1>9, <1>11, <2>1, <2>3, <3>1
    <3> QED
      <4>1. DOMAIN ran' = 1 .. n + 1 /\ DOMAIN ran = 1 .. n /\ ran' \in Seq(Nat)
        BY <1>11, <2>3
      <4>2. \A j \in 1 .. n + 1 : ran'[j] \in 1 .. Len(entries') /\ entries'[ran'[j]].type # Unsealed
        BY <1>7, <3>3 DEF Sealed
      <4>3. \A j \in 1 .. n + 1 : (j \in 1 .. n /\ ran'[j] = ran[j]) \/ ran'[j] = i.index
        BY <1>11, <2>3, <3>1
      <4> QED
        BY <2>3, <3>2, <4>1, <4>2, <4>3
  <2> QED
    BY <2>2, <2>3
<1>13. FrontTyped'
  BY <1>1, <1>3, <1>7, <1>8, <1>12 DEF FrontTyped
<1>14. Kept(Len(entries), Len(pool), gvar)'
  <2>1. TypesStep
    BY <1>1, <1>7, NoTypes
  <2>2. /\ Len(entries) <= Len(entries') /\ Len(pool) <= Len(pool') /\ gvar <= gvar'
        /\ \A t \in 1 .. Len(pool) : pool'[t] = pool[t]
        /\ \A m \in 1 .. Len(entries) : Sealed(m) => entries'[m] = entries[m]
        /\ \A a \in apart' : a \in apart
    BY <1>2, <1>7
  <2> QED
    BY <1>1, <1>2, <1>7, <1>8, <1>12, <1>13, <2>1, <2>2, KeptGrows
<1>15. ~raised' => SetFor(Len(pool), SetByEnd)'
  BY <1>2, <1>4, <1>7 DEF SetFor
<1>16. SlotsAgree'
  <2>1. Vars' = Vars
    BY <1>7 DEF Vars, ScopeVars
  <2> QED
    BY <1>2, <1>4, <2>1 DEF SlotsAgree
<1>17. ASSUME NEW p \in DOMAIN code'
       PROVE  /\ Storing(code'[p]) => code'[p].index < gvar'
              /\ ~raised' => (code'[p].op = "load" => code'[p].index \in SetAt(p)')
              /\ code'[p].op = "enter" =>
                   /\ code'[p].index \in point'.mods + 1 .. Len(entries')
                   /\ entries'[code'[p].index].type # Unsealed
                   /\ \A j \in DOMAIN ran' : ran'[j] # code'[p].index
                   /\ \A q \in DOMAIN code' : code'[q].op = "enter" /\ code'[q].index = code'[p].index => q = p
  <2>1. PICK r : r = p + 1
    OBVIOUS
  <2>2. r \in DOMAIN code /\ code'[p] = code[r] /\ p \in 1 .. Len(code) /\ r # 1
    BY <1>2, <1>3, <1>17, <2>1
  <2>3. Storing(code[r]) => code[r].index < gvar
    BY <1>2, <2>2 DEF CodeInv
  <2>4. ~raised => (code[r].op = "load" => code[r].index \in SetAt(r))
    BY <1>2, <2>2 DEF CodeInv
  <2>5. SetAt(r) \subseteq SetAt(p)'
    BY <1>4, <2>1, <2>2
  <2>6. ASSUME code[r].op = "enter"
        PROVE  /\ code[r].index \in point.mods + 1 .. Len(entries)
               /\ Sealed(code[r].index)
               /\ \A j \in DOMAIN ran' : ran'[j] # code[r].index
               /\ \A q \in DOMAIN code' : code'[q].op = "enter" /\ code'[q].index = code[r].index => q = p
    <3>1. /\ code[r].index \in point.mods + 1 .. Len(entries)
          /\ Sealed(code[r].index) \/ \E j \in 2 .. Len(contexts) : contexts[j].mod = code[r].index
          /\ \A j \in DOMAIN ran : ran[j] # code[r].index
          /\ \A q \in DOMAIN code : code[q].op = "enter" /\ code[q].index = code[r].index => q = r
      BY <1>2, <2>2, <2>6 DEF CodeInv
    <3>2. Sealed(code[r].index)
      BY <1>2, <3>1
    <3>3. ~(i.op = "enter" /\ i.index = code[r].index)
      BY <1>5, <1>6, <2>2, <3>1
    <3>4. \A j \in DOMAIN ran' : ran'[j] # code[r].index
      BY <1>12, <3>1, <3>3
    <3>5. ASSUME NEW q \in DOMAIN code', code'[q].op = "enter", code'[q].index = code[r].index
          PROVE  q = p
      <4>1. q + 1 \in DOMAIN code /\ code'[q] = code[q + 1] /\ q \in Nat
        BY <1>2, <1>3, <3>5
      <4>2. q + 1 = r
        BY <3>1, <3>5, <4>1
      <4>3. p \in Nat
        BY <2>2
      <4> QED
        BY <2>1, <4>1, <4>2, <4>3
    <3> QED
      BY <3>1, <3>2, <3>4, <3>5
  <2> QED
    BY <1>7, <2>2, <2>3, <2>4, <2>5, <2>6 DEF Sealed
<1>18. CodeInv'
  BY <1>17 DEF CodeInv, Sealed
<1>19. contexts' = <<>> /\ entry' = "run" /\ entry' # Idle
  BY <1>1, <1>2, <1>7 DEF Running, Idle
<1>20. Numbered(root)' /\ illegal' \subseteq ApartIndex'
  BY <1>2, <1>4, <1>7 DEF FrontInv, Numbered
<1> QED
  BY <1>12, <1>13, <1>14, <1>15, <1>16, <1>18, <1>19, <1>20 DEF FrontInv

(* The run ends: at the end of the code, or before it with an exception.      *)
HaltStep ==
  /\ entry' = Idle /\ code' = <<>>
  /\ UNCHANGED <<entries, pool, gvar, root, contexts, globals, ran, apart, point, saved>>
  /\ raised' = TRUE \/ (raised' = raised /\ code = <<>>)
  /\ illegal' \subseteq ApartIndex

LEMMA HaltKeeps ==
  ASSUME FrontInv, Running, HaltStep
  PROVE  FrontInv'
<1>1. /\ contexts = <<>> /\ FrontTyped /\ SlotsAgree
      /\ Len(entries) \in Nat /\ Len(pool) \in Nat /\ gvar \in Nat
      /\ Kept(Len(entries), Len(pool), gvar) /\ (~raised => SetFor(Len(pool), SetByEnd))
  BY RunFacts
<1>2. /\ entries' = entries /\ pool' = pool /\ gvar' = gvar /\ root' = root /\ contexts' = <<>>
      /\ globals' = globals /\ ran' = ran /\ apart' = apart /\ point' = point /\ saved' = saved
      /\ entry' = Idle /\ code' = <<>> /\ (raised' = TRUE \/ (raised' = raised /\ code' = code))
  BY <1>1 DEF HaltStep
<1>3. FrontTyped'
  <2>1. code' \in Seq(Instr) /\ contexts' \in Seq(ContextSet) /\ raised' \in BOOLEAN
    BY <1>1, <1>2, EmptySeq DEF FrontTyped
  <2> QED
    BY <1>1, <1>2, <2>1 DEF FrontTyped
<1>4. ApartIndex' = ApartIndex /\ DOMAIN code' = {}
  BY <1>2 DEF ApartIndex
<1>5. Kept(Len(entries), Len(pool), gvar)'
  <2>1. TypesStep
    BY <1>1, <1>2, NoTypes
  <2>2. /\ Len(entries) <= Len(entries') /\ Len(pool) <= Len(pool') /\ gvar <= gvar'
        /\ \A t \in 1 .. Len(pool) : pool'[t] = pool[t]
        /\ \A m \in 1 .. Len(entries) : Sealed(m) => entries'[m] = entries[m]
        /\ \A a \in apart' : a \in apart
    BY <1>1, <1>2
  <2> QED
    BY <1>1, <1>2, <1>3, <2>1, <2>2, KeptGrows
<1>6. ~raised' => SetFor(Len(pool), SetByEnd)'
  <2>1. ASSUME ~raised'
        PROVE  SetFor(Len(pool), SetByEnd)'
    <3>1. ~raised /\ code' = code
      BY <1>2, <2>1
    <3>2. SetByEnd' = SetByEnd
      BY <1>2, <1>4, <3>1 DEF SetByEnd, SetAt
    <3> QED
      BY <1>1, <1>2, <3>1, <3>2 DEF SetFor
  <2> QED
    BY <2>1
<1>7. SlotsAgree'
  <2>1. Vars' = Vars
    BY <1>1, <1>2 DEF Vars, ScopeVars
  <2>2. ASSUME NEW s \in Stores'
        PROVE  s \in Stores
    <3>1. s \in Stores' <=> \/ \E i \in DOMAIN globals' : s = <<i, globals'[i]>>
                            \/ \E p \in DOMAIN code' : Storing(code'[p]) /\ s = <<code'[p].index, code'[p].owner>>
      BY Zenon DEF Stores
    <3> QED
      BY <1>2, <1>4, <2>2, <3>1, StoresOf
  <2> QED
    BY <1>1, <2>1, <2>2 DEF SlotsAgree
<1>8. CodeInv'
  BY <1>4 DEF CodeInv
<1>9. Numbered(root)' /\ (\A i, j \in DOMAIN ran' : ran'[i] = ran'[j] => i = j)
  BY <1>2 DEF FrontInv, Numbered
<1>10. illegal' \subseteq ApartIndex'
  BY <1>4 DEF HaltStep
<1> QED
  BY <1>2, <1>3, <1>5, <1>6, <1>7, <1>8, <1>9, <1>10 DEF FrontInv

LEMMA EndKeeps ==
  ASSUME FrontInv, Raise \/ LoadUnset \/ Return
  PROVE  FrontInv'
<1>1. illegal \subseteq ApartIndex /\ FrontTyped
  BY DEF FrontInv
<1>2. CASE Raise
  <2>1. Running /\ HaltStep
    BY <1>1, <1>2 DEF Raise, Stop, HaltStep
  <2> QED
    BY <2>1, HaltKeeps
<1>3. CASE Return
  <2>1. Running /\ HaltStep
    BY <1>1, <1>3 DEF Return, HaltStep, compileVars, runVars
  <2> QED
    BY <2>1, HaltKeeps
<1>4. CASE LoadUnset
  <2>1. /\ Running /\ code # <<>> /\ Head(code).op = "load" /\ Head(code).index \notin DOMAIN globals
        /\ illegal' = IF raised THEN illegal ELSE {Head(code).index}
    BY <1>4 DEF LoadUnset
  <2>2. Head(code) = code[1] /\ 1 \in DOMAIN code
    <3>1. code \in Seq(Instr)
      BY <1>1 DEF FrontTyped
    <3>2. Head(code) = code[1] /\ Len(code) \in Nat \ {0}
      BY <2>1, <3>1, EmptySeq, HeadTailProperties
    <3> QED
      BY <3>1, <3>2, LenProperties
  <2>3. ~raised => Head(code).index \in ApartIndex
    <3>1. ~raised => code[1].index \in SetAt(1)
      BY <2>1, <2>2 DEF FrontInv, CodeInv
    <3>2. SetAt(1) = DOMAIN globals \cup ApartIndex
      BY DEF SetAt
    <3> QED
      BY <2>1, <2>2, <3>1, <3>2
  <2>4. illegal' \subseteq ApartIndex
    BY <1>1, <2>1, <2>3
  <2>5. HaltStep
    BY <1>4, <2>4 DEF LoadUnset, Stop, HaltStep
  <2> QED
    BY <2>1, <2>5, HaltKeeps
<1> QED
  BY <1>2, <1>3, <1>4

-----------------------------------------------------------------------------
(* The invariant                                                              *)
LEMMA FrontStart == FrontInit => FrontInv
<1> SUFFICES ASSUME FrontInit
             PROVE  FrontInv
  OBVIOUS
<1>1. /\ entries = <<[path |-> "(root)", type |-> Unsealed]>>
      /\ pool = <<>> /\ gvar = 0 /\ root = <<>> /\ contexts = <<>> /\ code = <<>>
      /\ globals = <<>> /\ entry = Idle /\ ran = <<>>
      /\ point = [mods |-> 1, gvar |-> 0, commit |-> 0, types |-> 0]
      /\ raised = FALSE /\ illegal = {} /\ apart = {}
  BY DEF FrontInit
<1>2. /\ DOMAIN root = {} /\ DOMAIN pool = {} /\ DOMAIN code = {} /\ DOMAIN globals = {}
      /\ DOMAIN ran = {} /\ DOMAIN contexts = {} /\ Len(pool) = 0 /\ Len(entries) = 1
      /\ entries[1].type = Unsealed
  BY <1>1
<1>3. FrontTyped
  <2>1. pool \in Seq(ModType) /\ contexts \in Seq(ContextSet) /\ code \in Seq(Instr) /\ ran \in Seq(Nat)
    BY <1>1, EmptySeq
  <2>2. entries \in Seq(Entry)
    <3>1. PICK e : e = [path |-> "(root)", type |-> Unsealed]
      OBVIOUS
    <3>2. e \in Entry
      BY <3>1, Zenon DEF Entry, Unsealed
    <3> QED
      BY <1>1, <3>1, <3>2
  <2>3. root \in Scope
    BY <1>1, EmptyScope
  <2> QED
    BY <1>1, <1>2, <2>1, <2>2, <2>3 DEF FrontTyped
<1>4. Kept(Len(entries), Len(pool), gvar)
  BY <1>1, <1>2 DEF Kept, Sealed
<1>5. SetFor(Len(pool), SetByEnd) /\ Numbered(root)
  BY <1>2 DEF SetFor, Numbered
<1>6. SlotsAgree
  <2>1. \A v : v \notin Vars
    BY <1>2, VarsOf DEF ScopeVars
  <2> QED
    BY <2>1 DEF SlotsAgree
<1>7. CodeInv
  BY <1>2 DEF CodeInv
<1> QED
  BY <1>1, <1>2, <1>3, <1>4, <1>5, <1>6, <1>7 DEF FrontInv

LEMMA FrontStutter ==
  ASSUME FrontInv, UNCHANGED frontVars
  PROVE  FrontInv'
<1>1. /\ entries' = entries /\ pool' = pool /\ gvar' = gvar /\ root' = root /\ contexts' = contexts
      /\ code' = code /\ globals' = globals /\ ran' = ran /\ raised' = raised /\ illegal' = illegal
      /\ apart' = apart /\ entry' = entry /\ point' = point /\ saved' = saved
  BY DEF frontVars, compileVars, runVars
<1>2. FrontTyped'
  BY <1>1 DEF FrontInv, FrontTyped
<1>3. ApartIndex' = ApartIndex /\ SetByEnd' = SetByEnd
  BY <1>1 DEF ApartIndex, SetByEnd, SetAt
<1>4. Kept(Len(entries), Len(pool), gvar)'
  BY <1>1 DEF FrontInv, Kept, Sealed, HandleOK
<1>5. (~raised => SetFor(Len(pool), SetByEnd))' /\ Numbered(root)'
  BY <1>1, <1>3 DEF FrontInv, SetFor, Numbered
<1>6. SlotsAgree'
  <2>1. Vars' = Vars /\ Stores' = Stores
    BY <1>1 DEF Vars, Stores, ScopeVars
  <2> QED
    BY <2>1 DEF FrontInv, SlotsAgree
<1>7. CodeInv'
  <2>1. \A p : SetAt(p)' = SetAt(p)
    BY <1>1, <1>3 DEF SetAt
  <2> QED
    BY <1>1, <2>1 DEF FrontInv, CodeInv, Sealed
<1>8. PointKept' = PointKept
  BY <1>1, <1>3 DEF PointKept, Kept, SetFor, Sealed, HandleOK
<1>9. ContextsInv' = ContextsInv
  BY <1>1, <1>3 DEF ContextsInv, Continues, Numbered, Sealed, Sound, HandleOK
<1> QED
  BY <1>1, <1>2, <1>3, <1>4, <1>5, <1>6, <1>7, <1>8, <1>9 DEF FrontInv

LEMMA FrontStep ==
  ASSUME FrontInv, FrontNext
  PROVE  FrontInv'
<1>1. DOMAIN pool = 1 .. Len(pool)
  BY LenProperties DEF FrontInv, FrontTyped
<1>2. CASE Eval \/ Complete
  BY <1>2, RootKeeps
<1>3. CASE \E t \in DOMAIN pool : CompleteIn(t)
  BY <1>1, <1>3, CompleteInKeeps
<1>4. CASE \E p \in Path, separate \in BOOLEAN : LoadModule(p, separate)
  BY <1>4, LoadKeeps
<1>5. CASE \E p \in Path : LoadUnreadable(p)
  BY <1>5, UnreadableKeeps
<1>6. CASE Error
  BY <1>6, ErrorKeeps
<1>7. CASE \E n \in Name, t \in 1 .. Len(pool) + 1 : Define(n, t)
  BY <1>7, DefineKeeps
<1>8. CASE Compiling /\ \E key \in DOMAIN Ctx.scope : Use(key)
  BY <1>8, UseKeeps
<1>9. CASE \E ps \in Paths, h \in Holder \cup {""}, optional \in BOOLEAN : Source(ps, h, optional)
  BY <1>9, SourceKeeps, Zenon
<1>10. CASE Missing
  BY <1>10, MissingKeeps
<1>11. CASE EnterModule
  BY <1>11, EnterKeeps
<1>12. CASE ImportModule
  BY <1>12, ImportKeeps
<1>13. CASE ExitModule
  BY <1>13, ExitKeeps
<1>14. CASE Finish
  BY <1>14, FinishKeeps
<1>15. CASE Exec
  BY <1>15, ExecKeeps
<1>16. CASE Raise \/ LoadUnset \/ Return
  BY <1>16, EndKeeps
<1> QED
  BY <1>2, <1>3, <1>4, <1>5, <1>6, <1>7, <1>8, <1>9, <1>10, <1>11, <1>12, <1>13, <1>14, <1>15, <1>16
  DEF FrontNext

-----------------------------------------------------------------------------
(* The theorems. They hold of every behaviour of the front end, fair or not,  *)
(* and of every bound.                                                        *)

LEMMA LiveIn ==
  ASSUME NEW g \in Live
  PROVE  \/ \E k \in DOMAIN root : g = root[k]
         \/ \E i \in DOMAIN contexts : \E k \in DOMAIN contexts[i].scope : g = contexts[i].scope[k]
         \/ \E t \in DOMAIN pool : \E k \in DOMAIN pool[t].handles : g = pool[t].handles[k]
<1>1. PICK scoped, typed : /\ scoped = UNION {ScopeHandles(contexts[i].scope) : i \in DOMAIN contexts}
                           /\ typed = UNION {ScopeHandles(pool[t].handles) : t \in DOMAIN pool}
  OBVIOUS
<1>2. g \in ScopeHandles(root) \/ g \in scoped \/ g \in typed
  BY <1>1 DEF Live
<1>3. g \in scoped => \E i \in DOMAIN contexts : g \in ScopeHandles(contexts[i].scope)
  BY <1>1
<1>4. g \in typed => \E t \in DOMAIN pool : g \in ScopeHandles(pool[t].handles)
  BY <1>1
<1> QED
  BY <1>2, <1>3, <1>4 DEF ScopeHandles

LEMMA LiveSound ==
  ASSUME FrontInv, NEW h \in Live
  PROVE  /\ h.type \in 1 .. Len(pool) /\ h.index < gvar
         /\ h.kind = "var" => <<h.index, h.mod, h.type>> \in Vars
<1>1. DOMAIN pool = 1 .. Len(pool) /\ Kept(Len(entries), Len(pool), gvar)
  BY LenProperties DEF FrontInv, FrontTyped
<1>2. CASE \E k \in DOMAIN root : h = root[k]
  <2>1. PICK k \in DOMAIN root : h = root[k]
    BY <1>2
  <2>2. HandleOK(pool, root[k], Len(pool), gvar)
    BY <1>1 DEF Kept
  <2>3. h.kind = "var" => <<h.index, h.mod, h.type>> \in ScopeVars(root)
    BY <2>1, VarIn
  <2> QED
    BY <2>1, <2>2, <2>3, VarsOf DEF HandleOK
<1>3. CASE \E i \in DOMAIN contexts : \E k \in DOMAIN contexts[i].scope : h = contexts[i].scope[k]
  <2>1. PICK i \in DOMAIN contexts : \E k \in DOMAIN contexts[i].scope : h = contexts[i].scope[k]
    BY <1>3
  <2>2. PICK k \in DOMAIN contexts[i].scope : h = contexts[i].scope[k]
    BY <2>1
  <2>3. contexts # <<>>
    BY <2>1
  <2>4. Sound(contexts[i].scope[k])
    BY <2>3 DEF FrontInv, ContextsInv
  <2>5. h.kind = "var" => <<h.index, h.mod, h.type>> \in ScopeVars(contexts[i].scope)
    BY <2>2, VarIn
  <2> QED
    BY <2>2, <2>4, <2>5, VarsOf DEF Sound, HandleOK
<1>4. CASE \E t \in DOMAIN pool : \E k \in DOMAIN pool[t].handles : h = pool[t].handles[k]
  <2>1. PICK t \in DOMAIN pool : \E k \in DOMAIN pool[t].handles : h = pool[t].handles[k]
    BY <1>4
  <2>2. PICK k \in DOMAIN pool[t].handles : h = pool[t].handles[k]
    BY <2>1
  <2>3. HandleOK(pool, pool[t].handles[k], Len(pool), gvar)
    BY <1>1 DEF Kept
  <2>4. h.kind = "var" => <<h.index, h.mod, h.type>> \in ScopeVars(pool[t].handles)
    BY <2>2, VarIn
  <2> QED
    BY <2>2, <2>3, <2>4, VarsOf DEF HandleOK
<1> QED
  BY <1>2, <1>3, <1>4, LiveIn

(* The whole state of the front end stays well-formed: what the point under   *)
(* way keeps is closed, the contexts are those of the modules entered since,  *)
(* slots and stores agree, and the code that waits sets what it reads.        *)
THEOREM FrontInvariance == FrontSpec => []FrontInv
<1>1. FrontInit => FrontInv
  BY FrontStart
<1>2. FrontInv /\ [FrontNext]_frontVars => FrontInv'
  BY FrontStep, FrontStutter
<1> QED
  BY <1>1, <1>2, PTL DEF FrontSpec

(* Types, modules and handles: no name outlives the type it has, whatever was *)
(* discarded, and a module that has run stays, and runs once.                 *)
THEOREM HandlesAlwaysResolve == FrontSpec => []HandlesResolve
<1>1. FrontInv => HandlesResolve
  <2> SUFFICES ASSUME FrontInv
               PROVE  HandlesResolve
    OBVIOUS
  <2>1. /\ DOMAIN pool = 1 .. Len(pool) /\ DOMAIN entries = 1 .. Len(entries)
        /\ Kept(Len(entries), Len(pool), gvar)
        /\ \A i, j \in DOMAIN ran : ran[i] = ran[j] => i = j
    BY LenProperties DEF FrontInv, FrontTyped
  <2>2. \A h \in Live : h.type \in DOMAIN pool
    BY <2>1, LiveSound
  <2> QED
    BY <2>1, <2>2 DEF HandlesResolve, Kept, Sealed
<1> QED
  BY <1>1, FrontInvariance, PTL

(* A slot of the globals belongs to one variable, and holds what a statement  *)
(* of its module stored at its type, though the counter goes back.            *)
THEOREM SlotsAreOwned == FrontSpec => []SlotsOwned
<1>1. FrontInv => SlotsOwned
  <2> SUFFICES ASSUME FrontInv
               PROVE  SlotsOwned
    OBVIOUS
  <2>1. SlotsAgree
    BY DEF FrontInv
  <2>2. ASSUME NEW g \in Live, NEW h \in Live, g.kind = "var", h.kind = "var", g.index = h.index
        PROVE  <<g.mod, g.type>> = <<h.mod, h.type>>
    <3>1. <<g.index, g.mod, g.type>> \in Vars /\ <<h.index, h.mod, h.type>> \in Vars
      BY <2>2, LiveSound
    <3> QED
      BY <2>1, <2>2, <3>1 DEF SlotsAgree
  <2>3. ASSUME NEW h \in Live, h.kind = "var", h.index \in DOMAIN globals
        PROVE  <<globals[h.index][1], globals[h.index][3]>> = <<h.mod, h.type>>
    <3>1. <<h.index, h.mod, h.type>> \in Vars
      BY <2>3, LiveSound
    <3>2. <<h.index, globals[h.index]>> \in Stores
      BY <2>3, StoresOf
    <3> QED
      BY <2>1, <3>1, <3>2 DEF SlotsAgree
  <2>4. \A h \in Live : h.kind = "var" => h.index < gvar
    BY LiveSound
  <2> QED
    BY <2>2, <2>3, <2>4 DEF SlotsOwned
<1> QED
  BY <1>1, FrontInvariance, PTL

(* A script reads nothing that is not set while no script has been cut short, *)
(* but the object of a module that was loaded by itself.                      *)
THEOREM SetBeforeUsed == FrontSpec => []SetBeforeUse
<1>1. FrontInv => SetBeforeUse
  BY DEF FrontInv, SetBeforeUse, ApartIndex
<1> QED
  BY <1>1, FrontInvariance, PTL

(* A compilation that ends without code to run leaves the modules, the types  *)
(* and the names that were there when it began.                               *)
THEOREM DiscardsRestore == FrontSpec => DiscardRestores
<1>1. ASSUME FrontInv, [FrontNext]_frontVars, Compiling, entry' = Idle
      PROVE  <<entries', pool', root'>> = saved
  <2>1. entry \in Compilations /\ entry # Idle /\ ~Running
    BY <1>1 DEF FrontInv, ContextsInv, Compiling, Compilations, Idle, Running
  <2>2. entry' # entry /\ ~(UNCHANGED frontVars)
    BY <1>1, <2>1 DEF frontVars
  <2>3. ASSUME NEW kind, NEW m, NEW scope
        PROVE  ~Begin(kind, m, scope)
    BY <2>1 DEF Begin
  <2>4. ~Eval /\ ~Complete /\ \A t \in DOMAIN pool : ~CompleteIn(t)
    BY <2>3 DEF Eval, Complete, CompleteIn
  <2>5. \A p \in Path : ~LoadUnreadable(p) /\ \A separate \in BOOLEAN : ~LoadModule(p, separate)
    BY <2>1 DEF LoadUnreadable, LoadModule
  <2>6. ~Stay
    BY <2>2 DEF Stay
  <2>7. \A n, t : ~Define(n, t)
    BY <2>6 DEF Define
  <2>8. \A key : ~Use(key)
    BY <2>6 DEF Use
  <2>9. \A ps, h, optional : ~Source(ps, h, optional)
    BY <2>6 DEF Source
  <2>10. ~Missing /\ ~EnterModule /\ ~ImportModule /\ ~ExitModule
    BY <2>6 DEF Missing, EnterModule, ImportModule, ExitModule
  <2>11. ~Finish
    BY <1>1 DEF Finish, Idle
  <2>12. ~Exec /\ ~Raise /\ ~LoadUnset /\ ~Return
    BY <2>1 DEF Exec, Raise, LoadUnset, Return
  <2>13. Error
    BY <1>1, <2>2, <2>4, <2>5, <2>7, <2>8, <2>9, <2>10, <2>11, <2>12 DEF FrontNext
  <2>14. DiscardAll
    BY <2>13 DEF Error
  <2> QED
    BY <1>1, <2>14, DiscardLemma
<1> QED
  BY <1>1, FrontInvariance, PTL DEF DiscardRestores, FrontSpec

=============================================================================
