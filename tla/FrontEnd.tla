------------------------------- MODULE FrontEnd -------------------------------
(* How a script becomes code: the loop of the front end, which pushes one     *)
(* context per module it is compiling, the scopes and the imports of their    *)
(* names, the loader that registers a module before it reads it and seals it  *)
(* after, the pool of types, the point everything is discarded to when the    *)
(* compilation fails, and the run of the code, which may stop half way.       *)
EXTENDS Naturals, FiniteSets, Sequences, Functions, SequencesExt

CONSTANTS
  Path,      \* full paths of the files a script may name
  Name,      \* variables of scripts
  Private,   \* those of them that begin with _
  Holder,    \* names a script gives a module (source p as h)
  MaxMade,   \* bound: statements compiled, loads and completions
  MaxPaths   \* bound: paths a source statement with a pattern matches

ASSUME FrontEndAssumption == Private \subseteq Name /\ MaxMade \in Nat /\ MaxPaths \in Nat

VARIABLES
  entries,   \* ModuleLoader: path and type of each module, in order of its id
  pool,      \* TypePool: module types and reified types in order of their id
  gvar,      \* ModuleLoader::gvarCount
  root,      \* the handles of rootModScope
  contexts,  \* FrontEnd::contexts
  code,      \* what has been compiled and not yet run
  globals,   \* VMState::globals: what was last stored at each index
  entry,     \* the call of the API under way
  point,     \* its DiscardPoint
  saved,     \* history: loader, pool and root scope when the point was taken
  ran,       \* history: modules whose code has begun to run, in order
  raised,    \* history: the run of some script was cut short
  illegal,   \* history: indexes read before anything was stored there, until raised
  apart,     \* history: modules loaded in a scope of their own
  made       \* bound: see MaxMade

compileVars == <<entries, pool, gvar, root, contexts, code>>
runVars == <<globals, ran, raised, illegal, apart>>
frontVars == <<compileVars, runVars, entry, point, saved, made>>

RootMod == 1
Unsealed == 0
None == 0
Idle == "idle"

(* A handle and its attributes. What makes it an alias, the name of another   *)
(* handle's slot or of a module, is that it owns no slot of its own.          *)
Handle(commit, type, index, mod, kind) ==
  [commit |-> commit, type |-> type, index |-> index, mod |-> mod, kind |-> kind]
HolderName(m, global) == <<"holder", m, global>>
Var(n) == <<"var", n>>
IsPrivate(key) == key[1] = "var" /\ key[2] \in Private

(* NameScope::add under a fresh name. An alias belongs to the module that     *)
(* gives the name, a foreign handle to the one it comes from.                 *)
Size(scope) == Cardinality(DOMAIN scope)
Add(scope, key, h) ==
  [k \in DOMAIN scope \cup {key} |-> IF k = key THEN [h EXCEPT !.commit = Size(scope)] ELSE scope[k]]
Foreign(h) == [h EXCEPT !.kind = "alias"]
Alias(h, m) == [h EXCEPT !.kind = "alias", !.mod = m]

(* Several names one after another, in the order a hash table has them: new   *)
(* has the handle of each, and a name that is taken stays what it is.         *)
AddAll(scope, new) ==
  LET fresh == DOMAIN new \ DOMAIN scope
      place == CHOOSE f \in [fresh -> 0 .. Cardinality(fresh) - 1] : IsInjective(f)
  IN  [k \in DOMAIN scope \cup fresh |->
         IF k \in fresh THEN [new[k] EXCEPT !.commit = Size(scope) + place[k]] ELSE scope[k]]

(* importForeignHandles: what a module gives is a holder, and in a global     *)
(* import every handle that is not private; a module whose holder is there    *)
(* already is not imported again. Here types is the pool as the import finds  *)
(* it.                                                                        *)
Importable(type) == {k \in DOMAIN type.handles : ~IsPrivate(k)}
ToHolder(types, t, m, kind) == Handle(0, t, types[t].index, m, kind)
HolderKind(global) == IF global THEN "global_mod" ELSE "named_mod"
Given(types, t, m, global) ==
  LET holder == HolderName(types[t].mod, global)
  IN  [k \in {holder} \cup (IF global THEN Importable(types[t]) ELSE {}) |->
         IF k = holder THEN ToHolder(types, t, m, HolderKind(global)) ELSE Foreign(types[t].handles[k])]
Import(scope, types, t, m, global) ==
  IF HolderName(types[t].mod, global) \in DOMAIN scope THEN scope
  ELSE AddAll(scope, Given(types, t, m, global))

(* visitSourceNode: a module without a name is imported globally; with one,   *)
(* the name becomes a variable, a command and a type. A name that is taken is *)
(* an error.                                                                  *)
Named(h) == {<<"var", h>>, <<"cmd", h>>, <<"type", h>>}
Taking(scope, types, t, h) ==
  IF h # "" THEN Named(h)
  ELSE IF HolderName(types[t].mod, TRUE) \in DOMAIN scope THEN {} ELSE Importable(types[t])
SourceImport(scope, types, t, m, h) ==
  LET imported == Import(scope, types, t, m, h = "")
  IN  IF h = "" THEN imported
      ELSE AddAll(imported, [k \in Named(h) |-> ToHolder(types, t, m, "alias")])

(* toModType: the handles a module defined itself, and the modules it holds.  *)
IsHolder(h) == h.kind \in {"global_mod", "named_mod"}
Own(scope, m) == {k \in DOMAIN scope : scope[k].mod = m /\ ~IsHolder(scope[k])}
Held(scope) == {scope[k].type : k \in {x \in DOMAIN scope : IsHolder(scope[x])}}
Children(scope) ==
  {<<t, \E k \in DOMAIN scope : scope[k].type = t /\ scope[k].kind = "global_mod">> : t \in Held(scope)}
ToModType(scope, m) ==
  [mod |-> m, handles |-> Restrict(scope, Own(scope, m)), children |-> Children(scope), index |-> gvar]

(* createModType: a type of that name is used when the pool has one, the      *)
(* entry is sealed with it and the index of the module object is reserved.    *)
TypeOf(m) == IF \E t \in DOMAIN pool : pool[t].mod = m
             THEN CHOOSE t \in DOMAIN pool : pool[t].mod = m ELSE Len(pool) + 1
CreateModType_unreserved(scope, m) ==
  /\ pool' = IF TypeOf(m) \in DOMAIN pool THEN pool ELSE Append(pool, ToModType(scope, m))
  /\ gvar' = gvar
  /\ entries' = [entries EXCEPT ![m].type = TypeOf(m)]
CreateModType(scope, m) ==
  /\ pool' = IF TypeOf(m) \in DOMAIN pool THEN pool ELSE Append(pool, ToModType(scope, m))
  /\ gvar' = gvar + 1
  /\ entries' = [entries EXCEPT ![m].type = TypeOf(m)]

(* addNewModEntry of a path that is not registered yet.                       *)
IdOf(p) == {m \in DOMAIN entries : entries[m].path = p}
Register(p) == Append(entries, [path |-> p, type |-> Unsealed])
FrontInit ==
  /\ entries = <<[path |-> "(root)", type |-> Unsealed]>>
  /\ pool = <<>> /\ gvar = 0 /\ root = <<>> /\ contexts = <<>> /\ code = <<>>
  /\ globals = <<>> /\ entry = Idle /\ ran = <<>>
  /\ point = [mods |-> 1, gvar |-> 0, commit |-> 0, types |-> 0]
  /\ saved = <<entries, pool, root>>
  /\ raised \in {FALSE} /\ illegal = {} /\ apart = {} /\ made = 0

Bounded == made < MaxMade /\ made' = made + 1
Context(m, scope) == [mod |-> m, scope |-> scope, queue |-> <<>>, holder |-> "", optional |-> FALSE]
TakePoint ==
  /\ point' = [mods |-> Len(entries), gvar |-> gvar, commit |-> Size(root), types |-> Len(pool)]
  /\ saved' = <<entries, pool, root>>

(* DSState_eval, and the front end of a completion: of the root module, or of *)
(* a sealed module whose scope is made again from its type.                   *)
Begin(kind, m, scope) ==
  /\ entry = Idle /\ entry' = kind /\ Bounded /\ TakePoint
  /\ contexts' = <<Context(m, scope)>>
  /\ UNCHANGED <<entries, pool, gvar, root, code, runVars>>
Eval == Begin("eval", RootMod, root)
Complete == Begin("complete", RootMod, root)
AgainScope(t) ==
  LET m == pool[t].mod
      own == [k \in DOMAIN pool[t].handles |-> Alias(pool[t].handles[k], m)]
      From(c) == Given(pool, c[1], m, c[2])
      names == UNION {DOMAIN From(c) : c \in pool[t].children}
      giver == [k \in names |-> CHOOSE c \in pool[t].children : k \in DOMAIN From(c)]
  IN  AddAll(AddAll(<<>>, own), [k \in names |-> From(giver[k])[k]])
CompleteIn(t) == pool[t].mod # None /\ Begin("complete", pool[t].mod, AgainScope(t))

(* DSState_loadModule of a file no one has loaded: in a scope of its own or   *)
(* in the root scope. When it cannot be read nothing is discarded.            *)
LoadModule(p, separate) ==
  /\ entry = Idle /\ IdOf(p) = {} /\ Bounded /\ TakePoint
  /\ entries' = Register(p)
  /\ entry' = IF separate THEN "separate" ELSE "shared"
  /\ contexts' = <<IF separate THEN Context(Len(entries'), <<>>) ELSE Context(RootMod, root)>>
  /\ UNCHANGED <<pool, gvar, root, code, runVars>>
LoadUnreadable(p) ==
  /\ entry = Idle /\ IdOf(p) = {} /\ Bounded
  /\ entries' = Register(p)
  /\ UNCHANGED <<pool, gvar, root, contexts, code, runVars, entry, point, saved>>

Compiling == contexts # <<>>
Ctx == contexts[Len(contexts)]
WithCtx(c) == [contexts EXCEPT ![Len(contexts)] = c]

(* discardAll, of the scope the compilation began with.                       *)
DiscardMods_never == entries
DiscardMods == IF point.mods >= Len(entries) THEN entries ELSE SubSeq(entries, 1, point.mods)
DiscardGvar == IF point.mods >= Len(entries) THEN gvar ELSE point.gvar
DiscardScope_offByOne(scope) ==
  Restrict(scope, {k \in DOMAIN scope : scope[k].commit <= point.commit})
DiscardScope(scope) == Restrict(scope, {k \in DOMAIN scope : scope[k].commit < point.commit})
DiscardTypes == SubSeq(pool, 1, point.types)
DiscardAll ==
  /\ entries' = DiscardMods /\ gvar' = DiscardGvar /\ pool' = DiscardTypes
  /\ root' = DiscardScope(IF contexts[1].mod = RootMod THEN contexts[1].scope ELSE root)
  /\ contexts' = <<>> /\ code' = <<>> /\ entry' = Idle
  /\ UNCHANGED <<runVars, point, saved>>

(* A parse error, a type error, a name that is taken or unknown, a file that  *)
(* is missing or cannot be opened, a circular import; and the end of a        *)
(* completion, which is always discarded.                                     *)
Error == Compiling /\ DiscardAll /\ UNCHANGED made

Emit(instrs) == code' = code \o instrs
Stay == UNCHANGED <<root, runVars, entry, point, saved>>

(* A statement that declares a variable, of a type the pool has or of one it  *)
(* creates for it.                                                            *)
Parsing == Compiling /\ Ctx.queue = <<>>
Reified == [mod |-> None, handles |-> <<>>, children |-> {}, index |-> 0]
Define(n, t) ==
  /\ Parsing /\ Bounded /\ Var(n) \notin DOMAIN Ctx.scope
  /\ pool' = IF t \in DOMAIN pool THEN pool ELSE Append(pool, Reified)
  /\ gvar' = gvar + 1
  /\ contexts' = WithCtx([Ctx EXCEPT !.scope = Add(@, Var(n), Handle(0, t, gvar, Ctx.mod, "var"))])
  /\ Emit(<<[op |-> "store", index |-> gvar, owner |-> <<Ctx.mod, n, t>>]>>)
  /\ Stay /\ UNCHANGED entries

(* A statement that reads one.                                                *)
Use(key) ==
  /\ Parsing /\ Bounded /\ key[1] = "var"
  /\ Emit(<<[op |-> "load", index |-> Ctx.scope[key].index, owner |-> None]>>)
  /\ Stay /\ UNCHANGED <<entries, pool, gvar, contexts>>

(* source: the paths of the statement are queued and taken one by one.        *)
Source(ps, h, optional) ==
  /\ Parsing /\ Bounded
  /\ Len(ps) > 1 => h = ""
  /\ contexts' = WithCtx([Ctx EXCEPT !.queue = ps, !.holder = h, !.optional = optional])
  /\ Stay /\ UNCHANGED <<entries, pool, gvar, code>>

Sourcing == Compiling /\ Ctx.queue # <<>>
Taken == [Ctx EXCEPT !.queue = Tail(@)]
Missing ==
  /\ Sourcing /\ Ctx.optional /\ contexts' = WithCtx(Taken)
  /\ Stay /\ UNCHANGED <<entries, pool, gvar, code, made>>

(* enterModule: a new module gets an entry and a context; a sealed one is     *)
(* imported, unless it is the one being completed; one that is not sealed is  *)
(* a circular import.                                                         *)
EnterModule ==
  /\ Sourcing /\ IdOf(Head(Ctx.queue)) = {}
  /\ entries' = Register(Head(Ctx.queue))
  /\ contexts' = Append(WithCtx(Taken), Context(Len(entries'), <<>>))
  /\ Emit(<<[op |-> "enter", index |-> Len(entries'), owner |-> None]>>)
  /\ Stay /\ UNCHANGED <<pool, gvar, made>>

Imported(cs, types, t) ==
  LET c == cs[Len(cs)]
  IN  /\ Taking(c.scope, types, t, c.holder) \cap DOMAIN c.scope = {}
      /\ contexts' = [cs EXCEPT ![Len(cs)].scope = SourceImport(@, types, t, c.mod, c.holder)]
ImportModule ==
  /\ Sourcing
  /\ \E m \in IdOf(Head(Ctx.queue)) :
       /\ entries[m].type # Unsealed /\ m # Ctx.mod
       /\ Imported(WithCtx(Taken), pool, entries[m].type)
  /\ Stay /\ UNCHANGED <<entries, pool, gvar, code, made>>

(* exitModule at the end of a module's file, and the import of the module by  *)
(* the statement that named it, which runs it and stores the module object.   *)
ModuleObject_notStored(t) == [op |-> "pop", index |-> t.index, owner |-> <<t.mod, "", t.index>>]
ModuleObject(t) == [op |-> "leave", index |-> t.index, owner |-> <<t.mod, "", t.index>>]
ExitModule ==
  /\ Parsing /\ Len(contexts) > 1
  /\ CreateModType(Ctx.scope, Ctx.mod)
  /\ Imported(Front(contexts), pool', entries'[Ctx.mod].type)
  /\ Emit(<<ModuleObject(pool'[entries'[Ctx.mod].type])>>)
  /\ Stay /\ UNCHANGED made

(* The end of the script: a module loaded in a scope of its own is sealed,    *)
(* anything else keeps in the root scope what it defined. Then the code runs. *)
Finish ==
  /\ Parsing /\ Len(contexts) = 1 /\ entry # "complete"
  /\ IF entry = "separate"
     THEN CreateModType(Ctx.scope, Ctx.mod) /\ apart' = apart \cup {Ctx.mod} /\ UNCHANGED root
     ELSE root' = Ctx.scope /\ UNCHANGED <<entries, pool, gvar, apart>>
  /\ contexts' = <<>> /\ entry' = "run"
  /\ UNCHANGED <<code, globals, ran, raised, illegal, point, saved, made>>

(* The code, one instruction at a time. An exception ends it: a source        *)
(* statement is only allowed at the top level, outside of any try.            *)
Running == entry = "run"
Stop == code' = <<>> /\ entry' = Idle
Exec ==
  /\ Running /\ code # <<>>
  /\ code' = Tail(code) /\ UNCHANGED <<entry, raised>>
  /\ LET i == Head(code)
     IN  /\ i.op = "load" => i.index \in DOMAIN globals
         /\ globals' = IF i.op \in {"store", "leave"}
                       THEN [j \in DOMAIN globals \cup {i.index} |->
                               IF j = i.index THEN i.owner ELSE globals[j]]
                       ELSE globals
         /\ ran' = IF i.op = "enter" THEN Append(ran, i.index) ELSE ran
  /\ UNCHANGED <<entries, pool, gvar, root, contexts, illegal, apart, point, saved, made>>
Raise ==
  /\ Running /\ code # <<>> /\ Stop /\ raised' = TRUE
  /\ UNCHANGED <<entries, pool, gvar, root, contexts, globals, ran, illegal, apart, point, saved, made>>
LoadUnset ==
  /\ Running /\ code # <<>> /\ Head(code).op = "load" /\ Head(code).index \notin DOMAIN globals
  /\ Stop /\ raised' = TRUE /\ illegal' = IF raised THEN illegal ELSE {Head(code).index}
  /\ UNCHANGED <<entries, pool, gvar, root, contexts, globals, ran, apart, point, saved, made>>
Return ==
  /\ Running /\ code = <<>> /\ entry' = Idle
  /\ UNCHANGED <<compileVars, runVars, point, saved, made>>

Paths == UNION {[1..k -> Path] : k \in 1..MaxPaths}
FrontNext ==
  \/ Eval
  \/ Complete
  \/ \E t \in DOMAIN pool : CompleteIn(t)
  \/ \E p \in Path, separate \in BOOLEAN : LoadModule(p, separate)
  \/ \E p \in Path : LoadUnreadable(p)
  \/ Error
  \/ \E n \in Name, t \in 1..Len(pool) + 1 : Define(n, t)
  \/ Compiling /\ \E key \in DOMAIN Ctx.scope : Use(key)
  \/ \E ps \in Paths, h \in Holder \cup {""}, optional \in BOOLEAN : Source(ps, h, optional)
  \/ Missing
  \/ EnterModule
  \/ ImportModule
  \/ ExitModule
  \/ Finish
  \/ Exec
  \/ Raise
  \/ LoadUnset
  \/ Return
-----------------------------------------------------------------------------
(* The handles that still name something: of the root scope, of the scopes    *)
(* being compiled and of the sealed modules.                                  *)
ScopeHandles(scope) == {scope[k] : k \in DOMAIN scope}
Live ==
  ScopeHandles(root) \cup (UNION {ScopeHandles(contexts[i].scope) : i \in DOMAIN contexts})
    \cup (UNION {ScopeHandles(pool[t].handles) : t \in DOMAIN pool})

FrontSpec == FrontInit /\ [][FrontNext]_frontVars

(* A compilation that fails leaves nothing behind: the modules, the types and *)
(* the names of the root scope are those of the point, whichever modules were *)
(* entered, sealed and imported in between (discardAll).                      *)
DiscardRestores ==
  [][Compiling /\ entry' = Idle => <<entries', pool', root'>> = saved]_frontVars

(* No handle outlives its type, no sealed module the type it was sealed with, *)
(* though ids are given again after every discard; a module that has run is   *)
(* never discarded, nor run again.                                            *)
HandlesResolve ==
  /\ \A h \in Live : h.type \in DOMAIN pool
  /\ \A m \in DOMAIN entries : entries[m].type # Unsealed =>
       entries[m].type \in DOMAIN pool /\ pool[entries[m].type].mod = m
  /\ \A t \in DOMAIN pool : \A c \in pool[t].children : c[1] \in DOMAIN pool /\ pool[c[1]].mod # None
  /\ \A i, j \in DOMAIN ran : ran[i] = ran[j] => i = j
  /\ \A i \in DOMAIN ran : ran[i] \in DOMAIN entries /\ entries[ran[i]].type # Unsealed

(* A slot of the globals belongs to one variable: what is stored there was    *)
(* stored by a handle of that module and type, although the counter goes back *)
(* when modules are discarded and stays when none was.                        *)
SlotsOwned ==
  /\ \A h \in Live : h.kind = "var" => h.index < gvar
  /\ \A g, h \in Live : g.kind = "var" /\ h.kind = "var" /\ g.index = h.index =>
       <<g.mod, g.type>> = <<h.mod, h.type>>
  /\ \A h \in Live : h.kind = "var" /\ h.index \in DOMAIN globals =>
       <<globals[h.index][1], globals[h.index][3]>> = <<h.mod, h.type>>

(* While no script has been cut short, no script reads a variable that is not *)
(* set: a module runs before whoever imports it. The exception is the object  *)
(* of a module that was loaded as a script of its own: nothing stores it.     *)
SetBeforeUse == \A i \in illegal : \E m \in apart : i = pool[entries[m].type].index

===============================================================================
