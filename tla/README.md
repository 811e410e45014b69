# ydsh in TLA+

This directory is a verification project for ydsh, a statically typed shell. It
models the parts of the shell whose correctness depends on the order of events, on
what fails half way, and on state that outlives the step that wrote it, and the chain
that makes a script of its text (lexer, parser, type checker, code generator, machine);
checks them with TLC on small instances; and proves the core of them with TLAPS for
every value of the constants.

Paths in this file are relative to the repository (`src/src/job.cpp` is the file
`job.cpp` of the directory `src` of the repository, which the project sees as `src/`).

## 1. The system

ydsh is one process with one thread. It reads a script (or a line), compiles it, and
runs it on a stack machine. Everything concurrent comes from outside the thread: the
child processes it forks, and the signals it gets. `DSState` (vm.h) owns all the
state below; `DSState::eventDesc` and `DSState::pendingSigSet` are static, because a
signal handler writes them.

| component | source | state it keeps | operations |
|---|---|---|---|
| Job and process table | job.h, job.cpp | `JobTable::jobs` (vector sorted by job id), `latest`, `ProcTable::entries` (vector sorted by pid), `deletedCount`, the `JobObject`s with their `Proc`s | fork, attach, detachAll, find, findProc, updateProcState, removeTerminatedJobs, waitForJob, waitForAll, waitForAny, send |
| Job-control operations | vm.cpp, cmd.cpp, builtin.h | a C++ call stack that holds a `Job` while it waits | forkAndEval, forkAndExec, callPipeline, checkVMEvent, wait, fg, bg, kill, disown, `Job` methods, exit |
| Signals and VM events | signals.*, core.*, vm.* | `pendingSigSet`, `pendingIndex`, `eventDesc` (HOOK, SIGNAL, MASK), `SignalVector` | signalHandler, install, popPendingSignal, kickSignalHandler, EXIT_SIG, callTermHook |
| Control flow of the VM | state.*, vm.cpp, codegen.cpp | frames, operand stack, `thrown`, `savedThrown`, exception tables | call, return, THROW, ENTER_FINALLY, EXIT_FINALLY, handleException, nested interpreters (callFunction, callMethod, execCommand) |
| Redirection | redir.* | `backupFDs`, `oldFDs`, the process's descriptors | redirect, restoreFDs, here strings, process substitution |
| Modules and front end | frontend.*, scope.*, type_pool.*, core.* | the stack of sources being read, `ModuleLoader`, `NameScope`, `TypePool` | load, enter/exit module, analyse, discard |
| Command path cache | core.* | `FilePathCache::map`, at most 100 paths | searchPath, removePath |
| Lexer, parser | lexer.*, nextToken, parser.*, node.* | lexer modes, the token in hand | one function of the text per construct |
| Type checker, type pool | type_checker.*, type*.* | scopes, `FlowContext`, the pool of types | one function of the tree per node |
| Code generator | codegen.* | code builders, loop and finally labels | one function of the tree per node |
| Builtin commands | cmd.*, misc/opt.hpp, core.* (cd) | the working directory as a path by names, PWD, OLDPWD, the place in a word of options | one function per command |
| Builtin methods, objects | builtin.h, object.* | arrays, maps and their iterators, the buffer conversions write to | one function per method |
| Driver, API, completion | main.cpp, interactive.cpp, ydsh.cpp, complete.* | options, line editing | `DSState_*` |
| Support library, tools | misc/, tools/ | the iterators of a pattern and of a directory | globbing; containers, JSON-RPC, language server, developer tools |

How they interact. The front end hands a tree to the type checker and on to the code
generator; the VM runs the result. The VM calls builtin commands and methods, which
call the VM back (`eval`, comparison functions, the termination hook). Commands,
pipelines and command substitutions fork through `Proc::fork` and put a `JobObject`
into the job table or wait for it at once. The kernel reports children through
SIGCHLD and `waitpid`; `signalHandler` only records a signal in `pendingSigSet` and
sets `VMEvent::SIGNAL`; the loop of the VM looks at `eventDesc` before every
instruction, reaps the children (`waitForAny`) or winds the frame of the script's
handler.

Where it is hard:

* **Interleaving with children.** A child may end, stop or continue between any two
  calls of `waitpid`, also while the shell waits for another one. Whoever reaps it
  must write its status where the rest of the shell looks for it.
* **Wakeups.** SIGCHLD is level-less: clearing it at the wrong moment leaves a zombie.
* **Names that are reused.** Pids and job ids are handed out again; the process
  table keeps deleted entries until a batch removes them.
* **Half-done steps.** A fork fails in the middle of a pipeline, SIGINT interrupts
  the wait of a foreground command, a child inherits the table of its parent.
* **Two searches over one vector.** Both tables are vectors with hand-written binary
  searches and in-place removal.
* **Control flow.** Exceptions, `finally`, jumps, signal handlers and nested
  interpreters share one operand stack and two exception registers.
* **Descriptors.** Redirections nest, commands pass objects whose close-on-exec flag
  several of them need, and every fork has two sides and a failure.
* **Discarding.** A compilation that fails goes back to a point remembered in the module
  table, the type pool, the scopes and the counters; ids and slots are given again.
* **One text, several modes.** What a word is depends on the mode of the lexer, which the
  parser changes, and goes back in, while it looks ahead.
* **Shared objects.** Variables of different types refer to one array or map; an iterator
  holds on to a map others change.
* **A world that moves.** The path cache and the working directory are the shell's memory
  of a file system others change.

What makes each component correct, and the lines where it bites, is the list
`hazards` of PROJECT.json; section 4 says which property covers what.

## 2. Modules

| module | models | in terms of the code |
|---|---|---|
| `Children` | the kernel: child processes, `waitpid`, process groups, `kill` | external; modelled from the calls job.cpp makes. `proc[p]` is free, running, stopped, dying (killed, not yet a zombie) or zombie; `event[p]` the stop or continue report not yet handed out |
| `JobTable` | `Proc`, `JobObject`, `ProcTable`, `JobTable` | pure operators on one record `T`; each sorted vector is the map from its key |
| `JobControl` | the operations of the VM and of the builtins on the table | one action per operation; an operation that waits is split at its calls of `waitpid`, and `frame` is its C++ stack in between |
| `JobControlProperties` | what `JobControl` has to guarantee | |
| `JobTableSpec` | the job table as a state machine on maps | the abstract specification |
| `JobVectors` | the vectors, searches and removals | implements `JobTableSpec` |
| `JobTableProofs`, `JobVectorsProofs`, `JobControlProofs`, `JobWaitProofs` | the proofs about the table, its vectors, jobs and waits | |
| `Bytecode` | the type checker's rules for jumps and blocks (`FlowContext`), and the code generator, as far as control flow goes | statements are records; `Accepted` and `Generate` follow the visitors of type_checker.cpp and codegen.cpp; code has labels until `Finalize` makes them offsets |
| `Interpreter` | the VM: `mainLoop`, `handleException`, frames, nested interpreters, subshells, `checkVMEvent`, the signal handler | one action per instruction; `frame`, `frames`, `recDepth`, `thrown`, `savedThrown`, `eventDesc`, `pending` and `pendingIndex` are the fields of `VMState` and `DSState` |
| `SourceSemantics` | what a program promises, read from its statements | the reference; it knows no stack, label or instruction |
| `Limits` | constants both know of | |
| `ControlFlow` | compiled code and machine together | the properties |
| `InterpreterProofs` | the proofs about the machine and its signals | |
| `Descriptors` | a process's descriptor table under dup, close, pipe, open | external; modelled from the calls of redir.cpp |
| `Redirection` | `RedirObject`, `PipelineObject`, `UnixFdObject`, forks and the operand stack that restores | one action per instruction or method that touches descriptors |
| `RedirectionProofs` | the proofs about descriptors | |
| `CommandPath` | `FilePathCache`, `CmdResolver`, `command`, `hash` | one action per command; files and PATH change in between |
| `CommandPathProofs` | the proof about the cache | |
| `FrontEnd` | `FrontEnd`, `ModuleLoader`, `NameScope`, `TypePool`, `DSState_eval` and its like, the run of the code | `contexts` is the stack of sources, `entries` and `pool` the tables, `point` what `DiscardPoint`s remember; a statement is an action |
| `FrontEndProofs` | the proofs about the front end | |
| `Lexer`, `Parser`, `Nodes` | nextToken, lexer.cpp, parser.cpp, node.h | functions on a record that is the lexer's and the parser's state; a text is a sequence of words and the gaps before them |
| `Grammar` | how a tree is written down (doc/grammar.md) | the reference for the parser |
| `Types`, `TypeChecker` | type.*, type_pool.*, type_checker.cpp | one operator per visitor, on a record that is the checker's state |
| `Codegen` | codegen.cpp | one operator per visitor; `Assemble` is `CodeBuilder::build` |
| `Objects` | builtin.h, object.* | a method maps the world (heap, environment, log, buffer) to the next one, a value and an error |
| `Machine` | the instructions with their values | `m` is `VMState` and the world; a child is run to its end before its parent goes on |
| `Meaning` | what a script means, read off its typed tree | the reference for Codegen and Machine; it knows no instruction, operand, index or jump |
| `Files` | directories, links, the calls on them | external |
| `WorkingDir` | `changeWorkingDir`, `expandDots`, `expandTilde`, cd, pwd, PWD and OLDPWD | operators on a record that is the shell |
| `Glob` | misc/glob.hpp, `GlobIter`, `addGlobbingPath` | operators; a pattern is read by an index into its tokens |
| `Builtins` | `GetOptState`, echo, test, read, umask | operators on texts |
| `MC...` | instances for TLC, with the small inputs and, for functions, the properties | |

`JobControl` has a shell of one thread. A step is what the code does between two
system calls whose result depends on other processes. `Enter`, `ImplReap`,
`ImplNothing` and `ImplInterrupted` are `waitForJobImpl`; `AnyReap`,
`AnyNothing` and `AnyDone` are `waitForAny`; `ProcWait` is the loop of
`JobObject::wait` over the processes of a job that is not attached. Most operations
end by calling `waitForAny` (`EnterAny`), which removes the jobs that have ended; that
is part of the action that returns. A failed `assert` is the frame `Abort`.

In `Interpreter` a step is an instruction. Between two of them, at the top of the
loop, `CheckVMEvent` takes a pending signal, as `checkVMEvent` does before the fetch;
signals `Arrive` at any point. `handleException` is split where its loop turns:
`UnwindFrame` drops a frame, `EnterBlock` finds a catch or finally block, `NotFound`
and `ProcGuard` leave the C++ function, which gives the exception to the interpreter
below. A callback from native code is a frame that remembers a greater `recDepth`: the
C++ recursion is nothing but that number, which is also how `checkVMReturn` sees it.
Frames are pushed with their operand stacks, so an operand of a caller is out of reach
of a callee, as `stackBottomOffset` has it; popping below the bottom is the phase
`corrupt`. Values are left out: an operand is an object or a return address, a command
its exit status, and the observable outcome of a program is the sequence of its
commands, each with the `$?` it met, and how it ends.

`Bytecode` and `SourceSemantics` are functions of a program. They are used by TLC
only; the machine takes code as a CONSTANT and can be proved about.

There are two models of the VM, for two questions. `Interpreter` has no values, but
signals, callbacks, limits and interleaving; it is proved about. `Machine` has values,
locals and objects, runs what the code generator makes of every kind of node, and is
checked against `Meaning`; nothing interrupts it. `Bytecode` and `Codegen` stand in the
same relation.

`Redirection` keeps, for each descriptor, the file it refers to and whether a program
would inherit it (`table.keep`). `stack` are the restoring objects on the operand stack,
and `base` how many of them a forked child has inherited and will not restore.
`FrontEnd` compiles one statement per step: `Begin` remembers the point, `EnterModule`
pushes a context, `ImportModule` takes a module that is sealed, `ExitModule` seals one,
and `Error` discards everything wherever it strikes. Running code is a sequence of
stores, loads and module entries; `Raise` cuts it short anywhere.

Composition. `MCCommands` runs `Redirection` and `CommandPath` next to each other (a run
follows one of them: they share no state); `MCSyntax` composes lexer, parser and grammar;
`MCLanguage` type checker, code generator, machine and meaning; `MCBuiltins` globbing and
the working directory, over one tree of files.

### The plan

1. Job table and job control (done): `Children`, `JobTable`, `JobControl`,
   `JobTableSpec`, `JobVectors`, their proofs.
2. Control flow of the VM (done): `Bytecode`, `Interpreter`, `SourceSemantics`,
   `ControlFlow`, signals, their proofs.
3. Running a command (done): `Descriptors`, `Redirection`, `CommandPath`, their proofs.
4. Modules and what a failed compilation discards (done): `FrontEnd` with its proofs.
5. The language (done for its core): `Lexer`, `Parser`, `Grammar`; `Types`,
   `TypeChecker`, `Codegen`, `Objects`, `Machine`, `Meaning`.
6. The builtin commands and globbing (done for those with state or a search):
   `WorkingDir`, `Files`, `Glob`, `Builtins`.
7. Left: `trap` and the termination hook while signals are pending; interfaces, and
   modules in the type checker; completion; the language server's life cycle.

Every safety property of the runs that is about a state machine is proved (section 6);
those that are about recursive functions of programs, texts and values are left to TLC.

## 3. Runs

| run | question | bounds |
|---|---|---|
| `job_control_one` | all operations on one job at a time | 2 pids, 1 job of up to 2 processes, 1 id |
| `job_control_two` | two pipelines under job control, waited for by id and by pid: ids reused, latest job, wait of one while the other ends, with different statuses | 2 pids, 2 jobs, 2 ids, 2 statuses, 1 argument |
| `job_control_live` | zombies are reaped, waits return | 2 pids, 2 jobs |
| `job_vectors` | the vectors implement the maps | 3 pids, 3 jobs of up to 2 processes, 3 ids |
| `control_flow` | compiled programs do what their source says, with and without signals | 1077 programs, 8 frames, 3 interpreters, 3 signals |
| `commands` | where the descriptors of a command go, and which program its name is | 7 descriptors, 2 nested restorers, 2 operations each, 4 things made, 1 descriptor lost; 2 names, 2 directories, 1 cached path |
| `front_end` | what a compilation, a load, a completion, a failure and a run leave behind | 2 files, 2 names, 1 module name, 5 statements or calls |
| `syntax` | the parser reads what the grammar writes, and only that | every tree of 2 constructs one in the other; every text of 5 words of a vocabulary |
| `language` | the machine computes what a script means | every expression and every statement of 2 constructs one in the other, at the top level and in a function |
| `library` | methods of arrays, maps, iterators and strings agree with each other | every sequence of 4 calls |
| `builtins` | umask, read, echo and test answer as a second reading of their words and lines does, patterns find what they match, cd goes where it is told | small inputs (below), 4 commands and changes of the tree |
| `try_in_finally` | where the VM departs from its own assertion (section 5) | 1 program |

Why the bounds are enough. A pid is in use by one process at a time, so with two
pids one is handed out again while the entry of its former owner is still in the
table, and there is a pid smaller and a pid larger than one that is not managed. Two
processes in a job give a dead leader with a live follower, and a job that is half
stopped. Two jobs give a job that ends in the wait for another, and an id that
becomes free below one in use; three jobs and three ids give the binary search for a
free id a hole at every place. `JobLimit` 1 and 2 reach the limit of ids; the wait of
a foreground job reserves one, as the test in `Proc::fork` does. `MaxProcs` and
`MaxWaitArgs` bound the length of a pipeline and of an argument list; `Script` says
which operations a run uses.

Job handles are symmetric (the model never compares them), so runs whose properties
name no handle use `Permutations(Job)`.

The programs of `control_flow` are all combinations of 9 statements that leave a try in
different ways, 6 lists of catch blocks and 4 finally blocks, put in 8 places (a loop,
a function, a callback, another try, its catch block, a try in a loop, a subshell, and
an expression with a pending operand), as far as `Accepted` lets them pass; and chains
of calls and callbacks up to the limits of frames and recursion and beyond. Two levels
of try and two of loops are what the labels and the flow tell apart: a third level is
treated like the second. Three programs are interrupted by up to 3 signals at any
instruction: one that throws through a finally block, one that forks, one that never
ends. One signal has a plain handler, one a handler that raises, one none; three of
them are needed for the round-robin. Eight frames leave room for every handler these
signals can start.

In `commands` seven descriptors are the three standard ones, the copies of one restorer
and one more: running out of them, which makes copies and pipes fail, is reached. Two
restorers one in the other with two operations each are what an inner one can undo of an
outer one. `MaxMade` bounds what is made in a whole run, `MaxLost` the descriptors that a
failed fork leaves open. One cached path makes every second search evict one.

In `front_end` two files import each other or themselves, globally and by name; a
private name is not importable; five statements and calls are enough to fill a slot,
discard it, give it again, and read it. `MaxPaths` 2 makes a pattern match both files.

`syntax` has a tree of each constructor of `Nodes`, put into every place of each other
one, so every pair of precedences, and every construct next to every closing bracket,
occurs; `Families` are the six vocabularies of the texts (operators, suffixes, commands,
blocks, declarations, substitutions), so that five words of one of them can open and close
two brackets. `language` has 12 atoms and two operators around them;
`Enclose` lists the statements. A third level would meet no label, local or context the
second has not. Integers have four bits (`Ints`), so that sums and products reach the ends
of the type. `library` has arrays of up to three, one of options, a map of two keys, texts
of up to four characters, and the limit `MaxArray` in reach.

`builtins` puts to each command all inputs of a small size: masks and pairs of clauses,
lines of up to five characters out of those `read` tells apart, three words to `echo`,
four characters of escapes, four words of options, pairs of files, pairs of numbers in
every spelling (decimal, octal, hex, signs) around zero and both ends of the range (-20 to
19 stands for 64 bits) and of texts that are no numbers, patterns
and names of four characters, paths of three components over a tree with hidden names and
a link. The shell that changes its directory starts in two trees with every PWD and OLDPWD
out of four.

In `commands`, `front_end`, `syntax`, `language`, `library` and `builtins` deadlock is not
checked: the shell exits when it cannot make a pipe, a program ends, an input is used up,
and the bounds stop the rest.

**Fairness.** `job_control_live` and `control_flow` assume some. In `control_flow` it is
weak fairness of `Step`: the scheduler runs the only thread of the shell, and no
instruction of the model blocks. Signals are not forced to arrive. In
`job_control_live`, the VM's loop checks `eventDesc`
before every instruction, so a SIGCHLD that is pending again and again at the top of
the loop is taken: strong fairness of `CheckVMEvent`. A `waitpid` that has something
to return returns, and the kernel scans all children: strong fairness of `AnyReap(p)`
and `ImplReap(p)` for each child, weak fairness of the steps that leave the loops.
That a command ends by itself is an assumption on the script: weak fairness of
`Exit(p)`.

## 4. What the properties say

Jobs:

* `TableAgrees`: the ids, the entries of the process table and the objects of the jobs
  agree, and at the top of the VM's loop no ended job is left. A stale or missing entry
  would write one process's status to another, or drop it.
* `NoStatusLost`, `ReapRecorded`: a child is reaped exactly when its status is recorded,
  with that status, and the record never changes while somebody can ask for it.
* `ChildrenKnown`: no child is forgotten, except those of a pipeline whose fork failed,
  and no report without a SIGCHLD or a loop that will read it.
* `ZombieReaped`, `WaitReturns`: no zombie stays, every wait comes back.
* `IdKeptUntilEnd`: `%id` names the same job until its last process has been reaped.
* `WaitEndsWithJob`, `WaitIdsStatus`: a wait returns the status it was asked for.
* `SignalReachesGroup`: a signal to a job reaches all its processes as long as its
  first process has not been reaped (section 5 says what happens then).
* `ImplementsMaps`: the vectors do what the maps promise.

The machine:

* `RunsAsWritten`: the code generated for a program, run by the machine, does the
  commands its source promises, in their order, with the same `$?`, and ends the same
  way. Finally blocks run once however their try is left, the innermost first; the
  first exception wins over one raised in a finally block.
* `StackBalanced`, and `FinallyAssertion` in it: catch, finally and all ways out of them
  push and pop alike; a finally block finds its return address.
* `InterpretersNest`: the recursion of C++ functions and the saved frames agree, so each
  interpreter returns to the native code that started it.
* `HandlersApart`: no handler interrupts another one.
* `SignalFlag`, `NoStarvation`, `PendingTaken`: no signal is forgotten, none waits while
  another is handled twice, each is taken as long as the script runs (so MASK does not
  stay set when a handler has raised).

Commands:

* `DescriptorsOwned`: every open descriptor has one owner, and no owner keeps the number of
  a closed one.
* `InheritsOnlyPassed`: a program inherits what is passed to it, no copy, pipe or file of
  the script's own.
* `RestoredAsBefore`: whatever happens inside, the end of a redirection puts back what it
  replaced.
* `SecondRunFinds`: a stale path fails a command once, not twice.

The front end:

* `HandlesResolve`, `SlotsOwned`: ids, types and slots that are given again never meet a
  handle or a stored value of what was discarded, and no module runs twice.
* `SetBeforeUse`: a module runs before whoever imports it reads it.
* `DiscardRestores`: a failed compilation leaves nothing behind.

The language:

* `ParsesBack`, `ReadsAsWritten`, `NewlinesIgnored`: the parser reads every tree from its
  text, reads no other text, leaves the lexer's modes as they were, and takes newlines in
  brackets for blanks.
* `WellTyped`: a value is of the type its variable was given, whoever else refers to it.
* `NeverGoesWrong`: no instruction meets an operand it is not made for.
* `ComputesAsWritten`: what a script leaves behind, and every command it runs with what was
  in force around it, is what the script means.
* `DueGiven`: an iterator gives every key of its map once, whatever is done to the map.
* `MethodsAgree`: methods that undo each other, or do the same in two ways, agree, and
  leave nothing in the buffer of conversions.

Builtin commands:

* `AnswersAgree`: what umask, read, echo and test do with their words is found a second
  way: the last clause that speaks of a bit decides, what umask prints sets it again,
  fields are cut at separators, options end at the first word that is none, newer and
  older exclude each other, numbers compare as the values they were written from. Which
  bit `test -g` looks at is not part of it (section 5).
* `GlobFinds`: a pattern finds the paths whose names match its own, each once.
* `LogicalIsHere`, `CdGoesThere`: the directory the shell says it is in is where it is;
  cd goes where it is told or nowhere.

## 5. What the code does otherwise

One departure is a run that TLC ends with a counterexample, listed under `findings`:

* `try_in_finally`: an exception caught inside a finally block empties the operand stack
  of the function, and with it the return address the finally block needs:
  `EXIT_FINALLY` fails its assertion (vm.cpp:1601).

The others were met while the models were written. Where a run would show them, the
scripts or inputs that lead there are left out of it, by the operator named here.

Jobs (the model does what the code does; no property says otherwise):

* `JobObject::send` uses the pid of the first process, which is -1 once that process has
  been reaped; process 1 is signalled and the rest of the pipeline is not (job.cpp:225).
  Hence the condition in `SignalReachesGroup`.
* `findProc` never compares the pid it found with the one it looked for (job.cpp:294), so
  `wait` with an unknown pid waits for the process with the next larger one (cmd.cpp:286
  says the status is 127).
* `wait` on a pid of a disowned job fails `assert(job)` (cmd.cpp:2254).
* Children of a pipeline whose fork failed belong to nothing; reaping one may meet a
  deleted entry and fail `assert(!entry->isDeleted())` (job.cpp:466).
* `Job#wait` takes a stale `errno` for a failure (builtin.h:1769).

Control flow (programs left out of `control_flow`; `TryInFinally` and `ContextInTry` leave
them out of `language`):

* A callback inside a finally block that was entered by an exception forgets the exception.
* `break` and `continue` that leave a try in a loop run every finally block of the
  function, those outside of the loop too (codegen.cpp:1057).
* `break` and `continue` in an operand leave the operands on the stack (codegen.cpp:1034);
  in the condition, the initialisation or the step of a loop they belong to that loop
  instead of the one around it (codegen.cpp:1041).
* A try in an operand: entering its catch block drops the operands (vm.cpp:1828).
* A catch entry gives back as many locals as its own block has (codegen.cpp:1144): a
  redirection or assignment opened in another local of the try body stays in force.
* A subshell that cannot be forked inside a try; signal handlers with a try or a callback
  of their own; a handler started at the frame limit, which leaves signals masked.
* The depth of the operand stack is counted along the text (codegen.cpp:108-121): catch
  blocks and the arms of a case with patterns need more than is reserved.
* An assertion of `generateIfElseCase` (codegen.cpp:913) fails for a case with a pattern
  on an optional string.

Commands and the front end:

* `command -p` answers from the path cache (core.cpp:53), and `command -V` prints a path it
  has just searched as hashed.
* A fork that fails in the middle of a pipeline leaves ends of its pipes open
  (redir.cpp:80): `MaxLost`.
* forkAndExec puts the standard descriptors back (vm.cpp:639) before it reads from and
  closes its end of the pipe on which it hears of a failed execve (vm.cpp:648). When a
  standard descriptor has been closed inside the redirection, by a signal handler for
  instance, the pipe may have its number: the descriptor is put back over the pipe, and
  closed in its place. This is the exception in `RestoredAsBefore`.
* A module loaded with a scope of its own stays registered without its object
  (ydsh.cpp:158, vm.cpp:1396): the exception in `SetBeforeUse`. A file that cannot be read
  after it was registered leaves an entry that is never sealed (ydsh.cpp:501).
* The limit on global variables is never looked at (constant.h:276).

Syntax:

* A newline in an index is not skipped (parser.cpp:1172; CHANGELOG.md:110 says it is in
  brackets), nor in what follows a colon: `Skipped`.
* `NAME=` leaves a mode of the lexer behind (parser.cpp:104): `Prefixed`.

Values (`Objects` has an error `undefined` for the first; the runs do not reach it):

* The opposite of the least integer, and its quotient and remainder by -1, are undefined
  (builtin.h:113, 170-190), also when the compiler folds them.
* `$a += rhs` appends in place, to every variable that shares the string (object.h:634).
* `Array#join` over an invalid element leaves the buffer of conversions filled
  (builtin.h:1358): the next conversion gives nothing.
* `sortWith` hands the comparison function the array it sorts (builtin.h:1330).
* `read` empties the map `reply` while it may be iterated (cmd.cpp:1016): `Read`.
* `extend` stops half way at the limit of an array.

Builtin commands:

* `test -g` looks at the set-user-id bit (cmd.cpp:784; the help at cmd.cpp:239 says
  set-group-id). The model does the same; no property says which bit it is.
* `expandDots` takes off the root for a `..` above it (core.cpp:346): `cd ..` in / fails,
  `cd /../a` goes to /: `Climbs`.
* A PWD that is inherited with `..` behind a link is believed (vm.cpp:113).
* `read` strips an escaped blank at the end, and any blank when IFS has a space
  (cmd.cpp:1079), as the reference `FieldsAsSplit` does too; the byte 0xFF ends the input
  (cmd.cpp:929).
* `echo -nX` prints its word without a newline (cmd.cpp:474), as the reference does too.
* A pattern with an empty fragment reads past its end (vm.cpp:1066).

## 6. What is proved

`JobTableProofs` shows that every operator of `JobTable` keeps `ConsistentTable`, the
agreement of the three parts of the table. `JobControlProofs` shows

    THEOREM Invariance == Spec => []IInv

for any set of pids and jobs, any number of processes per job, any limit of ids and
any script, from the assumptions `PidAssumption`, `JobAssumption` and
`ControlAssumption` only. `IdsMatch`, `EntriesMatch`, `ProcsRegistered` and
`TableSettled` follow from it (`IdsAgree`, `EntriesAgree`, `ProcessesRegistered`,
`Settled`), and so their conjunction `TableAgrees` (`Agreement`), and `NoStatusLost`
(`StatusKept`).

None of these is inductive as it stands. `IInv` adds

* `ConsistentTable(table)`: besides the agreement of ids and entries, that live pids
  are pairwise different and that the entry of an ended process is deleted or gone;
  without it an update through an entry could write into another job;
* `NoStatusLost`: a live process is still a child, so a pid that `fork` returns (one
  that is free in the kernel) is the pid of no live process;
* `RunningKnown`: a running job is in the table or in the foreground; it is why a
  child that is reaped finds its job;
* `ForegroundSound`: while the shell waits for a job that is not attached, there is
  still an id for it and no entry in the way of its pids, so that it can be attached
  if it stops or the wait is interrupted;
* `FrameShape`, and `SettledIn` at the places (idle, and the foreground wait) where
  new jobs are attached: an entry still marked as deleted would be in their way.

The proof has one lemma per action and splits `Next` once. The second part of the module
goes through the actions once more for the step: where the invariant holds, an id that is taken back was
that of a job whose processes have all ended, the last of them in this step at the
latest, or the shell has become the child of a fork (`IdsKept`: `IdKeptUntilEnd`).

`InterpreterProofs` shows the same of the virtual machine,

    THEOREM MachineInvariance == Spec => []IInv

for any programs, signals, handlers and limits, from `LimitsAssumption`,
`InterpreterAssumption` and `CodeAssumption`. The last one says what well-formed code
is: jumps and entries of the exception table lead into the function, its last
instruction is one that does not go on, functions that are called exist. That the code
generator makes such code is what TLC evaluates for the programs of `control_flow`.
From the invariant follow `TypeOK` (`MachineTyped`), `InterpretersNest` (`Nesting`),
`HandlersApart` (`HandlersKeptApart`), `SignalFlag` (`FlagMatchesPending`) and `InCode`
(`ControlInCode`). It needs

* `Shape`: what frames and operands are;
* `InCode`: the frame that runs and those that will be resumed are at an instruction of
  their code, and the return addresses on their operand stacks are, too. Without it an
  instruction could be anything, also an `EXIT_SIG` outside of a trampoline;
* `Masked`: in the shell MASK is set while a handler runs (it may stay set longer: see
  the hazard at vm.cpp:1233), so no signal is taken;
* `ChildQuiet`: a child forked by a handler starts with the mask taken back, but without
  handlers, so none is started above the one it inherits.

The proof has three lemmas about what a step does to the saved frames (nothing, push,
pop), one per instruction or event that cites one of them, and splits `Next` once.

The second part of the module adds `NoneStarves` (`NoStarvation`): no signal is handled twice while
another one waits. Its invariant `RoundRobin` says where, on the circle of signal numbers,
those lie that have been handled since a signal has been pending: behind it and before
`pendingIndex`. The signal `popPendingSig` finds lies from `pendingIndex` up to the pending
one. It needs that a finite set of numbers has a greatest element, which is proved from
the least size of a set without one.

`CommandPathProofs` shows `StaleOnce` (`SecondRunFinds`) for any names, directories, values
of PATH and size of the cache, from `CommandPathAssumption`. The property is not inductive:
`FailedIsStuck` says of a name that has failed once and can be found that it has left the
cache, or that what its path names is there and is no program.

`JobWaitProofs` goes from `Invariance` on to what the waits promise. Four lemmas,
`StartKind`, `CommandKind`, `WaitingKind` and `ForegroundKind`, collected in `StepKind`,
say once what a step can do to the table and to the children (a job starts, a report is
taken, nothing but removals happens); every later lemma splits on these kinds instead of
the actions. `UpdateExact` says what `updateProcState` writes: the process the report is
for, when it is one of the table, and nothing else. On them rest

* `NoChildForgotten` (`ChildrenKnown`), from the invariants `Known` and `Announced`. The
  property speaks of moments at which signals are not blocked; the invariant must also say
  what holds while waitForAny is on its way out, where a report may have come after its
  last `waitpid` and is announced only by the SIGCHLD its `SignalGuard` holds back;
* `SignalsReach` (`SignalReachesGroup`), from `GroupKept`: the processes of a running job
  are all in the group of the first one, if that leads one. A child that is forked or
  joins a group is that of no other job that runs (`GroupsElsewhere`), as its pid was free;
* `StatusesRecorded` (`ReapRecorded`): the invariant of `JobControlProofs` suffices, since
  `RunningKnown` gives the report its job;
* `WaitInvariance`, the invariant `WaitInv`: a wait has a job with processes for every
  status it still has to return, it never runs `waitpid` for stopped children without job
  control, and in the wait for a foreground job the processes passed have ended or stopped.
  `TypeCorrect` (`TypeOK`) follows from it;
* `WaitsEnd` (`WaitEndsWithJob`) and `IdsAreAnswered` (`WaitIdsStatus`), from `WaitInv`
  and `EndKind`, which lists the steps by which a wait can end.

`FrontEndProofs` shows

    THEOREM FrontInvariance == FrontSpec => []FrontInv

for any files, names and holders, and scripts of any length, from `FrontEndAssumption`
(which only says what the constants are), and from it `HandlesAlwaysResolve` (`HandlesResolve`), `SlotsAreOwned` (`SlotsOwned`), `SetBeforeUsed`
(`SetBeforeUse`) and `DiscardsRestore` (`DiscardRestores`). None of the four is inductive:
what a failed compilation leaves is decided by what was there when the point was taken.
`FrontInv` adds

* `Kept(mods, types, slots)`: the first modules, types and slots refer to nothing beyond
  themselves, nor do the root scope, what is stored and what has run. It holds of all
  there is, and in `PointKept` of what the point counts, so that it holds again of all
  there is after the rest is discarded;
* `Continues` in `ContextsInv`: a context of the root module goes on from the root scope,
  and what it adds has the commit ids that `DiscardScope` takes away (`DiscardedScope`);
  the other contexts are those of modules entered since the point, each younger than the
  one that sources it, and not sealed;
* `SetFor`, `SetAt` and `Sound`: what is stored by the time an instruction begins, counted
  along the code that waits, and that a handle in scope is set by the end of it. A handle
  a statement reads is set by then, whatever module it came from;
* `SlotsAgree`: variables and stores agree on their slots, among those to come as well:
  the code that waits stores what a later statement reads;
* `CodeInv`: a module is entered once in the code, never after it has run, and is sealed
  or being compiled.

There is one lemma per action. A statement of a script is an instance of `StepKeeps`, which
asks only that what it adds is sound (`Extends`, `ScopesStep`, `TypesStep`, `CodeStep`);
the lemmas about scopes (`AddLemma`, `AddAllLemma`, `ImportLemma`, `AgainScopeLemma`) say
what it adds.

`JobVectorsProofs` shows

    THEOREM SortedTheorem == Spec => []VInv
    THEOREM Refinement    == Spec => ImplementsMaps

for any pids, jobs, ids and lengths of pipelines, from `PidAssumption` and
`JobAssumption`: what `JobControl` assumes of the table, and what its proofs build on, is
what the vectors do. `VInv` says that the jobs are in the order of their ids, all in range
(`JobVector`), and the entries in the order of their pids (`SortedEntries`), without
duplicates; a binary search finds nothing in particular in a vector that is not sorted. On
it rest

* `LowerBoundLemma`: when the places of the smaller elements come before the others, the
  search of std::lower_bound and `findEmptyEntry` returns the number of them. The loop is a
  function defined from itself; the proof shows by induction on the length of the part
  searched that there is such a function and what its value is;
* `FindEmptyIndexLemma`, with `GapLemma`: the place of the first gap is the least id that
  is not in use. Ids in their order never run behind their places, so that the test
  `jobID == index + 1` splits the vector in two (job.cpp:437);
* `AddProcLemma`, `AddLemma`: an insertion at the place found keeps the order, and is an
  update of the map;
* `CompactOneLemma`, `CompactLemma`: `CompactInv` is the invariant of the loops of
  `batchedRemove` and `removeTerminatedJobs`. What has been kept stands in front in its old
  order, what goes stands behind it, in any order, the rest is untouched. So the swaps keep
  the order of what stays, which is not obvious from the code, and what is popped from the
  end is what had to go.

Then there is one lemma per operation (`VAttachLemma` to `VDetachLemma`): it keeps `VInv`
and is the step of `JobTableSpec` under the mapping `AbstractTable`. An instance of a module
brings its own copies of the operators of `JobTable`; `SameOperators` says they are the same.

`RedirectionProofs` shows

    THEOREM Invariant == RedirSpec => []RedirInv

for any number of descriptors, objects, restorers and operations, from
`RedirectionAssumption` and those of `Descriptors`, and from it `OwnedTheorem`
(`DescriptorsOwned`), `InheritsTheorem` (`InheritsOnlyPassed`) and `RestoredTheorem`
(`RestoredAsBefore`). Its part `Sound` is stated of a table, the objects, the restorers and
the lost descriptors as arguments, so that it can be said of the states inside one action,
between closing, popping and dropping. It consists of

* `OwnedAt`: each descriptor above the standard ones is open exactly when a restorer has it
  as a copy, an object holds it or it is lost, and only one of these, once. This is
  `DescriptorsOwned` without counting; the theorem counts the owners in the end;
* that a descriptor without close-on-exec is lost or held by an object that a command line
  passes. The flag is given with the first command that passes the object and taken back
  with the last reference (`Refs`), so the proof has to count references
  (`RefsLemma`, `RefsTwice`, `MentionsLemma`);
* `Restorable`: the copies of a restorer whose command began with its standard descriptors
  open are above them and refer to what was there. It holds of every restorer of the stack,
  not only of the newest one: dropping the newest leaves the others as they were, which is
  why nested redirections come undone in order, in exceptions too;
* that an object with a descriptor is held by the script or named by a restorer, so that
  `~UnixFdObject` runs before its descriptor is out of reach.

Backups, redirections and restores are sequences of calls on the table. `Within` says what
such a sequence may do to the descriptors above the standard ones: nothing, but leave some
of them lost. Redirections (`ApplyLemma`) go by induction on their number, the three steps
of a backup and of a restore by hand. There is one lemma per action.

Induction over numbers is at hand where the statement is about a set of them: a set that
has 0, and with each number the next, has them all (`SetInduction`, `NatInduction2`), proved
from the least element of its complement. It is used for recursive functions over numbers.
Lemmas that take an operator as a parameter, as the induction theorems of the library do,
cannot be used by the provers installed here, and a module with a RECURSIVE operator cannot
be proved about at all.

Only model-checked: of the machine `RunsAsWritten` and `StackBalanced`, which are about what
the code generator makes of every program (recursion over programs); the syntax, the
language, the library and the builtin commands, which are RECURSIVE operators on a text, a
tree or a value; and all liveness properties, `PendingTaken`, `ZombieReaped` and
`WaitReturns` (fairness and ENABLED are out of reach).

## 7. What is not modelled

In the control flow: signals and callbacks together with values (there are two models,
section 2), the time between reading and writing `eventDesc` (an optimised x86-64 build
updates it with one instruction; EXIT_SIG at vm.cpp:1567 is such a place), `trap`, the
actions of signals without a handler, and the termination hook. Pipelines and asynchronous
blocks are in `JobControl` with their processes, in `Redirection` with their descriptors,
in `Machine` with what they compute, one side after the other.

The terminal's foreground process group and `beForeground`, `PIPESTATUS`, and commands
with several targets, where each target is handled like the first. `FrontEnd` has
variables, not functions, types and aliases of modules, and no limit on modules. In the
language: floating point beyond conversions, regular expressions beyond "occurs in",
interfaces, the spelling of literals, line numbers, the constant pool, tilde expansion in
the code generator (`WorkingDir` has it) and the limits on nesting and on sizes.

Of the builtin commands: printf, ulimit, setenv, exec's options and the like. `Builtins`
has the escapes a, b, e, n, t and hex digits in lower case; it leaves out what `umask -p` prints
before the mask, and timeouts, prompts and the terminal of `read`. Inherited values of PWD
with `..` and empty fragments of a pattern are not among the inputs (section 5); readdir
has one order; the limit on arrays is not looked at in globbing.

Text: messages, formatting, line editing. Completion collects candidates; what it leaves
behind in the front end is modelled. The language server and the developer tools are
programs of their own.
