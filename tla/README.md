# zapcc: models, checks and proofs

zapcc is a C++ compiler built on clang and LLVM which keeps, from one
compilation to the next, what the compiler made of the headers. A `zapcc`
process (the client, `tools/zapcc`) is started by the build for every
translation unit. It hands its command to a `zapccs` process (the server,
`tools/zapccs`), which compiles with a warm cache and stays around for the next
client. Everything below is about zapcc's own code: the two `tools/zapcc*`
directories and the hooks they have in clang and LLVM. The compiler underneath
is not modelled.

Two questions decide whether such a compiler can be trusted. Does a run get the
verdict of *its own* command, whatever processes die around it? That is the
session protocol, section 3, and the stream of output, section 6. And is what
comes from the cache what a compiler without one would have made? That is the
header cache in terms of files, section 4, and of the declarations and lists
inside the compiler, section 5.

## 1. Inventory

| part | source | state it keeps | operations | what is hard about it |
|---|---|---|---|---|
| session client (Unix) | `zapcc/Client.cpp`, `zapcc1_main.cpp` | slot under trial, fcntl lock, two sockets, exit code | scan the slots, lock, connect twice, create a server, send, read to the end, compile by itself | clients race for a slot; killed between any two system calls; the server dies under it |
| session server (Unix) | `zapccs/Server.cpp`, `ZapccsMain.cpp` | two listening sockets, descriptors 0-2, the command | accept twice, read, write the exit code, disconnect, shut down | accepts are paired by their order alone; order of closing; end of file; SIGPIPE; crash |
| reset command | `zapcc/TerminateAllCopiesOf.cpp` | none (reads /proc) | find and kill all servers | processes start and end during the scan |
| exit code framing | `Client.cpp` `readServerOutput`, `Server::writeExitCode` | last bytes read | one byte after the diagnostics | pieces of any length; a diagnostic that ends in such a byte |
| command handling | `ZapccsMain.cpp` `performCompile`, `ArgsHistory` | arguments of the last command | compare, clear, compile, retry | which arguments count; when to retry |
| header cache | `CachingCompiler.cpp`, `Unload.cpp` | the CompilerInstance, the DependencyMap, end time of the last compilation | compile, unload, reset, memory limit | a long history of commands and edits decides what is stale |
| dependency map | `DependencyMap.cpp`, `FDMapping.h` | users of each file, declaration, type | update, findModifiedFiles, collectUsers | graph with cycles, changed while it is walked |
| include and macro cache | `Preprocessor.cpp`, `PPDirectives.cpp`, `PPLexerChange.cpp` (hooks) | known includes, what is visible, watched macros, include guards | include, macroDefined, macroIdentifierUsed, macroCheckChanged, reset | a header that is not entered must still count |
| unloader | `Unloader*.cpp`, `UserReplacer.cpp`, `ReplaceDeclInMap.cpp`, `DebugInfoScanner.cpp` | works on the AST, the IR, the macros | remove declarations, types, functions, macros, file entries | surgery on linked lists, in no particular order |
| caching pass manager | `CachingPassManager.cpp` | what was emitted, changed globals | emit, resurrect, set linkage | what a new object file needs of old functions |
| configuration | `ZapccConfig.cpp`, `UnloadSelector.cpp`, `CommandLine.cpp` | sections of zapccs.config | read, match wildcards | recursion of the matcher; missing values |
| Windows transport | `Client.cpp` 549-908, `Server.cpp` 118-200 | named pipes, completion port | the session again | a second implementation of the same protocol |
| utilities, vendored code, clang and LLVM | see `PROJECT.json` | | | |

How they interact: the client knows of the server only two port numbers, a lock
file and the bytes it reads. The server's `main` alternates between `Server`
(whose descriptors 0, 1 and 2 *are* the client's connections) and
`performCompile`; that calls `CachingCompiler::compile`, which first unloads
(`DependencyMap` decides what, `Unloader` does it) and then runs clang, whose
preprocessor and Sema call back to record what depends on what.

What makes each part correct: the client, that its status is the truth about its
command and that its run ends; the server, that it serves one client at a time
and leaves nothing of one for the next; the dependency map, that its edges cover
everything cached; the cache as a whole, that a success is what an empty cache
would have given and that a failure is the user's, not the cache's. The hazards
in `PROJECT.json` name the lines where each can go wrong, and the properties,
if there are any yet, that would show it.

## 2. Plan

Done: `ZapccSession` with the abstract `CompileFarm` it implements;
`ServerCache`; `DeclGraph`, and `Unloader` which does each of its actions
together with the effect on the lists of the compiler; `ServerOutput`, and
`ResetServers` which runs beside it; a proof of every safety property that the
runs check and the prover can reach (section 7 has the rest). To come, the most
important first:

1. `CleanCompiler`, a compiler that has no cache, as the abstract specification
   of `ServerCache` between edits, which `FreshInv` (section 4) makes provable.
2. `ResultsAreFresh` for projects with guarded includes: the run CacheMacros has
   one and `ResultIsFresh` holds, but the proof goes through `IInv`, which does not.
3. `ServerCache` with a search path, as a part of the arguments that is not
   compared and may give one name to two files.
4. Nested contexts in `Unloader` (namespaces are unloaded last, and a context
   takes its members along), and RecanonTypes in `DeclGraph`.

## 3. The session protocol

`ZapccSession.tla` holds the clients and the servers together, because
everything that can go wrong goes wrong between them. One action is one system
call of one process, or several that no other process can tell apart.

A *slot* is a `ServerId`: a lock file and a pair of ports. `pc[c]` says where a
client is between `startServerAndSend` and its return, `lock[k]` who has the
fcntl lock of slot k, `spc[s]` where a server process is between its fork and
its exit, `inQ[s]` and `errQ[s]` are the accept queues of its two listening
sockets, `out[s]` and `err[s]` the peers on its descriptors 0/1 and 2, `job[s]`
the command it compiles, `code[c]` the exit code the client has read. A peer is
the client at the other end; when that client dies, the connection becomes an
orphan that still holds what was sent on it, or nothing.

| code | actions |
|---|---|
| `obtainLock`, `connectToAny`, `connect` | `ObtainLock`, `LockBusyNext`, `LockBusyLast`, `LockUnexpected` |
| `open`, `connectToOne` | `OpenInOut`, `OpenRefused`, `ReopenRefused`, `OpenTimesOut`, `OpenError`, `OpenErrorRefused` |
| `createPipeAndServer`, `startServer` | `CreatePipeAndServer`, `CreateFails` |
| `send`, `readServerOutput`, end of `startServerAndSend` | `Send`, `SendFails`, `EndOfOutput`, `EndOfOutputLocal` |
| `cc1_selector` | `Invoke`, `CompileLocally` |
| `Server::connect`, `disconnect`, `done` | `AcceptInOut`, `AcceptError`, `Disconnect`, `CloseInOut`, `CloseError`, `CloseConnections` |
| `runServerMode`, `performCompile` | `ReadCommand`, `WriteExitCode` |
| the kernel, the user, `LLVMErrorHandler`, SIGPIPE | `Kill`, `Crash`, `Die`, `BrokenPipe`, `Orphan` |

A command is one of four kinds: it compiles, it does not, it names a DoNotZap
file (exit code 2), or `cc1_selector` keeps it. The text of diagnostics and the
way the exit code is sent after it are the subject of `ServerOutput`.

`KillAt` and `CrashAt` say where clients and servers may be killed. `StickyEof`
says which C library is below `std::cin`: with TRUE, end of file stays until
`clearerr`, which nothing calls; both kinds exist, and the runs and theorems say
which they need.

`CompileFarm` is what a user may expect, without servers, ports or connections:
slots used by one run at a time, an answer that is the truth about the run's own
command, a declined command compiled by the run itself after its slot is free,
and failure (status 1) or death at any time. `ImplementsFarm` maps a slot's user
to the holder of its lock.

### Runs

| run | instance | shows |
|---|---|---|
| SessionQuiet | 3 clients, 3 servers, 3 slots, nothing killed | `NoSpuriousFailure`: a run fails only because of its command, although servers end after failures or out of memory; `OneServerPerSlot` |
| SessionFaults | 3 clients, 2 servers, 1 slot; kills everywhere but between a client's two connects | `QueuesInStep`, `StreamsOfOneClient`: diagnostics go to the client whose command is compiled |
| SessionAnyKill | 2 clients, 2 servers, a slot to be scanned and one only named with -serverid, which cannot be locked; backlog 1; kills everywhere | `TypeOK`, `ConnectedHoldsLock`, `OneListener`, `AnswerIsOwn`, `ImplementsFarm` |
| SessionLiveness | 2 clients, 2 servers, 1 slot, backlog 1, kills as in SessionFaults, fairness | `EveryRunEnds`, `EveryServerReturns`, `ImplementsFairFarm` |
| SessionHang | a client may die between its connects | *violated*: `EveryRunEnds`; the server's pairs are one client apart for good, a later client waits for ever and keeps its slot |
| SessionStickyEof | a client dies before it sends, `StickyEof` | *violated*: `AnswerIsOwn`; the server answers 0 to every later command without reading it |

A slot whose lock file cannot be opened (`Unopenable`; another user's file in the
shared temporary directory) ends the scan of all slots: `connectToAny` takes the
failure for an unexpected one. That is modelled (`LockUnexpected`) and is why
SessionQuiet, whose `NoSpuriousFailure` would not survive it, has no such slot.

Bounds. Two clients are enough for every race for a lock, a port or a place in
a queue, the third one is there to arrive after two have left their marks. A
server that ends and its successor need two process ids; three when every slot
of the quiet run has one. A backlog of 1 makes queues full, one of 2 makes them
long enough to be out of step. Each client runs any number of commands, so all
states are reached again and nothing else is bounded.

Fairness. `WF` of each client's own steps and of each server's own steps: the
operating system schedules every process and a compilation ends. Nobody has to
start a run, kill a process, or let a connect time out. A connect that waits in
a full queue may wait as long as the queue is full.

### Proofs

`ZapccSession_proofs`. For any finite or infinite sets of clients, servers and
slots, any backlog, any places to kill:

* `TypeCorrect`, `Inductive`: `IInv` is inductive. It is `TypeOK` with:
  `LockInv`, a client past `obtainLock` holds the lock of its slot and no other;
  `ConnInv`, a connected client is connected to a server of its slot and is past
  that connect; `ClosedInv`, what a server has closed is empty; `OneListener`;
  `EofInv`; `AnswerInv`, the command being compiled is the connected client's.
  None of the properties is inductive by itself: that a connected client holds
  the lock needs that its slot has not changed since, that ports are not shared
  needs that a server keeps its Error port to the last.
* `ConnectedClientsHoldLocks`, `ListenersAreUnique`: from `IInv`.
* `AnswersAreOwn`, `SessionImplementsFarm` (initial states and steps): from
  `IInv`, under `~StickyEof`. The first is what SessionStickyEof refutes without.

`ZapccSessionQueues_proofs`. `QueuesKeepStep` (`QueuesInStep`) and
`StreamsArePaired` (`StreamsOfOneClient`), for any servers that crash anywhere
and any clients that die anywhere but between their two connects
(`"openErr" \notin KillAt`); SessionHang is what happens when one does die there.
The invariant, on top of `IInv`, is `PairsInv`: the clients a server has accepted
or has still to accept on its InOut port, in their order (`Ins`), are those in
its Error queue and at most one more, the last, who is between its connects. It
cannot be said of the queues alone: between two accepts the server itself holds
the client that the Error queue does not match.

`ZapccSessionQuiet_proofs`. Nothing is killed (`KillAt = CrashAt = {}`); servers
still end after failures, and by being out of memory.

* `ServersAreUnique` (`OneServerPerSlot`): from `QuietInv`, a server is idle or
  has exactly one client, and a client that is not through with its server has
  one, which it found idle. So the server that ends does so before its client
  lets go of the lock, and nobody can start a second one beside it.
* `OnlyBadCommandsFail` (`NoSpuriousFailure`), when there are a slot and a
  process for each client, every lock file can be opened, and no slot is one that
  -serverid alone names. `ScanInv` is the counting argument behind it: at slot k
  and beyond there are at most as many clients as slots, and one more. A client
  that finds a slot busy is there together with its holder, so the bound is met
  one slot further and the last slot cannot be busy.

## 4. The header cache

`ServerCache.tla` is one server between its commands, with files as the unit.
`Command` is `performCompile` up to `CC.compile`, `Unload` is
`CachingCompiler::unload` with `DependencyMap::findModifiedFiles`, `update`,
`collectUsers` and the part of `Unloader` that forgets files and macros;
`EnterMainFile`, `IncludeLine`, `GuardedLine`, `MacroLine`, `UseLine` and
`EndOfFile` are the preprocessor, one directive at a time, with zapcc's hooks;
`Succeed`, `Retry`, `GiveUp`, `ResetRequest` and `Restart` are the rest of
`performCompile` and of `runServerMode`. Meanwhile users `Edit` files and time
goes by (`Age`: more than 2 seconds since the last compilation).

`ci` is the CompilerInstance with the DependencyMap: modification times
(`stat`), `IncludeesMap`, `FilesIdentifiersValues`, `NewFEs`,
`FileEntryDependees`, `Dependents`, the files included in this compilation, the
values of the macros as zapcc recorded them (`macro`) and as they are
(`defined`). Some macros are `Watched` ([WatchMacro] of zapccs.config), which
alone are recorded with the files that test them. What the compiler made of a
file is `facts`: for each file that went into it, the version read, the
arguments, and the state of each macro it tested. A success is right when its facts are those of a compiler that has no
cache. `Reach` is `collectUsersOf`, and also the recursion of
`IncludeMgr.include`: the least set closed under the edges.

Left out, and why that is sound for what is stated: diagnostics; dependencies
among declarations (here a file goes with everything it was included by; how
that works declaration by declaration, and when a replacement saves a user, is
`DeclGraph`); `VisibleFEs`
(system headers, visible everywhere); macros that headers define, and values of
macros beyond defined and not; circular includes and headers without guards; main files read from stdin, which are not
retried; the memory limit, which ends the server (`Restart`). The text of a file
is a function of its modification time, so an edit that keeps the time is not an
edit. Headers define no macros but their guards: that is what the comment on
`CommandLineMainIdentifiersIdentifiers` says the recorded macros are.

`checked`, `live`, `at` and `cause` are history: whether this compilation looked
for modified files, which versions each file has had since, the state of the
macros at each file's first include, and why a compilation failed.

### Runs

| run | project | shows |
|---|---|---|
| CacheChanges | m1 and m2 include h1, which includes h2; m2 has included h2 before; both headers are edited, one version is broken; fairness | `ChangesCaught`: a compilation that looks for changes uses no version that was replaced before it looked; `NoDanglingInclude`; `EveryCommandEnds`; `TypeOK` |
| CacheMacros | h2 tests a watched macro that m2 defines; h1 includes h2 between #ifndef and #endif; a mutable header and a .c file test a macro nobody watches, which m3 defines; two kinds of arguments; h1 is edited and broken | `ResultIsFresh`: a success equals that of an empty cache; `FailureIsReal`: no failure reaches a client for the cache's sake |
| CacheUndef | a main file defines and undefines the watched macro | *violated*: `MacroChangesCaught` |
| CacheGuard | h1 tests h2's guard itself, h2 is edited | *violated*: `ChangesCaught` |

Bounds. Two headers and two main files give each shape of include that the code
treats differently: direct, nested, repeated in another order, guarded from
outside, found in the cache or not. Three modification times (0 for a removed
file) let a file change and change back. Commands, edits and restarts are not
bounded. `MaxFiles` (100 in the code, the files with the latest cached times) is
above the number of files: beyond it an edit of an old file goes unnoticed, by
design, and `ChangesCaught` does not hold.

Fairness. `WF` of the server's steps: it runs and its compilations end. Nobody
has to send commands or to edit.

### Proofs

For any project that meets `ConstantsAssumption`, any number of files, versions
and arguments.

`ServerCache_proofs`:

* `TypeCorrect`: `TypeOK`, with `LexInv`, the include stack is empty exactly when
  the preprocessor does not run.
* `NothingDangles`: `NoDanglingInclude`, for projects whose headers contain no
  guarded includes (`UnguardedHeaders`); CacheGuard is what happens with them.
  The inductive invariant `IInv` says that the edges cover the cache: whatever a
  cached header is known to include either has it as a dependent or has the pair
  still waiting in `NewFEs`, in which case the header was itself included in this
  compilation and is not its main file, so `update` will make the edge
  (`EdgeInv`); a main file is cached for its own compilation only, and nothing is
  known of files that are not cached (`LoadInv`); a file being read is cached and
  was included by some file (`StackInv`). Then, in `Unload`, what goes is closed under the
  new dependents, and a header that stays keeps all it includes.
* `ReachIsLeast`: `Reach` is closed, and the least such set.

`ServerCacheResults_proofs`:

* `FailuresAreReal` (`FailureIsReal`), of every project. `NotedInv` says that a
  compilation which cannot be tried again, because it is a server's first or the
  second attempt, began with an empty cache, so that a file with a value noted was
  included in it already. `macroCheckChanged` is asked of newly included files
  only, and cannot be what fails.
* `ChangesAreCaught` (`ChangesCaught`), for `UnguardedHeaders` and at most
  `MaxFiles` files (`FewFiles`; `findModifiedFiles` looks at no more). A fact is of a file that is in
  the cache, in the version that is in the cache, and has come to a header through
  a chain of known includes (`FactsInv`). The chain is put as a set: whatever set
  of files holds the fact's file, and each header known to include one of it
  (`Carries`), holds the header. What `Unload` takes is such a set, so no fact
  outlives its file. `ChainInv` says it of the include stack, whose files will be given
  each other's facts, and `LiveInv` that what is in the cache has been on the disk
  since the server looked.

`ServerCacheFresh_proofs`: `ResultsAreFresh` (`ResultIsFresh`), for projects with

* `UnguardedHeaders`, as above;
* `Acyclic`: headers include one another in no circle, for a header that is still
  being read has not all its facts when it is included again. All of them are
  assumed to have include guards, and `ConstantsAssumption` only asks that none
  includes itself, which is what the other theorems need;
* `NoUndef`: main files take back no watched macro. With an `#undef` zapcc records
  the value the macro had (`MacroLine`), and the theorem is false: CacheUndef;
* `Configured`: a header that tests a macro nobody watches is called mutable by
  zapccs.config, or is a source file that only main files include. That is what the
  configuration is for, and CacheMacros has one header of either kind.

`FreshInv` compares the cache at each step with what an empty one would have come
to at the same place of the same text. `Past(f)` are the lines of f that have been
read: those before its line when f is on the include stack, otherwise all. A loaded
file then has the facts of itself and of the closures of what its past lines
include, `Covered` (`KnownInv`), and what the compilation has marked as included is
closed under past includes, within the closure of the main file and within the
cache (`IncludedInv`). At the end all lines are past, and both are the closure
itself. `OwnInv`: no two facts of one file differ, and none of a file that is being
read has left it, so that `UseLine` changes the only one there is. `SeenInv`: what a
header saw of a watched macro is what it is marked with, and, once it is included,
is what it would see now; this rests on `MacroInv`, no macro changes while a header
is read and the recorded state is the actual one, and on `SensitiveInv`, a header
that tests other macros goes with the next unload. `PathInv` ties the stack to the
text, and with `Acyclic` no file is on it twice. `ResultIsFresh` is about the macros
that headers test: main files are read anew each time.

## 5. Declarations, and the lists of the compiler

`DeclGraph.tla` is the dependency map at the level at which the code keeps it.
Nodes are declarations, types (with nested name specifiers) and files. A
compilation makes nodes and references, which is Clang's part and external; the
map is told of the new and the changed declarations (`NewDecls`, `ModifiedDecls`,
here `fresh` and `moved`) and includes (`NewFEs`). Then `CachingCompiler::unload`
brings its edges up to date, collects the users of what is to go, and has them
unloaded.

A reference is *soft* when `UserReplacer` can rewrite it, such as the one of a
call to a function that another header declares as well, and *hard* otherwise.
`collectUsersOf` moves the set of dependents out of the map before it walks it;
a dependent that is rewritten goes to the set of the replacement, which may be
walked later itself. `stack` holds the calls under way, each with the dependents
it has still to look at, taken in any order, for they are in hash tables.

| code | actions |
|---|---|
| preprocessor hooks, `Decl::insertNewDecls`, `insertModifiedDecls` | `EnterMainFile`, `Include`, `EndOfFile`, `Create`, `Instantiate`, `SetInstantiationOf` |
| `DependencyMap::update`, `findProlog` and the `findIn...` functions | `Update`, `FindDependees` |
| `collectUsers`, `collectUsersOf`, `findReplacement` | `CollectRoot`, `Rewrite`, `Follow`, `Return`, `RemoveDependencies` |
| `Unloader::unload` | `UnloadDecl`, `UnloadRest` |

`FindDependees` looks into all pending nodes at once where the code recurses: it
reaches the same nodes, for each is entered once whoever reaches it first. Which
declaration lookup resolves a use to is any in memory (`Resolved`), and which
files are to go is any set with the main file (`Unloadable`), so that no rule of
selection is relied on.

`Unloader.tla` adds the pointers that the unloader patches, and does each action
of `DeclGraph` together with its effect on them: the redeclaration chains
(`first`, `link`, as `Redeclarable` keeps them) and what name lookup finds
(`lookup`), from which `VisitRedeclarable` takes one declaration at a time, in
any order; the list of declarations of the translation unit, which
`unloadDeclContexts` sweeps; and the history of a macro, from which `removeMacro`
takes the directives of one file, in reverse, whatever files come before or
after. `order` and `history` are what these lists should hold.

### Run

DeclUnload: a.h and b.h both declare f, and the main file once more; a user of f
in b.h is rewritten or not; a.h has a template of which an implicit instantiation
exists; c.h includes b.h and brings a partial specialization of it; a type
refers to f and is referred to. One macro is defined and undefined by three of
the four files. It shows:

* `NoDanglingReference`, `CachedFilesWhole`: whatever is unloaded in whatever
  order, the next compilation finds no pointer to what is gone, and every header
  that counts as cached is whole;
* `OnlyWhatMust`: no more goes than must. What a dependent needs depends on what
  else goes, so this is stated as a least closed set, `Closed`;
* `NoStaleDependents`, `MappingLive`: what the assertions in `collectUsers`
  (compiled out) and `CachingCompiler::compile` ask for;
* `ChainsInOrder`, `ContextInOrder`, `MacrosInOrder`: each list holds what stays,
  in its order, after each removal.

Bounds. Three redeclarations are the least that have a first, a latest and one
between, and with them every branch of `VisitRedeclarable` is taken in every
order. Four files let one go alone, with an includer, or with a neighbour in the
list of declarations on either side. The number of compilations is not bounded.

Left out: RecanonTypes; the candidates of unresolved overloads, which are no
edges; kinds of declarations (a replacement has the same kind, so an entity here
is a thing of one kind); nested contexts; the vectors and tables that are swept
of dead declarations by value. `GraphAssumption` excludes that one node refers to
an entity both softly and hardly, for `wasReplaced` is true as soon as one
reference was rewritten.

### Proofs (`DeclGraph_proofs`)

For any sets of declarations, types and files that meet `GraphAssumption`, for
any text of the files and any choice of references: `TypeCorrect`, `Safe`
(`NoDanglingReference`), `WholeFiles` (`CachedFilesWhole`), `NoStaleEdge`
(`NoStaleDependents`), `MappingCorrect` (`MappingLive`) and `UnloadsLeast`
(`OnlyWhatMust`). The argument is
`EdgesKnown`: each reference of a node that stays is known to the graph as an
edge, or, when what it refers to is to be unloaded, waits in the call that looks
at the dependents of that. So when no call is under way no node that stays refers
to one that goes. During a compilation it holds of the nodes that `update` will
not look into anew (`Unlooked`), which is why a changed declaration must be told
of (`News`); the converse, `EdgesTrue`, is why removing the edges of what goes
leaves none behind; `Whole` says of a header that its edges cover its text.

`UnloadsLeast` is the other direction: `Least`, what the walk has visited lies in
every set that could be unloaded without more, although users move between
declarations while it goes on. A user is followed only when no declaration is left
to rewrite it to, and every closed set has then all of them, provided that
`findReplacement`, which goes through the list, sees each that is in memory
(`Ordered`). It needs `TypesAssumption` besides: nothing else declares what a type
is. Users of a type are never rewritten, only those of a declaration.

## 6. What the caller of zapcc gets, and the reset

`ServerOutput.tla` is one command from the caller's view: it prints and it
returns an exit code. The server writes the compiler's text to two sockets and
the exit code after it, as one more byte of the first (`PrintByte`,
`WriteExitCode`, `Disconnect`). The client reads pieces of any length up to `BufferSize` from
either, in any order (`Read`, `ReadEnd`: the loop of `readServerOutput`), takes a
byte 0, 1 or 2 at the end of a piece for the exit code (`FindExitCode`), and when
both have ended returns it, compiles by itself (2), or fails (`Finish`). Servers
leave at any point (`Leave`: crash, out of memory, a directory that is gone) and
stay zombies until the client that forked them ends (`Die`, `Reap`).

`ResetServers.tla` runs `zapcc -reset-server` beside that. `OpenDir`, `ReadDir`
and `Examine` are the scan of /proc: the kernel hands out entries in the order of
their numbers, some at a time; each entry is opened and, when its name is that of
the server, its process is killed. `Rescan`, `EndReset` are the end of the loop.
An entry that vanished ends it at once, and its status is then failure.

`OutputAssumption` is what the framing relies on: the text a server prints has no
bytes 0, 1 and 2. Commands that print objects or preprocessed text to standard output
never reach a server (`useClang`, `Unsuited`), and Clang escapes control
characters in diagnostics. Writing input to a server (`writeServerInput`) is
unreachable for the same reason: only a command with the argument "-" does it.

### Run

ServerOutput: a command that succeeds with a warning, a DoNotZap one that fails
when the client compiles it, one that prints an object; two processes; reads of
one or two bytes; a reset at any moment.

* `ExitCodeTrue`, `TextTrue`: wherever the reads cut the output, the exit code and
  the text are the compiler's, or the server did not come to answer and the exit
  code is 1;
* `ResetComplete`: a reset that reports success has left no server that ran when
  one of its scans began;
* `CommandsEnd`, `ResetEnds`: both come to an end, whoever is killed.

Bounds. Two bytes on the first stream and one on the second, with a buffer of
two, give each way of cutting: the code alone in a read, after text, and text of
the other stream after the code. Two processes are one that is before the scan
and one that starts behind it. Each client gives one command, so every behaviour
ends, and this run does not check for deadlock; the two liveness properties say
that nothing stops before its end.

Fairness. `WF` of each client's and each server's own steps, and of the scan. A
server does not have to crash and no command has to be given.

### Proofs (`ResetServers_proofs`)

For any clients, process numbers, text, size of the buffer, and commands of each
kind: `TypeCorrect`, `ExitCodesTrue`, `TextsTrue`, `ResetIsComplete`. What has
been read, what is under way and what is to be written are, one after the other, the text
and the exit code (`Flow`), and what was read was printed (`Copied`); a server
works for one client that reads, and a socket that has ended has no server behind
it (`Connected`). So a client that finishes has read all, or its server never
wrote the code. `Scanned` is the invariant of the scan: as long as it has killed
nothing, the servers it began with are still ahead of it.

### What the code does and the help does not say

The help (`Options.td:245`) says "Reset specific server according to server id
or all servers if not provided". Any process of the machine that ends between
`readdir` and `fopen` ends the reset (`TerminateAllCopiesOf.cpp:122`), and the
client ignores that and exits with 0 (`Client.cpp:921`), so `ResetComplete` can
be stated of the status only. A process named zapccs of another user survives
`kill`, whose result is not looked at, and is found again by every scan: the
reset then does not end. The model has servers of one user.

## 7. What is only model-checked, and what is not modelled

Liveness (`EveryRunEnds`, `EveryServerReturns`, `EveryCommandEnds`,
`ImplementsFairFarm`, `CommandsEnd`, `ResetEnds`) is out of the provers' reach and
stays with TLC. So do `ChainsInOrder`, `ContextInOrder` and `MacrosInOrder`:
following a linked list is a recursion (`Backwards`, `Listed` are RECURSIVE), of
which the prover can make nothing. Every other property of a passing run is proved,
some under hypotheses on the constants that the run shares or that its bounds fulfil;
`ResultIsFresh` is the one that a run checks beyond its theorem, with a guarded
include.

Not modelled, as `PROJECT.json` lists it: the caching pass manager, which works on
use lists and linkage of LLVM modules and would need a model of these; the
Windows transport, a second implementation of the session; configuration, which
is read once and is constant in the models; utilities, vendored code, and the
compiler itself. The compiler is by far the most of the repository; the models
take from it only where zapcc changed it or hooks into it, and the lists the
unloader patches. In the modelled parts: diagnostics and their colours, debugging
output, statistics, the commands file, precompiled headers, and modules; of the
unloader, LLVM IR, debug information, nested contexts, and pending instantiations.
