----------------------------- MODULE ServerCache -----------------------------
(***************************************************************************)
(* The header cache of one zapccs server, from one compilation to the      *)
(* next, at the granularity of files.                                      *)
(*                                                                         *)
(* performCompile reads a command, clears the cache when the arguments     *)
(* changed, unloads what may not be reused (the last main file, mutable    *)
(* headers, modified files, and whatever includes one of them), and runs   *)
(* the preprocessor, which enters a header the cache does not hold and     *)
(* only marks as included one that it does.  A compilation that fails is   *)
(* tried once more with an empty cache.  Meanwhile users edit files.       *)
(*                                                                         *)
(* The declarations a file was compiled to are represented by what they    *)
(* were made from: a set of facts, each naming a file, the version of it   *)
(* that was read, the arguments, and the state of each macro where the     *)
(* file tested it.  A compilation is right when its facts are those a      *)
(* compiler without a cache would have.                                    *)
(***************************************************************************)
EXTENDS Integers, Sequences, FiniteSets

CONSTANTS
  Headers, Mains,  \* the files of the project, and those compiled on their own
  Lines,           \* Lines[f]: the directives of f, each [op, file, macro]
  Mutable,         \* headers the [Mutable] patterns of zapccs.config match
  CSources,        \* headers whose extension starts with ".c"
  Macros,          \* macros that headers test, header guards apart
  Watched,         \* those that [WatchMacro] names
  Args,            \* what ArgsHistory compares of the command lines
  Times,           \* modification times a file can have; 0: it does not exist
  Editable,        \* files a user may edit, remove or restore
  Broken,          \* <<f, t>>: the text of f at time t does not compile
  MaxFiles,        \* findModifiedFiles looks at so many files
  NoArgs           \* an empty ArgsHistory

Files   == Headers \cup Mains
Missing == 0
State   == {"unread", "undefined", "defined"}  \* of a macro
Fact    == [file : Files, time : Times, args : Args, macro : [Macros -> State]]
Ops     == {"include", "guarded", "define", "undef", "use"}
Phases  == {"idle", "unload", "enter", "lex", "failed", "done", "exit"}

\* Headers have include guards and do not include one another in a circle (that
\* none includes itself is what the assumption says of it).
\* Only main files and command lines change the macros, as the comment on
\* CommandLineMainIdentifiersIdentifiers (Preprocessor.h) has it.
ASSUME ConstantsAssumption ==
  /\ IsFiniteSet(Headers) /\ IsFiniteSet(Mains)
  /\ Headers \cap Mains = {}
  /\ Lines \in [Files -> Seq([op : Ops, file : Headers, macro : Macros])]
  /\ \A f \in Headers : \A i \in DOMAIN Lines[f] :
        /\ Lines[f][i].op \notin {"define", "undef"}
        /\ Lines[f][i].op \in {"include", "guarded"} => Lines[f][i].file # f
  /\ Mutable \subseteq Headers /\ CSources \subseteq Headers
  /\ Watched \subseteq Macros
  /\ Times \subseteq Nat /\ Missing \in Times
  /\ Editable \subseteq Files
  /\ Broken \subseteq Files \X Times
  /\ MaxFiles \in Nat
  /\ NoArgs \notin Args

VARIABLES
  disk,      \* modification time of each file; its text is a function of it
  ci,        \* the CompilerInstance and the DependencyMap: the cache
  stack,     \* the include stack: files being read and the next line of each
  phase, cmd, tries,   \* performCompile
  prevArgs,  \* ArgsHistory::PreviousArgs
  aged,      \* more than 2 seconds since LastCompileEndTime
  \* History, to state the properties: whether this compilation looked for
  \* modified files or had an empty cache, the times each file has had since,
  \* the macros defined where a file was first included, why it failed.
  checked, live, at, cause

vars == <<disk, ci, stack, phase, cmd, tries, prevArgs, aged,
          checked, live, at, cause>>
history == <<checked, live, at, cause>>

-----------------------------------------------------------------------------
(* The cache.  A file is loaded when the server has a FileEntry for it.    *)

Unread    == [m \in Macros |-> "unread"]
Undefined == [m \in Macros |-> "undefined"]

\* A new CompilerInstance and a new DependencyMap.
Empty ==
  [stat       |-> [f \in Files |-> Missing], \* ModTime of each FileEntry
   facts      |-> [f \in Files |-> {}],      \* what its declarations stand for
   includees  |-> [f \in Files |-> {}],      \* IncludeMgr.IncludeesMap
   values     |-> [f \in Files |-> Unread],  \* FilesIdentifiersValues
   newFEs     |-> {},                        \* PP->NewFEs: <<includee, includer>>
   dependees  |-> [f \in Files |-> {}],      \* FileEntryDependees
   dependents |-> [f \in Files |-> {}],      \* Dependents, of files on files
   included   |-> {},                        \* IncludeMgr.Includes
   macro      |-> Undefined,    \* CommandLineMainIdentifiersIdentifiers
   defined    |-> {}]           \* the macros that are defined

Caches ==
  [stat : [Files -> Times], facts : [Files -> SUBSET Fact],
   includees : [Files -> SUBSET Headers], values : [Files -> [Macros -> State]],
   newFEs : SUBSET (Files \X Files), dependees : [Files -> SUBSET Files],
   dependents : [Files -> SUBSET Files], included : SUBSET Files,
   macro : [Macros -> State], defined : SUBSET Macros]

Loaded(c) == {f \in Files : c.stat[f] # Missing}

\* What one reaches from S along Next without entering Stop: the least set that
\* holds S and, with each file, what Next leads to.
ClosedUnder(T, Next, Stop) == \A f \in T : Next[f] \ Stop \subseteq T
Reach(S, Next, Stop) ==
  LET all == S \cup UNION {Next[f] : f \in Files}
  IN  {f \in all : \A T \in SUBSET all :
                      S \ Stop \subseteq T /\ ClosedUnder(T, Next, Stop) => f \in T}

\* The files findModifiedFiles looks at: those with the latest cached times.
Newest(c) ==
  {S \in SUBSET Loaded(c) :
     /\ Cardinality(S) = IF Cardinality(Loaded(c)) < MaxFiles
                         THEN Cardinality(Loaded(c)) ELSE MaxFiles
     /\ \A f \in S, g \in Loaded(c) \ S : c.stat[f] >= c.stat[g]}

WasModified(c, f) == disk[f] # Missing /\ disk[f] # c.stat[f]

\* EnterMainSourceFile notes the main file as its own includer.
MainOf(c) == {f \in Files : <<f, f>> \in c.newFEs}

IncludedBy(c, f) == {g \in Files : <<g, f>> \in c.newFEs}
NewFiles(c) == {g \in Files : \E f \in Files : <<g, f>> \in c.newFEs}

\* Files of the last compilation that the next one may not reuse.
UserFiles(c) ==
  MainOf(c) \cup (NewFiles(c) \cap Mutable)
            \cup {g \in CSources : \E m \in MainOf(c) : g \in IncludedBy(c, m)}

\* Mutant: dependents follow from the edges of earlier compilations only.
UpdatedTooEarly(c) ==
  LET deps == [f \in Files |-> c.dependees[f] \cup (IncludedBy(c, f) \ {f})]
      from == NewFiles(c) \ MainOf(c)
  IN  [c EXCEPT !.dependees = deps,
                !.dependents = [g \in Files |->
                   c.dependents[g] \cup {f \in from : g \in c.dependees[f]}],
                !.newFEs = {}]

\* DependencyMap::update: the includes of the last compilation become edges.
\* Nothing is made to depend on what a main file includes.
Updated(c) ==
  LET deps == [f \in Files |-> c.dependees[f] \cup (IncludedBy(c, f) \ {f})]
      from == NewFiles(c) \ MainOf(c)
  IN  [c EXCEPT !.dependees = deps,
                !.dependents = [g \in Files |->
                   c.dependents[g] \cup {f \in from : g \in deps[f]}],
                !.newFEs = {}]

\* collectUsers and Unloader::unload: gone leaves the cache and the graph, and
\* the macros of the command line and of the main file are forgotten.
Erased(c, gone) ==
  [c EXCEPT !.stat      = [f \in Files |-> IF f \in gone THEN Missing ELSE @[f]],
            !.facts     = [f \in Files |-> IF f \in gone THEN {} ELSE @[f]],
            !.includees = [f \in Files |-> IF f \in gone THEN {} ELSE @[f]],
            !.values    = [f \in Files |-> IF f \in gone THEN Unread ELSE @[f]],
            !.dependees = [f \in Files |-> IF f \in gone THEN {} ELSE @[f]],
            !.dependents = [g \in Files |-> IF g \in gone THEN {}
                               ELSE @[g] \ {f \in gone : g \in c.dependees[f]}],
            !.macro = Undefined, !.defined = {}]

-----------------------------------------------------------------------------
Init ==
  /\ disk \in [Files -> Times \ {Missing}]
  /\ ci = Empty
  /\ stack = <<>>
  /\ phase = "idle"
  /\ cmd \in [main : Mains, args : Args]
  /\ tries = 0
  /\ prevArgs = NoArgs
  /\ aged = FALSE
  /\ checked = FALSE
  /\ live = [f \in Files |-> {}]
  /\ at = [f \in Files |-> {}]
  /\ cause = "none"

(* performCompile *)

\* A client's command: new arguments clear the cache.
Command(m, a) ==
  /\ phase = "idle"
  /\ cmd' = [main |-> m, args |-> a]
  /\ ci' = IF prevArgs # NoArgs /\ prevArgs # a THEN Empty ELSE ci
  /\ tries' = 1
  /\ phase' = "unload"
  /\ UNCHANGED <<disk, stack, prevArgs, aged, history>>

\* A command with the reset switch compiles nothing.
ResetRequest ==
  /\ phase = "idle"
  /\ ci' = Empty
  /\ prevArgs' = NoArgs
  /\ UNCHANGED <<disk, stack, phase, cmd, tries, aged, history>>

\* CachingCompiler::unload.  What was modified is looked for only when the last
\* compilation ended more than 2 seconds ago.
Unload ==
  /\ phase = "unload"
  /\ \E S \in Newest(ci) :
       LET modified == IF aged THEN {f \in S : WasModified(ci, f)} ELSE {}
           c        == Updated(ci)
           gone     == Reach(modified \cup UserFiles(ci), c.dependents, {})
       IN  ci' = Erased(c, gone)
  /\ phase' = "enter"
  /\ checked' = (aged \/ ci = Empty)
  /\ live' = [f \in Files |-> {disk[f]}]
  /\ UNCHANGED <<disk, stack, cmd, tries, prevArgs, aged, at, cause>>

-----------------------------------------------------------------------------
(* The preprocessor. *)

Top  == stack[Len(stack)]
Line == Lines[Top.file][Top.line]

\* Go on with the next line of the file that is being read.
NextLine == stack' = [stack EXCEPT ![Len(stack)].line = @ + 1]

OwnFact(f) ==
  [file |-> f, time |-> disk[f], args |-> cmd.args, macro |-> Unread]

\* The text of f as it is now does not compile, or there is none.
Unusable(f) == disk[f] = Missing \/ <<f, disk[f]>> \in Broken

\* A file is looked up, opened and lexed from its first line on.
Load(c, f) ==
  [c EXCEPT !.stat[f] = disk[f], !.facts[f] = {OwnFact(f)}]

Fail(why) ==
  /\ phase' = "failed"
  /\ cause' = why
  /\ stack' = <<>>

\* Preprocessor::reset forgets what was included; then the main file.
EnterMainFile ==
  /\ phase = "enter"
  /\ at' = [f \in Files |-> {}]
  /\ LET m == cmd.main
     IN  IF Unusable(m)
         THEN /\ Fail("text")
              /\ ci' = [ci EXCEPT !.included = {m}, !.newFEs = {<<m, m>>}]
         ELSE /\ ci' = [Load(ci, m) EXCEPT !.included = {m}, !.newFEs = {<<m, m>>}]
              /\ stack' = <<[file |-> m, line |-> 1]>>
              /\ phase' = "lex"
              /\ UNCHANGED cause
  /\ UNCHANGED <<disk, cmd, tries, prevArgs, aged, checked, live>>

\* Mutant: IncludeesMap is filled the wrong way round.
NotedSwapped(c, f, g) ==
  [c EXCEPT !.newFEs = @ \cup {<<g, f>>}, !.includees[g] = @ \cup {f}]

\* Mutant: the include of a file in the cache makes no edge.
NotedOnEntry(c, f, g) ==
  [c EXCEPT !.newFEs = IF g \in Loaded(c) THEN @ ELSE @ \cup {<<g, f>>},
            !.includees[f] = @ \cup {g}]

\* f includes g, for DependencyMap::update and for the include manager.
Noted(c, f, g) ==
  [c EXCEPT !.newFEs = @ \cup {<<g, f>>}, !.includees[f] = @ \cup {g}]

\* What IncludeMgr.include(g) newly marks as included: g and, through what the
\* cache knows of them, the files it includes.
NewlyIncluded(g) == Reach({g}, ci.includees, ci.included)

\* macroCheckChanged: a file read under another value of a watched macro.
MacroChanged(f) ==
  \E m \in Watched : ci.values[f][m] \notin {"unread", ci.macro[m]}

\* #include of g in f.  A file in the cache is not entered: its guard is defined.
Include(f, g) ==
  LET new == NewlyIncluded(g)
      c   == [Noted(ci, f, g) EXCEPT !.included = @ \cup new]
  IN  /\ at' = [h \in Files |-> IF h \in new THEN ci.defined ELSE at[h]]
      /\ IF \E h \in new : MacroChanged(h)
         THEN Fail("macro") /\ ci' = c
         ELSE IF g \in Loaded(ci)
         THEN /\ ci' = [c EXCEPT !.facts[f] = @ \cup ci.facts[g]]
              /\ NextLine
              /\ UNCHANGED <<phase, cause>>
         ELSE IF Unusable(g)
         THEN Fail("text") /\ ci' = c
         ELSE /\ ci' = Load(c, g)
              /\ stack' = Append(stack, [file |-> g, line |-> 1])
              /\ UNCHANGED <<phase, cause>>

IncludeLine ==
  /\ phase = "lex" /\ Top.line \in DOMAIN Lines[Top.file]
  /\ \/ Line.op = "include"
     \/ Line.op = "guarded" /\ Line.file \notin ci.included
  /\ Include(Top.file, Line.file)
  /\ UNCHANGED <<disk, cmd, tries, prevArgs, aged, checked, live>>

\* Mutant: a directive whose guard is defined is skipped and forgotten.
GuardedLineSkipped ==
  /\ phase = "lex" /\ Top.line \in DOMAIN Lines[Top.file]
  /\ Line.op = "guarded" /\ Line.file \in ci.included
  /\ ci' = [ci EXCEPT !.facts[Top.file] = @ \cup ci.facts[Line.file]]
  /\ NextLine
  /\ UNCHANGED <<disk, phase, cmd, tries, prevArgs, aged, history>>

\* #ifndef GUARD, #include g, #endif in f, where the guard of g is defined.
\* HandleIfdefDirective makes a header include g all the same; in a main file
\* the directive stands at the top level, where it does not.
GuardedLine ==
  /\ phase = "lex" /\ Top.line \in DOMAIN Lines[Top.file]
  /\ Line.op = "guarded" /\ Line.file \in ci.included
  /\ ci' = [ci EXCEPT
       !.includees[Top.file] =
          IF Top.file \in Headers THEN @ \cup {Line.file} ELSE @,
       !.facts[Top.file] = @ \cup ci.facts[Line.file]]
  /\ NextLine
  /\ UNCHANGED <<disk, phase, cmd, tries, prevArgs, aged, history>>

\* macroDefined: an #undef that changes anything records the value the macro
\* had, because MacroDirective::getMacroInfo looks through it.
MacroLine ==
  /\ phase = "lex" /\ Top.line \in DOMAIN Lines[Top.file]
  /\ \/ /\ Line.op = "define"
        /\ ci' = [ci EXCEPT !.defined = @ \cup {Line.macro},
                            !.macro[Line.macro] = "defined"]
     \/ /\ Line.op = "undef"
        /\ ci' = [ci EXCEPT !.defined = @ \ {Line.macro},
                            !.macro[Line.macro] =
                               IF Line.macro \in ci.defined THEN "defined" ELSE @]
  /\ NextLine
  /\ UNCHANGED <<disk, phase, cmd, tries, prevArgs, aged, history>>

\* What has become of x where file f tests macro m.
Tested(x, f, m) ==
  IF x.file = f
  THEN [x EXCEPT !.macro[m] = IF m \in ci.defined THEN "defined" ELSE "undefined"]
  ELSE x

\* macroIdentifierUsed: a file that tests a watched macro is marked with it.
UseLine ==
  /\ phase = "lex" /\ Top.line \in DOMAIN Lines[Top.file]
  /\ Line.op = "use"
  /\ ci' = [ci EXCEPT
       !.values[Top.file][Line.macro] =
          IF Line.macro \in Watched THEN ci.macro[Line.macro] ELSE @,
       !.facts[Top.file] = {Tested(x, Top.file, Line.macro) : x \in @}]
  /\ NextLine
  /\ UNCHANGED <<disk, phase, cmd, tries, prevArgs, aged, history>>

\* The end of a header, or of the main file: the compilation has succeeded.
EndOfFile ==
  /\ phase = "lex" /\ Top.line \notin DOMAIN Lines[Top.file]
  /\ IF Len(stack) = 1
     THEN /\ stack' = <<>>
          /\ phase' = "done"
          /\ UNCHANGED ci
     ELSE LET outer == stack[Len(stack) - 1].file
          IN  /\ stack' = [SubSeq(stack, 1, Len(stack) - 1)
                             EXCEPT ![Len(stack) - 1].line = @ + 1]
              /\ ci' = [ci EXCEPT !.facts[outer] = @ \cup ci.facts[Top.file]]
              /\ UNCHANGED phase
  /\ UNCHANGED <<disk, cmd, tries, prevArgs, aged, history>>

-----------------------------------------------------------------------------
(* The end of a compilation. *)

\* Success: LastCompileEndTime is now, and the arguments are remembered.
Succeed ==
  /\ phase = "done"
  /\ phase' = "idle"
  /\ prevArgs' = cmd.args
  /\ aged' = FALSE
  /\ tries' = 0
  /\ checked' = FALSE
  /\ live' = [f \in Files |-> {}]
  /\ at' = [f \in Files |-> {}]
  /\ UNCHANGED <<disk, ci, stack, cmd, cause>>

\* Mutant: the second attempt finds the cache of the first.
RetryWithCache ==
  /\ phase = "failed" /\ tries = 1 /\ prevArgs # NoArgs
  /\ tries' = 2
  /\ phase' = "unload"
  /\ cause' = "none"
  /\ UNCHANGED <<disk, ci, stack, cmd, prevArgs, aged, checked, live, at>>

\* Mutant: every failure is tried again.
RetryAlways ==
  /\ phase = "failed" /\ prevArgs # NoArgs
  /\ ci' = Empty
  /\ tries' = 1
  /\ phase' = "unload"
  /\ cause' = "none"
  /\ UNCHANGED <<disk, stack, cmd, prevArgs, aged, checked, live, at>>

\* A failure that is not the first run's is tried again with an empty cache.
Retry ==
  /\ phase = "failed" /\ tries = 1 /\ prevArgs # NoArgs
  /\ ci' = Empty
  /\ tries' = 2
  /\ phase' = "unload"
  /\ cause' = "none"
  /\ UNCHANGED <<disk, stack, cmd, prevArgs, aged, checked, live, at>>

\* Otherwise the client is told, and the server ends.
GiveUp ==
  /\ phase = "failed"
  /\ tries = 2 \/ prevArgs = NoArgs
  /\ phase' = "exit"
  /\ UNCHANGED <<disk, ci, stack, cmd, tries, prevArgs, aged, history>>

\* A new server takes the place of one that failed, ran out of memory, or was
\* stopped.
Restart ==
  /\ phase \in {"idle", "exit"}
  /\ ci' = Empty
  /\ prevArgs' = NoArgs
  /\ phase' = "idle"
  /\ aged' = FALSE
  /\ tries' = 0
  /\ checked' = FALSE
  /\ live' = [f \in Files |-> {}]
  /\ at' = [f \in Files |-> {}]
  /\ cause' = "none"
  /\ UNCHANGED <<disk, stack, cmd>>

-----------------------------------------------------------------------------
(* The world. *)

\* A user writes, removes or restores a file, at any moment.
Edit(f) ==
  /\ \E t \in Times \ {disk[f]} : disk' = [disk EXCEPT ![f] = t]
  /\ live' = IF phase \in {"idle", "unload", "exit"} THEN live
             ELSE [live EXCEPT ![f] = @ \cup {disk'[f]}]
  /\ UNCHANGED <<ci, stack, phase, cmd, tries, prevArgs, aged, checked, at, cause>>

\* More than 2 seconds go by; it makes a difference up to Unload only.
Age ==
  /\ phase \in {"idle", "unload"}
  /\ ~aged
  /\ aged' = TRUE
  /\ UNCHANGED <<disk, ci, stack, phase, cmd, tries, prevArgs, history>>

ServerStep ==
  \/ Unload \/ EnterMainFile \/ IncludeLine \/ GuardedLine \/ MacroLine
  \/ UseLine \/ EndOfFile \/ Succeed \/ Retry \/ GiveUp

Next ==
  \/ \E m \in Mains, a \in Args : Command(m, a)
  \/ ResetRequest \/ Restart
  \/ ServerStep
  \/ \E f \in Editable : Edit(f)
  \/ Age

Spec == Init /\ [][Next]_vars

FairSpec == Spec /\ WF_vars(ServerStep)

-----------------------------------------------------------------------------
TypeOK ==
  /\ disk \in [Files -> Times]
  /\ ci \in Caches
  /\ stack \in Seq([file : Files, line : Nat \ {0}])
  /\ phase \in Phases
  /\ cmd \in [main : Mains, args : Args]
  /\ tries \in 0 .. 2
  /\ prevArgs \in Args \cup {NoArgs}
  /\ aged \in BOOLEAN /\ checked \in BOOLEAN
  /\ live \in [Files -> SUBSET Times]
  /\ at \in [Files -> SUBSET Macros]
  /\ cause \in {"none", "macro", "text"}

Result == ci.facts[cmd.main]

\* The headers a compiler without a cache would read for f.
DirectIncludes == [f \in Files |-> {Lines[f][i].file : i \in
                     {j \in DOMAIN Lines[f] : Lines[f][j].op \in {"include", "guarded"}}}]
Closure(f) == Reach({f}, DirectIncludes, {})

\* A compilation that looked for modified files used no text that had already
\* been replaced when it looked (unload, findModifiedFiles), except of a file
\* that had been removed, which wasModified takes for unmodified.
ChangesCaught ==
  phase = "done" /\ checked =>
    \A x \in Result : x.time \in live[x.file] \/ Missing \in live[x.file]

\* Header f tests macro m.  Main files are read anew by every compilation.
Tests(f, m) ==
  f \in Headers /\ \E i \in DOMAIN Lines[f] : Lines[f][i].op = "use" /\ Lines[f][i].macro = m

\* The state of macro m where this compilation first includes f.
Now(f, m) == IF m \in at[f] THEN "defined" ELSE "undefined"

\* A file a successful compilation used was read with the watched macros as
\* they are where this compilation first includes it: the server is reset when
\* such a macro changes (zapccs.config, [WatchMacro]).
MacroChangesCaught ==
  phase = "done" =>
    \A x \in Result, m \in Watched : Tests(x.file, m) => x.macro[m] = Now(x.file, m)

\* A successful compilation saw what one with an empty cache would have seen:
\* the same files, all of them visible, under the same arguments, each with the
\* macros it tests in the same state, whether the server watches them or not.
ResultIsFresh ==
  phase = "done" =>
    /\ {x.file : x \in Result} = Closure(cmd.main)
    /\ ci.included = Closure(cmd.main)
    /\ \A x \in Result : x.args = cmd.args
    /\ \A x \in Result, m \in Macros :
          Tests(x.file, m) => x.macro[m] = Now(x.file, m)

\* A client is told of a failure only when the text of its files is to blame,
\* never the state of the cache (performCompile's second attempt).
FailureIsReal == phase = "exit" => cause = "text"

\* What the cache says a header includes is in the cache too: Unloader::unload
\* never leaves a header without something it included.
NoDanglingInclude ==
  phase \notin {"failed", "exit"} =>
    \A f \in Loaded(ci) : ci.includees[f] \subseteq Loaded(ci)

\* Every command ends, with a success or a failure: no failure makes the server
\* try again for ever.
EveryCommandEnds == phase # "idle" ~> phase \in {"idle", "exit"}

-----------------------------------------------------------------------------
(* The inductive invariant behind NoDanglingInclude. *)

\* A file is being read when the preprocessor runs; it is loaded, and noted as
\* included by some file.
StackInv ==
  /\ phase = "lex" <=> stack # <<>>
  /\ \A i \in DOMAIN stack :
       /\ stack[i].file \in Loaded(ci)
       /\ \E x \in Files : <<stack[i].file, x>> \in ci.newFEs

\* Whatever a header is known to include has that header as its dependent, or
\* will have when update goes through newFEs: for the header itself is in
\* newFEs, and not as a main file.
EdgeInv ==
  /\ \A f \in Loaded(ci) \cap Headers : \A g \in ci.includees[f] :
        <<g, f>> \in ci.newFEs \/ f \in ci.dependents[g]
  /\ \A f, g \in Files : <<g, f>> \in ci.newFEs =>
        \E x \in Files : <<f, x>> \in ci.newFEs
  /\ \A h \in Headers : <<h, h>> \notin ci.newFEs

\* A main file is loaded for its own compilation only, and nothing is known of
\* what a file includes that is not loaded.
LoadInv ==
  /\ \A m \in Mains \cap Loaded(ci) : <<m, m>> \in ci.newFEs
  /\ \A f \in Files \ Loaded(ci) : ci.includees[f] = {}
  /\ phase = "enter" => ci.newFEs = {}

IInv ==
  /\ TypeOK
  /\ StackInv
  /\ phase \notin {"failed", "exit"} => EdgeInv /\ LoadInv
  /\ NoDanglingInclude

-----------------------------------------------------------------------------
(* What ChangesCaught needs besides. *)

\* T holds every header that is known to include a file of T.
Carries(T) == \A h \in Headers \ T : ci.includees[h] \cap T = {}

\* A file's facts are of files in the cache, in the version the cache has; and a
\* header has the facts of another file through a chain of known includes only.
FactsInv ==
  \A f \in Files : \A x \in ci.facts[f] :
    /\ f \in Loaded(ci) /\ x.file \in Loaded(ci) /\ x.time = ci.stat[x.file]
    /\ f \in Headers => \A T \in SUBSET Files : x.file \in T /\ Carries(T) => f \in T

\* Each file on the stack is known to include the next.
ChainInv ==
  \A i \in 1 .. Len(stack) - 1 : stack[i + 1].file \in ci.includees[stack[i].file]

\* live has what is on the disk, and what was left in the cache when modified
\* files had been looked for and everything read since.
LiveInv ==
  phase \in {"enter", "lex", "done"} =>
    /\ \A f \in Files : disk[f] \in live[f]
    /\ checked => \A f \in Loaded(ci) : ci.stat[f] \in live[f] \/ Missing \in live[f]

ChangesInv ==
  /\ phase \notin {"failed", "exit"} => FactsInv
  /\ ChainInv
  /\ LiveInv

(* What FailureIsReal needs. *)

\* The first run of a server, and the second attempt, begin with an empty cache.
EmptyStart == prevArgs = NoArgs \/ tries = 2

\* Then a file for which the value of a macro is noted was read, and so included,
\* in this very compilation.
NotedInv ==
  /\ prevArgs = NoArgs /\ phase = "idle" => ci = Empty
  /\ EmptyStart /\ phase = "unload" => ci = Empty
  /\ EmptyStart /\ phase = "enter" => \A f \in Files : ci.values[f] = Unread
  /\ EmptyStart /\ phase = "lex" =>
       \A f \in Files \ ci.included : ci.values[f] = Unread
  /\ phase = "exit" \/ (EmptyStart /\ phase = "failed") => cause = "text"
  /\ \A i \in DOMAIN stack : stack[i].file \in ci.included

(* What ResultIsFresh needs. *)

\* The lines of f that have been read; all of them unless f is on the stack.
Past(f) ==
  {i \in DOMAIN Lines[f] : \A k \in DOMAIN stack : stack[k].file = f => i < stack[k].line}

Includes(f, i) == Lines[f][i].op \in {"include", "guarded"}

\* What these lines include.
PastIncludes(f) == {Lines[f][i].file : i \in {j \in Past(f) : Includes(f, j)}}

\* The main file is at the bottom of the stack, and each file on it is at a line
\* that includes the next.
PathInv ==
  /\ phase = "lex" => stack[1].file = cmd.main
  /\ \A k \in 1 .. Len(stack) - 1 :
       LET f == stack[k].file
           n == stack[k].line
       IN  n \in DOMAIN Lines[f] /\ Includes(f, n) /\ Lines[f][n].file = stack[k + 1].file

\* No other file has facts of one that is still being read, and no two facts of one
\* file differ.
OwnInv ==
  /\ \A k \in DOMAIN stack, g \in Files : \A x \in ci.facts[g] :
       x.file = stack[k].file => g = stack[k].file
  /\ \A f, g \in Files : \A x \in ci.facts[f], y \in ci.facts[g] : x.file = y.file => x = y

ArgsInv ==
  \A f \in Files : \A x \in ci.facts[f] :
    x.args = IF phase = "idle" THEN prevArgs ELSE cmd.args

FactFiles(f) == {x.file : x \in ci.facts[f]}
Covered(f) == {f} \cup UNION {Closure(g) : g \in PastIncludes(f)}

\* A loaded file has the facts of what it has included so far, and the includes of
\* a header are known.
KnownInv ==
  /\ \A f \in Files : ci.includees[f] \subseteq DirectIncludes[f]
  /\ \A f \in Loaded(ci) : FactFiles(f) = Covered(f)
  /\ \A f \in Loaded(ci) \cap Headers : PastIncludes(f) \subseteq ci.includees[f]

\* What is recorded of a watched macro is its state, and no macro changes while a
\* header is read.
MacroInv ==
  /\ phase \in {"enter", "lex"} =>
       \A m \in Watched : ci.macro[m] = IF m \in ci.defined THEN "defined" ELSE "undefined"
  /\ \A k \in 2 .. Len(stack) : at[stack[k].file] = ci.defined

\* A header that tests a macro which nobody watches goes with the next unload.
SensitiveInv ==
  \A f \in Loaded(ci) \cap Headers :
    (\E m \in Macros \ Watched : Tests(f, m)) => f \in UserFiles(ci)

\* The value of a watched macro that a header was marked with is the one it saw,
\* and the headers included by now saw what they would see now.
SeenInv ==
  \A f \in Loaded(ci) \cap Headers : \A x \in ci.facts[f], i \in Past(f) :
    x.file = f /\ Lines[f][i].op = "use" =>
      LET m == Lines[f][i].macro
      IN  /\ m \in Watched => ci.values[f][m] # "unread" /\ x.macro[m] = ci.values[f][m]
          /\ phase \in {"lex", "done"} /\ f \in ci.included => x.macro[m] = Now(f, m)

\* What has been included is what an empty cache would have given so far.
IncludedInv ==
  phase \in {"lex", "done"} =>
    /\ cmd.main \in ci.included /\ ci.included \subseteq Closure(cmd.main) \cap Loaded(ci)
    /\ NewFiles(ci) \subseteq ci.included
    /\ \A f \in ci.included : PastIncludes(f) \subseteq ci.included

FreshInv ==
  phase \notin {"failed", "exit"} =>
    /\ PathInv /\ OwnInv /\ ArgsInv /\ KnownInv
    /\ MacroInv /\ SensitiveInv /\ SeenInv /\ IncludedInv
=============================================================================
