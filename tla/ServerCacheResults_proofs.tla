---------------------- MODULE ServerCacheResults_proofs ----------------------
(***************************************************************************)
(* Proofs about what comes out of the header cache: failures that are the  *)
(* user's, and changes that are noticed.                                   *)
(***************************************************************************)
EXTENDS ServerCache_proofs, FiniteSetTheorems

-----------------------------------------------------------------------------
(* What one line does to the cache. *)

LEMMA NewlyIncludedNew ==
  ASSUME TypeOK, NEW g \in Files
  PROVE  NewlyIncluded(g) \cap ci.included = {}
<1> DEFINE S    == {g}
           N    == ci.includees
           Stop == ci.included
           R    == Reach(S, N, Stop)
<1>1. S \in SUBSET Files /\ N \in [Files -> SUBSET Files]
  BY CacheFields DEF TypeOK
<1> HIDE DEF S, N, Stop
<1>2. /\ R \in SUBSET Files /\ S \ Stop \subseteq R
      /\ ClosedUnder(R, N, Stop)
      /\ \A U \in SUBSET Files :
           S \ Stop \subseteq U /\ ClosedUnder(U, N, Stop) => R \subseteq U
  BY <1>1, ReachIsLeast
<1> HIDE DEF R
<1> DEFINE T == R \ Stop
<1>3. T \in SUBSET Files /\ S \ Stop \subseteq T
  BY <1>2
<1>4. ClosedUnder(T, N, Stop)
  BY <1>2 DEF ClosedUnder
<1>5. R \subseteq T
  BY <1>2, <1>3, <1>4
<1> QED
  BY <1>5 DEF R, S, N, Stop, NewlyIncluded

\* A line that includes g either ends the compilation, or merges what the cache
\* knows of g, or reads g.
IncludeHit(f, g) ==
  /\ g \in Loaded(ci) /\ ci'.stat = ci.stat
  /\ ci'.facts = [ci.facts EXCEPT ![f] = @ \cup ci.facts[g]]
  /\ NextLine

IncludeMiss(f, g) ==
  /\ g \notin Loaded(ci) /\ disk[g] # Missing
  /\ ci'.stat = [ci.stat EXCEPT ![g] = disk[g]]
  /\ ci'.facts = [ci.facts EXCEPT ![g] = {OwnFact(g)}]
  /\ stack' = Append(stack, [file |-> g, line |-> 1])

LEMMA IncludeCases ==
  ASSUME TypeOK, LexInv, IncludeLine
  PROVE  /\ phase = "lex" /\ Top.file \in Files
         /\ Line.file \in Headers /\ Line.file \in Files
         /\ ci'.values = ci.values
         /\ ci'.included = ci.included \cup NewlyIncluded(Line.file)
         /\ ci'.includees = [ci.includees EXCEPT ![Top.file] = @ \cup {Line.file}]
         /\ \/ phase' = "failed" /\ stack' = <<>> /\ cause' = "text"
            \/ /\ phase' = "failed" /\ stack' = <<>> /\ cause' = "macro"
               /\ \E h \in NewlyIncluded(Line.file) : MacroChanged(h)
            \/ /\ phase' = "lex" /\ cause' = cause
               /\ IncludeHit(Top.file, Line.file) \/ IncludeMiss(Top.file, Line.file)
<1> DEFINE f == Top.file
           g == Line.file
           new == NewlyIncluded(g)
           c == [Noted(ci, f, g) EXCEPT !.included = @ \cup new]
<1>1. phase = "lex" /\ f \in Files /\ g \in Headers /\ g \in Files /\ ci \in Caches
  BY StackLength, LineType DEF IncludeLine, TypeOK
<1>2. Include(f, g)
  BY DEF IncludeLine
<1> HIDE DEF f, g, new
<1>3. /\ c.stat = ci.stat /\ c.facts = ci.facts /\ c.values = ci.values
      /\ c.included = ci.included \cup new
      /\ c.includees = [ci.includees EXCEPT ![f] = @ \cup {g}]
  BY <1>1 DEF Noted, Caches
<1>4. \A h \in new : MacroChanged(h) => \E k \in NewlyIncluded(g) : MacroChanged(k)
  BY DEF new
<1>5. CASE (\E h \in new : MacroChanged(h)) /\ Fail("macro") /\ ci' = c
  BY <1>1, <1>3, <1>4, <1>5 DEF Fail, f, g, new
<1>6. CASE Fail("text") /\ ci' = c
  BY <1>1, <1>3, <1>6 DEF Fail, f, g, new
<1>7. CASE /\ g \in Loaded(ci) /\ ci' = [c EXCEPT !.facts[f] = @ \cup ci.facts[g]]
           /\ NextLine /\ UNCHANGED <<phase, cause>>
  <2>1. /\ ci'.stat = c.stat /\ ci'.values = c.values /\ ci'.included = c.included
        /\ ci'.includees = c.includees
        /\ ci'.facts = [c.facts EXCEPT ![f] = @ \cup ci.facts[g]]
    BY <1>1, <1>7 DEF Noted, Caches
  <2> HIDE DEF c
  <2> QED
    BY <1>1, <1>3, <1>7, <2>1 DEF IncludeHit, f, g, new
<1>8. CASE /\ g \notin Loaded(ci) /\ ~Unusable(g) /\ ci' = Load(c, g)
           /\ stack' = Append(stack, [file |-> g, line |-> 1])
           /\ UNCHANGED <<phase, cause>>
  <2>1. /\ ci'.stat = [c.stat EXCEPT ![g] = disk[g]] /\ ci'.values = c.values
        /\ ci'.included = c.included /\ ci'.includees = c.includees
        /\ ci'.facts = [c.facts EXCEPT ![g] = {OwnFact(g)}]
    BY <1>1, <1>8 DEF Noted, Caches, Load
  <2>2. disk[g] # Missing
    BY <1>8 DEF Unusable
  <2> HIDE DEF c
  <2> QED
    BY <1>1, <1>3, <1>8, <2>1, <2>2 DEF IncludeMiss, f, g, new
<1> QED
  <2>1. c = [Noted(ci, f, g) EXCEPT !.included = @ \cup NewlyIncluded(g)]
    BY DEF new
  <2> HIDE DEF c
  <2> QED
    BY <1>2, <1>5, <1>6, <1>7, <1>8, <2>1 DEF Include, new

-----------------------------------------------------------------------------
(* A failure that reaches the client is the user's. *)

LEMMA EmptyValues == \A f \in Files : Empty.values[f] = Unread
BY DEF Empty

\* The steps between two compilations.
LEMMA RestNoted ==
  ASSUME TypeOK, LexInv, NotedInv,
         \/ \E m \in Mains, a \in Args : Command(m, a)
         \/ ResetRequest \/ Restart \/ Succeed \/ Retry \/ GiveUp \/ Age
         \/ \E f \in Editable : Edit(f)
         \/ UNCHANGED vars
  PROVE  NotedInv'
<1>1. ASSUME NEW m \in Mains, NEW a \in Args, Command(m, a) PROVE NotedInv'
  BY <1>1 DEF Command, NotedInv, EmptyStart, LexInv
<1>2. CASE ResetRequest
  BY <1>2 DEF ResetRequest, NotedInv, EmptyStart, LexInv
<1>3. CASE Restart
  BY <1>3 DEF Restart, NotedInv, EmptyStart, LexInv
<1>4. CASE Succeed
  <2>1. prevArgs' # NoArgs
    BY <1>4, ConstantsAssumption DEF Succeed, TypeOK
  <2> QED
    BY <1>4, <2>1 DEF Succeed, NotedInv, EmptyStart, LexInv
<1>5. CASE Retry
  BY <1>5 DEF Retry, NotedInv, EmptyStart, LexInv
<1>6. CASE GiveUp
  BY <1>6 DEF GiveUp, NotedInv, EmptyStart, LexInv, history
<1>7. CASE Age \/ UNCHANGED vars
  BY <1>7 DEF Age, vars, NotedInv, EmptyStart, history
<1>8. ASSUME NEW f \in Editable, Edit(f) PROVE NotedInv'
  BY <1>8 DEF Edit, NotedInv, EmptyStart
<1> QED
  BY <1>1, <1>2, <1>3, <1>4, <1>5, <1>6, <1>7, <1>8

LEMMA UnloadNoted ==
  ASSUME TypeOK, LexInv, NotedInv, Unload
  PROVE  NotedInv'
<1>1. PICK S \in Newest(ci) :
        LET modified == IF aged THEN {f \in S : WasModified(ci, f)} ELSE {}
            c        == Updated(ci)
            gone     == Reach(modified \cup UserFiles(ci), c.dependents, {})
        IN  ci' = Erased(c, gone)
  BY DEF Unload
<1> DEFINE modified == IF aged THEN {f \in S : WasModified(ci, f)} ELSE {}
           c        == Updated(ci)
           gone     == Reach(modified \cup UserFiles(ci), c.dependents, {})
<1>2. ci' = Erased(c, gone) /\ c \in Caches
  BY <1>1, UpdatedType DEF TypeOK
<1>3. c.values = ci.values
  BY DEF Updated, TypeOK, Caches
<1> HIDE DEF gone, c
<1>4. \A f \in Files : ci'.values[f] = IF f \in gone THEN Unread ELSE ci.values[f]
  BY <1>2, <1>3 DEF Erased, Caches
<1>5. EmptyStart => \A f \in Files : ci'.values[f] = Unread
  BY <1>4, EmptyValues DEF NotedInv, Unload
<1>6. phase' = "enter" /\ stack' = <<>> /\ prevArgs' = prevArgs /\ tries' = tries
  BY DEF Unload, LexInv
<1> QED
  BY <1>5, <1>6 DEF NotedInv, EmptyStart

LEMMA EnterNoted ==
  ASSUME TypeOK, LexInv, NotedInv, EnterMainFile
  PROVE  NotedInv'
<1> DEFINE m == cmd.main
<1>1. ci \in Caches /\ phase = "enter" /\ prevArgs' = prevArgs /\ tries' = tries
  BY DEF EnterMainFile, TypeOK
<1>2. ci'.values = ci.values /\ ci'.included = {m}
  BY <1>1 DEF EnterMainFile, Load, Caches
<1>3. CASE Unusable(m)
  BY <1>1, <1>3 DEF EnterMainFile, Fail, NotedInv, EmptyStart
<1>4. CASE ~Unusable(m)
  <2>1. stack' = <<[file |-> m, line |-> 1]>> /\ phase' = "lex"
    BY <1>4 DEF EnterMainFile
  <2>2. DOMAIN stack' = {1} /\ stack'[1].file = m
    BY <2>1
  <2> QED
    BY <1>1, <1>2, <2>1, <2>2 DEF NotedInv, EmptyStart
<1> QED
  BY <1>3, <1>4

\* What is included stays so, and files are read only once they are included.
LEMMA IncludeNoted ==
  ASSUME TypeOK, LexInv, NotedInv, IncludeLine
  PROVE  NotedInv'
<1> DEFINE g == Line.file
<1>1. /\ phase = "lex" /\ g \in Files /\ prevArgs' = prevArgs /\ tries' = tries
      /\ ci'.values = ci.values /\ ci'.included = ci.included \cup NewlyIncluded(g)
  BY IncludeCases DEF IncludeLine
<1>2. CASE phase' = "failed" /\ stack' = <<>> /\ cause' = "text"
  BY <1>1, <1>2 DEF NotedInv, EmptyStart
<1>3. CASE /\ phase' = "failed" /\ stack' = <<>>
           /\ \E h \in NewlyIncluded(g) : MacroChanged(h)
  <2>1. PICK h \in NewlyIncluded(g) : MacroChanged(h)
    BY <1>3
  <2>2. h \in Files \ ci.included
    BY <1>1, NewlyIncludedType, NewlyIncludedNew
  <2>3. PICK m \in Watched : ci.values[h][m] \notin {"unread", ci.macro[m]}
    BY <2>1 DEF MacroChanged
  <2>4. ci.values[h] # Unread
    BY <2>3, ConstantsAssumption DEF Unread
  <2>5. ~EmptyStart
    BY <1>1, <2>2, <2>4 DEF NotedInv
  <2> QED
    BY <1>1, <1>3, <2>5 DEF NotedInv, EmptyStart
<1>4. CASE phase' = "lex" /\ (IncludeHit(Top.file, g) \/ IncludeMiss(Top.file, g))
  <2>1. stack \in Seq(Frames) /\ DOMAIN stack = 1 .. Len(stack) /\ Len(stack) \in Nat
    BY LenProperties DEF TypeOK, Frames
  <2>2. \A i \in DOMAIN stack' : stack'[i].file \in ci'.included
    <3>1. CASE NextLine
      <4>1. /\ stack' \in Seq(Frames) /\ Len(stack') = Len(stack)
            /\ \A i \in 1 .. Len(stack) : stack'[i].file = stack[i].file
        BY <1>1, <3>1, NextLineSameFiles
      <4>2. DOMAIN stack' = DOMAIN stack
        BY <2>1, <4>1, LenProperties
      <4> QED
        BY <1>1, <2>1, <4>1, <4>2 DEF NotedInv
    <3>2. CASE stack' = Append(stack, [file |-> g, line |-> 1])
      <4> DEFINE e == [file |-> g, line |-> 1]
      <4>1. e \in Frames /\ e.file = g
        BY <1>1 DEF Frames
      <4>2. /\ stack' \in Seq(Frames) /\ Len(stack') = Len(stack) + 1
            /\ \A i \in 1 .. Len(stack) : stack'[i] = stack[i]
            /\ stack'[Len(stack) + 1] = e
        BY <2>1, <3>2, <4>1, AppendProperties
      <4>3. DOMAIN stack' = 1 .. Len(stack) + 1
        BY <4>2, LenProperties
      <4>4. g \in ci'.included
        BY <1>1, NewlyIncludedType
      <4>5. ASSUME NEW i \in DOMAIN stack' PROVE stack'[i].file \in ci'.included
        <5>1. CASE i \in DOMAIN stack
          BY <1>1, <2>1, <4>2, <5>1 DEF NotedInv
        <5>2. CASE i \notin DOMAIN stack
          <6>1. i = Len(stack) + 1
            BY <2>1, <4>3, <4>5, <5>2
          <6> QED
            BY <4>1, <4>2, <4>4, <6>1
        <5> QED
          BY <5>1, <5>2
      <4> QED
        BY <4>5
    <3> QED
      BY <1>4, <3>1, <3>2 DEF IncludeHit, IncludeMiss
  <2> QED
    BY <1>1, <1>4, <2>2 DEF NotedInv, EmptyStart
<1> QED
  BY <1>2, <1>3, <1>4, IncludeCases

\* The other lines: only the file that is being read gets a value.
LEMMA LexNoted ==
  ASSUME TypeOK, LexInv, NotedInv,
         GuardedLine \/ MacroLine \/ UseLine \/ EndOfFile
  PROVE  NotedInv'
<1>1. /\ phase = "lex" /\ prevArgs' = prevArgs /\ tries' = tries /\ ci \in Caches
      /\ phase' \in {"lex", "done"}
  BY DEF GuardedLine, MacroLine, UseLine, EndOfFile, TypeOK
<1>2. ci'.included = ci.included
  BY <1>1 DEF GuardedLine, MacroLine, UseLine, EndOfFile, Caches
<1>3. stack \in Seq(Frames) /\ DOMAIN stack = 1 .. Len(stack) /\ Len(stack) \in Nat
  BY LenProperties DEF TypeOK, Frames
<1>4. Top.file \in ci.included
  BY <1>1, <1>3, StackLength DEF NotedInv, Top
<1>5. \A f \in Files \ ci.included : ci'.values[f] = ci.values[f]
  <2>1. CASE UseLine
    BY <1>1, <1>4, <2>1, CacheFields DEF UseLine
  <2>2. CASE GuardedLine \/ MacroLine \/ EndOfFile
    BY <1>1, <2>2 DEF GuardedLine, MacroLine, EndOfFile, Caches
  <2> QED
    BY <2>1, <2>2
<1>6. \A i \in DOMAIN stack' : stack'[i].file \in ci'.included
  <2>1. CASE NextLine
    <3>1. /\ stack' \in Seq(Frames) /\ Len(stack') = Len(stack)
          /\ \A i \in 1 .. Len(stack) : stack'[i].file = stack[i].file
      BY <1>1, <2>1, NextLineSameFiles
    <3>2. DOMAIN stack' = DOMAIN stack
      BY <1>3, <3>1, LenProperties
    <3> QED
      BY <1>2, <1>3, <3>1, <3>2 DEF NotedInv
  <2>2. CASE stack' = <<>>
    BY <2>2
  <2>3. CASE EndOfFile /\ Len(stack) # 1
    <3> DEFINE n == Len(stack) - 1
    <3>1. stack' = [SubSeq(stack, 1, n) EXCEPT ![n].line = @ + 1]
      BY <2>3 DEF EndOfFile
    <3>2. /\ n \in 1 .. Len(stack) /\ stack' \in Seq(Frames) /\ Len(stack') = n
          /\ \A i \in 1 .. n : stack'[i].file = stack[i].file
      BY <1>1, <2>3, <3>1, Popped
    <3>3. DOMAIN stack' = 1 .. n /\ 1 .. n \subseteq DOMAIN stack
      BY <1>3, <3>2, LenProperties
    <3> QED
      BY <1>2, <3>2, <3>3 DEF NotedInv
  <2> QED
    BY <2>1, <2>2, <2>3 DEF GuardedLine, MacroLine, UseLine, EndOfFile
<1> QED
  BY <1>1, <1>2, <1>5, <1>6 DEF NotedInv, EmptyStart

\* A client is told of a failure only when the text of its files is to blame: a
\* compilation that began with an empty cache meets no macro whose value it has
\* not noted itself.
THEOREM FailuresAreReal == Spec => []FailureIsReal
<1> DEFINE J == TypeOK /\ LexInv /\ NotedInv
<1>1. Init => J
  BY InitType DEF Init, NotedInv, EmptyStart
<1>2. J /\ [Next]_vars => J'
  <2> SUFFICES ASSUME J, [Next]_vars PROVE J'
    OBVIOUS
  <2>1. TypeOK' /\ LexInv'
    BY NextType
  <2>2. NotedInv'
    BY RestNoted, UnloadNoted, EnterNoted, IncludeNoted, LexNoted DEF Next, ServerStep
  <2> QED
    BY <2>1, <2>2
<1>3. J => FailureIsReal
  BY DEF NotedInv, FailureIsReal, EmptyStart
<1> QED
  BY <1>1, <1>2, <1>3, PTL DEF Spec

-----------------------------------------------------------------------------
(* A compilation that looks for changes misses none.                         *)

\* With at most MaxFiles files findModifiedFiles looks at all of them.
FewFiles == MaxFiles >= Cardinality(Files)

LEMMA NewestIsAll ==
  ASSUME FewFiles, NEW c \in Caches, NEW S \in Newest(c)
  PROVE  S = Loaded(c)
<1>1. IsFiniteSet(Files) /\ Cardinality(Files) \in Nat
  BY ConstantsAssumption, FS_Union, FS_CardinalityType DEF Files
<1>2. Loaded(c) \in SUBSET Files
  BY DEF Loaded
<1>3. /\ IsFiniteSet(Loaded(c)) /\ Cardinality(Loaded(c)) <= Cardinality(Files)
      /\ Cardinality(Loaded(c)) \in Nat
  BY <1>1, <1>2, FS_Subset, FS_CardinalityType
<1>4. /\ S \in SUBSET Loaded(c)
      /\ Cardinality(S) = IF Cardinality(Loaded(c)) < MaxFiles
                          THEN Cardinality(Loaded(c)) ELSE MaxFiles
  BY DEF Newest
<1>5. Cardinality(S) = Cardinality(Loaded(c))
  BY <1>1, <1>3, <1>4, ConstantsAssumption DEF FewFiles
<1> QED
  BY <1>3, <1>4, <1>5, FS_Subset

\* What goes and what stays when files are unloaded.
LEMMA UnloadCases ==
  ASSUME TypeOK, LexInv, Unload
  PROVE  \E S \in Newest(ci), gone \in SUBSET Files :
           /\ UserFiles(ci) \subseteq gone
           /\ aged => \A f \in S : WasModified(ci, f) => f \in gone
           /\ \A f \in Files :
                /\ ci'.stat[f] = IF f \in gone THEN Missing ELSE ci.stat[f]
                /\ ci'.facts[f] = IF f \in gone THEN {} ELSE ci.facts[f]
                /\ ci'.includees[f] = IF f \in gone THEN {} ELSE ci.includees[f]
                /\ ci'.values[f] = IF f \in gone THEN Unread ELSE ci.values[f]
<1>1. PICK S \in Newest(ci) :
        LET modified == IF aged THEN {f \in S : WasModified(ci, f)} ELSE {}
            c        == Updated(ci)
            gone     == Reach(modified \cup UserFiles(ci), c.dependents, {})
        IN  ci' = Erased(c, gone)
  BY DEF Unload
<1> DEFINE modified == IF aged THEN {f \in S : WasModified(ci, f)} ELSE {}
           c    == Updated(ci)
           from == modified \cup UserFiles(ci)
           gone == Reach(from, c.dependents, {})
<1>2. ci' = Erased(c, gone)
  BY <1>1
<1>3. /\ c \in Caches /\ c.stat = ci.stat /\ c.facts = ci.facts
      /\ c.includees = ci.includees /\ c.values = ci.values
  <2>1. ci \in Caches
    BY DEF TypeOK
  <2> QED
    BY <2>1, UpdatedType DEF Updated, Caches
<1>4. from \in SUBSET Files
  <2>1. modified \in SUBSET Files
    BY DEF Newest, Loaded
  <2>2. UserFiles(ci) \in SUBSET Files
    BY ConstantsAssumption DEF UserFiles, MainOf, NewFiles, Files
  <2> QED
    BY <2>1, <2>2
<1>5. modified \subseteq from /\ UserFiles(ci) \subseteq from
  OBVIOUS
<1>6. c.dependents \in [Files -> SUBSET Files]
  BY <1>3, CacheFields
<1> HIDE DEF c, from
<1>7. gone \in SUBSET Files /\ from \subseteq gone
  BY <1>4, <1>6, ReachIsLeast
<1> HIDE DEF gone
<1>8. /\ ci'.stat = [f \in Files |-> IF f \in gone THEN Missing ELSE c.stat[f]]
      /\ ci'.facts = [f \in Files |-> IF f \in gone THEN {} ELSE c.facts[f]]
      /\ ci'.includees = [f \in Files |-> IF f \in gone THEN {} ELSE c.includees[f]]
      /\ ci'.values = [f \in Files |-> IF f \in gone THEN Unread ELSE c.values[f]]
  BY <1>2, <1>3 DEF Erased, Caches
<1>9. aged => \A f \in S : WasModified(ci, f) => f \in gone
  BY <1>5, <1>7
<1> QED
  BY <1>3, <1>5, <1>7, <1>8, <1>9

\* A step that leaves files, facts and includes alone.
LEMMA SameFacts ==
  ASSUME FactsInv, ci'.stat = ci.stat, ci'.facts = ci.facts,
         \A f \in Files : ci.includees[f] \subseteq ci'.includees[f]
  PROVE  FactsInv'
<1>1. Loaded(ci)' = Loaded(ci)
  BY DEF Loaded
<1>2. ASSUME NEW T \in SUBSET Files, Carries(T)' PROVE Carries(T)
  BY <1>2 DEF Carries, Files
<1> QED
  BY <1>1, <1>2 DEF FactsInv

LEMMA NoFacts ==
  ASSUME ci' = Empty
  PROVE  FactsInv'
BY DEF Empty, FactsInv

\* f gets the facts of g, which it is known to include.
LEMMA Merged ==
  ASSUME TypeOK, FactsInv, NEW f \in Loaded(ci), NEW g \in Headers,
         ci'.stat = ci.stat, ci'.facts = [ci.facts EXCEPT ![f] = @ \cup ci.facts[g]],
         \A h \in Files : ci.includees[h] \subseteq ci'.includees[h],
         f \in Headers => g \in ci'.includees[f]
  PROVE  FactsInv'
<1>1. Loaded(ci)' = Loaded(ci) /\ f \in Files /\ g \in Files
  BY DEF Loaded, Files
<1>2. ASSUME NEW T \in SUBSET Files, Carries(T)' PROVE Carries(T)
  BY <1>2 DEF Carries, Files
<1>3. \A h \in Files : ci'.facts[h] = IF h = f THEN ci.facts[f] \cup ci.facts[g]
                                      ELSE ci.facts[h]
  BY <1>1, CacheFields DEF TypeOK
<1>4. ASSUME NEW h \in Files, NEW x \in ci'.facts[h]
      PROVE  /\ h \in Loaded(ci') /\ x.file \in Loaded(ci') /\ x.time = ci'.stat[x.file]
             /\ h \in Headers => \A T \in SUBSET Files : x.file \in T /\ Carries(T)' => h \in T
  <2>1. CASE x \in ci.facts[h]
    BY <1>1, <1>2, <2>1 DEF FactsInv, Loaded
  <2>2. CASE h = f /\ x \in ci.facts[g]
    <3>1. ASSUME h \in Headers, NEW T \in SUBSET Files, x.file \in T, Carries(T)'
          PROVE  h \in T
      <4>1. g \in T
        BY <1>1, <1>2, <2>2, <3>1 DEF FactsInv
      <4> QED
        BY <2>2, <3>1, <4>1 DEF Carries
    <3> QED
      BY <1>1, <2>2, <3>1 DEF FactsInv, Loaded
  <2> QED
    BY <1>3, <1>4, <2>1, <2>2
<1> QED
  BY <1>4 DEF FactsInv

\* A file the cache does not hold is read: nothing has facts of it yet.
LEMMA ReadAnew ==
  ASSUME TypeOK, FactsInv, NEW g \in Files, g \notin Loaded(ci), disk[g] # Missing,
         ci'.stat = [ci.stat EXCEPT ![g] = disk[g]],
         ci'.facts = [ci.facts EXCEPT ![g] = {OwnFact(g)}],
         \A h \in Files : ci.includees[h] \subseteq ci'.includees[h]
  PROVE  FactsInv'
<1>1. /\ \A h \in Files : ci'.stat[h] = IF h = g THEN disk[g] ELSE ci.stat[h]
      /\ \A h \in Files : ci'.facts[h] = IF h = g THEN {OwnFact(g)} ELSE ci.facts[h]
  BY CacheFields DEF TypeOK
<1>2. \A h \in Files : h \in Loaded(ci') <=> h \in Loaded(ci) \/ h = g
  BY <1>1 DEF Loaded
<1>3. ASSUME NEW T \in SUBSET Files, Carries(T)' PROVE Carries(T)
  BY <1>3 DEF Carries, Files
<1>4. ASSUME NEW h \in Files, NEW x \in ci'.facts[h]
      PROVE  /\ h \in Loaded(ci') /\ x.file \in Loaded(ci') /\ x.time = ci'.stat[x.file]
             /\ h \in Headers => \A T \in SUBSET Files : x.file \in T /\ Carries(T)' => h \in T
  <2>1. CASE h = g
    <3>1. x = OwnFact(g)
      BY <1>1, <1>4, <2>1
    <3>2. x.file = g /\ x.time = disk[g]
      BY <3>1 DEF OwnFact
    <3> QED
      BY <1>1, <1>2, <2>1, <3>2
  <2>2. CASE h # g
    <3>1. /\ x \in ci.facts[h] /\ h \in Loaded(ci) /\ x.file \in Loaded(ci)
          /\ x.time = ci.stat[x.file]
      BY <1>1, <1>4, <2>2 DEF FactsInv
    <3>2. x.file \in Files /\ x.file # g
      BY <3>1 DEF Loaded
    <3> QED
      BY <1>1, <1>2, <1>3, <3>1, <3>2 DEF FactsInv
  <2> QED
    BY <2>1, <2>2
<1> QED
  BY <1>4 DEF FactsInv

\* What stays has no facts of what goes: a header that has them reaches it through
\* known includes, and none of the headers that stay includes what goes.
LEMMA UnloadFacts ==
  ASSUME IInv, FactsInv, Unload
  PROVE  FactsInv'
<1>1. TypeOK /\ LexInv /\ StackInv /\ LoadInv /\ phase = "unload"
  BY DEF IInv, Unload, StackInv, LexInv
<1>2. PICK gone \in SUBSET Files :
        \A f \in Files :
           /\ ci'.stat[f] = IF f \in gone THEN Missing ELSE ci.stat[f]
           /\ ci'.facts[f] = IF f \in gone THEN {} ELSE ci.facts[f]
           /\ ci'.includees[f] = IF f \in gone THEN {} ELSE ci.includees[f]
  BY <1>1, UnloadCases
<1>3. \A f \in Files : f \in Loaded(ci)' <=> f \in Loaded(ci) /\ f \notin gone
  BY <1>2 DEF Loaded
<1>4. NoDanglingInclude' /\ LoadInv'
  <2>1. CacheInv' /\ phase' = "enter"
    BY UnloadInductive DEF Unload
  <2> QED
    BY <2>1 DEF CacheInv
<1>5. \A m \in Mains : m \notin Loaded(ci)'
  <2>1. phase' = "enter"
    BY DEF Unload
  <2> QED
    BY <1>4, <2>1 DEF LoadInv
<1>6. ASSUME NEW h \in Headers \ gone PROVE ci.includees[h] \cap gone = {}
  <2>1. h \in Files
    BY DEF Files
  <2>2. CASE h \in Loaded(ci)
    <3>1. h \in Loaded(ci)' /\ ci'.includees[h] = ci.includees[h]
      BY <1>2, <1>3, <1>6, <2>1, <2>2
    <3>2. phase' = "enter"
      BY DEF Unload
    <3>3. ci.includees[h] \subseteq Loaded(ci)'
      BY <1>4, <3>1, <3>2 DEF NoDanglingInclude
    <3>4. Loaded(ci)' \subseteq Files
      BY DEF Loaded
    <3> QED
      BY <1>3, <3>3, <3>4
  <2>3. CASE h \notin Loaded(ci)
    BY <1>1, <2>1, <2>3 DEF LoadInv
  <2> QED
    BY <2>2, <2>3
<1>7. Carries(gone)
  BY <1>6 DEF Carries
<1>8. ASSUME NEW T \in SUBSET Files, Carries(T)' PROVE Carries(T \cup gone)
  <2>1. ASSUME NEW h \in Headers \ (T \cup gone) PROVE ci.includees[h] \cap (T \cup gone) = {}
    <3>1. h \in Files /\ h \in Headers \ gone /\ h \in Headers \ T
      BY <2>1 DEF Files
    <3>2. ci'.includees[h] = ci.includees[h] /\ ci'.includees[h] \cap T = {}
      BY <1>2, <1>8, <3>1 DEF Carries
    <3> QED
      BY <1>6, <3>1, <3>2
  <2> QED
    BY <2>1 DEF Carries
<1>9. ASSUME NEW f \in Files, NEW x \in ci'.facts[f]
      PROVE  /\ f \in Loaded(ci)' /\ x.file \in Loaded(ci)' /\ x.time = ci'.stat[x.file]
             /\ f \in Headers =>
                  \A T \in SUBSET Files : x.file \in T /\ Carries(T)' => f \in T
  <2>1. /\ f \notin gone /\ x \in ci.facts[f] /\ f \in Loaded(ci)
        /\ x.file \in Loaded(ci) /\ x.time = ci.stat[x.file]
    BY <1>2, <1>9 DEF FactsInv
  <2>2. f \in Loaded(ci)' /\ f \in Headers /\ x.file \in Files
    BY <1>3, <1>5, <2>1 DEF Files, Loaded
  <2>3. x.file \notin gone
    BY <1>7, <2>1, <2>2 DEF FactsInv
  <2>4. ASSUME NEW T \in SUBSET Files, x.file \in T, Carries(T)' PROVE f \in T
    <3>1. f \in T \cup gone
      BY <1>8, <2>1, <2>2, <2>4 DEF FactsInv
    <3> QED
      BY <2>1, <3>1
  <2> QED
    BY <1>2, <1>3, <2>1, <2>2, <2>3, <2>4
<1> QED
  BY <1>9 DEF FactsInv

\* The steps of the preprocessor.
LEMMA TopLoaded ==
  ASSUME TypeOK, StackInv, phase = "lex"
  PROVE  Top.file \in Loaded(ci)
<1>1. LexInv
  BY DEF StackInv, LexInv
<1>2. Len(stack) \in DOMAIN stack
  <2>1. Len(stack) \in 1 .. Len(stack)
    BY <1>1, StackLength
  <2> QED
    BY <2>1, LenProperties DEF TypeOK
<1> QED
  BY <1>2 DEF StackInv, Top

LEMMA EnterFacts ==
  ASSUME IInv, FactsInv, EnterMainFile, ~Unusable(cmd.main)
  PROVE  FactsInv'
<1> DEFINE m == cmd.main
<1>1. TypeOK /\ LoadInv /\ phase = "enter" /\ ci \in Caches
  BY DEF IInv, EnterMainFile, TypeOK
<1>2. m \in Mains /\ m \in Files
  BY <1>1 DEF TypeOK, Files
<1>3. m \notin Loaded(ci)
  BY <1>1, <1>2 DEF LoadInv
<1>4. /\ ci'.stat = [ci.stat EXCEPT ![m] = disk[m]]
      /\ ci'.facts = [ci.facts EXCEPT ![m] = {OwnFact(m)}]
      /\ ci'.includees = ci.includees /\ disk[m] # Missing
  BY <1>1 DEF EnterMainFile, Load, Caches, Unusable
<1> QED
  BY <1>1, <1>2, <1>3, <1>4, ReadAnew

LEMMA IncludeFacts ==
  ASSUME IInv, FactsInv, IncludeLine, phase' = "lex"
  PROVE  FactsInv'
<1> DEFINE f == Top.file
           g == Line.file
<1>1. TypeOK /\ LexInv /\ StackInv /\ phase = "lex"
  BY DEF IInv, IncludeLine, StackInv, LexInv
<1>2. /\ f \in Files /\ g \in Headers /\ g \in Files
      /\ ci'.includees = [ci.includees EXCEPT ![f] = @ \cup {g}]
      /\ IncludeHit(f, g) \/ IncludeMiss(f, g)
  BY <1>1, IncludeCases
<1> HIDE DEF f, g
<1>3. /\ \A h \in Files : ci.includees[h] \subseteq ci'.includees[h]
      /\ g \in ci'.includees[f]
  BY <1>1, <1>2, CacheFields DEF TypeOK
<1>4. f \in Loaded(ci)
  BY <1>1, TopLoaded DEF f
<1>5. CASE IncludeHit(f, g)
  BY <1>1, <1>2, <1>3, <1>4, <1>5, Merged DEF IncludeHit
<1>6. CASE IncludeMiss(f, g)
  BY <1>1, <1>2, <1>3, <1>6, ReadAnew DEF IncludeMiss
<1> QED
  BY <1>2, <1>5, <1>6

LEMMA LexFacts ==
  ASSUME UnguardedHeaders, IInv, FactsInv, ChainInv,
         GuardedLine \/ MacroLine \/ UseLine \/ EndOfFile
  PROVE  FactsInv'
<1>1. TypeOK /\ LexInv /\ StackInv /\ phase = "lex" /\ ci \in Caches
  BY DEF IInv, TypeOK, GuardedLine, MacroLine, UseLine, EndOfFile, StackInv, LexInv
<1>2. Top.file \in Loaded(ci) /\ Top.file \in Files
  BY <1>1, TopLoaded, StackLength
<1>3. CASE GuardedLine
  <2> DEFINE f == Top.file
             g == Line.file
  <2>1. f \notin Headers /\ g \in Headers
    BY <1>1, <1>3, LineType DEF GuardedLine, UnguardedHeaders, Line
  <2>2. /\ ci'.stat = ci.stat
        /\ ci'.facts = [ci.facts EXCEPT ![f] = @ \cup ci.facts[g]]
        /\ \A h \in Files : ci'.includees[h] = ci.includees[h]
    BY <1>1, <1>2, <1>3, <2>1, CacheFields DEF GuardedLine, Caches
  <2> QED
    BY <1>1, <1>2, <2>1, <2>2, Merged
<1>4. CASE MacroLine
  <2>1. ci'.stat = ci.stat /\ ci'.facts = ci.facts /\ ci'.includees = ci.includees
    BY <1>1, <1>4 DEF MacroLine, Caches
  <2> QED
    BY <2>1, SameFacts
<1>5. CASE UseLine
  <2> DEFINE f == Top.file
             F == {Tested(x, f, Line.macro) : x \in ci.facts[f]}
  <2>1. ci'.stat = ci.stat /\ ci'.includees = ci.includees
        /\ ci'.facts = [ci.facts EXCEPT ![f] = F]
    BY <1>1, <1>5 DEF UseLine, Caches
  <2>2. \A h \in Files : ci'.facts[h] = IF h = f THEN F ELSE ci.facts[h]
    BY <1>1, <1>2, <2>1, CacheFields
  <2>3. \A y \in ci.facts[f] : /\ Tested(y, f, Line.macro).file = y.file
                               /\ Tested(y, f, Line.macro).time = y.time
    <3>1. \A y \in ci.facts[f] : y \in Fact
      BY <1>1, <1>2, CacheFields
    <3> QED
      BY <3>1 DEF Tested, Fact
  <2>4. \A h \in Files : \A x \in ci'.facts[h] :
          \E y \in ci.facts[h] : x.file = y.file /\ x.time = y.time
    <3>1. ASSUME NEW h \in Files, NEW x \in ci'.facts[h]
          PROVE  \E y \in ci.facts[h] : x.file = y.file /\ x.time = y.time
      <4>1. CASE h = f
        <5>0. x \in F
          BY <1>2, <2>2, <3>1, <4>1
        <5>1. PICK y \in ci.facts[f] : x = Tested(y, f, Line.macro)
          BY <5>0
        <5> QED
          BY <2>3, <4>1, <5>1
      <4>2. CASE h # f
        BY <2>2, <3>1, <4>2
      <4> QED
        BY <4>1, <4>2
    <3> QED
      BY <3>1
  <2>5. Loaded(ci)' = Loaded(ci) /\ \A T : Carries(T)' <=> Carries(T)
    BY <2>1 DEF Loaded, Carries
  <2> QED
    BY <2>1, <2>4, <2>5 DEF FactsInv
<1>6. CASE EndOfFile
  <2>1. CASE Len(stack) = 1
    <3>1. ci' = ci
      BY <1>6, <2>1 DEF EndOfFile
    <3> QED
      BY <3>1, SameFacts
  <2>2. CASE Len(stack) # 1
    <3> DEFINE n     == Len(stack) - 1
               outer == stack[n].file
               g     == Top.file
    <3>1. /\ ci' = [ci EXCEPT !.facts[outer] = @ \cup ci.facts[g]]
      BY <1>6, <2>2 DEF EndOfFile
    <3>2. /\ ci'.stat = ci.stat /\ ci'.includees = ci.includees
          /\ ci'.facts = [ci.facts EXCEPT ![outer] = @ \cup ci.facts[g]]
      BY <1>1, <3>1 DEF Caches
    <3>3. n \in 1 .. Len(stack) /\ n \in 1 .. Len(stack) - 1 /\ n + 1 = Len(stack)
      <4>1. n \in 1 .. Len(stack)
        BY <1>1, <2>2, Popped
      <4>2. Len(stack) \in Nat
        BY <1>1, StackLength
      <4> QED
        BY <4>1, <4>2
    <3>4. outer \in Loaded(ci) /\ outer \in Files
      BY <1>1, <3>3, LenProperties DEF StackInv, TypeOK, Loaded
    <3>5. g \in ci.includees[outer]
      BY <3>3 DEF ChainInv, Top
    <3>6. g \in Headers
      BY <1>1, <3>4, <3>5, CacheFields
    <3> HIDE DEF outer, g
    <3> QED
      BY <1>1, <3>2, <3>4, <3>5, <3>6, Merged
  <2> QED
    BY <2>1, <2>2
<1> QED
  BY <1>3, <1>4, <1>5, <1>6

\* The include stack stays a chain of known includes.
LEMMA ChainNext ==
  ASSUME IInv, ChainInv, [Next]_vars
  PROVE  ChainInv'
<1>1. TypeOK /\ LexInv /\ ci \in Caches
  BY DEF IInv, TypeOK, StackInv, LexInv
<1>2. stack \in Seq(Frames) /\ DOMAIN stack = 1 .. Len(stack) /\ Len(stack) \in Nat
  BY <1>1, LenProperties DEF TypeOK, Frames
<1>3. \A i \in 1 .. Len(stack) : stack[i].file \in Files
  <2>1. \A i \in 1 .. Len(stack) : stack[i] \in Frames
    BY <1>2, ElementOfSeq
  <2> QED
    BY <2>1 DEF Frames
<1>4. ASSUME stack' \in Seq(Frames), Len(stack') <= Len(stack),
             \A i \in 1 .. Len(stack') : stack'[i].file = stack[i].file,
             \A f \in Files : ci.includees[f] \subseteq ci'.includees[f]
      PROVE  ChainInv'
  <2>1. Len(stack') \in Nat
    BY <1>4, LenProperties
  <2>2. ASSUME NEW i \in 1 .. Len(stack') - 1
        PROVE  stack'[i + 1].file \in ci'.includees[stack'[i].file]
    <3>1. /\ i \in 1 .. Len(stack) - 1 /\ i \in 1 .. Len(stack)
          /\ i \in 1 .. Len(stack') /\ i + 1 \in 1 .. Len(stack')
      BY <1>2, <1>4, <2>1, <2>2
    <3> QED
      BY <1>3, <1>4, <3>1 DEF ChainInv
  <2> QED
    BY <2>2 DEF ChainInv
<1>5. CASE stack' = <<>>
  <2>1. Len(stack') = 0
    BY <1>5
  <2> QED
    BY <2>1 DEF ChainInv
<1>6. CASE /\ phase = "lex" /\ NextLine
           /\ \A f \in Files : ci.includees[f] \subseteq ci'.includees[f]
  <2>1. /\ stack' \in Seq(Frames) /\ Len(stack') = Len(stack)
        /\ \A i \in 1 .. Len(stack) : stack'[i].file = stack[i].file
    BY <1>1, <1>6, NextLineSameFiles
  <2> QED
    BY <1>2, <1>4, <1>6, <2>1
<1>7. CASE IncludeLine
  <2> DEFINE f == Top.file
             g == Line.file
             e == [file |-> g, line |-> 1]
  <2>1. /\ phase = "lex" /\ f \in Files /\ g \in Files
        /\ ci'.includees = [ci.includees EXCEPT ![f] = @ \cup {g}]
        /\ stack' = <<>> \/ IncludeHit(f, g) \/ IncludeMiss(f, g)
    BY <1>1, <1>7, IncludeCases
  <2>2. /\ \A h \in Files : ci.includees[h] \subseteq ci'.includees[h]
        /\ g \in ci'.includees[f]
    BY <1>1, <2>1, CacheFields
  <2>3. CASE IncludeMiss(f, g)
    <3>1. stack' = Append(stack, e) /\ e \in Frames /\ e.file = g
      BY <2>1, <2>3 DEF IncludeMiss, Frames
    <3>2. /\ Len(stack') = Len(stack) + 1
          /\ \A i \in 1 .. Len(stack) : stack'[i] = stack[i]
          /\ stack'[Len(stack) + 1] = e
      BY <1>2, <3>1, AppendProperties
    <3>3. ASSUME NEW i \in 1 .. Len(stack') - 1
          PROVE  stack'[i + 1].file \in ci'.includees[stack'[i].file]
      <4>1. i \in 1 .. Len(stack) /\ stack'[i] = stack[i]
        BY <1>2, <3>2, <3>3
      <4>2. CASE i = Len(stack)
        BY <2>2, <3>1, <3>2, <4>1, <4>2 DEF Top
      <4>3. CASE i # Len(stack)
        <5>1. i \in 1 .. Len(stack) - 1 /\ i + 1 \in 1 .. Len(stack)
          <6>1. Len(stack) \in Nat /\ i \in 1 .. Len(stack) /\ i # Len(stack)
            BY <1>2, <4>1, <4>3
          <6> HIDE DEF e
          <6> QED
            BY <6>1
        <5>2. stack[i + 1].file \in ci.includees[stack[i].file]
          BY <5>1 DEF ChainInv
        <5> QED
          BY <1>3, <2>2, <3>2, <4>1, <5>1, <5>2
      <4> QED
        BY <4>2, <4>3
    <3> QED
      BY <3>3 DEF ChainInv
  <2> QED
    BY <1>5, <1>6, <2>1, <2>2, <2>3 DEF IncludeHit
<1>8. CASE GuardedLine \/ MacroLine \/ UseLine
  <2>1. phase = "lex" /\ NextLine
    BY <1>8 DEF GuardedLine, MacroLine, UseLine
  <2>2. CASE GuardedLine
    <3>1. Top.file \in Files
      BY <1>1, <2>1, StackLength
    <3>2. ci'.includees = [ci.includees EXCEPT ![Top.file] =
             IF Top.file \in Headers THEN @ \cup {Line.file} ELSE @]
      BY <1>1, <2>2 DEF GuardedLine, Caches
    <3>3. \A f \in Files : ci.includees[f] \subseteq ci'.includees[f]
      BY <1>1, <3>1, <3>2, CacheFields
    <3> QED
      BY <1>6, <2>1, <3>3
  <2>3. CASE MacroLine \/ UseLine
    <3>1. ci'.includees = ci.includees
      BY <1>1, <2>3 DEF MacroLine, UseLine, Caches
    <3> QED
      BY <1>6, <2>1, <3>1
  <2> QED
    BY <1>8, <2>2, <2>3
<1>9. CASE EndOfFile
  <2>1. CASE Len(stack) = 1
    BY <1>5, <1>9, <2>1 DEF EndOfFile
  <2>2. CASE Len(stack) # 1
    <3> DEFINE n == Len(stack) - 1
    <3>1. /\ stack' = [SubSeq(stack, 1, n) EXCEPT ![n].line = @ + 1]
          /\ ci'.includees = ci.includees /\ phase = "lex"
      BY <1>1, <1>9, <2>2 DEF EndOfFile, Caches
    <3>2. /\ stack' \in Seq(Frames) /\ Len(stack') = n
          /\ \A i \in 1 .. n : stack'[i].file = stack[i].file
      BY <1>1, <2>2, <3>1, Popped
    <3>3. Len(stack') <= Len(stack)
      BY <1>2, <3>2
    <3> QED
      BY <1>4, <3>1, <3>2, <3>3
  <2> QED
    BY <2>1, <2>2
<1>10. CASE EnterMainFile
  <2>1. CASE Unusable(cmd.main)
    BY <1>5, <1>10, <2>1 DEF EnterMainFile, Fail
  <2>2. CASE ~Unusable(cmd.main)
    <3>1. stack' = <<[file |-> cmd.main, line |-> 1]>>
      BY <1>10, <2>2 DEF EnterMainFile
    <3>2. Len(stack') = 1
      BY <3>1
    <3> QED
      BY <3>2 DEF ChainInv
  <2> QED
    BY <2>1, <2>2
<1>11. CASE \/ \E m \in Mains, a \in Args : Command(m, a)
            \/ ResetRequest \/ Restart \/ Unload \/ Succeed \/ Retry \/ GiveUp
  <2>1. stack = <<>> /\ stack' = stack
    BY <1>1, <1>11 DEF Command, ResetRequest, Restart, Unload, Succeed, Retry, GiveUp, LexInv
  <2> QED
    BY <1>5, <2>1
<1>12. CASE Age \/ (\E f \in Editable : Edit(f)) \/ UNCHANGED vars
  <2>1. ci' = ci /\ stack' = stack
    BY <1>12 DEF Age, Edit, vars
  <2> QED
    BY <1>2, <1>4, <2>1
<1> QED
  BY <1>7, <1>8, <1>9, <1>10, <1>11, <1>12 DEF Next, ServerStep

-----------------------------------------------------------------------------
(* live covers the disk and the cache. *)

LEMMA UnloadLive ==
  ASSUME FewFiles, TypeOK, LexInv, Unload
  PROVE  LiveInv'
<1>1. PICK S \in Newest(ci), gone \in SUBSET Files :
        /\ aged => \A f \in S : WasModified(ci, f) => f \in gone
        /\ \A f \in Files : ci'.stat[f] = IF f \in gone THEN Missing ELSE ci.stat[f]
  BY UnloadCases
<1>2. S = Loaded(ci)
  BY NewestIsAll DEF TypeOK
<1>3. /\ phase' = "enter" /\ disk' = disk /\ checked' = (aged \/ ci = Empty)
      /\ \A f \in Files : live'[f] = {disk[f]}
  BY DEF Unload
<1>4. ASSUME checked', NEW f \in Loaded(ci)'
      PROVE  ci'.stat[f] \in live'[f] \/ Missing \in live'[f]
  <2>1. f \in Files /\ f \notin gone /\ f \in Loaded(ci) /\ ci'.stat[f] = ci.stat[f]
    BY <1>1, <1>4 DEF Loaded
  <2>2. ci # Empty
    BY <2>1 DEF Empty, Loaded
  <2>3. ~WasModified(ci, f)
    BY <1>1, <1>2, <1>3, <1>4, <2>1, <2>2
  <2> QED
    BY <1>3, <2>1, <2>3 DEF WasModified
<1> QED
  BY <1>3, <1>4 DEF LiveInv

\* A file that is read now is the file as it is on the disk.
LEMMA ReadLive ==
  ASSUME TypeOK, LiveInv, phase \in {"enter", "lex"}, NEW g \in Files,
         ci'.stat = [ci.stat EXCEPT ![g] = disk[g]],
         disk' = disk, live' = live, checked' = checked
  PROVE  LiveInv'
<1>1. \A f \in Files : ci'.stat[f] = IF f = g THEN disk[g] ELSE ci.stat[f]
  BY CacheFields DEF TypeOK
<1>2. \A f \in Loaded(ci)' : f \in Files /\ (f = g \/ f \in Loaded(ci))
  BY <1>1 DEF Loaded
<1> QED
  BY <1>1, <1>2 DEF LiveInv

LEMMA SameLive ==
  ASSUME LiveInv, ci'.stat = ci.stat, disk' = disk, live' = live, checked' = checked,
         phase' \in {"enter", "lex", "done"} => phase \in {"enter", "lex", "done"}
  PROVE  LiveInv'
<1>1. Loaded(ci)' = Loaded(ci)
  BY DEF Loaded
<1> QED
  BY <1>1 DEF LiveInv

LEMMA LiveNext ==
  ASSUME FewFiles, IInv, LiveInv, [Next]_vars
  PROVE  LiveInv'
<1>1. TypeOK /\ LexInv /\ ci \in Caches
  BY DEF IInv, TypeOK, StackInv, LexInv
<1>2. CASE Unload
  BY <1>1, <1>2, UnloadLive
<1>3. CASE EnterMainFile
  <2>1. cmd.main \in Files
    BY <1>1 DEF TypeOK, Files
  <2>2. phase = "enter" /\ disk' = disk /\ live' = live /\ checked' = checked
    BY <1>3 DEF EnterMainFile
  <2>3. CASE Unusable(cmd.main)
    <3>1. phase' = "failed"
      BY <1>3, <2>3 DEF EnterMainFile, Fail
    <3> QED
      BY <3>1 DEF LiveInv
  <2>4. CASE ~Unusable(cmd.main)
    <3>1. ci'.stat = [ci.stat EXCEPT ![cmd.main] = disk[cmd.main]]
      BY <1>1, <1>3, <2>4 DEF EnterMainFile, Load, Caches
    <3> QED
      BY <1>1, <2>1, <2>2, <3>1, ReadLive
  <2> QED
    BY <2>3, <2>4
<1>4. CASE IncludeLine
  <2>1. phase = "lex" /\ disk' = disk /\ live' = live /\ checked' = checked
    BY <1>4 DEF IncludeLine
  <2>2. /\ Line.file \in Files
        /\ phase' = "failed" \/ IncludeHit(Top.file, Line.file)
                             \/ IncludeMiss(Top.file, Line.file)
    BY <1>1, <1>4, IncludeCases
  <2>3. CASE phase' = "failed"
    BY <2>3 DEF LiveInv
  <2>4. CASE IncludeHit(Top.file, Line.file)
    BY <2>1, <2>4, SameLive DEF IncludeHit
  <2>5. CASE IncludeMiss(Top.file, Line.file)
    BY <1>1, <2>1, <2>2, <2>5, ReadLive DEF IncludeMiss
  <2> QED
    BY <2>2, <2>3, <2>4, <2>5
<1>5. CASE GuardedLine \/ MacroLine \/ UseLine \/ EndOfFile
  <2>1. ci'.stat = ci.stat /\ phase = "lex"
    BY <1>1, <1>5 DEF GuardedLine, MacroLine, UseLine, EndOfFile, Caches
  <2>2. disk' = disk /\ live' = live /\ checked' = checked
    BY <1>5 DEF GuardedLine, MacroLine, UseLine, EndOfFile, history
  <2> QED
    BY <2>1, <2>2, SameLive
<1>6. CASE \/ \E m \in Mains, a \in Args : Command(m, a)
           \/ ResetRequest \/ Restart \/ Succeed \/ Retry \/ GiveUp
  <2>1. phase' \notin {"enter", "lex", "done"}
    BY <1>6 DEF Command, ResetRequest, Restart, Succeed, Retry, GiveUp
  <2> QED
    BY <2>1 DEF LiveInv
<1>7. CASE Age \/ UNCHANGED vars
  <2>1. /\ ci' = ci /\ disk' = disk /\ live' = live /\ checked' = checked
        /\ phase' = phase
    BY <1>7 DEF Age, vars, history
  <2> QED
    BY <2>1, SameLive
<1>8. ASSUME NEW f \in Editable, Edit(f) PROVE LiveInv'
  <2>1. f \in Files /\ ci' = ci /\ phase' = phase /\ checked' = checked
    BY <1>8, ConstantsAssumption DEF Edit
  <2>2. CASE phase \in {"enter", "lex", "done"}
    <3>1. live' = [live EXCEPT ![f] = @ \cup {disk'[f]}]
      BY <1>8, <2>2 DEF Edit
    <3>2. /\ \A g \in Files : live[g] \subseteq live'[g]
          /\ \A g \in Files : disk'[g] = disk[g] \/ (g = f /\ disk'[f] \in live'[f])
      BY <1>1, <1>8, <2>1, <3>1 DEF Edit, TypeOK
    <3>3. Loaded(ci)' = Loaded(ci) /\ Loaded(ci) \subseteq Files
      BY <2>1 DEF Loaded
    <3> QED
      BY <2>1, <2>2, <3>2, <3>3 DEF LiveInv
  <2>3. CASE phase \notin {"enter", "lex", "done"}
    BY <2>1, <2>3 DEF LiveInv
  <2> QED
    BY <2>2, <2>3
<1> QED
  BY <1>2, <1>3, <1>4, <1>5, <1>6, <1>7, <1>8 DEF Next, ServerStep

-----------------------------------------------------------------------------
LEMMA FactsNext ==
  ASSUME UnguardedHeaders, IInv, ChainInv,
         phase \notin {"failed", "exit"} => FactsInv, [Next]_vars
  PROVE  phase' \notin {"failed", "exit"} => FactsInv'
<1> SUFFICES ASSUME phase' \notin {"failed", "exit"}
             PROVE  FactsInv'
  OBVIOUS
<1>1. CASE Unload
  BY <1>1, UnloadFacts DEF Unload
<1>2. CASE EnterMainFile
  <2>1. ~Unusable(cmd.main)
    BY <1>2 DEF EnterMainFile, Fail
  <2> QED
    BY <1>2, <2>1, EnterFacts DEF EnterMainFile
<1>3. CASE IncludeLine
  <2>1. TypeOK /\ LexInv
    BY DEF IInv, StackInv, LexInv
  <2>2. phase = "lex" /\ phase' = "lex"
    BY <1>3, <2>1, IncludeCases
  <2> QED
    BY <1>3, <2>2, IncludeFacts
<1>4. CASE GuardedLine \/ MacroLine \/ UseLine \/ EndOfFile
  <2>1. phase = "lex"
    BY <1>4 DEF GuardedLine, MacroLine, UseLine, EndOfFile
  <2> QED
    BY <1>4, <2>1, LexFacts
<1>5. CASE \/ \E m \in Mains, a \in Args : Command(m, a)
           \/ ResetRequest \/ Restart \/ Succeed \/ Retry \/ GiveUp \/ Age
           \/ \E f \in Editable : Edit(f)
           \/ UNCHANGED vars
  <2>1. ci' = Empty \/ (ci' = ci /\ phase \notin {"failed", "exit"})
    BY <1>5 DEF Command, ResetRequest, Restart, Succeed, Retry, GiveUp, Age, Edit, vars
  <2> QED
    BY <2>1, SameFacts, NoFacts
<1> QED
  BY <1>1, <1>2, <1>3, <1>4, <1>5 DEF Next, ServerStep

\* A compilation that looks for modified files uses no text that had been replaced
\* when it looked, whatever was compiled and edited before, for any project whose
\* headers include others plainly and whose files findModifiedFiles looks at all.
THEOREM ChangesAreCaught ==
  ASSUME UnguardedHeaders, FewFiles
  PROVE  Spec => []ChangesCaught
<1> DEFINE J == IInv /\ ChangesInv
<1>1. Init => ChangesInv
  <2> SUFFICES ASSUME Init PROVE ChangesInv
    OBVIOUS
  <2>1. Len(stack) = 0
    BY DEF Init
  <2> QED
    BY <2>1 DEF Init, Empty, ChangesInv, FactsInv, ChainInv, LiveInv
<1>2. IInv /\ ChangesInv /\ [Next]_vars => ChangesInv'
  BY FactsNext, ChainNext, LiveNext DEF ChangesInv
<1>3. IInv /\ ChangesInv => ChangesCaught
  <2> SUFFICES ASSUME IInv, ChangesInv, phase = "done", checked, NEW x \in Result
               PROVE  x.time \in live[x.file] \/ Missing \in live[x.file]
    BY DEF ChangesCaught
  <2>1. cmd.main \in Files
    BY DEF IInv, TypeOK, Files
  <2>2. x.file \in Loaded(ci) /\ x.time = ci.stat[x.file]
    BY <2>1 DEF ChangesInv, FactsInv, Result
  <2> QED
    BY <2>2 DEF ChangesInv, LiveInv
<1> QED
  BY <1>1, <1>2, <1>3, Inductive, PTL DEF Spec
=============================================================================
