------------------------- MODULE ServerCache_proofs -------------------------
(***************************************************************************)
(* Proofs about the header cache, for any project, any number of files and *)
(* versions, and any edits.                                                *)
(***************************************************************************)
EXTENDS ServerCache, TLAPS, SequenceTheorems

-----------------------------------------------------------------------------
(* What the operations on a cache return. *)

LEMMA EmptyType == Empty \in Caches
BY ConstantsAssumption DEF Empty, Caches, State, Unread, Undefined

LEMMA ErasedType ==
  ASSUME NEW c \in Caches, NEW gone \in SUBSET Files
  PROVE  Erased(c, gone) \in Caches
BY ConstantsAssumption DEF Erased, Caches, State, Unread, Undefined

LEMMA UpdatedType ==
  ASSUME NEW c \in Caches
  PROVE  Updated(c) \in Caches
BY DEF Updated, Caches, IncludedBy, MainOf, NewFiles

LEMMA NotedType ==
  ASSUME NEW c \in Caches, NEW f \in Files, NEW g \in Headers
  PROVE  Noted(c, f, g) \in Caches
<1>1. g \in Files
  BY DEF Files
<1>2. c.newFEs \cup {<<g, f>>} \in SUBSET (Files \X Files)
  <2>1. c.newFEs \subseteq Files \X Files
    BY DEF Caches
  <2>2. <<g, f>> \in Files \X Files
    BY <1>1
  <2> QED
    BY <2>1, <2>2
<1>3. [c.includees EXCEPT ![f] = @ \cup {g}] \in [Files -> SUBSET Headers]
  <2>1. c.includees \in [Files -> SUBSET Headers]
    BY DEF Caches
  <2> QED
    BY <2>1
<1> QED
  BY <1>2, <1>3 DEF Noted, Caches

LEMMA LoadType ==
  ASSUME TypeOK, NEW c \in Caches, NEW f \in Files
  PROVE  Load(c, f) \in Caches
<1>1. OwnFact(f) \in Fact
  BY DEF TypeOK, OwnFact, Fact, State, Unread
<1>2. disk[f] \in Times
  BY DEF TypeOK
<1> QED
  BY <1>1, <1>2 DEF Load, Caches

-----------------------------------------------------------------------------
(* Reach is what its comment says: it holds S, it is closed under Next, and   *)
(* any set that has both properties contains it.                             *)

LEMMA ReachIsLeast ==
  ASSUME NEW S \in SUBSET Files, NEW N \in [Files -> SUBSET Files], NEW Stop
  PROVE  /\ Reach(S, N, Stop) \in SUBSET Files
         /\ S \ Stop \subseteq Reach(S, N, Stop)
         /\ ClosedUnder(Reach(S, N, Stop), N, Stop)
         /\ \A T \in SUBSET Files :
              S \ Stop \subseteq T /\ ClosedUnder(T, N, Stop) =>
                Reach(S, N, Stop) \subseteq T
<1> DEFINE R == Reach(S, N, Stop)
           all == S \cup UNION {N[f] : f \in Files}
<1>1. all \in SUBSET Files /\ \A f \in Files : N[f] \subseteq all
  OBVIOUS
<1>2. R = {f \in all : \A T \in SUBSET all :
                          S \ Stop \subseteq T /\ ClosedUnder(T, N, Stop) => f \in T}
  BY DEF Reach
<1> HIDE DEF R
<1>3. R \in SUBSET Files /\ S \ Stop \subseteq R
  BY <1>1, <1>2
<1>4. ASSUME NEW f \in R, NEW g \in N[f] \ Stop
      PROVE  g \in R
  <2>1. g \in all
    BY <1>1, <1>3
  <2>2. ASSUME NEW T \in SUBSET all, S \ Stop \subseteq T, ClosedUnder(T, N, Stop)
        PROVE  g \in T
    <3>1. f \in T
      BY <2>2, <1>2
    <3> QED
      BY <2>2, <3>1 DEF ClosedUnder
  <2> QED
    BY <2>1, <2>2, <1>2
<1>5. ClosedUnder(R, N, Stop)
  BY <1>4 DEF ClosedUnder
<1>6. ASSUME NEW T \in SUBSET Files, S \ Stop \subseteq T, ClosedUnder(T, N, Stop)
      PROVE  R \subseteq T
  \* What T has outside all is not needed.
  <2> DEFINE U == T \cap all
  <2>1. S \ Stop \subseteq U
    BY <1>6
  <2>2. ClosedUnder(U, N, Stop)
    BY <1>1, <1>6 DEF ClosedUnder
  <2> QED
    BY <1>2, <2>1, <2>2
<1> QED
  BY <1>3, <1>5, <1>6 DEF R

-----------------------------------------------------------------------------
(* The include stack. *)

Frames == [file : Files, line : Nat \ {0}]
LexInv == phase = "lex" <=> stack # <<>>

LEMMA StackLength ==
  ASSUME TypeOK, LexInv, phase = "lex"
  PROVE  /\ Len(stack) \in Nat /\ Len(stack) >= 1
         /\ Top \in Frames /\ Top.file \in Files /\ Top.line \in Nat \ {0}
<1>1. stack \in Seq(Frames)
  BY DEF TypeOK, Frames
<1>2. Len(stack) \in Nat \ {0}
  BY <1>1, EmptySeq DEF LexInv
<1>3. Top \in Frames
  BY <1>1, <1>2, ElementOfSeq DEF Top
<1> QED
  BY <1>2, <1>3 DEF Frames

LEMMA LineType ==
  ASSUME TypeOK, LexInv, phase = "lex", Top.line \in DOMAIN Lines[Top.file]
  PROVE  /\ Line.op \in Ops /\ Line.file \in Headers /\ Line.file \in Files
         /\ Line.macro \in Macros
         /\ \E i \in DOMAIN Lines[Top.file] : Line = Lines[Top.file][i]
<1>1. Lines[Top.file] \in Seq([op : Ops, file : Headers, macro : Macros])
  BY StackLength, ConstantsAssumption
<1>2. Line \in [op : Ops, file : Headers, macro : Macros]
  BY <1>1, ElementOfSeq, LenProperties DEF Line
<1> QED
  BY <1>2 DEF Line, Files

\* The next line of one file: nothing else of the stack changes.
LEMMA Advance ==
  ASSUME NEW s \in Seq(Frames), NEW n \in 1 .. Len(s)
  PROVE  LET t == [s EXCEPT ![n].line = @ + 1]
         IN  /\ t \in Seq(Frames) /\ t # <<>> /\ Len(t) = Len(s)
             /\ \A i \in 1 .. Len(s) : t[i].file = s[i].file
<1> DEFINE e == [s[n] EXCEPT !.line = @ + 1]
           t == [s EXCEPT ![n] = e]
<1>1. s[n] \in Frames
  BY ElementOfSeq
<1>2. e \in Frames /\ e.file = s[n].file
  BY <1>1 DEF Frames
<1>3. /\ t \in Seq(Frames) /\ Len(t) = Len(s)
      /\ \A i \in 1 .. Len(s) : t[i] = IF i = n THEN e ELSE s[i]
  BY <1>2, ExceptSeq
<1>4. t # <<>>
  <2>1. Len(s) \in Nat /\ Len(s) >= 1
    BY LenProperties
  <2> QED
    BY <1>3, <2>1, EmptySeq
<1>5. [s EXCEPT ![n].line = @ + 1] = t
  OBVIOUS
<1> QED
  BY <1>2, <1>3, <1>4, <1>5

\* What is left of the stack when its last file ends.
LEMMA Popped ==
  ASSUME TypeOK, LexInv, phase = "lex", Len(stack) # 1
  PROVE  LET n == Len(stack) - 1
             t == [SubSeq(stack, 1, n) EXCEPT ![n].line = @ + 1]
         IN  /\ n \in 1 .. Len(stack)
             /\ t \in Seq(Frames) /\ t # <<>> /\ Len(t) = n
             /\ \A i \in 1 .. n : t[i].file = stack[i].file
<1> DEFINE n == Len(stack) - 1
           u == SubSeq(stack, 1, n)
<1>1. Len(stack) \in Nat /\ Len(stack) >= 2
  <2>1. Len(stack) \in Nat /\ Len(stack) >= 1
    BY StackLength
  <2>2. \A k \in Nat : k >= 1 /\ k # 1 => k >= 2
    OBVIOUS
  <2> QED
    BY <2>1, <2>2
<1>2. n \in Nat /\ n >= 1 /\ \A i \in 1 .. n : stack[i] \in Frames
  <2>1. stack \in Seq(Frames)
    BY DEF TypeOK, Frames
  <2>2. \A i \in 1 .. Len(stack) : stack[i] \in Frames
    BY <2>1, ElementOfSeq
  <2> QED
    BY <1>1, <2>2
<1>3. /\ u \in Seq(Frames) /\ Len(u) = n
      /\ \A i \in 1 .. n : u[i] = stack[i]
  <2>1. /\ u \in Seq(Frames) /\ Len(u) = (IF 1 <= n THEN n - 1 + 1 ELSE 0)
        /\ \A i \in 1 .. n - 1 + 1 : u[i] = stack[1 + i - 1]
    BY <1>2, SubSeqProperties
  <2> QED
    BY <1>2, <2>1
<1>4. n \in 1 .. Len(u)
  BY <1>2, <1>3
<1>5. LET t == [u EXCEPT ![n].line = @ + 1]
      IN  /\ t \in Seq(Frames) /\ t # <<>> /\ Len(t) = Len(u)
          /\ \A i \in 1 .. Len(u) : t[i].file = u[i].file
  BY <1>3, <1>4, Advance
<1> QED
  BY <1>1, <1>2, <1>3, <1>5

-----------------------------------------------------------------------------
(* Type correctness. *)

LEMMA CacheFields ==
  ASSUME NEW c \in Caches
  PROVE  /\ c.stat \in [Files -> Times] /\ c.facts \in [Files -> SUBSET Fact]
         /\ c.includees \in [Files -> SUBSET Headers]
         /\ c.includees \in [Files -> SUBSET Files]
         /\ c.values \in [Files -> [Macros -> State]] /\ c.newFEs \subseteq Files \X Files
         /\ c.dependees \in [Files -> SUBSET Files]
         /\ c.dependents \in [Files -> SUBSET Files]
         /\ c.included \subseteq Files /\ c.macro \in [Macros -> State]
         /\ c.defined \subseteq Macros
<1>1. Headers \subseteq Files
  BY DEF Files
<1> QED
  BY <1>1 DEF Caches

LEMMA IncludedType ==
  ASSUME NEW c \in Caches, NEW S \in SUBSET Files
  PROVE  [c EXCEPT !.included = @ \cup S] \in Caches
BY DEF Caches

LEMMA FactsType ==
  ASSUME NEW c \in Caches, NEW f \in Files, NEW S \in SUBSET Fact
  PROVE  [c EXCEPT !.facts[f] = @ \cup S] \in Caches
BY DEF Caches

LEMMA NewlyIncludedType ==
  ASSUME TypeOK, NEW g \in Files
  PROVE  /\ NewlyIncluded(g) \in SUBSET Files
         /\ g \notin ci.included => g \in NewlyIncluded(g)
<1>1. ci.includees \in [Files -> SUBSET Files]
  BY CacheFields DEF TypeOK
<1> QED
  BY <1>1, ReachIsLeast DEF NewlyIncluded

LEMMA FailType ==
  ASSUME TypeOK, NEW why \in {"macro", "text"}, Fail(why)
  PROVE  /\ phase' \in Phases /\ cause' \in {"none", "macro", "text"}
         /\ stack' \in Seq(Frames) /\ LexInv'
BY EmptySeq DEF TypeOK, Fail, Phases, LexInv

LEMMA CommandType ==
  ASSUME TypeOK, LexInv, NEW m \in Mains, NEW a \in Args, Command(m, a)
  PROVE  TypeOK' /\ LexInv'
<1>1. ci' \in Caches
  BY EmptyType DEF Command, TypeOK
<1> QED
  BY <1>1 DEF Command, TypeOK, LexInv, Phases, history

LEMMA UnloadType ==
  ASSUME TypeOK, LexInv, Unload
  PROVE  TypeOK' /\ LexInv'
<1>1. PICK S \in Newest(ci) :
        LET modified == IF aged THEN {f \in S : WasModified(ci, f)} ELSE {}
            c        == Updated(ci)
            gone     == Reach(modified \cup UserFiles(ci), c.dependents, {})
        IN  ci' = Erased(c, gone)
  BY DEF Unload
<1> DEFINE modified == IF aged THEN {f \in S : WasModified(ci, f)} ELSE {}
           gone     == Reach(modified \cup UserFiles(ci), Updated(ci).dependents, {})
<1>2. Updated(ci) \in Caches
  BY UpdatedType DEF TypeOK
<1>3. gone \in SUBSET Files
  <2>1. modified \cup UserFiles(ci) \in SUBSET Files
    <3>1. modified \in SUBSET Files
      BY DEF Newest, Loaded
    <3>2. UserFiles(ci) \in SUBSET Files
      BY ConstantsAssumption DEF UserFiles, MainOf, NewFiles, Files
    <3> QED
      BY <3>1, <3>2
  <2>2. Updated(ci).dependents \in [Files -> SUBSET Files]
    BY <1>2, CacheFields
  <2> DEFINE from == modified \cup UserFiles(ci)
             deps == Updated(ci).dependents
  <2>3. from \in SUBSET Files /\ deps \in [Files -> SUBSET Files]
    BY <2>1, <2>2
  <2> HIDE DEF from, deps
  <2>4. /\ Reach(from, deps, {}) \in SUBSET Files
        /\ from \ {} \subseteq Reach(from, deps, {})
        /\ ClosedUnder(Reach(from, deps, {}), deps, {})
    BY <2>3, ReachIsLeast
  <2> QED
    BY <2>4 DEF from, deps
<1>4. Erased(Updated(ci), gone) \in Caches
  BY <1>2, <1>3, ErasedType
<1>5. ci' \in Caches
  BY <1>1, <1>4
<1>6. live' \in [Files -> SUBSET Times] /\ checked' \in BOOLEAN
  BY DEF Unload, TypeOK
<1> QED
  BY <1>5, <1>6 DEF Unload, TypeOK, LexInv, Phases

LEMMA EnterMainFileType ==
  ASSUME TypeOK, LexInv, EnterMainFile
  PROVE  TypeOK' /\ LexInv'
<1> DEFINE m == cmd.main
<1>1. m \in Files /\ cmd \in [main : Mains, args : Args]
  BY DEF TypeOK, Files
<1>2. ASSUME NEW c \in Caches
      PROVE  [c EXCEPT !.included = {m}, !.newFEs = {<<m, m>>}] \in Caches
  <2>1. {<<m, m>>} \in SUBSET (Files \X Files)
    BY <1>1
  <2> QED
    BY <1>1, <1>2, <2>1 DEF Caches
<1>3. ci' \in Caches
  <2>1. Load(ci, m) \in Caches /\ ci \in Caches
    BY <1>1, LoadType DEF TypeOK
  <2> QED
    BY <2>1, <1>2 DEF EnterMainFile
<1>4. at' \in [Files -> SUBSET Macros]
  BY DEF EnterMainFile
<1>5. CASE Unusable(m)
  <2>1. Fail("text")
    BY <1>5 DEF EnterMainFile
  <2>2. stack' = <<>>
    BY <2>1 DEF Fail
  <2>3. /\ phase' \in Phases /\ cause' \in {"none", "macro", "text"}
        /\ stack' \in Seq(Frames) /\ LexInv'
    BY <2>1, FailType
  <2> QED
    BY <1>3, <1>4, <2>3 DEF EnterMainFile, TypeOK, Frames
<1>6. CASE ~Unusable(m)
  <2>1. /\ stack' = <<[file |-> m, line |-> 1]>> /\ phase' = "lex"
        /\ UNCHANGED cause
    BY <1>6 DEF EnterMainFile
  <2>2. stack' \in Seq(Frames) /\ stack' # <<>>
    BY <1>1, <2>1 DEF Frames
  <2> QED
    BY <1>3, <1>4, <2>1, <2>2 DEF EnterMainFile, TypeOK, LexInv, Phases, Frames
<1> QED
  BY <1>5, <1>6

LEMMA NextLineType ==
  ASSUME TypeOK, LexInv, phase = "lex", NextLine
  PROVE  stack' \in Seq(Frames) /\ stack' # <<>>
<1>1. stack \in Seq(Frames) /\ Len(stack) \in 1 .. Len(stack)
  BY StackLength DEF TypeOK, Frames
<1> QED
  BY <1>1, Advance DEF NextLine

LEMMA IncludeType ==
  ASSUME TypeOK, LexInv, phase = "lex", NEW f \in Files, NEW g \in Headers,
         Include(f, g)
  PROVE  /\ ci' \in Caches /\ at' \in [Files -> SUBSET Macros]
         /\ phase' \in Phases /\ cause' \in {"none", "macro", "text"}
         /\ stack' \in Seq(Frames) /\ LexInv'
<1> DEFINE c == [Noted(ci, f, g) EXCEPT !.included = @ \cup NewlyIncluded(g)]
<1>1. g \in Files /\ ci \in Caches /\ stack \in Seq(Frames)
  BY DEF Files, TypeOK, Frames
<1>2. c \in Caches
  <2>1. Noted(ci, f, g) \in Caches
    BY <1>1, NotedType
  <2>2. NewlyIncluded(g) \in SUBSET Files
    BY <1>1, NewlyIncludedType
  <2> QED
    BY <2>1, <2>2, IncludedType
<1>3. [c EXCEPT !.facts[f] = @ \cup ci.facts[g]] \in Caches
  <2>1. ci.facts[g] \in SUBSET Fact
    BY <1>1, CacheFields
  <2> QED
    BY <1>2, <2>1, FactsType
<1>4. Load(c, g) \in Caches
  BY <1>1, <1>2, LoadType
<1>5. at' \in [Files -> SUBSET Macros]
  <2>1. ci.defined \in SUBSET Macros
    BY <1>1, CacheFields
  <2> QED
    BY <2>1 DEF Include, TypeOK
<1>6. ci' \in Caches
  BY <1>2, <1>3, <1>4 DEF Include
<1>7. /\ phase' \in Phases /\ cause' \in {"none", "macro", "text"}
      /\ stack' \in Seq(Frames) /\ LexInv'
  <2>1. CASE Fail("macro") \/ Fail("text")
    BY <2>1, FailType
  <2>2. CASE NextLine /\ UNCHANGED <<phase, cause>>
    BY <2>2, NextLineType DEF TypeOK, LexInv
  <2>3. CASE /\ stack' = Append(stack, [file |-> g, line |-> 1])
             /\ UNCHANGED <<phase, cause>>
    <3>1. [file |-> g, line |-> 1] \in Frames
      BY <1>1 DEF Frames
    <3>2. stack' \in Seq(Frames) /\ stack' # <<>>
      BY <1>1, <2>3, <3>1, AppendProperties
    <3> QED
      BY <2>3, <3>2 DEF TypeOK, LexInv
  <2> QED
    BY <2>1, <2>2, <2>3 DEF Include
<1> QED
  BY <1>5, <1>6, <1>7

LEMMA IncludeLineType ==
  ASSUME TypeOK, LexInv, IncludeLine
  PROVE  TypeOK' /\ LexInv'
<1>1. /\ phase = "lex" /\ Include(Top.file, Line.file)
      /\ Top.file \in Files /\ Line.file \in Headers
  BY StackLength, LineType DEF IncludeLine
<1>2. /\ ci' \in Caches /\ at' \in [Files -> SUBSET Macros]
      /\ phase' \in Phases /\ cause' \in {"none", "macro", "text"}
      /\ stack' \in Seq(Frames) /\ LexInv'
  BY <1>1, IncludeType
<1> QED
  BY <1>2 DEF IncludeLine, TypeOK, Frames

LEMMA GuardedLineType ==
  ASSUME TypeOK, LexInv, GuardedLine
  PROVE  TypeOK' /\ LexInv'
<1> DEFINE f == Top.file
           g == Line.file
<1>1. /\ phase = "lex" /\ f \in Files /\ g \in Headers /\ g \in Files
  BY StackLength, LineType DEF GuardedLine
<1>2. ci \in Caches
  BY DEF TypeOK
<1>3. ASSUME NEW I \in SUBSET Headers, NEW S \in SUBSET Fact
      PROVE  [ci EXCEPT !.includees[f] = I, !.facts[f] = S] \in Caches
  BY <1>1, <1>2, <1>3 DEF Caches
<1>4. /\ (IF f \in Headers THEN ci.includees[f] \cup {g} ELSE ci.includees[f])
            \in SUBSET Headers
      /\ ci.facts[f] \cup ci.facts[g] \in SUBSET Fact
  <2>1. ci.includees[f] \in SUBSET Headers
    BY <1>1, <1>2, CacheFields
  <2>2. ci.facts[f] \in SUBSET Fact /\ ci.facts[g] \in SUBSET Fact
    BY <1>1, <1>2, CacheFields
  <2> QED
    BY <1>1, <2>1, <2>2
<1>5. ci' = [ci EXCEPT
        !.includees[f] = IF f \in Headers THEN ci.includees[f] \cup {g} ELSE ci.includees[f],
        !.facts[f] = ci.facts[f] \cup ci.facts[g]]
  BY DEF GuardedLine
<1>6. ci' \in Caches
  BY <1>3, <1>4, <1>5
<1>7. stack' \in Seq(Frames) /\ stack' # <<>>
  BY <1>1, NextLineType DEF GuardedLine
<1> QED
  BY <1>6, <1>7 DEF GuardedLine, TypeOK, LexInv, history, Frames

LEMMA MacroLineType ==
  ASSUME TypeOK, LexInv, MacroLine
  PROVE  TypeOK' /\ LexInv'
<1>1. ci' \in Caches
  <2>1. ci \in Caches /\ ci.defined \subseteq Macros /\ ci.macro \in [Macros -> State]
    BY CacheFields DEF TypeOK
  <2>2. Line.macro \in Macros
    BY LineType DEF MacroLine
  <2>3. ASSUME NEW D \in SUBSET Macros, NEW v \in State
        PROVE  [ci EXCEPT !.defined = D, !.macro[Line.macro] = v] \in Caches
    BY <2>1, <2>2, <2>3 DEF Caches
  <2>4. "defined" \in State /\ ci.macro[Line.macro] \in State
    BY <2>1, <2>2 DEF State
  <2>5. CASE ci' = [ci EXCEPT !.defined = @ \cup {Line.macro},
                              !.macro[Line.macro] = "defined"]
    <3>1. ci.defined \cup {Line.macro} \in SUBSET Macros
      BY <2>1, <2>2
    <3> QED
      BY <2>3, <2>4, <2>5, <3>1
  <2>6. CASE ci' = [ci EXCEPT !.defined = @ \ {Line.macro},
                              !.macro[Line.macro] =
                                 IF Line.macro \in ci.defined THEN "defined" ELSE @]
    <3> DEFINE v == IF Line.macro \in ci.defined THEN "defined" ELSE ci.macro[Line.macro]
    <3>1. ci.defined \ {Line.macro} \in SUBSET Macros
      BY <2>1
    <3>2. v \in State
      BY <2>4
    <3>3. ci' = [ci EXCEPT !.defined = ci.defined \ {Line.macro}, !.macro[Line.macro] = v]
      BY <2>6
    <3> HIDE DEF v
    <3> QED
      BY <2>3, <3>1, <3>2, <3>3
  <2> QED
    BY <2>5, <2>6 DEF MacroLine
<1>2. stack' \in Seq(Frames) /\ stack' # <<>>
  BY NextLineType DEF MacroLine
<1> QED
  BY <1>1, <1>2 DEF MacroLine, TypeOK, LexInv, history, Frames

LEMMA TestedType ==
  ASSUME TypeOK, NEW x \in Fact, NEW f, NEW m \in Macros
  PROVE  Tested(x, f, m) \in Fact
<1> DEFINE v == IF m \in ci.defined THEN "defined" ELSE "undefined"
<1>1. v \in State
  BY DEF State
<1>2. x.macro \in [Macros -> State]
  BY DEF Fact
<1>3. ASSUME NEW w \in State
      PROVE  [x EXCEPT !.macro[m] = w] \in Fact
  BY <1>2, <1>3 DEF Fact
<1> HIDE DEF v
<1>4. [x EXCEPT !.macro[m] = v] \in Fact
  BY <1>1, <1>3
<1> QED
  BY <1>4 DEF Tested, v

LEMMA UseLineType ==
  ASSUME TypeOK, LexInv, UseLine
  PROVE  TypeOK' /\ LexInv'
<1> DEFINE f == Top.file
           m == Line.macro
           G == {Tested(x, f, m) : x \in ci.facts[f]}
           v == IF m \in Watched THEN ci.macro[m] ELSE ci.values[f][m]
<1>1. phase = "lex" /\ f \in Files /\ m \in Macros /\ ci \in Caches
  BY StackLength, LineType DEF UseLine, TypeOK
<1>2. ASSUME NEW w \in State, NEW S \in SUBSET Fact
      PROVE  [ci EXCEPT !.values[f][m] = w, !.facts[f] = S] \in Caches
  BY <1>1, <1>2 DEF Caches
<1>3. v \in State
  <2>1. ci.macro \in [Macros -> State] /\ ci.values \in [Files -> [Macros -> State]]
    BY <1>1, CacheFields
  <2>2. ci.macro[m] \in State /\ ci.values[f][m] \in State
    BY <1>1, <2>1
  <2> QED
    BY <2>2
<1>4. G \in SUBSET Fact
  <2>1. ci.facts[f] \in SUBSET Fact
    BY <1>1, CacheFields
  <2>2. \A x \in ci.facts[f] : Tested(x, f, m) \in Fact
    BY <1>1, <2>1, TestedType
  <2> QED
    BY <2>2
<1>5. ci' = [ci EXCEPT !.values[f][m] = v, !.facts[f] = G]
  BY DEF UseLine
<1> HIDE DEF G, v
<1>6. ci' \in Caches
  BY <1>2, <1>3, <1>4, <1>5
<1>7. stack' \in Seq(Frames) /\ stack' # <<>>
  BY <1>1, NextLineType DEF UseLine
<1> QED
  BY <1>6, <1>7 DEF UseLine, TypeOK, LexInv, history, Frames

LEMMA EndOfFileType ==
  ASSUME TypeOK, LexInv, EndOfFile
  PROVE  TypeOK' /\ LexInv'
<1>1. phase = "lex" /\ Top.file \in Files /\ ci \in Caches /\ stack \in Seq(Frames)
  BY StackLength DEF EndOfFile, TypeOK, Frames
<1>2. CASE Len(stack) = 1
  <2>1. stack' = <<>> /\ phase' = "done" /\ ci' = ci
    BY <1>2 DEF EndOfFile
  <2>2. stack' \in Seq(Frames)
    BY <2>1, EmptySeq
  <2> QED
    BY <1>1, <2>1, <2>2 DEF EndOfFile, TypeOK, LexInv, Phases, history, Frames
<1>3. CASE Len(stack) # 1
  <2> DEFINE n == Len(stack) - 1
             outer == stack[n].file
  <2>1. /\ stack' = [SubSeq(stack, 1, n) EXCEPT ![n].line = @ + 1]
        /\ ci' = [ci EXCEPT !.facts[outer] = @ \cup ci.facts[Top.file]]
        /\ phase' = phase
    BY <1>3 DEF EndOfFile
  <2>2. n \in 1 .. Len(stack) /\ stack' \in Seq(Frames) /\ stack' # <<>>
    BY <1>1, <1>3, <2>1, Popped
  <2>3. outer \in Files
    <3>1. stack[n] \in Frames
      BY <1>1, <2>2, ElementOfSeq
    <3> QED
      BY <3>1 DEF Frames
  <2>4. ci' \in Caches
    <3>1. ci.facts[Top.file] \in SUBSET Fact
      BY <1>1, CacheFields
    <3> QED
      BY <1>1, <2>1, <2>3, <3>1, FactsType
  <2> QED
    BY <1>1, <2>1, <2>2, <2>4 DEF EndOfFile, TypeOK, LexInv, history, Frames
<1> QED
  BY <1>2, <1>3

LEMMA InitType == Init => TypeOK /\ LexInv
<1> SUFFICES ASSUME Init PROVE TypeOK /\ LexInv
  OBVIOUS
<1>1. stack \in Seq(Frames)
  BY EmptySeq DEF Init
<1>2. ci \in Caches
  BY EmptyType DEF Init
<1>3. disk \in [Files -> Times]
  BY DEF Init
<1>4. cause \in {"none", "macro", "text"} /\ phase \in Phases /\ tries \in 0 .. 2
  BY DEF Init, Phases
<1>5. live \in [Files -> SUBSET Times] /\ at \in [Files -> SUBSET Macros]
  BY DEF Init
<1> QED
  BY <1>1, <1>2, <1>3, <1>4, <1>5 DEF Init, TypeOK, LexInv, Frames

\* The end of a compilation, and what happens between two.
LEMMA RestType ==
  ASSUME TypeOK, LexInv,
         \/ ResetRequest \/ Restart \/ Succeed \/ Retry \/ GiveUp \/ Age
         \/ \E f \in Editable : Edit(f)
  PROVE  TypeOK' /\ LexInv'
<1>1. CASE ResetRequest
  <2>1. ci' \in Caches /\ prevArgs' \in Args \cup {NoArgs}
    BY <1>1, EmptyType DEF ResetRequest
  <2> QED
    BY <1>1, <2>1 DEF ResetRequest, TypeOK, LexInv, history
<1>2. CASE Restart
  <2>1. ci' \in Caches /\ prevArgs' \in Args \cup {NoArgs}
    BY <1>2, EmptyType DEF Restart
  <2>2. live' \in [Files -> SUBSET Times] /\ at' \in [Files -> SUBSET Macros]
    BY <1>2 DEF Restart
  <2>3. phase' \in Phases /\ LexInv'
    BY <1>2 DEF Restart, LexInv, Phases
  <2>4. aged' \in BOOLEAN /\ checked' \in BOOLEAN /\ cause' \in {"none", "macro", "text"}
    BY <1>2 DEF Restart
  <2>5. tries' \in 0 .. 2
    BY <1>2 DEF Restart
  <2>6. /\ disk' \in [Files -> Times] /\ cmd' \in [main : Mains, args : Args]
         /\ stack' \in Seq([file : Files, line : Nat \ {0}])
    BY <1>2 DEF Restart, TypeOK
  <2> QED
    BY <2>1, <2>2, <2>3, <2>4, <2>5, <2>6 DEF TypeOK
<1>3. CASE Succeed
  <2>1. live' \in [Files -> SUBSET Times] /\ at' \in [Files -> SUBSET Macros]
    BY <1>3 DEF Succeed
  <2>2. phase' \in Phases /\ LexInv' /\ prevArgs' \in Args \cup {NoArgs}
    BY <1>3 DEF Succeed, LexInv, Phases, TypeOK
  <2>3. /\ aged' \in BOOLEAN /\ checked' \in BOOLEAN
        /\ cause' \in {"none", "macro", "text"} /\ ci' \in Caches
    BY <1>3 DEF Succeed, TypeOK
  <2>4. tries' \in 0 .. 2
    BY <1>3 DEF Succeed
  <2>5. /\ disk' \in [Files -> Times] /\ cmd' \in [main : Mains, args : Args]
        /\ stack' \in Seq([file : Files, line : Nat \ {0}])
    BY <1>3 DEF Succeed, TypeOK
  <2> QED
    BY <2>1, <2>2, <2>3, <2>4, <2>5 DEF TypeOK
<1>4. CASE Retry
  BY <1>4, EmptyType DEF Retry, TypeOK, LexInv, Phases
<1>5. CASE GiveUp
  BY <1>5 DEF GiveUp, TypeOK, LexInv, Phases, history
<1>6. CASE Age
  BY <1>6 DEF Age, TypeOK, LexInv, history
<1>7. ASSUME NEW f \in Editable, Edit(f)
      PROVE  TypeOK' /\ LexInv'
  <2>1. f \in Files
    BY ConstantsAssumption
  <2>2. PICK t \in Times : disk' = [disk EXCEPT ![f] = t]
    BY <1>7 DEF Edit
  <2>3. disk' \in [Files -> Times] /\ disk'[f] \in Times
    BY <2>1, <2>2 DEF TypeOK
  <2>4. live' \in [Files -> SUBSET Times]
    BY <1>7, <2>1, <2>3 DEF Edit, TypeOK
  <2> QED
    BY <1>7, <2>3, <2>4 DEF Edit, TypeOK, LexInv
<1> QED
  BY <1>1, <1>2, <1>3, <1>4, <1>5, <1>6, <1>7

LEMMA NextType == TypeOK /\ LexInv /\ [Next]_vars => TypeOK' /\ LexInv'
<1> SUFFICES ASSUME TypeOK, LexInv, [Next]_vars PROVE TypeOK' /\ LexInv'
  OBVIOUS
<1>1. CASE \E m \in Mains, a \in Args : Command(m, a)
  BY <1>1, CommandType
<1>2. CASE Unload \/ EnterMainFile
  BY <1>2, UnloadType, EnterMainFileType
<1>3. CASE IncludeLine \/ GuardedLine \/ MacroLine \/ UseLine \/ EndOfFile
  BY <1>3, IncludeLineType, GuardedLineType, MacroLineType, UseLineType, EndOfFileType
<1>4. CASE \/ ResetRequest \/ Restart \/ Succeed \/ Retry \/ GiveUp \/ Age
           \/ \E f \in Editable : Edit(f)
  BY <1>4, RestType
<1>5. CASE UNCHANGED vars
  BY <1>5 DEF vars, TypeOK, LexInv
<1> QED
  BY <1>1, <1>2, <1>3, <1>4, <1>5 DEF Next, ServerStep

\* TypeOK holds in every reachable state: the cache keeps facts of files of the
\* project only, and the preprocessor never reads from an empty include stack.
THEOREM TypeCorrect == Spec => [](TypeOK /\ LexInv)
BY InitType, NextType, PTL DEF Spec

-----------------------------------------------------------------------------
(* No header stays in the cache without what it included, unless headers     *)
(* include others between #ifndef and #endif.                                *)

UnguardedHeaders ==
  \A f \in Headers : \A i \in DOMAIN Lines[f] : Lines[f][i].op # "guarded"

\* What IInv says of the cache.
CacheInv ==
  /\ phase \notin {"failed", "exit"} => EdgeInv /\ LoadInv
  /\ NoDanglingInclude

\* A step that leaves the graph of files alone.
LEMMA SameGraph ==
  ASSUME CacheInv, phase \notin {"failed", "exit"},
         ci'.stat = ci.stat, ci'.includees = ci.includees,
         ci'.newFEs = ci.newFEs, ci'.dependents = ci.dependents,
         phase' = "enter" => phase = "enter"
  PROVE  CacheInv'
<1>1. Loaded(ci') = Loaded(ci)
  BY DEF Loaded
<1>2. EdgeInv' /\ LoadInv'
  BY <1>1 DEF CacheInv, EdgeInv, LoadInv, Loaded
<1>3. NoDanglingInclude'
  BY <1>1 DEF CacheInv, NoDanglingInclude, Loaded
<1> QED
  BY <1>2, <1>3 DEF CacheInv

LEMMA EmptyCache ==
  ASSUME ci' = Empty
  PROVE  CacheInv'
<1>1. /\ ci'.newFEs = {} /\ \A f \in Files : ci'.stat[f] = Missing
      /\ \A f \in Files : ci'.includees[f] = {}
  BY DEF Empty
<1>2. Loaded(ci)' = {}
  BY <1>1 DEF Loaded
<1>3. \A h \in Headers : h \in Files
  BY DEF Files
<1>4. EdgeInv'
  BY <1>1, <1>2, <1>3 DEF EdgeInv
<1>5. LoadInv'
  BY <1>1, <1>2 DEF LoadInv
<1>6. NoDanglingInclude'
  BY <1>2 DEF NoDanglingInclude
<1> QED
  BY <1>4, <1>5, <1>6 DEF CacheInv

\* The steps that neither read a file nor unload one.
LEMMA RestInductive ==
  ASSUME IInv,
         \/ \E m \in Mains, a \in Args : Command(m, a)
         \/ ResetRequest \/ Restart \/ Succeed \/ Retry \/ GiveUp \/ Age
         \/ \E f \in Editable : Edit(f)
         \/ UNCHANGED vars
  PROVE  StackInv' /\ CacheInv'
<1>1. CacheInv /\ StackInv
  BY DEF IInv, CacheInv
<1>2. CASE ci' = Empty /\ phase' # "lex" /\ stack' = <<>>
  <2>1. StackInv'
    BY <1>2 DEF StackInv
  <2> QED
    BY <1>2, <2>1, EmptyCache
<1>3. CASE /\ ci' = ci /\ stack' = stack
           /\ phase' = "lex" <=> phase = "lex"
           /\ phase' = "enter" => phase = "enter"
           /\ phase' \notin {"failed", "exit"} => phase \notin {"failed", "exit"}
  <2>1. StackInv'
    BY <1>1, <1>3 DEF StackInv, Loaded
  <2>2. CacheInv'
    <3>1. CASE phase' \in {"failed", "exit"}
      BY <3>1 DEF CacheInv, NoDanglingInclude
    <3>2. CASE phase' \notin {"failed", "exit"}
      BY <1>1, <1>3, <3>2, SameGraph
    <3> QED
      BY <3>1, <3>2
  <2> QED
    BY <2>1, <2>2
<1>4. ASSUME NEW m \in Mains, NEW a \in Args, Command(m, a)
      PROVE  StackInv' /\ CacheInv'
  <2>1. stack = <<>>
    BY <1>1, <1>4 DEF Command, StackInv
  <2> QED
    BY <1>2, <1>3, <1>4, <2>1 DEF Command
<1>5. CASE ResetRequest \/ Restart
  <2>1. stack = <<>>
    BY <1>1, <1>5 DEF ResetRequest, Restart, StackInv
  <2> QED
    BY <1>2, <1>5, <2>1 DEF ResetRequest, Restart
<1>6. CASE Retry
  <2>1. stack = <<>>
    BY <1>1, <1>6 DEF Retry, StackInv
  <2> QED
    BY <1>2, <1>6, <2>1 DEF Retry
<1>7. CASE Succeed
  BY <1>3, <1>7 DEF Succeed
<1>8. CASE GiveUp
  BY <1>3, <1>8 DEF GiveUp
<1>9. CASE Age \/ UNCHANGED vars
  BY <1>3, <1>9 DEF Age, vars
<1>10. ASSUME NEW f \in Editable, Edit(f)
       PROVE  StackInv' /\ CacheInv'
  BY <1>3, <1>10 DEF Edit
<1> QED
  BY <1>4, <1>5, <1>6, <1>7, <1>8, <1>9, <1>10

\* A stack of files the old one held keeps StackInv, if the graph stays.
LEMMA SameFiles ==
  ASSUME TypeOK, StackInv, phase = "lex",
         ci'.stat = ci.stat, ci'.newFEs = ci.newFEs,
         stack' \in Seq(Frames), Len(stack') <= Len(stack),
         \A i \in 1 .. Len(stack') : stack'[i].file = stack[i].file,
         phase' = "lex" <=> stack' # <<>>
  PROVE  StackInv'
<1>1. stack \in Seq(Frames) /\ Len(stack) \in Nat /\ DOMAIN stack = 1 .. Len(stack)
  BY LenProperties DEF TypeOK, Frames
<1>2. Len(stack') \in Nat /\ DOMAIN stack' = 1 .. Len(stack')
  BY LenProperties
<1>3. ASSUME NEW i \in DOMAIN stack'
      PROVE  /\ stack'[i].file \in Loaded(ci')
             /\ \E x \in Files : <<stack'[i].file, x>> \in ci'.newFEs
  <2>1. i \in DOMAIN stack /\ stack'[i].file = stack[i].file
    BY <1>1, <1>2, <1>3
  <2> QED
    BY <2>1 DEF StackInv, Loaded
<1> QED
  BY <1>3 DEF StackInv, Loaded

LEMMA NextLineSameFiles ==
  ASSUME TypeOK, LexInv, phase = "lex", NextLine
  PROVE  /\ stack' \in Seq(Frames) /\ stack' # <<>> /\ Len(stack') = Len(stack)
         /\ \A i \in 1 .. Len(stack) : stack'[i].file = stack[i].file
<1>1. stack \in Seq(Frames) /\ Len(stack) \in 1 .. Len(stack)
  BY StackLength DEF TypeOK, Frames
<1> QED
  BY <1>1, Advance DEF NextLine

\* The lines that include nothing, and the end of a file.
LEMMA LexInductive ==
  ASSUME UnguardedHeaders, IInv,
         GuardedLine \/ MacroLine \/ UseLine \/ EndOfFile
  PROVE  StackInv' /\ CacheInv'
<1>1. TypeOK /\ LexInv /\ StackInv /\ CacheInv /\ phase = "lex"
  BY DEF IInv, CacheInv, StackInv, LexInv, GuardedLine, MacroLine, UseLine, EndOfFile
<1>2. Len(stack) \in Nat /\ ci \in Caches
  BY <1>1, LenProperties DEF TypeOK
<1>3. /\ ci'.stat = ci.stat /\ ci'.includees = ci.includees
      /\ ci'.newFEs = ci.newFEs /\ ci'.dependents = ci.dependents
  <2>1. CASE GuardedLine
    <3>1. Top.file \notin Headers
      BY <1>1, <2>1, LineType DEF GuardedLine, UnguardedHeaders, Line
    <3>2. [ci.includees EXCEPT ![Top.file] = ci.includees[Top.file]] = ci.includees
      BY <1>2, CacheFields
    <3> QED
      BY <1>2, <2>1, <3>1, <3>2 DEF GuardedLine, Caches
  <2>2. CASE MacroLine
    BY <1>2, <2>2 DEF MacroLine, Caches
  <2>3. CASE UseLine
    BY <1>2, <2>3 DEF UseLine, Caches
  <2>4. CASE EndOfFile
    BY <1>2, <2>4 DEF EndOfFile, Caches
  <2> QED
    BY <2>1, <2>2, <2>3, <2>4
<1>4. phase' \in {"lex", "done"} /\ StackInv'
  <2>1. CASE GuardedLine \/ MacroLine \/ UseLine
    <3>1. phase' = phase /\ NextLine
      BY <2>1 DEF GuardedLine, MacroLine, UseLine
    <3>2. /\ stack' \in Seq(Frames) /\ stack' # <<>> /\ Len(stack') = Len(stack)
          /\ \A i \in 1 .. Len(stack) : stack'[i].file = stack[i].file
      BY <1>1, <3>1, NextLineSameFiles
    <3> QED
      BY <1>1, <1>2, <1>3, <3>1, <3>2, SameFiles
  <2>2. CASE EndOfFile /\ Len(stack) = 1
    BY <2>2 DEF EndOfFile, StackInv
  <2>3. CASE EndOfFile /\ Len(stack) # 1
    <3> DEFINE n == Len(stack) - 1
    <3>1. /\ stack' = [SubSeq(stack, 1, n) EXCEPT ![n].line = @ + 1]
          /\ phase' = phase
      BY <2>3 DEF EndOfFile
    <3>2. /\ n \in 1 .. Len(stack)
          /\ stack' \in Seq(Frames) /\ stack' # <<>> /\ Len(stack') = n
          /\ \A i \in 1 .. n : stack'[i].file = stack[i].file
      BY <1>1, <2>3, <3>1, Popped
    <3>3. Len(stack') <= Len(stack)
      BY <1>2, <3>2
    <3> QED
      BY <1>1, <1>3, <3>1, <3>2, <3>3, SameFiles
  <2> QED
    BY <2>1, <2>2, <2>3
<1>5. CacheInv'
  BY <1>1, <1>3, <1>4, SameGraph
<1> QED
  BY <1>4, <1>5

\* The main file has an edge to itself and nothing else is noted yet.
LEMMA EnterInductive ==
  ASSUME IInv, EnterMainFile
  PROVE  StackInv' /\ CacheInv'
<1> DEFINE m == cmd.main
<1>1. TypeOK /\ StackInv /\ EdgeInv /\ LoadInv /\ NoDanglingInclude
      /\ phase = "enter" /\ ci \in Caches
  BY DEF IInv, EnterMainFile, TypeOK
<1>2. m \in Mains /\ m \in Files /\ m \notin Headers
  BY <1>1, ConstantsAssumption DEF TypeOK, Files
<1>3. CASE Unusable(m)
  <2>1. phase' = "failed" /\ stack' = <<>>
    BY <1>3 DEF EnterMainFile, Fail
  <2> QED
    BY <2>1 DEF StackInv, CacheInv, NoDanglingInclude
<1>4. CASE ~Unusable(m)
  <2>1. /\ ci' = [Load(ci, m) EXCEPT !.included = {m}, !.newFEs = {<<m, m>>}]
        /\ stack' = <<[file |-> m, line |-> 1]>> /\ phase' = "lex"
        /\ disk[m] # Missing
    BY <1>4 DEF EnterMainFile, Unusable
  <2>2. /\ ci'.stat = [ci.stat EXCEPT ![m] = disk[m]]
        /\ ci'.newFEs = {<<m, m>>}
        /\ ci'.includees = ci.includees /\ ci'.dependents = ci.dependents
    BY <1>1, <2>1 DEF Load, Caches
  <2>3. /\ m \in Loaded(ci')
        /\ \A f \in Files : f # m => (f \in Loaded(ci') <=> f \in Loaded(ci))
    BY <1>1, <1>2, <2>1, <2>2, CacheFields DEF Loaded
  <2>4. ci.newFEs = {} /\ m \notin Loaded(ci) /\ ci.includees[m] = {}
    BY <1>1, <1>2 DEF LoadInv
  <2>5. StackInv'
    <3>1. DOMAIN stack' = {1} /\ stack'[1].file = m /\ stack' # <<>>
      BY <2>1
    <3> QED
      BY <1>2, <2>1, <2>2, <2>3, <3>1 DEF StackInv
  <2>6. EdgeInv'
    <3>1. ASSUME NEW f \in Loaded(ci') \cap Headers, NEW g \in ci'.includees[f]
          PROVE  <<g, f>> \in ci'.newFEs \/ f \in ci'.dependents[g]
      <4>1. f \in Loaded(ci) \cap Headers
        BY <1>2, <2>3, <3>1 DEF Files
      <4> QED
        BY <1>1, <2>2, <2>4, <3>1, <4>1 DEF EdgeInv
    <3>2. \A f, g \in Files : <<g, f>> \in ci'.newFEs =>
             \E x \in Files : <<f, x>> \in ci'.newFEs
      BY <1>2, <2>2
    <3>3. \A h \in Headers : <<h, h>> \notin ci'.newFEs
      BY <1>2, <2>2
    <3> QED
      BY <3>1, <3>2, <3>3 DEF EdgeInv
  <2>7. LoadInv'
    <3>1. \A k \in Mains \cap Loaded(ci') : <<k, k>> \in ci'.newFEs
      BY <1>1, <2>2, <2>3, <2>4 DEF LoadInv, Files
    <3>2. \A f \in Files \ Loaded(ci') : ci'.includees[f] = {}
      BY <1>1, <2>2, <2>3 DEF LoadInv
    <3> QED
      BY <2>1, <3>1, <3>2 DEF LoadInv
  <2>8. NoDanglingInclude'
    <3>1. ASSUME NEW f \in Loaded(ci')
          PROVE  ci'.includees[f] \subseteq Loaded(ci')
      <4>1. f \in Files
        BY <3>1 DEF Loaded
      <4>2. CASE f = m
        BY <2>2, <2>4, <4>2
      <4>3. CASE f # m
        <5>1. ci.includees[f] \subseteq Loaded(ci)
          BY <1>1, <2>3, <3>1, <4>1, <4>3 DEF NoDanglingInclude
        <5>2. Loaded(ci) \subseteq Loaded(ci')
          BY <2>3 DEF Loaded
        <5> QED
          BY <2>2, <5>1, <5>2
      <4> QED
        BY <4>2, <4>3
    <3> QED
      BY <3>1 DEF NoDanglingInclude
  <2> QED
    BY <2>5, <2>6, <2>7, <2>8 DEF CacheInv
<1> QED
  BY <1>3, <1>4

\* One header is read, or found in the cache, and noted as included by another.
LEMMA IncludeInductive ==
  ASSUME IInv, IncludeLine
  PROVE  StackInv' /\ CacheInv'
<1> DEFINE f == Top.file
           g == Line.file
<1>1. /\ TypeOK /\ LexInv /\ StackInv /\ EdgeInv /\ LoadInv /\ NoDanglingInclude
      /\ phase = "lex" /\ ci \in Caches /\ Include(f, g)
  BY DEF IInv, IncludeLine, TypeOK, StackInv, LexInv
<1>2. f \in Files /\ g \in Headers /\ g \in Files
  BY <1>1, StackLength, LineType DEF IncludeLine
<1>3. g # f
  <2>1. PICK i \in DOMAIN Lines[f] : Line = Lines[f][i]
    BY <1>1, LineType DEF IncludeLine
  <2>2. Line.op \in {"include", "guarded"}
    BY DEF IncludeLine
  <2> QED
    BY <1>2, <2>1, <2>2, ConstantsAssumption
<1>4. f \in Loaded(ci) /\ \E x \in Files : <<f, x>> \in ci.newFEs
  <2>1. Len(stack) \in DOMAIN stack
    <3>1. Len(stack) \in 1 .. Len(stack)
      BY <1>1, StackLength
    <3> QED
      BY <1>1, <3>1, LenProperties DEF TypeOK
  <2> QED
    BY <1>1, <2>1 DEF StackInv, Top
<1>5. CASE phase' = "failed" /\ stack' = <<>>
  BY <1>5 DEF StackInv, CacheInv, NoDanglingInclude
<1>6. CASE phase' # "failed"
  <2>1. /\ phase' = "lex"
        /\ ci'.newFEs = ci.newFEs \cup {<<g, f>>}
        /\ ci'.includees = [ci.includees EXCEPT ![f] = @ \cup {g}]
        /\ ci'.dependents = ci.dependents
        /\ \/ g \in Loaded(ci) /\ ci'.stat = ci.stat /\ NextLine
           \/ /\ g \notin Loaded(ci) /\ disk[g] # Missing
              /\ ci'.stat = [ci.stat EXCEPT ![g] = disk[g]]
              /\ stack' = Append(stack, [file |-> g, line |-> 1])
    BY <1>1, <1>6 DEF Include, Fail, Noted, Load, Unusable, Caches
  <2>2. /\ g \in Loaded(ci') /\ Loaded(ci) \subseteq Loaded(ci')
        /\ \A h \in Loaded(ci') : h \in Loaded(ci) \/ h = g
    BY <1>1, <1>2, <2>1, CacheFields DEF Loaded
  <2>3. \A h \in Files : ci'.includees[h] =
           IF h = f THEN ci.includees[f] \cup {g} ELSE ci.includees[h]
    BY <1>1, <1>2, <2>1, CacheFields
  <2>4. EdgeInv'
    <3>1. ASSUME NEW h \in Loaded(ci') \cap Headers, NEW k \in ci'.includees[h]
          PROVE  <<k, h>> \in ci'.newFEs \/ h \in ci'.dependents[k]
      <4>1. h \in Files
        BY DEF Files
      <4>2. CASE h \notin Loaded(ci)
        <5>1. h = g /\ ci.includees[h] = {}
          BY <1>1, <2>2, <3>1, <4>1, <4>2 DEF LoadInv
        <5> QED
          BY <1>3, <2>3, <3>1, <4>1, <5>1
      <4>3. CASE h \in Loaded(ci)
        <5>1. k \in ci.includees[h] \/ (h = f /\ k = g)
          BY <2>3, <3>1, <4>1
        <5> QED
          BY <1>1, <2>1, <3>1, <4>3, <5>1 DEF EdgeInv
      <4> QED
        BY <4>2, <4>3
    <3>2. ASSUME NEW a \in Files, NEW b \in Files, <<b, a>> \in ci'.newFEs
          PROVE  \E x \in Files : <<a, x>> \in ci'.newFEs
      <4>1. CASE <<b, a>> \in ci.newFEs
        BY <1>1, <2>1, <4>1 DEF EdgeInv
      <4>2. CASE <<b, a>> = <<g, f>>
        BY <1>4, <2>1, <4>2
      <4> QED
        BY <2>1, <3>2, <4>1, <4>2
    <3>3. \A h \in Headers : <<h, h>> \notin ci'.newFEs
      BY <1>1, <1>3, <2>1 DEF EdgeInv
    <3> QED
      BY <3>1, <3>2, <3>3 DEF EdgeInv
  <2>5. LoadInv'
    <3>1. \A m \in Mains \cap Loaded(ci') : <<m, m>> \in ci'.newFEs
      BY <1>1, <1>2, <2>1, <2>2, ConstantsAssumption DEF LoadInv
    <3>2. \A h \in Files \ Loaded(ci') : ci'.includees[h] = {}
      BY <1>1, <1>4, <2>2, <2>3 DEF LoadInv
    <3> QED
      BY <2>1, <3>1, <3>2 DEF LoadInv
  <2>6. NoDanglingInclude'
    <3>1. ASSUME NEW h \in Loaded(ci')
          PROVE  ci'.includees[h] \subseteq Loaded(ci')
      <4>1. h \in Files
        BY <3>1 DEF Loaded
      <4>2. CASE h \in Loaded(ci)
        BY <1>1, <2>2, <2>3, <4>1, <4>2 DEF NoDanglingInclude
      <4>3. CASE h \notin Loaded(ci)
        <5>1. h = g /\ ci.includees[h] = {}
          BY <1>1, <2>2, <3>1, <4>1, <4>3 DEF LoadInv
        <5> QED
          BY <1>3, <2>3, <4>1, <5>1
      <4> QED
        BY <4>2, <4>3
    <3> QED
      BY <3>1 DEF NoDanglingInclude
  <2>7. StackInv'
    <3>1. stack \in Seq(Frames) /\ Len(stack) \in Nat /\ DOMAIN stack = 1 .. Len(stack)
      BY <1>1, LenProperties DEF TypeOK, Frames
    <3>2. CASE NextLine
      <4>1. /\ stack' \in Seq(Frames) /\ stack' # <<>> /\ Len(stack') = Len(stack)
            /\ \A i \in 1 .. Len(stack) : stack'[i].file = stack[i].file
        BY <1>1, <3>2, NextLineSameFiles
      <4>2. DOMAIN stack' = DOMAIN stack
        BY <3>1, <4>1, LenProperties
      <4> QED
        BY <1>1, <2>1, <2>2, <3>1, <4>1, <4>2 DEF StackInv
    <3>3. CASE stack' = Append(stack, [file |-> g, line |-> 1])
      <4> DEFINE e == [file |-> g, line |-> 1]
      <4>1. e \in Frames /\ e.file = g
        BY <1>2 DEF Frames
      <4>2. /\ stack' \in Seq(Frames) /\ stack' # <<>> /\ Len(stack') = Len(stack) + 1
            /\ \A i \in 1 .. Len(stack) : stack'[i] = stack[i]
            /\ stack'[Len(stack) + 1] = e
        BY <3>1, <3>3, <4>1, AppendProperties
      <4>3. DOMAIN stack' = 1 .. Len(stack) + 1
        BY <4>2, LenProperties
      <4>4. ASSUME NEW i \in DOMAIN stack'
            PROVE  /\ stack'[i].file \in Loaded(ci')
                   /\ \E x \in Files : <<stack'[i].file, x>> \in ci'.newFEs
        <5>1. CASE i \in DOMAIN stack
          BY <1>1, <2>1, <2>2, <3>1, <4>2, <5>1 DEF StackInv
        <5>2. CASE i \notin DOMAIN stack
          <6>1. i = Len(stack) + 1
            BY <3>1, <4>3, <4>4, <5>2
          <6> QED
            BY <1>2, <2>1, <2>2, <4>1, <4>2, <6>1
        <5> QED
          BY <5>1, <5>2
      <4> QED
        BY <2>1, <4>2, <4>4 DEF StackInv
    <3> QED
      BY <2>1, <3>2, <3>3
  <2> QED
    BY <2>4, <2>5, <2>6, <2>7 DEF CacheInv
<1> QED
  BY <1>1, <1>5, <1>6 DEF Include, Fail

\* Unloading a file unloads the headers that included it: update has made them
\* its dependents, and Reach is closed under dependents.
LEMMA UnloadInductive ==
  ASSUME IInv, Unload
  PROVE  StackInv' /\ CacheInv'
<1>1. /\ TypeOK /\ StackInv /\ EdgeInv /\ LoadInv /\ NoDanglingInclude
      /\ phase = "unload" /\ phase' = "enter" /\ stack' = stack /\ ci \in Caches
  BY DEF IInv, Unload, TypeOK
<1>2. PICK S \in Newest(ci) :
        LET modified == IF aged THEN {f \in S : WasModified(ci, f)} ELSE {}
            c        == Updated(ci)
            gone     == Reach(modified \cup UserFiles(ci), c.dependents, {})
        IN  ci' = Erased(c, gone)
  BY DEF Unload
<1> DEFINE modified == IF aged THEN {f \in S : WasModified(ci, f)} ELSE {}
           c        == Updated(ci)
           gone     == Reach(modified \cup UserFiles(ci), c.dependents, {})
<1>3. ci' = Erased(c, gone) /\ c \in Caches
  BY <1>1, <1>2, UpdatedType
<1>4. /\ c.stat = ci.stat /\ c.includees = ci.includees /\ c.newFEs = {}
      /\ \A h \in Files : c.dependents[h] = ci.dependents[h] \cup
           {f \in NewFiles(ci) \ MainOf(ci) :
              h \in ci.dependees[f] \cup (IncludedBy(ci, f) \ {f})}
  BY <1>1 DEF Updated, Caches, NewFiles
<1>5. /\ gone \in SUBSET Files /\ UserFiles(ci) \subseteq gone
      /\ \A h \in gone : c.dependents[h] \subseteq gone
  <2>1. modified \cup UserFiles(ci) \in SUBSET Files
    <3>1. modified \in SUBSET Files
      BY DEF Newest, Loaded
    <3>2. UserFiles(ci) \in SUBSET Files
      BY ConstantsAssumption DEF UserFiles, MainOf, NewFiles, Files
    <3> QED
      BY <3>1, <3>2
  <2>2. c.dependents \in [Files -> SUBSET Files]
    BY <1>3, CacheFields
  <2>3. /\ gone \in SUBSET Files
        /\ (modified \cup UserFiles(ci)) \ {} \subseteq gone
        /\ ClosedUnder(gone, c.dependents, {})
    BY <2>1, <2>2, ReachIsLeast
  <2> QED
    BY <2>3 DEF ClosedUnder
<1> HIDE DEF gone, c, modified
<1>6. /\ \A f \in Files : ci'.stat[f] = IF f \in gone THEN Missing ELSE ci.stat[f]
      /\ \A f \in Files : ci'.includees[f] = IF f \in gone THEN {} ELSE ci.includees[f]
      /\ ci'.newFEs = {}
      /\ \A h \in Files \ gone : \A f \in Files \ gone :
           f \in c.dependents[h] => f \in ci'.dependents[h]
  <2>1. /\ ci'.stat = [f \in Files |-> IF f \in gone THEN Missing ELSE c.stat[f]]
        /\ ci'.includees = [f \in Files |-> IF f \in gone THEN {} ELSE c.includees[f]]
        /\ ci'.newFEs = c.newFEs
        /\ ci'.dependents = [h \in Files |-> IF h \in gone THEN {}
              ELSE c.dependents[h] \ {f \in gone : h \in c.dependees[f]}]
    BY <1>3 DEF Erased, Caches
  <2> QED
    BY <1>4, <2>1
<1>7. \A f \in Files : f \in Loaded(ci') <=> f \in Loaded(ci) /\ f \notin gone
  BY <1>6 DEF Loaded
<1>8. \A m \in Mains : m \notin Loaded(ci')
  <2>1. ASSUME NEW m \in Mains, m \in Loaded(ci)
        PROVE  m \in gone
    <3>1. <<m, m>> \in ci.newFEs /\ m \in Files
      BY <1>1, <2>1 DEF LoadInv, Files
    <3> QED
      BY <1>5, <3>1 DEF UserFiles, MainOf
  <2> QED
    BY <1>7, <2>1 DEF Files
<1>9. ASSUME NEW f \in Loaded(ci'), NEW g \in ci.includees[f]
      PROVE  g \in Files /\ g \notin gone /\ f \in c.dependents[g] /\ g \in Loaded(ci)
  <2>1. f \in Files /\ f \in Loaded(ci) /\ f \notin gone /\ f \in Headers
    BY <1>7, <1>8, <1>9 DEF Loaded, Files
  <2>2. g \in Files /\ g \in Loaded(ci)
    BY <1>1, <1>9, <2>1 DEF NoDanglingInclude, Loaded
  <2>3. f \in c.dependents[g]
    <3>1. CASE f \in ci.dependents[g]
      BY <1>4, <2>2, <3>1
    <3>2. CASE <<g, f>> \in ci.newFEs
      <4>1. <<f, f>> \notin ci.newFEs /\ f # g
        BY <1>1, <2>1, <3>2 DEF EdgeInv
      <4>2. f \in NewFiles(ci) \ MainOf(ci)
        BY <1>1, <2>1, <2>2, <3>2, <4>1 DEF EdgeInv, NewFiles, MainOf
      <4>3. g \in IncludedBy(ci, f) \ {f}
        BY <2>2, <3>2, <4>1 DEF IncludedBy
      <4> QED
        BY <1>4, <2>2, <4>2, <4>3
    <3> QED
      BY <1>1, <1>9, <2>1, <3>1, <3>2 DEF EdgeInv
  <2> QED
    BY <1>5, <2>1, <2>2, <2>3
<1>10. EdgeInv'
  <2>1. ASSUME NEW f \in Loaded(ci') \cap Headers, NEW g \in ci'.includees[f]
        PROVE  f \in ci'.dependents[g]
    <3>1. f \in Files /\ f \notin gone /\ g \in ci.includees[f]
      BY <1>6, <1>7, <2>1 DEF Files
    <3> QED
      BY <1>6, <1>9, <3>1
  <2> QED
    BY <1>6, <2>1 DEF EdgeInv
<1>11. LoadInv'
  <2>1. \A f \in Files \ Loaded(ci') : ci'.includees[f] = {}
    BY <1>1, <1>6, <1>7 DEF LoadInv
  <2> QED
    BY <1>6, <1>8, <2>1 DEF LoadInv
<1>12. NoDanglingInclude'
  <2>1. ASSUME NEW f \in Loaded(ci'), NEW g \in ci'.includees[f]
        PROVE  g \in Loaded(ci')
    <3>1. f \in Files /\ g \in ci.includees[f]
      BY <1>6, <1>7, <2>1 DEF Loaded
    <3> QED
      BY <1>7, <1>9, <3>1
  <2> QED
    BY <2>1 DEF NoDanglingInclude
<1>13. StackInv'
  BY <1>1 DEF StackInv
<1> QED
  BY <1>10, <1>11, <1>12, <1>13 DEF CacheInv

\* IInv is an invariant of every project whose headers have no guarded include.
THEOREM Inductive ==
  ASSUME UnguardedHeaders
  PROVE  Spec => []IInv
<1>1. Init => IInv
  <2> SUFFICES ASSUME Init PROVE IInv
    OBVIOUS
  <2>1. TypeOK
    BY InitType
  <2>2. StackInv
    BY DEF Init, StackInv
  <2>3. /\ ci.newFEs = {} /\ Loaded(ci) = {}
        /\ \A f \in Files : ci.includees[f] = {}
    BY DEF Init, Empty, Loaded
  <2>4. EdgeInv /\ LoadInv /\ NoDanglingInclude
    BY <2>3 DEF EdgeInv, LoadInv, NoDanglingInclude
  <2> QED
    BY <2>1, <2>2, <2>4 DEF IInv
<1>2. IInv /\ [Next]_vars => IInv'
  <2> SUFFICES ASSUME IInv, [Next]_vars PROVE IInv'
    OBVIOUS
  <2>1. TypeOK'
    BY NextType DEF IInv, StackInv, LexInv
  <2>2. StackInv' /\ CacheInv'
    BY RestInductive, LexInductive, EnterInductive, IncludeInductive, UnloadInductive
       DEF Next, ServerStep
  <2> QED
    BY <2>1, <2>2 DEF IInv, CacheInv
<1> QED
  BY <1>1, <1>2, PTL DEF Spec

\* No header outlives, in the cache, a header it was seen to include: the
\* unloading of a modified or mutable file reaches everything that contains it,
\* for any project whose headers include others plainly.
THEOREM NothingDangles ==
  ASSUME UnguardedHeaders
  PROVE  Spec => []NoDanglingInclude
BY Inductive, PTL DEF IInv
=============================================================================
