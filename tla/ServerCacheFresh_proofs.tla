------------------------ MODULE ServerCacheFresh_proofs ------------------------
(***************************************************************************)
(* Proof that a successful compilation has seen what one with an empty     *)
(* cache would have seen.                                                  *)
(***************************************************************************)
EXTENDS ServerCacheResults_proofs

\* Headers do not include one another in a circle.
Acyclic ==
  \A T \in SUBSET Headers : T # {} => \E f \in T : DirectIncludes[f] \cap T = {}

\* No main file takes back a watched macro; CacheUndef is what happens then.
NoUndef ==
  \A f \in Mains : \A i \in DOMAIN Lines[f] :
    Lines[f][i].op = "undef" => Lines[f][i].macro \notin Watched

\* A header that tests a macro which nobody watches is one that the configuration
\* calls mutable, or a source file that only main files include.
Configured ==
  \A f \in Headers, m \in Macros \ Watched : Tests(f, m) =>
    f \in Mutable \/ (f \in CSources /\ \A g \in Headers : f \notin DirectIncludes[g])

-----------------------------------------------------------------------------
(* Includes. *)

LEMMA LinesType ==
  ASSUME NEW f \in Files, NEW i \in DOMAIN Lines[f]
  PROVE  /\ Lines[f][i].op \in Ops /\ Lines[f][i].file \in Headers
         /\ Lines[f][i].file \in Files /\ Lines[f][i].macro \in Macros
         /\ i \in Nat \ {0} /\ DOMAIN Lines[f] = 1 .. Len(Lines[f]) /\ Len(Lines[f]) \in Nat
<1>1. Lines[f] \in Seq([op : Ops, file : Headers, macro : Macros])
  BY ConstantsAssumption
<1>2. DOMAIN Lines[f] = 1 .. Len(Lines[f]) /\ Len(Lines[f]) \in Nat
  BY <1>1, LenProperties
<1>3. Lines[f][i] \in [op : Ops, file : Headers, macro : Macros]
  BY <1>1, <1>2, ElementOfSeq
<1> QED
  BY <1>2, <1>3 DEF Files

LEMMA DirectType ==
  /\ DirectIncludes \in [Files -> SUBSET Headers]
  /\ DirectIncludes \in [Files -> SUBSET Files]
  /\ \A f \in Files : \A i \in DOMAIN Lines[f] :
       Includes(f, i) => Lines[f][i].file \in DirectIncludes[f]
BY LinesType DEF DirectIncludes, Includes, Files

LEMMA ClosureIsLeast ==
  ASSUME NEW f \in Files
  PROVE  /\ Closure(f) \in SUBSET Files /\ f \in Closure(f)
         /\ \A g \in Closure(f) : DirectIncludes[g] \subseteq Closure(f)
         /\ \A T \in SUBSET Files :
              f \in T /\ (\A g \in T : DirectIncludes[g] \subseteq T) => Closure(f) \subseteq T
<1> DEFINE N == DirectIncludes
<1>1. N \in [Files -> SUBSET Files] /\ {f} \in SUBSET Files
  BY DirectType
<1> HIDE DEF N
<1>2. /\ Reach({f}, N, {}) \in SUBSET Files
      /\ {f} \ {} \subseteq Reach({f}, N, {})
      /\ ClosedUnder(Reach({f}, N, {}), N, {})
      /\ \A T \in SUBSET Files :
           {f} \ {} \subseteq T /\ ClosedUnder(T, N, {}) => Reach({f}, N, {}) \subseteq T
  BY <1>1, ReachIsLeast
<1>3. Closure(f) = Reach({f}, N, {})
  BY DEF Closure, N
<1>4. Closure(f) \in SUBSET Files /\ f \in Closure(f)
  BY <1>2, <1>3
<1>5. \A g \in Closure(f) : N[g] \subseteq Closure(f)
  BY <1>2, <1>3 DEF ClosedUnder
<1>6. ASSUME NEW T \in SUBSET Files, f \in T, \A g \in T : N[g] \subseteq T
      PROVE  Closure(f) \subseteq T
  <2>1. ClosedUnder(T, N, {})
    BY <1>6 DEF ClosedUnder
  <2> QED
    BY <1>2, <1>3, <1>6, <2>1
<1> QED
  BY <1>4, <1>5, <1>6 DEF N

LEMMA ClosureSplit ==
  ASSUME NEW f \in Files
  PROVE  Closure(f) = {f} \cup UNION {Closure(g) : g \in DirectIncludes[f]}
<1> DEFINE T == {f} \cup UNION {Closure(g) : g \in DirectIncludes[f]}
<1>1. \A g \in DirectIncludes[f] : g \in Files
  BY DirectType
<1>2. T \in SUBSET Files
  BY <1>1, ClosureIsLeast
<1>3. \A h \in T : DirectIncludes[h] \subseteq T
  BY <1>1, ClosureIsLeast
<1>4. Closure(f) \subseteq T
  BY <1>2, <1>3, ClosureIsLeast
<1>5. ASSUME NEW g \in DirectIncludes[f] PROVE Closure(g) \subseteq Closure(f)
  <2>1. Closure(f) \in SUBSET Files /\ g \in Closure(f)
        /\ \A h \in Closure(f) : DirectIncludes[h] \subseteq Closure(f)
    BY ClosureIsLeast
  <2> QED
    BY <1>1, <2>1, ClosureIsLeast
<1>6. T \subseteq Closure(f)
  BY <1>5, ClosureIsLeast
<1> QED
  BY <1>4, <1>6
-----------------------------------------------------------------------------
(* The include stack. *)

LEMMA StackType ==
  ASSUME TypeOK
  PROVE  /\ stack \in Seq(Frames) /\ Len(stack) \in Nat /\ DOMAIN stack = 1 .. Len(stack)
         /\ \A k \in DOMAIN stack : stack[k].file \in Files /\ stack[k].line \in Nat \ {0}
<1>1. stack \in Seq(Frames)
  BY DEF TypeOK, Frames
<1>2. Len(stack) \in Nat /\ DOMAIN stack = 1 .. Len(stack)
  BY <1>1, LenProperties
<1>3. \A k \in DOMAIN stack : stack[k] \in Frames
  BY <1>1, <1>2, ElementOfSeq
<1> QED
  BY <1>1, <1>2, <1>3 DEF Frames

\* The main file is at the bottom, and each file includes the next.
LEMMA Nested ==
  ASSUME TypeOK, LexInv, PathInv, phase = "lex"
  PROVE  /\ Len(stack) >= 1 /\ stack[1].file = cmd.main /\ cmd.main \in Mains
         /\ \A k \in 1 .. Len(stack) - 1 : stack[k + 1].file \in DirectIncludes[stack[k].file]
         /\ \A k \in 2 .. Len(stack) : stack[k].file \in Headers
<1>1. /\ Len(stack) \in Nat /\ Len(stack) >= 1 /\ stack[1].file = cmd.main
      /\ cmd.main \in Mains
  BY StackLength DEF PathInv, TypeOK
<1>2. ASSUME NEW k \in 1 .. Len(stack) - 1
      PROVE  stack[k + 1].file \in DirectIncludes[stack[k].file]
  <2>1. stack[k].file \in Files
    BY <1>1, <1>2, StackType
  <2> QED
    BY <1>2, <2>1, DirectType DEF PathInv
<1>3. ASSUME NEW k \in 2 .. Len(stack) PROVE stack[k].file \in Headers
  <2>1. k - 1 \in 1 .. Len(stack) - 1 /\ k - 1 \in 1 .. Len(stack) /\ (k - 1) + 1 = k
    BY <1>1, <1>3
  <2>2. stack[k].file \in DirectIncludes[stack[k - 1].file]
    BY <1>2, <2>1
  <2>3. stack[k - 1].file \in Files
    BY <2>1, StackType
  <2> QED
    BY <2>2, <2>3, DirectType
<1> QED
  BY <1>1, <1>2, <1>3

\* No file includes one that is being read below it, or itself.
LEMMA NoWayBack ==
  ASSUME Acyclic, TypeOK, LexInv, PathInv, phase = "lex",
         NEW j \in DOMAIN stack, NEW i \in DOMAIN stack, i <= j
  PROVE  stack[i].file \notin DirectIncludes[stack[j].file]
<1> SUFFICES ASSUME stack[i].file \in DirectIncludes[stack[j].file] PROVE FALSE
  OBVIOUS
<1>1. /\ DOMAIN stack = 1 .. Len(stack) /\ Len(stack) \in Nat
      /\ \A k \in DOMAIN stack : stack[k].file \in Files
  BY StackType
<1>2. i \in 2 .. Len(stack)
  <2>1. stack[i].file \in Headers
    BY <1>1, DirectType
  <2>2. i # 1
    BY <2>1, Nested, ConstantsAssumption
  <2> QED
    BY <1>1, <2>2
<1> DEFINE T == {stack[k].file : k \in i .. j}
<1>3. T \in SUBSET Headers
  BY <1>1, <1>2, Nested
<1>4. stack[i].file \in T /\ j \in 1 .. Len(stack)
  BY <1>1
<1>5. PICK f \in T : DirectIncludes[f] \cap T = {}
  BY <1>3, <1>4 DEF Acyclic
<1>6. PICK k \in i .. j : f = stack[k].file
  BY <1>5
<1>7. CASE k = j
  BY <1>4, <1>5, <1>6, <1>7
<1>8. CASE k # j
  <2>1. k \in 1 .. Len(stack) - 1 /\ k + 1 \in i .. j
    BY <1>1, <1>6, <1>8
  <2>2. stack[k + 1].file \in DirectIncludes[f] /\ stack[k + 1].file \in T
    BY <1>6, <2>1, Nested
  <2> QED
    BY <1>5, <2>2
<1> QED
  BY <1>7, <1>8

LEMMA Distinct ==
  ASSUME Acyclic, TypeOK, LexInv, PathInv, phase = "lex",
         NEW i \in DOMAIN stack, NEW j \in DOMAIN stack, stack[i].file = stack[j].file
  PROVE  i = j
<1>1. ASSUME NEW a \in DOMAIN stack, NEW b \in DOMAIN stack, a < b
      PROVE  stack[a].file # stack[b].file
  <2>1. /\ b - 1 \in 1 .. Len(stack) - 1 /\ b - 1 \in DOMAIN stack /\ a <= b - 1
        /\ (b - 1) + 1 = b
    BY <1>1, StackType
  <2>2. stack[b].file \in DirectIncludes[stack[b - 1].file]
    BY <2>1, Nested
  <2> QED
    BY <2>1, <2>2, NoWayBack
<1>2. i \in Nat /\ j \in Nat
  BY StackType
<1> QED
  BY <1>1, <1>2

\* What a line includes is not being read.
LEMMA NotBeingRead ==
  ASSUME Acyclic, TypeOK, LexInv, PathInv, phase = "lex",
         NEW n \in DOMAIN Lines[Top.file], Includes(Top.file, n), NEW k \in DOMAIN stack
  PROVE  stack[k].file # Lines[Top.file][n].file
<1>1. Len(stack) \in DOMAIN stack /\ k <= Len(stack) /\ Top.file \in Files
  BY StackType, StackLength
<1>2. Lines[Top.file][n].file \in DirectIncludes[Top.file]
  BY <1>1, DirectType
<1> QED
  BY <1>1, <1>2, NoWayBack DEF Top
-----------------------------------------------------------------------------
(* The lines that have been read. *)

LEMMA PastOff ==
  ASSUME NEW f \in Files, \A k \in DOMAIN stack : stack[k].file # f
  PROVE  Past(f) = DOMAIN Lines[f]
BY DEF Past

LEMMA PastAt ==
  ASSUME Acyclic, TypeOK, LexInv, PathInv, phase = "lex", NEW k \in DOMAIN stack
  PROVE  Past(stack[k].file) = {i \in DOMAIN Lines[stack[k].file] : i < stack[k].line}
<1>1. \A j \in DOMAIN stack : stack[j].file = stack[k].file => j = k
  BY Distinct
<1> QED
  BY <1>1 DEF Past

\* A file that is read to its end.
LEMMA PastTop ==
  ASSUME Acyclic, TypeOK, LexInv, PathInv, phase = "lex",
         Top.line \notin DOMAIN Lines[Top.file]
  PROVE  Past(Top.file) = DOMAIN Lines[Top.file]
<1>1. Len(stack) \in DOMAIN stack /\ Top.file \in Files /\ Top.line \in Nat \ {0}
  BY StackType, StackLength
<1>2. Past(Top.file) = {i \in DOMAIN Lines[Top.file] : i < Top.line}
  BY <1>1, PastAt DEF Top
<1>3. \A i \in DOMAIN Lines[Top.file] : i < Top.line
  BY <1>1, LinesType
<1> QED
  BY <1>2, <1>3

\* Line n of f has been read, and that is all.
LineRead(f, n) == \A h \in Files : Past(h)' = IF h = f THEN Past(h) \cup {n} ELSE Past(h)

\* The stack is left with n files, and goes on with the next line of the last one.
Moved(n) ==
  /\ n \in 1 .. Len(stack) /\ stack' \in Seq(Frames) /\ Len(stack') = n
  /\ \A k \in 1 .. n : /\ stack'[k].file = stack[k].file
                       /\ stack'[k].line = stack[k].line + (IF k = n THEN 1 ELSE 0)

\* The files above place n have been read, and the line of the one there.
LEMMA PastMove ==
  ASSUME Acyclic, TypeOK, LexInv, PathInv, phase = "lex",
         NEW n, Moved(n), NEW f \in Files, f = stack[n].file, stack[n].line \in DOMAIN Lines[stack[n].file],
         \A k \in n + 1 .. Len(stack) : Past(stack[k].file) = DOMAIN Lines[stack[k].file]
  PROVE  LineRead(f, stack[n].line)
<1>0. /\ n \in 1 .. Len(stack) /\ stack' \in Seq(Frames) /\ Len(stack') = n
      /\ \A k \in 1 .. n : /\ stack'[k].file = stack[k].file
                           /\ stack'[k].line = stack[k].line + (IF k = n THEN 1 ELSE 0)
  BY DEF Moved
<1>1. /\ DOMAIN stack = 1 .. Len(stack) /\ Len(stack) \in Nat
      /\ \A k \in DOMAIN stack : stack[k].file \in Files /\ stack[k].line \in Nat \ {0}
  BY StackType
<1>2. DOMAIN stack' = 1 .. n
  BY <1>0, LenProperties
<1>3. Past(f)' = Past(f) \cup {stack[n].line}
  <2>1. Past(f) = {i \in DOMAIN Lines[f] : i < stack[n].line}
    BY <1>0, <1>1, PastAt
  <2>2. \A k \in 1 .. n : stack[k].file = f <=> k = n
    BY <1>0, <1>1, Distinct
  <2>3. Past(f)' = {i \in DOMAIN Lines[f] : i < stack[n].line + 1}
    BY <1>0, <1>2, <2>2 DEF Past
  <2>4. \A i \in DOMAIN Lines[f] : i \in Nat
    BY <1>0, <1>1, LinesType
  <2>5. stack[n].line \in Nat
    BY <1>0, <1>1
  <2> QED
    BY <2>1, <2>3, <2>4, <2>5
<1>4. ASSUME NEW h \in Files, h # f PROVE Past(h)' = Past(h)
  <2>1. ASSUME NEW i \in Past(h) PROVE i \in Past(h)'
    <3>1. i \in DOMAIN Lines[h] /\ \A k \in 1 .. n : stack[k].file = h => i < stack[k].line
      BY <1>0, <1>1, <2>1 DEF Past
    <3>2. ASSUME NEW k \in 1 .. n, stack'[k].file = h
          PROVE  k # n /\ stack'[k].line = stack[k].line
      <4>1. stack[k].file = h /\ k # n
        BY <1>0, <1>4, <3>2
      <4>2. stack'[k].line = stack[k].line + 0 /\ stack[k].line \in Nat
        BY <1>0, <1>1, <4>1
      <4> QED
        BY <4>1, <4>2
    <3>3. \A k \in DOMAIN stack' : stack'[k].file = h => i < stack'[k].line
      BY <1>0, <1>2, <3>1, <3>2
    <3> QED
      BY <3>1, <3>3 DEF Past
  <2>2. ASSUME NEW i \in Past(h)' PROVE i \in Past(h)
    <3>1. i \in DOMAIN Lines[h] /\ \A k \in 1 .. n : stack'[k].file = h => i < stack'[k].line
      BY <1>0, <1>2, <2>2 DEF Past
    <3>2. ASSUME NEW k \in DOMAIN stack, stack[k].file = h PROVE i < stack[k].line
      <4>1. CASE k \in 1 .. n
        <5>1. stack'[k].file = h /\ k # n
          BY <1>0, <1>4, <3>2, <4>1
        <5>2. stack'[k].line = stack[k].line + 0 /\ stack[k].line \in Nat
          BY <1>0, <1>1, <4>1, <5>1
        <5> QED
          BY <3>1, <4>1, <5>1, <5>2
      <4>2. CASE k \notin 1 .. n
        <5>1. k \in n + 1 .. Len(stack)
          BY <1>0, <1>1, <4>2
        <5>2. i \in Past(stack[k].file)
          BY <3>1, <3>2, <5>1
        <5> QED
          BY <3>2, <5>2 DEF Past
      <4> QED
        BY <4>1, <4>2
    <3> QED
      BY <3>1, <3>2 DEF Past
  <2> QED
    BY <2>1, <2>2
<1>5. \A h \in Files : Past(h)' = IF h = f THEN Past(h) \cup {stack[n].line} ELSE Past(h)
  BY <1>3, <1>4
<1> QED
  BY <1>5 DEF LineRead

LEMMA AdvancedLine ==
  ASSUME NEW e \in Frames
  PROVE  /\ e.line = e.line + 0
         /\ [e EXCEPT !.line = @ + 1].file = e.file
         /\ [e EXCEPT !.line = @ + 1].line = e.line + 1
BY DEF Frames

LEMMA PastNext ==
  ASSUME Acyclic, TypeOK, LexInv, PathInv, phase = "lex", NextLine,
         Top.line \in DOMAIN Lines[Top.file]
  PROVE  LineRead(Top.file, Top.line) /\ Moved(Len(stack))
<1> DEFINE n == Len(stack)
<1>1. stack \in Seq(Frames) /\ n \in Nat /\ n \in 1 .. n
  BY StackType, StackLength
<1>2. stack' \in Seq(Frames) /\ Len(stack') = n
  BY NextLineSameFiles
<1>3. /\ \A k \in 1 .. n : stack[k] \in Frames
      /\ stack' = [stack EXCEPT ![n].line = @ + 1] /\ DOMAIN stack = 1 .. n
  BY <1>1, StackType, ElementOfSeq DEF NextLine
<1>4. \A k \in 1 .. n : stack'[k] = IF k = n THEN [stack[k] EXCEPT !.line = @ + 1] ELSE stack[k]
  BY <1>3
<1>5. \A k \in 1 .. n : /\ stack'[k].file = stack[k].file
                        /\ stack'[k].line = stack[k].line + (IF k = n THEN 1 ELSE 0)
  BY <1>1, <1>3, <1>4, AdvancedLine
<1>6. n + 1 .. n = {}
  BY <1>1
<1>7. Moved(n)
  BY <1>1, <1>2, <1>5 DEF Moved
<1>8. Top.file \in Files
  BY StackLength
<1> QED
  BY <1>6, <1>7, <1>8, PastMove DEF Top

LEMMA PastPop ==
  ASSUME Acyclic, TypeOK, LexInv, PathInv, EndOfFile, Len(stack) # 1
  PROVE  LET outer == stack[Len(stack) - 1]
         IN  /\ outer.line \in DOMAIN Lines[outer.file] /\ Includes(outer.file, outer.line)
             /\ Lines[outer.file][outer.line].file = Top.file
             /\ LineRead(outer.file, outer.line) /\ Moved(Len(stack) - 1)
<1> DEFINE n == Len(stack) - 1
<1>0. phase = "lex"
  BY DEF EndOfFile
<1>1. /\ stack \in Seq(Frames) /\ Len(stack) \in Nat /\ n \in Nat /\ n + 1 = Len(stack)
      /\ n \in 1 .. Len(stack) /\ n \in 1 .. Len(stack) - 1 /\ DOMAIN stack = 1 .. Len(stack)
  BY <1>0, StackType, StackLength
<1>2. stack' = [SubSeq(stack, 1, n) EXCEPT ![n].line = @ + 1]
  BY DEF EndOfFile
<1>3. stack' \in Seq(Frames) /\ Len(stack') = n
  BY <1>0, <1>2, Popped
<1>4. /\ \A k \in 1 .. n : stack[k] \in Frames
      /\ DOMAIN SubSeq(stack, 1, n) = 1 .. n
      /\ \A k \in 1 .. n : SubSeq(stack, 1, n)[k] = stack[k]
  BY <1>1, ElementOfSeq
<1>5. \A k \in 1 .. n : stack'[k] = IF k = n THEN [stack[k] EXCEPT !.line = @ + 1] ELSE stack[k]
  BY <1>2, <1>4
<1>6. \A k \in 1 .. n : /\ stack'[k].file = stack[k].file
                        /\ stack'[k].line = stack[k].line + (IF k = n THEN 1 ELSE 0)
  BY <1>4, <1>5, AdvancedLine
<1>7. /\ stack[n].line \in DOMAIN Lines[stack[n].file]
      /\ Includes(stack[n].file, stack[n].line)
      /\ Lines[stack[n].file][stack[n].line].file = Top.file
  BY <1>1 DEF PathInv, Top
<1>8. \A k \in n + 1 .. Len(stack) : Past(stack[k].file) = DOMAIN Lines[stack[k].file]
  <2>1. Past(Top.file) = DOMAIN Lines[Top.file]
    BY <1>0, PastTop DEF EndOfFile
  <2>2. \A k \in n + 1 .. Len(stack) : k = Len(stack)
    <3> HIDE DEF n
    <3>1. \A k \in n + 1 .. n + 1 : k = n + 1
      BY <1>1
    <3> QED
      BY <1>1, <3>1
  <2> QED
    BY <2>1, <2>2 DEF Top
<1>9. Moved(n)
  BY <1>1, <1>3, <1>6 DEF Moved
<1>10. stack[n].file \in Files
  BY <1>1, StackType
<1> QED
  BY <1>0, <1>7, <1>8, <1>9, <1>10, PastMove

\* A file is entered.
LEMMA PastPush ==
  ASSUME TypeOK, NEW g \in Files, \A k \in DOMAIN stack : stack[k].file # g,
         stack' = Append(stack, [file |-> g, line |-> 1])
  PROVE  \A h \in Files : Past(h)' = IF h = g THEN {} ELSE Past(h)
<1> DEFINE e == [file |-> g, line |-> 1]
<1>1. stack \in Seq(Frames) /\ Len(stack) \in Nat /\ DOMAIN stack = 1 .. Len(stack)
  BY StackType
<1>2. e \in Frames /\ e.file = g /\ e.line = 1
  BY DEF Frames
<1>3. /\ stack' \in Seq(Frames) /\ Len(stack') = Len(stack) + 1
      /\ \A k \in 1 .. Len(stack) : stack'[k] = stack[k]
      /\ stack'[Len(stack) + 1] = e
  BY <1>1, <1>2, AppendProperties
<1>4. DOMAIN stack' = 1 .. Len(stack) + 1
  BY <1>3, LenProperties
<1> HIDE DEF e
<1>5. \A k \in 1 .. Len(stack) + 1 : k \in 1 .. Len(stack) \/ k = Len(stack) + 1
  BY <1>1
<1>6. ASSUME NEW h \in Files, h # g PROVE Past(h)' = Past(h)
  BY <1>1, <1>2, <1>3, <1>4, <1>5, <1>6 DEF Past
<1>7. Past(g)' = {}
  <2>1. \A i \in DOMAIN Lines[g] : ~(i < 1)
    BY LinesType
  <2>2. Len(stack) + 1 \in DOMAIN stack'
    BY <1>1, <1>4
  <2> QED
    BY <1>2, <1>3, <2>1, <2>2 DEF Past
<1> QED
  BY <1>6, <1>7

\* What has been included then.
LEMMA IncludesRead ==
  ASSUME NEW f \in Files, NEW n \in DOMAIN Lines[f], LineRead(f, n)
  PROVE  \A h \in Files : PastIncludes(h)' =
           IF h = f /\ Includes(f, n) THEN PastIncludes(h) \cup {Lines[f][n].file}
           ELSE PastIncludes(h)
<1>1. \A h \in Files : h # f => PastIncludes(h)' = PastIncludes(h)
  BY DEF LineRead, PastIncludes, Includes
<1>2. Past(f)' = Past(f) \cup {n}
  BY DEF LineRead
<1> DEFINE I(S) == {Lines[f][i].file : i \in {j \in S : Includes(f, j)}}
<1>3. PastIncludes(f) = I(Past(f)) /\ PastIncludes(f)' = I(Past(f)')
  BY DEF PastIncludes, Includes
<1>4. I(Past(f) \cup {n}) = IF Includes(f, n) THEN I(Past(f)) \cup {Lines[f][n].file} ELSE I(Past(f))
  OBVIOUS
<1> HIDE DEF I
<1> QED
  BY <1>1, <1>2, <1>3, <1>4

LEMMA PastIncludesType ==
  ASSUME NEW f \in Files
  PROVE  /\ PastIncludes(f) \subseteq DirectIncludes[f] /\ PastIncludes(f) \subseteq Headers
         /\ Past(f) = DOMAIN Lines[f] => PastIncludes(f) = DirectIncludes[f] /\ Covered(f) = Closure(f)
<1>1. PastIncludes(f) \subseteq DirectIncludes[f] /\ PastIncludes(f) \subseteq Headers
  BY LinesType DEF PastIncludes, Past, DirectIncludes, Includes
<1>2. Past(f) = DOMAIN Lines[f] => PastIncludes(f) = DirectIncludes[f]
  BY DEF PastIncludes, DirectIncludes, Includes
<1> QED
  BY <1>1, <1>2, ClosureSplit DEF Covered
-----------------------------------------------------------------------------
(* The facts. *)

\* The facts of f and the lines they are of, after a line that includes g.
LEMMA MergedFiles ==
  ASSUME NEW f \in Files, NEW g \in Files, FactFiles(f) = Covered(f),
         FactFiles(g) = Closure(g), PastIncludes(f)' = PastIncludes(f) \cup {g},
         ci'.facts[f] = ci.facts[f] \cup ci.facts[g]
  PROVE  FactFiles(f)' = Covered(f)'
<1>1. FactFiles(f)' = FactFiles(f) \cup FactFiles(g)
  BY DEF FactFiles
<1>2. Covered(f)' = {f} \cup UNION {Closure(h) : h \in PastIncludes(f)'}
  BY DEF Covered
<1>3. Covered(f)' = Covered(f) \cup Closure(g)
  BY <1>2 DEF Covered
<1> QED
  BY <1>1, <1>3

\* Line n of f, which includes g, is done: f has the facts of g, a whole file.
Merges(f, n) ==
  LET g == Lines[f][n].file
  IN  /\ f \in Loaded(ci) /\ n \in DOMAIN Lines[f] /\ Includes(f, n) /\ LineRead(f, n)
      /\ g \in Loaded(ci) /\ Past(g) = DOMAIN Lines[g]
      /\ \A k \in DOMAIN stack' :
            k \in DOMAIN stack /\ stack'[k].file = stack[k].file /\ stack[k].file # g
      /\ ci'.stat = ci.stat /\ ci'.values = ci.values
      /\ ci'.facts = [ci.facts EXCEPT ![f] = @ \cup ci.facts[g]]
      /\ \A h \in Files : /\ ci.includees[h] \subseteq ci'.includees[h]
                          /\ ci'.includees[h] \subseteq ci.includees[h] \cup (IF h = f THEN {g} ELSE {})
      /\ f \in Headers => g \in ci'.includees[f]
      /\ cmd' = cmd /\ phase = "lex" /\ phase' = "lex"

LEMMA MergeFresh ==
  ASSUME TypeOK, OwnInv, ArgsInv, KnownInv, NEW f \in Files, NEW n, Merges(f, n)
  PROVE  OwnInv' /\ ArgsInv' /\ KnownInv'
<1> DEFINE g == Lines[f][n].file
<1>1. /\ f \in Loaded(ci) /\ n \in DOMAIN Lines[f] /\ Includes(f, n) /\ LineRead(f, n)
      /\ g \in Loaded(ci) /\ Past(g) = DOMAIN Lines[g]
      /\ \A k \in DOMAIN stack' :
            k \in DOMAIN stack /\ stack'[k].file = stack[k].file /\ stack[k].file # g
      /\ ci'.stat = ci.stat
      /\ ci'.facts = [ci.facts EXCEPT ![f] = @ \cup ci.facts[g]]
      /\ \A h \in Files : /\ ci.includees[h] \subseteq ci'.includees[h]
                          /\ ci'.includees[h] \subseteq ci.includees[h] \cup (IF h = f THEN {g} ELSE {})
      /\ f \in Headers => g \in ci'.includees[f]
      /\ cmd' = cmd /\ phase = "lex" /\ phase' = "lex"
  BY DEF Merges
<1>2. g \in Files /\ g \in Headers /\ g \in DirectIncludes[f]
  BY <1>1, LinesType, DirectType
<1>3. \A h \in Files : PastIncludes(h)' = IF h = f THEN PastIncludes(h) \cup {g} ELSE PastIncludes(h)
  BY <1>1, IncludesRead
<1> HIDE DEF g
<1>4. Loaded(ci)' = Loaded(ci)
  BY <1>1 DEF Loaded
<1>5. \A h \in Files : ci'.facts[h] = IF h = f THEN ci.facts[f] \cup ci.facts[g] ELSE ci.facts[h]
  BY <1>1, CacheFields DEF TypeOK
<1>6. OwnInv'
  <2>1. ASSUME NEW k \in DOMAIN stack', NEW h \in Files, NEW x \in ci'.facts[h],
               x.file = stack'[k].file
        PROVE  h = stack'[k].file
    <3>1. k \in DOMAIN stack /\ stack'[k].file = stack[k].file /\ stack[k].file # g
      BY <1>1
    <3>2. x \notin ci.facts[g]
      BY <1>2, <2>1, <3>1 DEF OwnInv
    <3>3. x \in ci.facts[h]
      BY <1>5, <3>2
    <3> QED
      BY <2>1, <3>1, <3>3 DEF OwnInv
  <2>2. ASSUME NEW a \in Files, NEW b \in Files, NEW x \in ci'.facts[a], NEW y \in ci'.facts[b],
               x.file = y.file
        PROVE  x = y
    <3>1. /\ \E c \in Files : x \in ci.facts[c]
          /\ \E c \in Files : y \in ci.facts[c]
      BY <1>2, <1>5
    <3> QED
      BY <2>2, <3>1 DEF OwnInv
  <2> QED
    BY <2>1, <2>2 DEF OwnInv
<1>7. ArgsInv'
  BY <1>1, <1>2, <1>5 DEF ArgsInv
<1>8. KnownInv'
  <2>1. \A h \in Files : ci'.includees[h] \subseteq DirectIncludes[h]
    BY <1>1, <1>2 DEF KnownInv
  <2>2. FactFiles(g) = Closure(g)
    BY <1>1, <1>2, PastIncludesType DEF KnownInv
  <2>3. ASSUME NEW h \in Loaded(ci)' PROVE FactFiles(h)' = Covered(h)'
    <3>1. h \in Files /\ FactFiles(h) = Covered(h)
      BY <1>4, <2>3 DEF KnownInv, Loaded
    <3>2. CASE h = f
      BY <1>2, <1>3, <1>5, <2>2, <3>1, <3>2, MergedFiles
    <3>3. CASE h # f
      BY <1>3, <1>5, <3>1, <3>3 DEF FactFiles, Covered
    <3> QED
      BY <3>2, <3>3
  <2>4. \A h \in Loaded(ci)' \cap Headers : PastIncludes(h)' \subseteq ci'.includees[h]
    <3>1. ASSUME NEW h \in Loaded(ci)' \cap Headers PROVE PastIncludes(h)' \subseteq ci'.includees[h]
      <4>1. h \in Files /\ PastIncludes(h) \subseteq ci.includees[h]
        BY <1>4, <3>1 DEF KnownInv, Loaded
      <4> QED
        BY <1>1, <1>3, <3>1, <4>1
    <3> QED
      BY <3>1
  <2> QED
    BY <2>1, <2>3, <2>4 DEF KnownInv
<1> QED
  BY <1>6, <1>7, <1>8

\* g, which the cache did not hold, is entered.
Enters(g) ==
  /\ g \notin Loaded(ci) /\ disk[g] # Missing
  /\ \A h \in Files : Past(h)' = IF h = g THEN {} ELSE Past(h)
  /\ \A k \in DOMAIN stack' :
        \/ k \in DOMAIN stack /\ stack'[k].file = stack[k].file /\ stack[k].file # g
        \/ stack'[k].file = g
  /\ ci'.stat = [ci.stat EXCEPT ![g] = disk[g]] /\ ci'.values = ci.values
  /\ ci'.facts = [ci.facts EXCEPT ![g] = {OwnFact(g)}]
  /\ \A h \in Files : /\ ci.includees[h] \subseteq ci'.includees[h]
                      /\ ci'.includees[h] \subseteq DirectIncludes[h]
  /\ cmd' = cmd /\ phase # "idle" /\ phase' = "lex"

LEMMA EnterFresh ==
  ASSUME TypeOK, FactsInv, OwnInv, ArgsInv, KnownInv, NEW g \in Files, Enters(g)
  PROVE  /\ OwnInv' /\ ArgsInv' /\ KnownInv'
         /\ \A h \in Files : h \in Loaded(ci)' <=> h \in Loaded(ci) \/ h = g
<1>1. /\ g \notin Loaded(ci) /\ disk[g] # Missing
      /\ \A h \in Files : Past(h)' = IF h = g THEN {} ELSE Past(h)
      /\ \A k \in DOMAIN stack' :
            \/ k \in DOMAIN stack /\ stack'[k].file = stack[k].file /\ stack[k].file # g
            \/ stack'[k].file = g
      /\ \A h \in Files : /\ ci.includees[h] \subseteq ci'.includees[h]
                          /\ ci'.includees[h] \subseteq DirectIncludes[h]
      /\ cmd' = cmd /\ phase # "idle" /\ phase' = "lex"
  BY DEF Enters
<1>2. /\ \A h \in Files : ci'.stat[h] = IF h = g THEN disk[g] ELSE ci.stat[h]
      /\ \A h \in Files : ci'.facts[h] = IF h = g THEN {OwnFact(g)} ELSE ci.facts[h]
  BY CacheFields DEF Enters, TypeOK
<1>3. \A h \in Files : h \in Loaded(ci)' <=> h \in Loaded(ci) \/ h = g
  BY <1>1, <1>2 DEF Loaded
<1>4. \A h \in Files : PastIncludes(h)' = IF h = g THEN {} ELSE PastIncludes(h)
  BY <1>1 DEF PastIncludes, Includes
<1>5. \A h \in Files : \A x \in ci.facts[h] : x.file # g
  BY <1>1 DEF FactsInv
<1>6. OwnFact(g).file = g /\ OwnFact(g).args = cmd.args
  BY DEF OwnFact
<1>7. \A h \in Files : \A x \in ci'.facts[h] :
        (h # g /\ x \in ci.facts[h] /\ x.file # g) \/ (h = g /\ x.file = g /\ x = OwnFact(g))
  BY <1>2, <1>5, <1>6
<1>8. OwnInv'
  <2>1. ASSUME NEW k \in DOMAIN stack', NEW h \in Files, NEW x \in ci'.facts[h],
               x.file = stack'[k].file
        PROVE  h = stack'[k].file
    <3>1. CASE stack'[k].file = g
      BY <1>7, <2>1, <3>1
    <3>2. CASE k \in DOMAIN stack /\ stack'[k].file = stack[k].file /\ stack[k].file # g
      <4>1. x \in ci.facts[h]
        BY <1>7, <2>1, <3>2
      <4> QED
        BY <2>1, <3>2, <4>1 DEF OwnInv
    <3> QED
      BY <1>1, <3>1, <3>2
  <2>2. \A a, b \in Files : \A x \in ci'.facts[a], y \in ci'.facts[b] : x.file = y.file => x = y
    BY <1>7 DEF OwnInv
  <2> QED
    BY <2>1, <2>2 DEF OwnInv
<1>9. ArgsInv'
  BY <1>1, <1>6, <1>7 DEF ArgsInv
<1>10. KnownInv'
  <2>1. ASSUME NEW h \in Loaded(ci)' PROVE FactFiles(h)' = Covered(h)'
    <3>1. h \in Files
      BY <2>1 DEF Loaded
    <3>2. CASE h = g
      <4>1. FactFiles(g)' = {g}
        BY <1>2, <1>6 DEF FactFiles
      <4>2. Covered(g)' = {g}
        BY <1>4 DEF Covered
      <4> QED
        BY <3>2, <4>1, <4>2
    <3>3. CASE h # g
      <4>1. FactFiles(h) = Covered(h) /\ PastIncludes(h)' = PastIncludes(h) /\ ci'.facts[h] = ci.facts[h]
        BY <1>2, <1>3, <1>4, <2>1, <3>1, <3>3 DEF KnownInv
      <4> QED
        BY <4>1 DEF FactFiles, Covered
    <3> QED
      BY <3>2, <3>3
  <2>2. ASSUME NEW h \in Loaded(ci)' \cap Headers PROVE PastIncludes(h)' \subseteq ci'.includees[h]
    <3>1. h \in Files
      BY <2>2 DEF Loaded
    <3> QED
      BY <1>1, <1>3, <1>4, <2>2, <3>1 DEF KnownInv
  <2> QED
    BY <1>1, <2>1, <2>2 DEF KnownInv
<1> QED
  BY <1>3, <1>8, <1>9, <1>10
-----------------------------------------------------------------------------
(* What a step keeps when it leaves some of the cache alone. *)

LEMMA KeepPath ==
  ASSUME TypeOK, PathInv, NEW n, Moved(n), phase = "lex", phase' = "lex", cmd' = cmd
  PROVE  PathInv' /\ \A k \in DOMAIN stack' : k \in DOMAIN stack /\ stack'[k].file = stack[k].file
<1>1. /\ n \in 1 .. Len(stack) /\ stack' \in Seq(Frames) /\ Len(stack') = n
      /\ \A k \in 1 .. n : stack'[k].file = stack[k].file
  BY DEF Moved
<1>2. /\ DOMAIN stack' = 1 .. n /\ DOMAIN stack = 1 .. Len(stack) /\ Len(stack) \in Nat
      /\ \A k \in DOMAIN stack : stack[k].line \in Nat
  BY <1>1, LenProperties, StackType
<1>3. 1 \in 1 .. n /\ n \in Nat
  BY <1>1, <1>2
<1>4. stack'[1].file = cmd'.main
  BY <1>1, <1>3 DEF PathInv
<1>5. ASSUME NEW k \in 1 .. n - 1
      PROVE  /\ stack'[k].line \in DOMAIN Lines[stack'[k].file]
             /\ Includes(stack'[k].file, stack'[k].line)
             /\ Lines[stack'[k].file][stack'[k].line].file = stack'[k + 1].file
  <2>1. k \in 1 .. n /\ k + 1 \in 1 .. n /\ k # n /\ k \in 1 .. Len(stack) - 1 /\ k \in DOMAIN stack
    BY <1>1, <1>2, <1>3, <1>5
  <2>2. stack'[k].line = stack[k].line + 0
    BY <2>1 DEF Moved
  <2>3. stack'[k].line = stack[k].line
    BY <1>2, <2>1, <2>2
  <2> QED
    BY <1>1, <2>1, <2>3 DEF PathInv
<1>6. PathInv'
  BY <1>1, <1>4, <1>5 DEF PathInv, Includes
<1> QED
  BY <1>1, <1>2, <1>3, <1>6

LEMMA UserFilesGrow ==
  ASSUME ci.newFEs \subseteq ci'.newFEs
  PROVE  UserFiles(ci) \subseteq UserFiles(ci')
BY DEF UserFiles, MainOf, NewFiles, IncludedBy

LEMMA KeepSensitive ==
  ASSUME SensitiveInv, ci.newFEs \subseteq ci'.newFEs,
         \A f \in Headers : f \in Loaded(ci)' => f \in Loaded(ci)
  PROVE  SensitiveInv'
BY UserFilesGrow DEF SensitiveInv, Tests

LEMMA KeepMacro ==
  ASSUME TypeOK, MacroInv, NEW n, Moved(n), phase = "lex",
         ci'.macro = ci.macro, ci'.defined = ci.defined,
         \A k \in 2 .. Len(stack) : at'[stack[k].file] = at[stack[k].file]
  PROVE  MacroInv'
<1>1. n \in 1 .. Len(stack) /\ Len(stack') = n /\ Len(stack) \in Nat
  BY StackType DEF Moved
<1>2. \A k \in 2 .. n : k \in 2 .. Len(stack) /\ stack'[k].file = stack[k].file
  BY <1>1 DEF Moved
<1> QED
  BY <1>1, <1>2 DEF MacroInv

\* What a header saw of the macros is what it would see now.
SeesNow(f) ==
  \A x \in ci.facts[f], i \in Past(f) : x.file = f /\ Lines[f][i].op = "use" =>
    x.macro[Lines[f][i].macro] =
      IF Lines[f][i].macro \in at'[f] THEN "defined" ELSE "undefined"

\* Nothing becomes of the lines of a header that test macros.
SeenBefore(f) ==
  /\ f \in Loaded(ci) /\ ci'.values[f] = ci.values[f]
  /\ \A i \in Past(f)' : Lines[f][i].op = "use" => i \in Past(f)
  /\ \A x \in ci'.facts[f] : x.file = f => x \in ci.facts[f]
  /\ phase' \in {"lex", "done"} /\ f \in ci'.included =>
       \/ phase \in {"lex", "done"} /\ f \in ci.included /\ at'[f] = at[f]
       \/ SeesNow(f)

LEMMA KeepSeen ==
  ASSUME SeenInv,
         \A f \in Headers : f \in Loaded(ci)' => Past(f)' = {} \/ SeenBefore(f)
  PROVE  SeenInv'
<1> SUFFICES ASSUME NEW f \in Loaded(ci)' \cap Headers, NEW x \in ci'.facts[f], NEW i \in Past(f)',
                    x.file = f, Lines[f][i].op = "use"
             PROVE  LET m == Lines[f][i].macro
                    IN  /\ m \in Watched => ci'.values[f][m] # "unread" /\ x.macro[m] = ci'.values[f][m]
                        /\ phase' \in {"lex", "done"} /\ f \in ci'.included =>
                             x.macro[m] = IF m \in at'[f] THEN "defined" ELSE "undefined"
  BY DEF SeenInv, Now
<1>1. SeenBefore(f)
  OBVIOUS
<1> QED
  BY <1>1 DEF SeenBefore, SeesNow, SeenInv, Now

\* The files of a line that includes another are seen as before.
LEMMA MergeSeen ==
  ASSUME TypeOK, OwnInv, NEW f \in Files, NEW n, Merges(f, n),
         NEW k \in DOMAIN stack', f = stack'[k].file, NEW h \in Headers, h \in Loaded(ci)'
  PROVE  /\ h \in Loaded(ci) /\ ci'.values[h] = ci.values[h]
         /\ \A i \in Past(h)' : Lines[h][i].op = "use" => i \in Past(h)
         /\ \A x \in ci'.facts[h] : x.file = h => x \in ci.facts[h]
<1> DEFINE g == Lines[f][n].file
<1>1. /\ n \in DOMAIN Lines[f] /\ Includes(f, n) /\ LineRead(f, n)
      /\ k \in DOMAIN stack /\ stack[k].file = f /\ f # g
      /\ ci'.stat = ci.stat /\ ci'.values = ci.values /\ g \in Files
      /\ ci'.facts = [ci.facts EXCEPT ![f] = @ \cup ci.facts[g]]
  BY DEF Merges, Loaded
<1> HIDE DEF g
<1>2. h \in Loaded(ci) /\ h \in Files
  BY <1>1 DEF Loaded, Files
<1>3. \A i \in Past(h)' : Lines[h][i].op = "use" => i \in Past(h)
  BY <1>1, <1>2 DEF LineRead, Includes
<1>4. ci'.facts[h] = IF h = f THEN ci.facts[f] \cup ci.facts[g] ELSE ci.facts[h]
  BY <1>1, <1>2, CacheFields DEF TypeOK
<1>5. \A x \in ci.facts[g] : x.file # f
  BY <1>1 DEF OwnInv
<1> QED
  BY <1>1, <1>2, <1>3, <1>4, <1>5

LEMMA KeepIncluded ==
  ASSUME IncludedInv, phase \in {"lex", "done"}, cmd' = cmd, ci'.stat = ci.stat,
         ci'.included = ci.included, ci'.newFEs = ci.newFEs,
         \A f \in Files : PastIncludes(f)' \subseteq PastIncludes(f) \cup ci.included
  PROVE  IncludedInv'
<1>1. Loaded(ci)' = Loaded(ci) /\ NewFiles(ci)' = NewFiles(ci)
  BY DEF Loaded, NewFiles
<1>2. Closure(cmd.main)' = Closure(cmd.main)
  BY DEF Closure, Reach, ClosedUnder, DirectIncludes
<1>3. ci.included \subseteq Files
  BY DEF IncludedInv, Loaded
<1> QED
  BY <1>1, <1>2, <1>3 DEF IncludedInv
-----------------------------------------------------------------------------
(* A line that includes a file. *)

LEMMA IncludeRest ==
  ASSUME TypeOK, LexInv, IncludeLine
  PROVE  LET f == Top.file
             g == Line.file
         IN  /\ ci'.newFEs = ci.newFEs \cup {<<g, f>>}
             /\ ci'.macro = ci.macro /\ ci'.defined = ci.defined
             /\ cmd' = cmd
             /\ \A h \in Files : at'[h] = IF h \in NewlyIncluded(g) THEN ci.defined ELSE at[h]
             /\ phase' = "lex" => \A h \in NewlyIncluded(g) : ~MacroChanged(h)
             /\ Top.line \in DOMAIN Lines[f] /\ Includes(f, Top.line)
             /\ g = Lines[f][Top.line].file
<1> DEFINE f == Top.file
           g == Line.file
           new == NewlyIncluded(g)
           c == [Noted(ci, f, g) EXCEPT !.included = @ \cup new]
<1>1. phase = "lex" /\ ci \in Caches /\ cmd' = cmd /\ Include(f, g)
  BY DEF IncludeLine, TypeOK
<1>2. /\ at' = [h \in Files |-> IF h \in new THEN ci.defined ELSE at[h]]
      /\ IF \E h \in new : MacroChanged(h)
         THEN Fail("macro") /\ ci' = c
         ELSE IF g \in Loaded(ci)
         THEN /\ ci' = [c EXCEPT !.facts[f] = @ \cup ci.facts[g]]
              /\ NextLine
              /\ UNCHANGED <<phase, cause>>
         ELSE IF Unusable(g)
         THEN Fail("text") /\ ci' = c
         ELSE /\ ci' = Load(c, g)
              /\ stack' = Append(stack, [file |-> g, line |-> 1])
              /\ UNCHANGED <<phase, cause>>
  BY <1>1 DEF Include
<1>3. ci' = c \/ ci' = [c EXCEPT !.facts[f] = @ \cup ci.facts[g]] \/ ci' = Load(c, g)
  BY <1>2
<1>4. /\ ci'.newFEs = ci.newFEs \cup {<<g, f>>}
      /\ ci'.macro = ci.macro /\ ci'.defined = ci.defined
  BY <1>1, <1>3 DEF Noted, Load, Caches
<1>5. phase' = "lex" => \A h \in new : ~MacroChanged(h)
  BY <1>2 DEF Fail
<1>6. /\ Top.line \in DOMAIN Lines[f] /\ Includes(f, Top.line)
      /\ g = Lines[f][Top.line].file
  BY DEF IncludeLine, Includes, Line
<1> QED
  BY <1>1, <1>2, <1>4, <1>5, <1>6

LEMMA HitMerges ==
  ASSUME Acyclic, IInv, PathInv, IncludeLine, phase' = "lex", IncludeHit(Top.file, Line.file)
  PROVE  /\ Merges(Top.file, Top.line) /\ PathInv' /\ Moved(Len(stack))
         /\ LineRead(Top.file, Top.line)
<1> DEFINE f == Top.file
           n == Top.line
           g == Line.file
<1>1. TypeOK /\ LexInv /\ StackInv /\ phase = "lex" /\ cmd' = cmd
  BY DEF IInv, StackInv, LexInv, IncludeLine
<1>2. n \in DOMAIN Lines[f] /\ Includes(f, n) /\ g = Lines[f][n].file
  BY <1>1, IncludeRest
<1>3. /\ f \in Files /\ g \in Headers /\ g \in Files /\ ci'.values = ci.values
      /\ ci'.includees = [ci.includees EXCEPT ![f] = @ \cup {g}]
  BY <1>1, IncludeCases
<1>4. /\ g \in Loaded(ci) /\ ci'.stat = ci.stat /\ NextLine
      /\ ci'.facts = [ci.facts EXCEPT ![f] = @ \cup ci.facts[g]]
  BY DEF IncludeHit
<1>5. LineRead(f, n) /\ Moved(Len(stack))
  BY <1>1, <1>2, <1>4, PastNext
<1>6. /\ PathInv' /\ \A k \in DOMAIN stack' : k \in DOMAIN stack /\ stack'[k].file = stack[k].file
  BY <1>1, <1>5, KeepPath
<1>7. \A k \in DOMAIN stack : stack[k].file # g
  BY <1>1, <1>2, NotBeingRead
<1>8. Past(g) = DOMAIN Lines[g]
  BY <1>3, <1>7, PastOff
<1>9. f \in Loaded(ci)
  BY <1>1, TopLoaded
<1>10. \A h \in Files : ci'.includees[h] = IF h = f THEN ci.includees[f] \cup {g} ELSE ci.includees[h]
  BY <1>1, <1>3, CacheFields DEF TypeOK
<1> HIDE DEF f, n, g
<1>11. Merges(f, n)
  BY <1>1, <1>2, <1>3, <1>4, <1>5, <1>6, <1>7, <1>8, <1>9, <1>10 DEF Merges
<1> QED
  BY <1>5, <1>6, <1>11 DEF f, n, g

LEMMA MissEnters ==
  ASSUME Acyclic, IInv, PathInv, KnownInv, IncludeLine, phase' = "lex",
         IncludeMiss(Top.file, Line.file)
  PROVE  Enters(Line.file) /\ PathInv'
<1> DEFINE f == Top.file
           n == Top.line
           g == Line.file
           e == [file |-> g, line |-> 1]
<1>1. TypeOK /\ LexInv /\ StackInv /\ phase = "lex" /\ cmd' = cmd
  BY DEF IInv, StackInv, LexInv, IncludeLine
<1>2. n \in DOMAIN Lines[f] /\ Includes(f, n) /\ g = Lines[f][n].file
  BY <1>1, IncludeRest
<1>3. /\ f \in Files /\ g \in Headers /\ g \in Files /\ ci'.values = ci.values
      /\ ci'.includees = [ci.includees EXCEPT ![f] = @ \cup {g}]
  BY <1>1, IncludeCases
<1>4. /\ g \notin Loaded(ci) /\ disk[g] # Missing
      /\ ci'.stat = [ci.stat EXCEPT ![g] = disk[g]]
      /\ ci'.facts = [ci.facts EXCEPT ![g] = {OwnFact(g)}]
      /\ stack' = Append(stack, e)
  BY DEF IncludeMiss
<1>5. /\ stack \in Seq(Frames) /\ Len(stack) \in Nat /\ Len(stack) >= 1
      /\ DOMAIN stack = 1 .. Len(stack)
  BY <1>1, StackType, StackLength
<1>6. e \in Frames /\ e.file = g
  BY <1>3 DEF Frames
<1>7. /\ stack' \in Seq(Frames) /\ Len(stack') = Len(stack) + 1
      /\ \A k \in 1 .. Len(stack) : stack'[k] = stack[k]
      /\ stack'[Len(stack) + 1] = e
  BY <1>4, <1>5, <1>6, AppendProperties
<1>8. DOMAIN stack' = 1 .. Len(stack) + 1
  BY <1>7, LenProperties
<1>9. \A k \in DOMAIN stack : stack[k].file # g
  BY <1>1, <1>2, NotBeingRead
<1>10. \A h \in Files : Past(h)' = IF h = g THEN {} ELSE Past(h)
  BY <1>1, <1>3, <1>4, <1>9, PastPush
<1>11. \A h \in Files : ci'.includees[h] = IF h = f THEN ci.includees[f] \cup {g} ELSE ci.includees[h]
  BY <1>1, <1>3, CacheFields DEF TypeOK
<1>12. g \in DirectIncludes[f]
  BY <1>2, <1>3, DirectType
<1>13. \A k \in 1 .. Len(stack) + 1 : k \in 1 .. Len(stack) \/ k = Len(stack) + 1
  BY <1>5
<1>14. f = stack[Len(stack)].file /\ n = stack[Len(stack)].line
  BY DEF Top
<1> HIDE DEF f, n, g, e
<1>15. Enters(g)
  <2>1. \A k \in DOMAIN stack' :
           \/ k \in DOMAIN stack /\ stack'[k].file = stack[k].file /\ stack[k].file # g
           \/ stack'[k].file = g
    BY <1>5, <1>6, <1>7, <1>8, <1>9, <1>13
  <2> QED
    BY <1>1, <1>3, <1>4, <1>10, <1>11, <1>12, <2>1 DEF Enters, KnownInv
<1>16. PathInv'
  <2>1. stack'[1].file = cmd'.main
    BY <1>1, <1>5, <1>7 DEF PathInv
  <2>2. ASSUME NEW k \in 1 .. Len(stack') - 1
        PROVE  /\ stack'[k].line \in DOMAIN Lines[stack'[k].file]
               /\ Includes(stack'[k].file, stack'[k].line)
               /\ Lines[stack'[k].file][stack'[k].line].file = stack'[k + 1].file
    <3>1. k \in 1 .. Len(stack) /\ stack'[k] = stack[k]
      BY <1>5, <1>7, <2>2
    <3>2. CASE k = Len(stack)
      BY <1>2, <1>6, <1>7, <1>14, <3>1, <3>2
    <3>3. CASE k # Len(stack)
      <4>1. k \in 1 .. Len(stack) - 1 /\ k + 1 \in 1 .. Len(stack)
        BY <1>5, <3>1, <3>3
      <4> QED
        BY <1>7, <3>1, <4>1 DEF PathInv
    <3> QED
      BY <3>2, <3>3
  <2> QED
    BY <2>1, <2>2 DEF PathInv, Includes
<1> QED
  BY <1>15, <1>16 DEF g
LEMMA UserFilesNew ==
  ASSUME NEW c
  PROVE  UserFiles(c) \subseteq NewFiles(c)
<1>1. CSources \subseteq Files
  BY ConstantsAssumption DEF Files
<1> QED
  BY <1>1 DEF UserFiles, MainOf, IncludedBy, NewFiles

\* What is marked as included besides: files that an empty cache would have
\* included too, with all that they include.
LEMMA NewFacts ==
  ASSUME IInv, KnownInv, IncludedInv, IncludeLine
  PROVE  LET g == Line.file
             new == NewlyIncluded(g)
         IN  /\ new \subseteq Headers /\ new \subseteq Closure(cmd.main)
             /\ new \cap ci.included = {} /\ g \in new \cup ci.included
             /\ g \in Loaded(ci) => new \subseteq Loaded(ci)
             /\ g \notin Loaded(ci) => new = {g}
             /\ \A h \in new : ci.includees[h] \subseteq new \cup ci.included
<1> DEFINE g == Line.file
           new == NewlyIncluded(g)
           C == Closure(cmd.main)
<1>1. TypeOK /\ LexInv /\ StackInv /\ phase = "lex" /\ LoadInv /\ NoDanglingInclude
  BY DEF IInv, StackInv, LexInv, IncludeLine
<1>2. /\ g \in Headers /\ g \in Files /\ Top.file \in Files
      /\ g \in DirectIncludes[Top.file]
  BY <1>1, IncludeCases, IncludeRest, DirectType
<1>3. ci.includees \in [Files -> SUBSET Files] /\ ci.includees \in [Files -> SUBSET Headers]
  BY <1>1, CacheFields DEF TypeOK
<1>4. /\ ClosedUnder(new, ci.includees, ci.included)
      /\ \A T \in SUBSET Files :
           {g} \ ci.included \subseteq T /\ ClosedUnder(T, ci.includees, ci.included) =>
             new \subseteq T
  BY <1>2, <1>3, ReachIsLeast DEF NewlyIncluded
<1>5. new \cap ci.included = {} /\ g \in new \cup ci.included
  BY <1>1, <1>2, NewlyIncludedNew, NewlyIncludedType
<1> HIDE DEF new, g
<1>6. Headers \in SUBSET Files /\ ClosedUnder(Headers, ci.includees, ci.included)
  BY <1>3 DEF ClosedUnder, Files
<1>7. C \in SUBSET Files /\ ClosedUnder(C, ci.includees, ci.included) /\ g \in C
  <2>1. cmd.main \in Files
    BY <1>1 DEF TypeOK, Files
  <2>2. C \in SUBSET Files /\ \A h \in C : DirectIncludes[h] \subseteq C
    BY <2>1, ClosureIsLeast
  <2>3. ClosedUnder(C, ci.includees, ci.included)
    BY <2>2 DEF ClosedUnder, KnownInv
  <2>4. Top.file \in C
    <3>1. Len(stack) \in DOMAIN stack
      BY <1>1, StackType, StackLength
    <3>2. Top.file \in NewFiles(ci)
      <4>1. PICK x \in Files : <<stack[Len(stack)].file, x>> \in ci.newFEs
        BY <1>1, <3>1 DEF StackInv
      <4>2. Top.file = stack[Len(stack)].file
        BY DEF Top
      <4> QED
        BY <1>2, <4>1, <4>2 DEF NewFiles
    <3> QED
      BY <1>1, <3>2 DEF IncludedInv
  <2> QED
    BY <1>2, <2>2, <2>3, <2>4
<1> HIDE DEF C
<1>8. new \subseteq Headers /\ new \subseteq C
  BY <1>2, <1>4, <1>6, <1>7
<1>9. ASSUME g \in Loaded(ci) PROVE new \subseteq Loaded(ci)
  <2>1. Loaded(ci) \in SUBSET Files
    BY DEF Loaded
  <2>2. ClosedUnder(Loaded(ci), ci.includees, ci.included)
    BY <1>1 DEF ClosedUnder, NoDanglingInclude
  <2> QED
    BY <1>4, <1>9, <2>1, <2>2
<1>10. ASSUME g \notin Loaded(ci) PROVE new = {g}
  <2>1. g \notin ci.included
    BY <1>1, <1>10 DEF IncludedInv
  <2>2. ci.includees[g] = {}
    BY <1>1, <1>2, <1>10 DEF LoadInv
  <2>3. {g} \in SUBSET Files /\ ClosedUnder({g}, ci.includees, ci.included)
    BY <1>2, <2>2 DEF ClosedUnder
  <2> QED
    BY <1>4, <1>5, <2>1, <2>3
<1>11. \A h \in new : ci.includees[h] \subseteq new \cup ci.included
  BY <1>4 DEF ClosedUnder
<1> QED
  BY <1>5, <1>8, <1>9, <1>10, <1>11 DEF new, g, C

\* A file in the cache that is included now saw the macros as they are now.
LEMMA NewSeesNow ==
  ASSUME TypeOK, MacroInv, SensitiveInv, SeenInv, IncludedInv, phase = "lex",
         NEW f \in Headers, f \in Loaded(ci), f \notin ci.included, ~MacroChanged(f),
         at'[f] = ci.defined
  PROVE  SeesNow(f)
<1> SUFFICES ASSUME NEW x \in ci.facts[f], NEW i \in Past(f), x.file = f, Lines[f][i].op = "use"
             PROVE  x.macro[Lines[f][i].macro] =
                      IF Lines[f][i].macro \in at'[f] THEN "defined" ELSE "undefined"
  BY DEF SeesNow
<1> DEFINE m == Lines[f][i].macro
<1>1. f \in Files /\ i \in DOMAIN Lines[f] /\ m \in Macros
  BY LinesType DEF Past, Files
<1>2. m \in Watched
  <2> SUFFICES ASSUME m \notin Watched PROVE FALSE
    OBVIOUS
  <2>1. Tests(f, m) /\ m \in Macros \ Watched
    BY <1>1 DEF Tests
  <2>2. f \in NewFiles(ci)
    BY <2>1, UserFilesNew DEF SensitiveInv
  <2> QED
    BY <2>2 DEF IncludedInv
<1>3. ci.values[f][m] # "unread" /\ x.macro[m] = ci.values[f][m]
  BY <1>2 DEF SeenInv
<1>4. ci.values[f][m] = ci.macro[m]
  BY <1>2, <1>3 DEF MacroChanged
<1> QED
  BY <1>2, <1>3, <1>4 DEF MacroInv
\* Whoever is on the stack has been included, and is marked as new.
LEMMA StackIncluded ==
  ASSUME TypeOK, StackInv, IncludedInv, phase = "lex", NEW k \in DOMAIN stack
  PROVE  stack[k].file \in NewFiles(ci) /\ stack[k].file \in ci.included
<1>1. stack[k].file \in Files
  BY StackType
<1>2. PICK x \in Files : <<stack[k].file, x>> \in ci.newFEs
  BY DEF StackInv
<1>3. stack[k].file \in NewFiles(ci)
  BY <1>1, <1>2 DEF NewFiles
<1> QED
  BY <1>3 DEF IncludedInv

LEMMA HitFresh ==
  ASSUME Acyclic, IInv, FreshInv, IncludeLine, phase' = "lex", IncludeHit(Top.file, Line.file)
  PROVE  FreshInv'
<1> DEFINE f == Top.file
           n == Top.line
           g == Line.file
           new == NewlyIncluded(g)
<1>1. /\ TypeOK /\ LexInv /\ StackInv /\ phase = "lex" /\ PathInv /\ OwnInv /\ ArgsInv
      /\ KnownInv /\ MacroInv /\ SensitiveInv /\ SeenInv /\ IncludedInv
  BY DEF IInv, StackInv, LexInv, IncludeLine, FreshInv
<1>2. /\ Merges(f, n) /\ PathInv' /\ Moved(Len(stack)) /\ LineRead(f, n)
  BY <1>1, HitMerges
<1>3. /\ f \in Files /\ g \in Headers /\ g \in Files /\ ci'.values = ci.values
      /\ ci'.included = ci.included \cup new
  BY <1>1, IncludeCases
<1>4. /\ ci'.newFEs = ci.newFEs \cup {<<g, f>>}
      /\ ci'.macro = ci.macro /\ ci'.defined = ci.defined /\ cmd' = cmd
      /\ \A h \in Files : at'[h] = IF h \in new THEN ci.defined ELSE at[h]
      /\ \A h \in new : ~MacroChanged(h)
      /\ n \in DOMAIN Lines[f] /\ Includes(f, n) /\ g = Lines[f][n].file
  BY <1>1, IncludeRest
<1>5. /\ new \subseteq Headers /\ new \subseteq Closure(cmd.main)
      /\ new \cap ci.included = {} /\ g \in new \cup ci.included
      /\ new \subseteq Loaded(ci)
      /\ \A h \in new : ci.includees[h] \subseteq new \cup ci.included
  BY <1>1, NewFacts DEF IncludeHit
<1>6. Loaded(ci)' = Loaded(ci)
  BY DEF IncludeHit, Loaded
<1>7. OwnInv' /\ ArgsInv' /\ KnownInv'
  BY <1>1, <1>2, <1>3, MergeFresh
<1>8. /\ DOMAIN stack = 1 .. Len(stack) /\ Len(stack) \in Nat /\ Len(stack) \in DOMAIN stack
      /\ \A k \in DOMAIN stack : stack[k].file \in Files
  BY <1>1, StackType, StackLength
<1> HIDE DEF new
<1>9. MacroInv'
  <2>1. \A k \in 2 .. Len(stack) : at'[stack[k].file] = at[stack[k].file]
    <3>1. ASSUME NEW k \in 2 .. Len(stack) PROVE at'[stack[k].file] = at[stack[k].file]
      <4>1. k \in DOMAIN stack
        BY <1>8, <3>1
      <4> QED
        BY <1>1, <1>4, <1>5, <1>8, <4>1, StackIncluded
    <3> QED
      BY <3>1
  <2> QED
    BY <1>1, <1>2, <1>4, <2>1, KeepMacro
<1>10. SensitiveInv'
  BY <1>1, <1>4, <1>6, KeepSensitive
<1>11. SeenInv'
  <2>1. /\ stack' \in Seq(Frames) /\ Len(stack') = Len(stack)
        /\ stack'[Len(stack)].file = stack[Len(stack)].file
    BY <1>2, <1>8 DEF Moved
  <2>2. Len(stack) \in DOMAIN stack' /\ f = stack'[Len(stack)].file
    BY <1>8, <2>1, LenProperties DEF Top
  <2>3. ASSUME NEW h \in Headers, h \in Loaded(ci)' PROVE SeenBefore(h)
    <3>1. /\ h \in Loaded(ci) /\ ci'.values[h] = ci.values[h]
          /\ \A i \in Past(h)' : Lines[h][i].op = "use" => i \in Past(h)
          /\ \A x \in ci'.facts[h] : x.file = h => x \in ci.facts[h]
      BY <1>1, <1>2, <1>3, <2>2, <2>3, MergeSeen
    <3>2. h \in Files
      BY DEF Files
    <3>3. CASE h \in new
      <4>1. SeesNow(h)
        BY <1>1, <1>4, <1>5, <3>1, <3>2, <3>3, NewSeesNow
      <4> QED
        BY <3>1, <4>1 DEF SeenBefore
    <3>4. CASE h \notin new
      BY <1>1, <1>3, <1>4, <3>1, <3>2, <3>4 DEF SeenBefore
    <3> QED
      BY <3>3, <3>4
  <2> QED
    BY <1>1, <2>3, KeepSeen
<1>12. IncludedInv'
  <2>1. \A h \in Files : PastIncludes(h)' = IF h = f THEN PastIncludes(h) \cup {g} ELSE PastIncludes(h)
    BY <1>2, <1>3, <1>4, IncludesRead
  <2>2. NewFiles(ci)' \subseteq NewFiles(ci) \cup {g}
    BY <1>4 DEF NewFiles
  <2>3. Closure(cmd.main)' = Closure(cmd.main)
    BY <1>4 DEF Closure, Reach, ClosedUnder, DirectIncludes
  <2>4. ASSUME NEW h \in ci'.included PROVE PastIncludes(h)' \subseteq ci'.included
    <3>1. h \in Files
      BY <1>1, <1>3, <1>5, <2>4 DEF IncludedInv, Loaded
    <3>2. PastIncludes(h) \subseteq ci'.included
      <4>1. CASE h \in ci.included
        BY <1>1, <1>3, <4>1 DEF IncludedInv
      <4>2. CASE h \in new
        BY <1>1, <1>3, <1>5, <4>2 DEF KnownInv
      <4> QED
        BY <1>3, <2>4, <4>1, <4>2
    <3> QED
      BY <1>3, <1>5, <2>1, <3>1, <3>2
  <2> QED
    BY <1>1, <1>3, <1>4, <1>5, <1>6, <2>2, <2>3, <2>4 DEF IncludedInv
<1> QED
  BY <1>2, <1>7, <1>9, <1>10, <1>11, <1>12 DEF FreshInv

LEMMA MissFresh ==
  ASSUME Acyclic, Configured, IInv, FactsInv, FreshInv, IncludeLine, phase' = "lex",
         IncludeMiss(Top.file, Line.file)
  PROVE  FreshInv'
<1> DEFINE f == Top.file
           g == Line.file
           new == NewlyIncluded(g)
           e == [file |-> g, line |-> 1]
<1>1. /\ TypeOK /\ LexInv /\ StackInv /\ phase = "lex" /\ PathInv /\ OwnInv /\ ArgsInv
      /\ KnownInv /\ MacroInv /\ SensitiveInv /\ SeenInv /\ IncludedInv /\ LoadInv
  BY DEF IInv, StackInv, LexInv, IncludeLine, FreshInv
<1>2. Enters(g) /\ PathInv'
  BY <1>1, MissEnters
<1>3. /\ f \in Files /\ g \in Headers /\ g \in Files
      /\ ci'.included = ci.included \cup new
  BY <1>1, IncludeCases
<1>4. /\ ci'.newFEs = ci.newFEs \cup {<<g, f>>}
      /\ ci'.macro = ci.macro /\ ci'.defined = ci.defined /\ cmd' = cmd
      /\ \A h \in Files : at'[h] = IF h \in new THEN ci.defined ELSE at[h]
      /\ g \in DirectIncludes[f]
  BY <1>1, <1>3, IncludeRest, DirectType
<1>5. g \notin Loaded(ci) /\ new = {g} /\ g \in Closure(cmd.main) /\ g \notin ci.included
  BY <1>1, NewFacts DEF IncludeMiss
<1>6. /\ OwnInv' /\ ArgsInv' /\ KnownInv'
      /\ \A h \in Files : h \in Loaded(ci)' <=> h \in Loaded(ci) \/ h = g
  BY <1>1, <1>2, <1>3, EnterFresh
<1>7. /\ DOMAIN stack = 1 .. Len(stack) /\ Len(stack) \in Nat /\ stack \in Seq(Frames)
      /\ \A k \in DOMAIN stack : stack[k].file \in Files
      /\ f \in Loaded(ci)
  BY <1>1, StackType, TopLoaded
<1> HIDE DEF new
<1>8. MacroInv'
  <2>1. e \in Frames /\ e.file = g
    BY <1>3 DEF Frames
  <2>2. /\ Len(stack') = Len(stack) + 1
        /\ \A k \in 1 .. Len(stack) : stack'[k] = stack[k]
        /\ stack'[Len(stack) + 1] = e
    BY <1>7, <2>1, AppendProperties DEF IncludeMiss
  <2>3. ASSUME NEW k \in 2 .. Len(stack') PROVE at'[stack'[k].file] = ci'.defined
    <3>1. CASE k = Len(stack) + 1
      BY <1>3, <1>4, <1>5, <2>1, <2>2, <3>1
    <3>2. CASE k # Len(stack) + 1
      <4>1. k \in 2 .. Len(stack) /\ k \in DOMAIN stack
        <5> HIDE DEF e
        <5> QED
          BY <1>7, <2>2, <2>3, <3>2
      <4>2. stack[k].file \in ci.included /\ stack[k].file \in Files
        BY <1>1, <1>7, <4>1, StackIncluded
      <4>3. stack'[k] = stack[k] /\ stack[k].file \notin new
        BY <1>5, <1>7, <2>2, <4>1, <4>2
      <4> QED
        BY <1>1, <1>4, <4>1, <4>2, <4>3 DEF MacroInv
    <3> QED
      BY <3>1, <3>2
  <2> QED
    BY <1>1, <1>4, <2>3 DEF MacroInv
<1>9. SensitiveInv'
  <2>1. UserFiles(ci) \subseteq UserFiles(ci')
    BY <1>4, UserFilesGrow
  <2>2. ASSUME NEW m \in Macros \ Watched, Tests(g, m) PROVE g \in UserFiles(ci')
    <3>1. CASE g \in Mutable
      BY <1>3, <1>4, <3>1 DEF UserFiles, NewFiles
    <3>2. CASE g \in CSources /\ \A h \in Headers : g \notin DirectIncludes[h]
      <4>1. f \in Mains
        BY <1>3, <1>4, <3>2 DEF Files
      <4>2. <<f, f>> \in ci.newFEs
        BY <1>1, <1>7, <4>1 DEF LoadInv
      <4> QED
        BY <1>3, <1>4, <3>2, <4>2 DEF UserFiles, MainOf, IncludedBy
    <3> QED
      BY <1>3, <2>2, <3>1, <3>2 DEF Configured
  <2>3. \A h \in Headers : h \in Files
    BY DEF Files
  <2> QED
    BY <1>1, <1>6, <2>1, <2>2, <2>3 DEF SensitiveInv, Tests
<1>10. SeenInv'
  <2>1. ASSUME NEW h \in Headers, h \in Loaded(ci)' PROVE Past(h)' = {} \/ SeenBefore(h)
    <3>1. h \in Files
      BY DEF Files
    <3>2. CASE h = g
      BY <1>2, <1>3, <3>2 DEF Enters
    <3>3. CASE h # g
      <4>1. /\ h \in Loaded(ci) /\ Past(h)' = Past(h) /\ ci'.values = ci.values
            /\ ci'.facts = [ci.facts EXCEPT ![g] = {OwnFact(g)}]
        BY <1>2, <1>6, <2>1, <3>1, <3>3 DEF Enters
      <4>2. ci'.facts[h] = ci.facts[h]
        BY <1>1, <3>1, <3>3, <4>1, CacheFields DEF TypeOK
      <4> QED
        BY <1>1, <1>3, <1>4, <1>5, <3>1, <3>3, <4>1, <4>2 DEF SeenBefore
    <3> QED
      BY <3>2, <3>3
  <2> QED
    BY <1>1, <2>1, KeepSeen
<1>11. IncludedInv'
  <2>1. \A h \in Files : PastIncludes(h)' = IF h = g THEN {} ELSE PastIncludes(h)
    BY <1>2 DEF Enters, PastIncludes, Includes
  <2>2. NewFiles(ci)' \subseteq NewFiles(ci) \cup {g}
    BY <1>4 DEF NewFiles
  <2>3. Closure(cmd.main)' = Closure(cmd.main)
    BY <1>4 DEF Closure, Reach, ClosedUnder, DirectIncludes
  <2>4. \A h \in Loaded(ci) : h \in Files
    BY DEF Loaded
  <2>5. ASSUME NEW h \in ci'.included PROVE PastIncludes(h)' \subseteq ci'.included
    BY <1>1, <1>3, <1>5, <2>1, <2>4, <2>5 DEF IncludedInv
  <2> QED
    BY <1>1, <1>3, <1>4, <1>5, <1>6, <2>2, <2>3, <2>4, <2>5 DEF IncludedInv
<1> QED
  BY <1>2, <1>6, <1>8, <1>9, <1>10, <1>11 DEF FreshInv
-----------------------------------------------------------------------------
(* The other lines. *)

\* f has the facts of a file that it included before.
LEMMA MergeRest ==
  ASSUME TypeOK, StackInv, FreshInv, NEW f \in Files, NEW n, Merges(f, n),
         NEW k, Moved(k), f = stack[k].file, Lines[f][n].file \in ci.included,
         ci'.newFEs = ci.newFEs, ci'.included = ci.included,
         ci'.macro = ci.macro, ci'.defined = ci.defined, at' = at
  PROVE  FreshInv'
<1> DEFINE g == Lines[f][n].file
<1>1. /\ phase = "lex" /\ phase' = "lex" /\ cmd' = cmd /\ ci'.stat = ci.stat
      /\ n \in DOMAIN Lines[f] /\ Includes(f, n) /\ LineRead(f, n) /\ ci'.values = ci.values
  BY DEF Merges
<1>2. /\ PathInv /\ OwnInv /\ ArgsInv /\ KnownInv
      /\ MacroInv /\ SensitiveInv /\ SeenInv /\ IncludedInv
  BY <1>1 DEF FreshInv
<1>3. PathInv'
  BY <1>1, <1>2, KeepPath
<1>4. OwnInv' /\ ArgsInv' /\ KnownInv'
  BY <1>2, MergeFresh
<1>5. Loaded(ci)' = Loaded(ci)
  BY <1>1 DEF Loaded
<1>6. MacroInv' /\ SensitiveInv'
  BY <1>1, <1>2, <1>5, KeepMacro, KeepSensitive
<1>7. SeenInv'
  <2>1. k \in DOMAIN stack' /\ f = stack'[k].file
    <3>1. k \in 1 .. Len(stack) /\ stack' \in Seq(Frames) /\ Len(stack') = k /\ k \in 1 .. k
      BY StackType DEF Moved
    <3>2. k \in DOMAIN stack'
      BY <3>1, LenProperties
    <3> QED
      BY <3>1, <3>2 DEF Moved
  <2>2. ASSUME NEW h \in Headers, h \in Loaded(ci)' PROVE SeenBefore(h)
    <3>1. /\ h \in Loaded(ci) /\ ci'.values[h] = ci.values[h]
          /\ \A i \in Past(h)' : Lines[h][i].op = "use" => i \in Past(h)
          /\ \A x \in ci'.facts[h] : x.file = h => x \in ci.facts[h]
      BY <1>2, <2>1, <2>2, MergeSeen
    <3> QED
      BY <1>1, <3>1 DEF SeenBefore
  <2> QED
    BY <1>2, <2>2, KeepSeen
<1>8. IncludedInv'
  <2>1. \A h \in Files : PastIncludes(h)' = IF h = f THEN PastIncludes(h) \cup {g} ELSE PastIncludes(h)
    BY <1>1, IncludesRead
  <2>2. \A h \in Files : PastIncludes(h)' \subseteq PastIncludes(h) \cup ci.included
    BY <2>1
  <2> QED
    BY <1>1, <1>2, <2>2, KeepIncluded
<1> QED
  BY <1>3, <1>4, <1>6, <1>7, <1>8 DEF FreshInv

LEMMA GuardedFresh ==
  ASSUME UnguardedHeaders, Acyclic, IInv, FreshInv, GuardedLine
  PROVE  FreshInv'
<1> DEFINE f == Top.file
           n == Top.line
           g == Line.file
<1>1. /\ TypeOK /\ LexInv /\ StackInv /\ phase = "lex" /\ PathInv /\ IncludedInv
      /\ phase' = phase /\ cmd' = cmd /\ at' = at /\ ci \in Caches
  BY DEF IInv, StackInv, LexInv, GuardedLine, FreshInv, TypeOK, history
<1>2. /\ n \in DOMAIN Lines[f] /\ Includes(f, n) /\ g = Lines[f][n].file /\ NextLine
      /\ g \in ci.included /\ Lines[f][n].op = "guarded"
  BY DEF GuardedLine, Includes, Line
<1>3. f \in Files /\ g \in Headers /\ g \in Files /\ f \in Loaded(ci)
  BY <1>1, <1>2, LineType, StackLength, TopLoaded
<1>4. f \notin Headers
  BY <1>2 DEF UnguardedHeaders
<1>5. ci' = [ci EXCEPT !.includees[f] = IF f \in Headers THEN @ \cup {g} ELSE @,
                       !.facts[f] = @ \cup ci.facts[g]]
  BY DEF GuardedLine
<1>6. /\ ci'.stat = ci.stat /\ ci'.values = ci.values /\ ci'.newFEs = ci.newFEs
      /\ ci'.included = ci.included /\ ci'.macro = ci.macro /\ ci'.defined = ci.defined
      /\ ci'.facts = [ci.facts EXCEPT ![f] = @ \cup ci.facts[g]]
      /\ ci'.includees = [ci.includees EXCEPT ![f] = IF f \in Headers THEN @ \cup {g} ELSE @]
  BY <1>1, <1>5 DEF Caches
<1>7. \A h \in Files : ci'.includees[h] = ci.includees[h]
  BY <1>1, <1>3, <1>4, <1>6, CacheFields
<1>8. LineRead(f, n) /\ Moved(Len(stack))
  BY <1>1, <1>2, PastNext
<1>9. \A k \in DOMAIN stack' : k \in DOMAIN stack /\ stack'[k].file = stack[k].file
  BY <1>1, <1>8, KeepPath
<1>10. \A k \in DOMAIN stack : stack[k].file # g
  BY <1>1, <1>2, NotBeingRead
<1>11. Past(g) = DOMAIN Lines[g] /\ g \in Loaded(ci)
  BY <1>1, <1>2, <1>3, <1>10, PastOff DEF IncludedInv
<1>12. f = stack[Len(stack)].file
  BY DEF Top
<1> HIDE DEF f, n, g
<1>13. Merges(f, n)
  BY <1>1, <1>2, <1>3, <1>4, <1>6, <1>7, <1>8, <1>9, <1>10, <1>11 DEF Merges
<1> QED
  BY <1>1, <1>2, <1>3, <1>6, <1>8, <1>12, <1>13, MergeRest

\* The end of a header.
LEMMA PopFresh ==
  ASSUME Acyclic, IInv, ChainInv, FreshInv, EndOfFile, Len(stack) # 1
  PROVE  FreshInv'
<1> DEFINE k == Len(stack) - 1
           f == stack[k].file
           n == stack[k].line
           g == Top.file
<1>1. /\ TypeOK /\ LexInv /\ StackInv /\ phase = "lex" /\ PathInv /\ IncludedInv
      /\ phase' = phase /\ cmd' = cmd /\ at' = at /\ ci \in Caches
  BY DEF IInv, StackInv, LexInv, EndOfFile, FreshInv, TypeOK, history
<1>2. /\ n \in DOMAIN Lines[f] /\ Includes(f, n) /\ Lines[f][n].file = g
      /\ LineRead(f, n) /\ Moved(k)
  BY <1>1, PastPop
<1>3. ci' = [ci EXCEPT !.facts[f] = @ \cup ci.facts[g]]
  BY DEF EndOfFile
<1>4. /\ ci'.stat = ci.stat /\ ci'.values = ci.values /\ ci'.newFEs = ci.newFEs
      /\ ci'.included = ci.included /\ ci'.macro = ci.macro /\ ci'.defined = ci.defined
      /\ ci'.includees = ci.includees
      /\ ci'.facts = [ci.facts EXCEPT ![f] = @ \cup ci.facts[g]]
  BY <1>1, <1>3 DEF Caches
<1>5. /\ Len(stack) \in Nat /\ k \in 1 .. Len(stack) /\ k \in 1 .. Len(stack) - 1
      /\ k + 1 = Len(stack) /\ DOMAIN stack = 1 .. Len(stack) /\ Len(stack) \in DOMAIN stack
  BY <1>1, StackType, StackLength
<1>6. g = stack[Len(stack)].file
  BY DEF Top
<1>7. /\ f \in Files /\ f \in Loaded(ci) /\ g \in Files /\ g \in Loaded(ci)
      /\ g \in ci.included
  BY <1>1, <1>5, <1>6, StackType, StackIncluded DEF StackInv
<1>8. g \in ci.includees[f]
  BY <1>5, <1>6 DEF ChainInv
<1>9. Past(g) = DOMAIN Lines[g]
  BY <1>1, PastTop DEF EndOfFile
<1>10. ASSUME NEW j \in DOMAIN stack'
       PROVE  j \in DOMAIN stack /\ stack'[j].file = stack[j].file /\ stack[j].file # g
  <2>1. j \in DOMAIN stack /\ stack'[j].file = stack[j].file
    BY <1>1, <1>2, <1>10, KeepPath
  <2>2. j \in 1 .. k
    BY <1>2, <1>10, LenProperties DEF Moved
  <2>3. j # Len(stack)
    BY <1>5, <2>2
  <2> QED
    BY <1>1, <1>5, <1>6, <2>1, <2>3, Distinct
<1> HIDE DEF f, n, g, k
<1>11. \A h \in Files : /\ ci.includees[h] \subseteq ci'.includees[h]
                        /\ ci'.includees[h] \subseteq ci.includees[h] \cup (IF h = f THEN {g} ELSE {})
  BY <1>4
<1>12. Merges(f, n)
  BY <1>1, <1>2, <1>4, <1>7, <1>8, <1>9, <1>10, <1>11 DEF Merges
<1> QED
  BY <1>1, <1>2, <1>4, <1>7, <1>12, MergeRest DEF f

\* A line that includes nothing.
LEMMA PlainLine ==
  ASSUME Acyclic, TypeOK, LexInv, FreshInv, phase = "lex", NextLine,
         Top.line \in DOMAIN Lines[Top.file], ~Includes(Top.file, Top.line),
         ci'.stat = ci.stat, ci'.includees = ci.includees, ci'.newFEs = ci.newFEs,
         ci'.included = ci.included, cmd' = cmd, phase' = "lex",
         \A h \in Files : FactFiles(h)' = FactFiles(h)
  PROVE  /\ PathInv' /\ KnownInv' /\ SensitiveInv' /\ IncludedInv'
         /\ LineRead(Top.file, Top.line) /\ Moved(Len(stack))
<1>1. PathInv /\ KnownInv /\ SensitiveInv /\ IncludedInv
  BY DEF FreshInv
<1>2. LineRead(Top.file, Top.line) /\ Moved(Len(stack)) /\ Top.file \in Files
  BY <1>1, PastNext, StackLength
<1>3. PathInv'
  BY <1>1, <1>2, KeepPath
<1>4. \A h \in Files : PastIncludes(h)' = PastIncludes(h)
  BY <1>2, IncludesRead
<1>5. Loaded(ci)' = Loaded(ci) /\ \A h \in Loaded(ci) : h \in Files
  BY DEF Loaded
<1>6. KnownInv'
  <2>1. \A h \in Files : Covered(h)' = Covered(h)
    BY <1>4 DEF Covered
  <2> QED
    BY <1>1, <1>4, <1>5, <2>1 DEF KnownInv
<1>7. SensitiveInv'
  BY <1>1, <1>5, KeepSensitive
<1>8. IncludedInv'
  BY <1>1, <1>4, KeepIncluded
<1> QED
  BY <1>2, <1>3, <1>6, <1>7, <1>8
LEMMA SecondOrLater ==
  ASSUME NEW n \in Nat, n >= 1, n # 1
  PROVE  n \in 2 .. n
OBVIOUS

LEMMA MacroFresh ==
  ASSUME Acyclic, NoUndef, IInv, FreshInv, MacroLine
  PROVE  FreshInv'
<1>1. /\ TypeOK /\ LexInv /\ StackInv /\ phase = "lex" /\ PathInv /\ OwnInv /\ ArgsInv
      /\ KnownInv /\ MacroInv /\ SensitiveInv /\ SeenInv /\ IncludedInv
      /\ phase' = phase /\ cmd' = cmd /\ at' = at /\ ci \in Caches
      /\ NextLine /\ Top.line \in DOMAIN Lines[Top.file]
  BY DEF IInv, StackInv, LexInv, MacroLine, FreshInv, TypeOK, history
<1>2. /\ Line.op \in {"define", "undef"} /\ Line.macro \in Macros /\ Top.file \in Files
      /\ Line = Lines[Top.file][Top.line] /\ ~Includes(Top.file, Top.line)
  BY <1>1, LineType, StackLength DEF MacroLine, Line, Includes
<1>3. /\ ci'.stat = ci.stat /\ ci'.facts = ci.facts /\ ci'.includees = ci.includees
      /\ ci'.values = ci.values /\ ci'.newFEs = ci.newFEs /\ ci'.included = ci.included
  BY <1>1 DEF MacroLine, Caches
<1>4. \A h \in Files : FactFiles(h)' = FactFiles(h)
  BY <1>3 DEF FactFiles
<1>5. /\ PathInv' /\ KnownInv' /\ SensitiveInv' /\ IncludedInv'
      /\ LineRead(Top.file, Top.line) /\ Moved(Len(stack))
  BY <1>1, <1>2, <1>3, <1>4, PlainLine
<1>6. \A k \in DOMAIN stack' : k \in DOMAIN stack /\ stack'[k].file = stack[k].file
  BY <1>1, <1>5, KeepPath
<1>7. OwnInv' /\ ArgsInv'
  BY <1>1, <1>3, <1>6 DEF OwnInv, ArgsInv
<1>8. MacroInv'
  <2>1. Top.file \in Mains
    BY <1>1, <1>2, ConstantsAssumption DEF Files
  <2>2. Len(stack) = 1
    <3> SUFFICES ASSUME Len(stack) # 1 PROVE FALSE
      OBVIOUS
    <3>0. Len(stack) \in Nat /\ Len(stack) >= 1
      BY <1>1, StackLength
    <3>1. Len(stack) \in 2 .. Len(stack)
      BY <3>0, SecondOrLater
    <3>2. Top.file \in Headers
      BY <1>1, <3>1, Nested DEF Top
    <3> QED
      BY <2>1, <3>2, ConstantsAssumption
  <2>3. Len(stack') = 1
    BY <1>5, <2>2 DEF Moved
  <2>4. /\ ci.macro \in [Macros -> State] /\ ci.defined \subseteq Macros
        /\ Watched \subseteq Macros
        /\ \A m \in Watched : ci.macro[m] = IF m \in ci.defined THEN "defined" ELSE "undefined"
    BY <1>1, ConstantsAssumption DEF Caches, MacroInv
  <2>5. \A m \in Watched : ci'.macro[m] = IF m \in ci'.defined THEN "defined" ELSE "undefined"
    <3>1. CASE /\ Line.op = "define"
               /\ ci' = [ci EXCEPT !.defined = @ \cup {Line.macro},
                                   !.macro[Line.macro] = "defined"]
      <4>1. /\ ci'.defined = ci.defined \cup {Line.macro}
            /\ ci'.macro = [ci.macro EXCEPT ![Line.macro] = "defined"]
        BY <1>1, <3>1 DEF Caches
      <4> QED
        BY <2>4, <4>1
    <3>2. CASE /\ Line.op = "undef"
               /\ ci' = [ci EXCEPT !.defined = @ \ {Line.macro},
                                   !.macro[Line.macro] =
                                      IF Line.macro \in ci.defined THEN "defined" ELSE @]
      <4>1. Line.macro \notin Watched
        BY <1>1, <1>2, <2>1, <3>2 DEF NoUndef
      <4>2. /\ ci'.defined = ci.defined \ {Line.macro}
            /\ ci'.macro = [ci.macro EXCEPT ![Line.macro] =
                               IF Line.macro \in ci.defined THEN "defined" ELSE @]
        BY <1>1, <3>2 DEF Caches
      <4> QED
        BY <2>4, <4>1, <4>2
    <3> QED
      BY <3>1, <3>2 DEF MacroLine
  <2> QED
    BY <2>3, <2>5 DEF MacroInv
<1>9. SeenInv'
  <2>1. ASSUME NEW h \in Headers, h \in Loaded(ci)' PROVE SeenBefore(h)
    <3>1. h \in Files /\ h \in Loaded(ci)
      BY <1>3, <2>1 DEF Files, Loaded
    <3>2. \A i \in Past(h)' : Lines[h][i].op = "use" => i \in Past(h)
      BY <1>2, <1>5, <3>1 DEF LineRead
    <3> QED
      BY <1>1, <1>3, <3>1, <3>2 DEF SeenBefore
  <2> QED
    BY <1>1, <2>1, KeepSeen
<1> QED
  BY <1>5, <1>7, <1>8, <1>9 DEF FreshInv

\* A file tests a macro: its fact has what it saw, and so has its mark if the macro
\* is watched.
LEMMA UseFresh ==
  ASSUME Acyclic, IInv, FreshInv, UseLine
  PROVE  FreshInv'
<1> DEFINE f == Top.file
           m == Line.macro
           n == Top.line
           T(x) == Tested(x, f, m)
           v == IF m \in ci.defined THEN "defined" ELSE "undefined"
<1>1. /\ TypeOK /\ LexInv /\ StackInv /\ phase = "lex" /\ PathInv /\ OwnInv /\ ArgsInv
      /\ KnownInv /\ MacroInv /\ SensitiveInv /\ SeenInv /\ IncludedInv
      /\ phase' = phase /\ cmd' = cmd /\ at' = at /\ ci \in Caches
      /\ NextLine /\ n \in DOMAIN Lines[f] /\ Line.op = "use"
  BY DEF IInv, StackInv, LexInv, UseLine, FreshInv, TypeOK, history
<1>2. /\ m \in Macros /\ f \in Files /\ Lines[f][n].op = "use" /\ Lines[f][n].macro = m
      /\ ~Includes(f, n)
  BY <1>1, LineType, StackLength DEF Line, Includes
<1> DEFINE F == {T(x) : x \in ci.facts[f]}
           w == IF m \in Watched THEN ci.macro[m] ELSE ci.values[f][m]
<1>0. ci' = [ci EXCEPT !.values[f][m] = w, !.facts[f] = F]
  BY DEF UseLine
<1> HIDE DEF F, w
<1>3. /\ ci'.stat = ci.stat /\ ci'.includees = ci.includees /\ ci'.newFEs = ci.newFEs
      /\ ci'.included = ci.included /\ ci'.macro = ci.macro /\ ci'.defined = ci.defined
      /\ ci'.facts = [ci.facts EXCEPT ![f] = F]
      /\ ci'.values = [ci.values EXCEPT ![f] = [ci.values[f] EXCEPT ![m] = w]]
  BY <1>0, <1>1 DEF Caches
<1>4. /\ \A h \in Files : ci'.facts[h] = IF h = f THEN F ELSE ci.facts[h]
      /\ \A h \in Files : h # f => ci'.values[h] = ci.values[h]
      /\ \A k \in Macros : ci'.values[f][k] =
           IF k = m /\ m \in Watched THEN ci.macro[m] ELSE ci.values[f][k]
  <2>1. /\ ci.facts \in [Files -> SUBSET Fact]
        /\ ci.values \in [Files -> [Macros -> State]]
    BY <1>1 DEF Caches
  <2> QED
    BY <1>2, <1>3, <2>1 DEF w
<1>5. \A x \in Fact : /\ T(x).file = x.file /\ T(x).args = x.args
                      /\ x.file # f => T(x) = x
                      /\ x.file = f => T(x).macro[m] = v
                      /\ \A k \in Macros : k # m => T(x).macro[k] = x.macro[k]
  BY <1>2 DEF Tested, Fact
<1>6. \A h \in Files : \A x \in ci.facts[h] : x \in Fact
  BY <1>1, CacheFields
<1>7. /\ DOMAIN stack = 1 .. Len(stack) /\ Len(stack) \in DOMAIN stack
      /\ f = stack[Len(stack)].file
  BY <1>1, StackType, StackLength DEF Top
<1> HIDE DEF T, v, f, m, n
<1>8. \A h \in Files : \A x \in ci'.facts[h] : \E y \in ci.facts[h] :
        y \in Fact /\ x = T(y) /\ x.file = y.file /\ x.args = y.args
  <2>1. ASSUME NEW h \in Files, NEW x \in ci'.facts[h]
        PROVE  \E y \in ci.facts[h] : y \in Fact /\ x = T(y) /\ x.file = y.file /\ x.args = y.args
    <3>1. CASE h = f
      <4>1. x \in F
        BY <1>2, <1>4, <2>1, <3>1
      <4>2. PICK y \in ci.facts[f] : x = T(y)
        BY <4>1 DEF F
      <4>3. y \in Fact
        BY <1>2, <1>6
      <4> QED
        BY <1>5, <3>1, <4>2, <4>3
    <3>2. CASE h # f
      <4>1. x \in ci.facts[h] /\ x \in Fact
        BY <1>4, <1>6, <2>1, <3>2
      <4>2. x.file # f
        BY <1>1, <1>7, <2>1, <3>2, <4>1 DEF OwnInv
      <4> QED
        BY <1>5, <4>1, <4>2
    <3> QED
      BY <3>1, <3>2
  <2> QED
    BY <2>1
<1>9. \A h \in Files : FactFiles(h)' = FactFiles(h)
  <2>1. ASSUME NEW h \in Files PROVE FactFiles(h)' = FactFiles(h)
    <3>1. CASE h = f
      <4>1. ci'.facts[f] = {T(x) : x \in ci.facts[f]}
        BY <1>2, <1>4 DEF F
      <4>2. \A x \in ci.facts[f] : T(x).file = x.file
        BY <1>2, <1>5, <1>6
      <4> QED
        BY <3>1, <4>1, <4>2 DEF FactFiles
    <3>2. CASE h # f
      BY <1>4, <3>2 DEF FactFiles
    <3> QED
      BY <3>1, <3>2
  <2> QED
    BY <2>1
<1>10. /\ PathInv' /\ KnownInv' /\ SensitiveInv' /\ IncludedInv'
       /\ LineRead(f, n) /\ Moved(Len(stack))
  BY <1>1, <1>2, <1>3, <1>9, PlainLine DEF f, n
<1>11. \A k \in DOMAIN stack' : k \in DOMAIN stack /\ stack'[k].file = stack[k].file
  BY <1>1, <1>10, KeepPath
<1>12. OwnInv'
  <2>1. ASSUME NEW k \in DOMAIN stack', NEW h \in Files, NEW x \in ci'.facts[h],
               x.file = stack'[k].file
        PROVE  h = stack'[k].file
    BY <1>1, <1>8, <1>11, <2>1 DEF OwnInv
  <2>2. ASSUME NEW a \in Files, NEW b \in Files, NEW x \in ci'.facts[a], NEW y \in ci'.facts[b],
               x.file = y.file
        PROVE  x = y
    <3>1. PICK p \in ci.facts[a] : x = T(p) /\ x.file = p.file
      BY <1>8
    <3>2. PICK q \in ci.facts[b] : y = T(q) /\ y.file = q.file
      BY <1>8
    <3> QED
      BY <1>1, <2>2, <3>1, <3>2 DEF OwnInv
  <2> QED
    BY <2>1, <2>2 DEF OwnInv
<1>13. ArgsInv'
  BY <1>1, <1>8 DEF ArgsInv
<1>14. MacroInv'
  BY <1>1, <1>3, <1>10, KeepMacro
<1>15. SeenInv'
  <2> SUFFICES ASSUME NEW h \in Loaded(ci)' \cap Headers, NEW x \in ci'.facts[h], NEW i \in Past(h)',
                      x.file = h, Lines[h][i].op = "use"
               PROVE  LET k == Lines[h][i].macro
                      IN  /\ k \in Watched => ci'.values[h][k] # "unread" /\ x.macro[k] = ci'.values[h][k]
                          /\ phase' \in {"lex", "done"} /\ h \in ci'.included =>
                               x.macro[k] = IF k \in at'[h] THEN "defined" ELSE "undefined"
    BY DEF SeenInv, Now
  <2> DEFINE k == Lines[h][i].macro
  <2>1. h \in Files /\ h \in Loaded(ci) /\ h \in Headers
    BY <1>3 DEF Loaded, Files
  <2>2. i \in DOMAIN Lines[h] /\ k \in Macros
    BY <2>1, LinesType DEF Past
  <2>3. PICK y \in ci.facts[h] : y \in Fact /\ x = T(y) /\ y.file = h
    BY <1>8, <2>1
  <2>4. CASE h # f
    <3>1. x = y /\ ci'.values[h] = ci.values[h] /\ i \in Past(h)
      BY <1>4, <1>5, <1>10, <2>1, <2>3, <2>4 DEF LineRead
    <3> QED
      BY <1>1, <1>3, <2>1, <3>1 DEF SeenInv, Now
  <2>5. CASE h = f /\ k # m
    <3>1. i \in Past(h)
      <4>1. i # n
        BY <1>2, <2>5
      <4> QED
        BY <1>10, <2>1, <2>5, <4>1 DEF LineRead
    <3>2. x.macro[k] = y.macro[k] /\ ci'.values[h][k] = ci.values[h][k]
      BY <1>4, <1>5, <2>2, <2>3, <2>5
    <3> QED
      BY <1>1, <1>3, <2>1, <2>3, <3>1, <3>2 DEF SeenInv, Now
  <2>6. CASE h = f /\ k = m
    <3>1. x.macro[m] = v
      BY <1>5, <2>3, <2>6
    <3>2. m \in Watched => ci'.values[f][m] = v /\ v # "unread"
      BY <1>1, <1>2, <1>4 DEF MacroInv, v
    <3>3. at[f] = ci.defined
      <4>1. Len(stack) # 1
        BY <1>1, <1>7, <2>1, <2>6, ConstantsAssumption DEF PathInv, TypeOK
      <4>0. Len(stack) \in Nat /\ Len(stack) >= 1
        BY <1>1, StackLength
      <4>2. Len(stack) \in 2 .. Len(stack)
        BY <4>0, <4>1, SecondOrLater
      <4> QED
        BY <1>1, <1>7, <4>2 DEF MacroInv
    <3> QED
      BY <1>1, <2>6, <3>1, <3>2, <3>3 DEF v
  <2> QED
    BY <2>4, <2>5, <2>6
<1> QED
  BY <1>10, <1>12, <1>13, <1>14, <1>15 DEF FreshInv
-----------------------------------------------------------------------------
(* The rest of a compilation. *)

LEMMA EmptyFresh ==
  ASSUME ci' = Empty, stack' = <<>>, phase' \notin {"enter", "lex", "done"}
  PROVE  FreshInv'
<1>1. /\ \A f \in Files : ci'.stat[f] = Missing /\ ci'.facts[f] = {} /\ ci'.includees[f] = {}
      /\ DOMAIN stack' = {} /\ Len(stack') = 0
  BY DEF Empty
<1>2. \A f \in Files : f \notin Loaded(ci)'
  BY <1>1 DEF Loaded
<1>3. Loaded(ci)' \subseteq Files
  BY DEF Loaded
<1>4. PathInv' /\ OwnInv' /\ ArgsInv'
  BY <1>1 DEF PathInv, OwnInv, ArgsInv
<1>5. KnownInv'
  BY <1>1, <1>2, <1>3 DEF KnownInv
<1>6. MacroInv' /\ SensitiveInv' /\ SeenInv' /\ IncludedInv'
  BY <1>1, <1>2, <1>3 DEF MacroInv, SensitiveInv, SeenInv, IncludedInv
<1> QED
  BY <1>4, <1>5, <1>6 DEF FreshInv

\* The cache is as it was; the preprocessor goes on, or has come to its end.
LEMMA SameFresh ==
  ASSUME FreshInv, phase \notin {"failed", "exit"}, ci' = ci, ArgsInv',
         \/ stack' = stack /\ (stack # <<>> => at' = at)
         \/ stack' = <<>>,
         \A h \in Files : Past(h)' = Past(h),
         phase' = "enter" => phase = "enter",
         phase' = "lex" => phase = "lex" /\ stack' = stack /\ cmd' = cmd,
         phase' \in {"lex", "done"} => phase \in {"lex", "done"} /\ cmd' = cmd /\ at' = at
  PROVE  FreshInv'
<1>1. /\ PathInv /\ OwnInv /\ ArgsInv /\ KnownInv
      /\ MacroInv /\ SensitiveInv /\ SeenInv /\ IncludedInv
  BY DEF FreshInv
<1>2. /\ Loaded(ci)' = Loaded(ci) /\ NewFiles(ci)' = NewFiles(ci)
      /\ \A f \in Loaded(ci) : f \in Files
  BY DEF Loaded, NewFiles
<1>3. /\ \A f \in Files : PastIncludes(f)' = PastIncludes(f)
      /\ \A f \in Files : FactFiles(f)' = FactFiles(f)
  BY DEF PastIncludes, FactFiles, Includes
<1>4. \A f \in Files : Covered(f)' = Covered(f)
  BY <1>3 DEF Covered
<1>5. stack' = <<>> => DOMAIN stack' = {} /\ Len(stack') = 0
  OBVIOUS
<1>6. PathInv'
  <2>1. CASE stack' = stack
    BY <1>1, <2>1 DEF PathInv, Includes
  <2>2. CASE stack' = <<>>
    <3>1. phase' = "lex" => stack'[1].file = cmd'.main
      BY <1>1 DEF PathInv
    <3>2. Len(stack') = 0
      BY <2>2
    <3>3. \A k \in 1 .. Len(stack') - 1 : FALSE
      BY <3>2
    <3> QED
      BY <3>1, <3>3 DEF PathInv
  <2> QED
    BY <2>1, <2>2
<1>7. OwnInv'
  <2>1. CASE stack' = stack
    BY <1>1, <2>1 DEF OwnInv
  <2>2. CASE stack' = <<>>
    BY <1>1, <1>5, <2>2 DEF OwnInv
  <2> QED
    BY <2>1, <2>2
<1>8. KnownInv'
  BY <1>1, <1>2, <1>3, <1>4 DEF KnownInv
<1>9. MacroInv'
  <2>1. phase' \in {"enter", "lex"} => phase \in {"enter", "lex"}
    OBVIOUS
  <2>2. \A k \in 2 .. Len(stack') : at'[stack'[k].file] = ci'.defined
    <3>1. CASE stack' = <<>>
      <4>1. Len(stack') = 0
        BY <3>1
      <4>2. \A k \in 2 .. Len(stack') : FALSE
        BY <4>1
      <4> QED
        BY <4>2
    <3>2. CASE stack' = stack /\ stack # <<>>
      BY <1>1, <3>2 DEF MacroInv
    <3> QED
      BY <3>1, <3>2
  <2> QED
    BY <1>1, <2>1, <2>2 DEF MacroInv
<1>10. SensitiveInv'
  BY <1>1, <1>2, KeepSensitive
<1>11. SeenInv'
  <2>1. ASSUME NEW h \in Headers, h \in Loaded(ci)' PROVE SeenBefore(h)
    BY <1>2, <2>1 DEF SeenBefore
  <2> QED
    BY <1>1, <2>1, KeepSeen
<1>12. IncludedInv'
  <2>1. CASE phase' \in {"lex", "done"}
    BY <1>1, <1>3, <2>1, KeepIncluded
  <2>2. CASE phase' \notin {"lex", "done"}
    BY <2>2 DEF IncludedInv
  <2> QED
    BY <2>1, <2>2
<1> QED
  BY <1>6, <1>7, <1>8, <1>9, <1>10, <1>11, <1>12 DEF FreshInv

\* The end of the main file.
LEMMA LastFresh ==
  ASSUME Acyclic, TypeOK, LexInv, FreshInv, EndOfFile, Len(stack) = 1
  PROVE  FreshInv'
<1>1. /\ phase = "lex" /\ phase' = "done" /\ stack' = <<>> /\ ci' = ci /\ cmd' = cmd
      /\ at' = at
  BY DEF EndOfFile, history
<1>2. PathInv /\ ArgsInv
  BY <1>1 DEF FreshInv
<1>3. ASSUME NEW h \in Files PROVE Past(h)' = Past(h)
  <2>1. Past(h)' = DOMAIN Lines[h]
    BY <1>1 DEF Past
  <2>2. DOMAIN stack = 1 .. 1 /\ \A k \in 1 .. 1 : k = Len(stack)
    BY StackType
  <2>3. CASE h = Top.file
    BY <1>1, <1>2, <2>1, <2>3, PastTop DEF EndOfFile
  <2>4. CASE h # Top.file
    <3>1. \A k \in DOMAIN stack : stack[k].file # h
      BY <2>2, <2>4 DEF Top
    <3> QED
      BY <2>1, <3>1, PastOff
  <2> QED
    BY <2>3, <2>4
<1>4. ArgsInv'
  BY <1>1, <1>2 DEF ArgsInv
<1> QED
  BY <1>1, <1>3, <1>4, SameFresh

\* What stays when files are unloaded knows as much as before; every header that
\* tests a macro nobody watches is gone.
LEMMA UnloadFresh ==
  ASSUME IInv, FreshInv, Unload
  PROVE  FreshInv'
<1>1. /\ TypeOK /\ LexInv /\ PathInv /\ OwnInv /\ ArgsInv /\ KnownInv
      /\ SensitiveInv /\ SeenInv /\ phase = "unload" /\ phase' = "enter"
      /\ stack' = stack /\ cmd' = cmd /\ stack = <<>>
  BY DEF IInv, Unload, StackInv, LexInv, FreshInv
<1>2. PICK gone \in SUBSET Files :
        /\ UserFiles(ci) \subseteq gone
        /\ \A f \in Files :
             /\ ci'.stat[f] = IF f \in gone THEN Missing ELSE ci.stat[f]
             /\ ci'.facts[f] = IF f \in gone THEN {} ELSE ci.facts[f]
             /\ ci'.includees[f] = IF f \in gone THEN {} ELSE ci.includees[f]
             /\ ci'.values[f] = IF f \in gone THEN Unread ELSE ci.values[f]
  BY <1>1, UnloadCases
<1>3. /\ \A f \in Loaded(ci)' : f \in Files /\ f \in Loaded(ci) /\ f \notin gone
      /\ DOMAIN stack' = {} /\ Len(stack') = 0
  BY <1>1, <1>2 DEF Loaded
<1>4. \A f \in Files : \A x \in ci'.facts[f] : x \in ci.facts[f]
  BY <1>2
<1>5. PathInv' /\ OwnInv' /\ ArgsInv'
  BY <1>1, <1>3, <1>4 DEF PathInv, OwnInv, ArgsInv
<1>6. \A f \in Files : Past(f)' = Past(f) /\ PastIncludes(f)' = PastIncludes(f)
  <2>1. \A f \in Files : Past(f)' = Past(f)
    BY <1>1 DEF Past
  <2> QED
    BY <2>1 DEF PastIncludes, Includes
<1>7. KnownInv'
  <2>1. ASSUME NEW f \in Loaded(ci)' PROVE FactFiles(f)' = Covered(f)'
    <3>1. ci'.facts[f] = ci.facts[f] /\ FactFiles(f) = Covered(f) /\ PastIncludes(f)' = PastIncludes(f)
      BY <1>1, <1>2, <1>3, <1>6, <2>1 DEF KnownInv
    <3> QED
      BY <3>1 DEF FactFiles, Covered
  <2>2. \A f \in Loaded(ci)' \cap Headers : PastIncludes(f)' \subseteq ci'.includees[f]
    BY <1>1, <1>2, <1>3, <1>6 DEF KnownInv
  <2>3. \A f \in Files : ci'.includees[f] \subseteq DirectIncludes[f]
    BY <1>1, <1>2 DEF KnownInv
  <2> QED
    BY <2>1, <2>2, <2>3 DEF KnownInv
<1>8. MacroInv'
  <2>1. ci'.macro = Undefined /\ ci'.defined = {}
    <3>1. PICK S \in Newest(ci) :
            LET modified == IF aged THEN {f \in S : WasModified(ci, f)} ELSE {}
                c        == Updated(ci)
                out      == Reach(modified \cup UserFiles(ci), c.dependents, {})
            IN  ci' = Erased(c, out)
      BY DEF Unload
    <3>2. ci \in Caches /\ Updated(ci) \in Caches
      BY <1>1, UpdatedType DEF TypeOK
    <3>3. \E c \in Caches : \E out : ci' = Erased(c, out)
      BY <3>1, <3>2
    <3> QED
      BY <3>3 DEF Erased, Caches
  <2>2. \A m \in Watched : Undefined[m] = "undefined"
    BY ConstantsAssumption DEF Undefined
  <2>3. \A k \in 2 .. Len(stack') : FALSE
    BY <1>3
  <2> QED
    BY <2>1, <2>2, <2>3 DEF MacroInv
<1>9. SensitiveInv'
  BY <1>1, <1>2, <1>3 DEF SensitiveInv, Tests
<1>10. SeenInv'
  <2>1. ASSUME NEW h \in Headers, h \in Loaded(ci)' PROVE SeenBefore(h)
    BY <1>1, <1>2, <1>3, <1>4, <1>6, <2>1 DEF SeenBefore
  <2> QED
    BY <1>1, <2>1, KeepSeen
<1>11. IncludedInv'
  BY <1>1 DEF IncludedInv
<1> QED
  BY <1>5, <1>7, <1>8, <1>9, <1>10, <1>11 DEF FreshInv

LEMMA EnterMainFresh ==
  ASSUME IInv, FactsInv, FreshInv, EnterMainFile, ~Unusable(cmd.main)
  PROVE  FreshInv'
<1> DEFINE m == cmd.main
           e == [file |-> m, line |-> 1]
<1>1. /\ TypeOK /\ LexInv /\ OwnInv /\ ArgsInv /\ KnownInv /\ MacroInv /\ LoadInv
      /\ SensitiveInv /\ SeenInv /\ phase = "enter" /\ stack = <<>> /\ ci \in Caches
  BY DEF IInv, EnterMainFile, StackInv, LexInv, FreshInv, TypeOK
<1>2. m \in Mains /\ m \in Files /\ m \notin Headers
  BY <1>1, ConstantsAssumption DEF TypeOK, Files
<1>3. m \notin Loaded(ci) /\ ci.newFEs = {}
  BY <1>1, <1>2 DEF LoadInv
<1>4. /\ stack' = <<e>> /\ phase' = "lex" /\ cmd' = cmd /\ disk[m] # Missing
      /\ ci' = [Load(ci, m) EXCEPT !.included = {m}, !.newFEs = {<<m, m>>}]
  BY DEF EnterMainFile, Unusable
<1>5. /\ ci'.stat = [ci.stat EXCEPT ![m] = disk[m]]
      /\ ci'.facts = [ci.facts EXCEPT ![m] = {OwnFact(m)}]
      /\ ci'.includees = ci.includees /\ ci'.values = ci.values
      /\ ci'.included = {m} /\ ci'.newFEs = {<<m, m>>}
      /\ ci'.macro = ci.macro /\ ci'.defined = ci.defined
  BY <1>1, <1>4 DEF Load, Caches
<1>6. DOMAIN stack' = {1} /\ Len(stack') = 1 /\ stack'[1] = e /\ e.file = m /\ e.line = 1
  BY <1>4
<1> HIDE DEF e, m
<1>7. \A h \in Files : Past(h)' = IF h = m THEN {} ELSE Past(h)
  <2>1. ASSUME NEW h \in Files, h # m PROVE Past(h)' = Past(h)
    BY <1>1, <1>6, <2>1 DEF Past
  <2>2. ASSUME NEW h \in Files, h = m PROVE Past(h)' = {}
    <3>1. \A i \in DOMAIN Lines[h] : ~(i < 1)
      BY LinesType
    <3> QED
      BY <1>6, <2>2, <3>1 DEF Past
  <2> QED
    BY <2>1, <2>2
<1>8. Enters(m)
  BY <1>1, <1>3, <1>4, <1>5, <1>6, <1>7 DEF Enters, KnownInv
<1>9. /\ OwnInv' /\ ArgsInv' /\ KnownInv'
      /\ \A h \in Files : h \in Loaded(ci)' <=> h \in Loaded(ci) \/ h = m
  BY <1>1, <1>2, <1>8, EnterFresh
<1>10. PathInv'
  <2>1. \A k \in 1 .. Len(stack') - 1 : FALSE
    BY <1>6
  <2> QED
    BY <1>4, <1>6, <2>1 DEF PathInv, m
<1>11. MacroInv'
  <2>1. \A k \in 2 .. Len(stack') : FALSE
    BY <1>6
  <2> QED
    BY <1>1, <1>5, <2>1 DEF MacroInv
<1>12. \A h \in Headers : h \in Files /\ h # m
  BY <1>2 DEF Files
<1>13. SensitiveInv'
  BY <1>1, <1>3, <1>5, <1>9, <1>12, KeepSensitive
<1>14. SeenInv'
  <2>1. ASSUME NEW h \in Headers, h \in Loaded(ci)' PROVE SeenBefore(h)
    <3>1. h \in Files /\ h # m /\ h \in Loaded(ci)
      BY <1>9, <1>12, <2>1
    <3>2. ci'.facts[h] = ci.facts[h]
      BY <1>1, <1>5, <3>1, CacheFields
    <3> QED
      BY <1>5, <1>7, <3>1, <3>2 DEF SeenBefore
  <2> QED
    BY <1>1, <2>1, KeepSeen
<1>15. IncludedInv'
  <2>1. \A h \in Files : h = m => PastIncludes(h)' = {}
    BY <1>7 DEF PastIncludes
  <2>2. NewFiles(ci)' \subseteq {m}
    BY <1>5 DEF NewFiles
  <2>3. cmd'.main = m /\ m \in Loaded(ci)'
    BY <1>2, <1>4, <1>9 DEF m
  <2>4. m \in Closure(m)
    BY <1>2, ClosureIsLeast
  <2>5. Closure(cmd.main)' = Closure(m)
    BY <2>3 DEF Closure, Reach, ClosedUnder, DirectIncludes
  <2>6. \A h \in ci'.included : PastIncludes(h)' \subseteq ci'.included
    BY <1>2, <1>5, <2>1
  <2>7. /\ cmd'.main \in ci'.included /\ NewFiles(ci)' \subseteq ci'.included
        /\ ci'.included \subseteq Closure(cmd.main)' \cap Loaded(ci)'
    BY <1>5, <2>2, <2>3, <2>4, <2>5
  <2> QED
    BY <2>6, <2>7 DEF IncludedInv
<1> QED
  BY <1>9, <1>10, <1>11, <1>13, <1>14, <1>15 DEF FreshInv

\* A step that only ends or begins a compilation, or changes the disk.
LEMMA RestFresh ==
  ASSUME TypeOK, LexInv, NotedInv, FreshInv, phase' \notin {"failed", "exit"},
         \/ \E m \in Mains, a \in Args : Command(m, a)
         \/ ResetRequest \/ Restart \/ Succeed \/ Retry \/ GiveUp \/ Age
         \/ \E f \in Editable : Edit(f)
         \/ UNCHANGED vars
  PROVE  FreshInv'
<1>1. ASSUME stack' = stack PROVE \A h \in Files : Past(h)' = Past(h)
  BY <1>1 DEF Past
<1>2. CASE ResetRequest \/ Restart \/ Retry
  <2>1. ci' = Empty /\ stack' = <<>> /\ phase' \notin {"enter", "lex", "done"}
    BY <1>2 DEF ResetRequest, Restart, Retry, LexInv
  <2> QED
    BY <2>1, EmptyFresh
<1>3. ASSUME NEW m \in Mains, NEW a \in Args, Command(m, a) PROVE FreshInv'
  <2>1. /\ phase = "idle" /\ phase' = "unload" /\ stack = <<>> /\ stack' = <<>>
        /\ cmd' = [main |-> m, args |-> a]
        /\ ci' = IF prevArgs # NoArgs /\ prevArgs # a THEN Empty ELSE ci
    BY <1>3 DEF Command, LexInv
  <2>2. CASE prevArgs # a
    <3>1. ci' = Empty
      BY <2>1, <2>2 DEF NotedInv
    <3> QED
      BY <2>1, <3>1, EmptyFresh
  <2>3. CASE prevArgs = a
    <3>1. ci' = ci /\ cmd'.args = a
      BY <2>1, <2>3
    <3>2. ArgsInv
      BY <2>1 DEF FreshInv
    <3>3. ArgsInv'
      BY <2>1, <2>3, <3>1, <3>2 DEF ArgsInv
    <3> QED
      BY <1>1, <2>1, <3>1, <3>3, SameFresh
  <2> QED
    BY <2>2, <2>3
<1>4. CASE Succeed
  <2>1. /\ phase = "done" /\ phase' = "idle" /\ stack = <<>> /\ stack' = <<>>
        /\ ci' = ci /\ prevArgs' = cmd.args
    BY <1>4 DEF Succeed, LexInv
  <2>2. ArgsInv
    BY <2>1 DEF FreshInv
  <2>3. ArgsInv'
    BY <2>1, <2>2 DEF ArgsInv
  <2> QED
    BY <1>1, <2>1, <2>3, SameFresh
<1>5. CASE Age \/ (\E f \in Editable : Edit(f)) \/ UNCHANGED vars
  <2>1. /\ phase' = phase /\ stack' = stack /\ ci' = ci /\ cmd' = cmd
        /\ prevArgs' = prevArgs /\ at' = at
    BY <1>5 DEF Age, Edit, vars, history
  <2>2. ArgsInv
    BY <2>1 DEF FreshInv
  <2>3. ArgsInv'
    BY <2>1, <2>2 DEF ArgsInv
  <2> QED
    BY <1>1, <2>1, <2>3, SameFresh
<1>6. CASE GiveUp
  BY <1>6 DEF GiveUp
<1> QED
  BY <1>2, <1>3, <1>4, <1>5, <1>6

LEMMA FreshNext ==
  ASSUME UnguardedHeaders, Acyclic, NoUndef, Configured, IInv, NotedInv, ChainInv,
         phase \notin {"failed", "exit"} => FactsInv, FreshInv, [Next]_vars
  PROVE  FreshInv'
<1>1. TypeOK /\ LexInv
  BY DEF IInv, StackInv, LexInv
<1>2. CASE phase' \in {"failed", "exit"}
  BY <1>2 DEF FreshInv
<1>3. CASE phase' \notin {"failed", "exit"}
  <2>1. CASE Unload
    BY <2>1, UnloadFresh
  <2>2. CASE EnterMainFile
    <3>1. phase = "enter" /\ ~Unusable(cmd.main)
      BY <1>3, <2>2 DEF EnterMainFile, Fail
    <3> QED
      BY <2>2, <3>1, EnterMainFresh
  <2>3. CASE IncludeLine
    <3>1. /\ phase = "lex" /\ phase' = "lex"
          /\ IncludeHit(Top.file, Line.file) \/ IncludeMiss(Top.file, Line.file)
      BY <1>1, <1>3, <2>3, IncludeCases
    <3>2. FactsInv
      BY <3>1
    <3> QED
      BY <2>3, <3>1, <3>2, HitFresh, MissFresh
  <2>4. CASE GuardedLine
    BY <2>4, GuardedFresh
  <2>5. CASE MacroLine
    BY <2>5, MacroFresh
  <2>6. CASE UseLine
    BY <2>6, UseFresh
  <2>7. CASE EndOfFile
    BY <1>1, <2>7, LastFresh, PopFresh
  <2> QED
    BY <1>1, <1>3, <2>1, <2>2, <2>3, <2>4, <2>5, <2>6, <2>7, RestFresh DEF Next, ServerStep
<1> QED
  BY <1>2, <1>3

\* What the invariant says of a compilation that has succeeded: nothing is left to
\* read, so what was included is all that can be.
LEMMA FreshAtEnd == IInv /\ FreshInv => ResultIsFresh
<1> SUFFICES ASSUME IInv, FreshInv, phase = "done"
             PROVE  /\ FactFiles(cmd.main) = Closure(cmd.main)
                    /\ ci.included = Closure(cmd.main)
                    /\ \A x \in ci.facts[cmd.main] : x.args = cmd.args
                    /\ \A x \in ci.facts[cmd.main], m \in Macros :
                          Tests(x.file, m) => x.macro[m] = Now(x.file, m)
  BY DEF ResultIsFresh, Result, FactFiles
<1>1. /\ TypeOK /\ LexInv /\ OwnInv /\ ArgsInv /\ KnownInv /\ SeenInv /\ IncludedInv
      /\ stack = <<>>
  BY DEF IInv, StackInv, LexInv, FreshInv
<1>2. PICK m \in Files : m = cmd.main
  BY <1>1 DEF TypeOK, Files
<1>3. ASSUME NEW f \in Files
      PROVE  Past(f) = DOMAIN Lines[f] /\ PastIncludes(f) = DirectIncludes[f]
             /\ Covered(f) = Closure(f)
  BY <1>1, PastOff, PastIncludesType
<1>4. ci.included = Closure(m)
  <2>1. m \in ci.included /\ ci.included \subseteq Closure(m)
    BY <1>1, <1>2 DEF IncludedInv
  <2>2. ci.included \in SUBSET Files
    BY <1>2, <2>1, ClosureIsLeast
  <2>3. \A f \in ci.included : DirectIncludes[f] \subseteq ci.included
    BY <1>1, <1>3, <2>2 DEF IncludedInv
  <2> QED
    BY <1>2, <2>1, <2>2, <2>3, ClosureIsLeast
<1>5. ci.included \subseteq Loaded(ci) /\ m \in Loaded(ci)
  BY <1>1, <1>2 DEF IncludedInv
<1>6. FactFiles(m) = Closure(m)
  BY <1>1, <1>2, <1>3, <1>5 DEF KnownInv
<1>7. ASSUME NEW x \in ci.facts[m], NEW w \in Macros, Tests(x.file, w)
      PROVE  x.macro[w] = Now(x.file, w)
  <2>1. PICK f \in Headers : f = x.file
    BY <1>7 DEF Tests
  <2>2. PICK i \in DOMAIN Lines[f] : Lines[f][i].op = "use" /\ Lines[f][i].macro = w
    BY <1>7, <2>1 DEF Tests
  <2>3. f \in Files /\ f \in ci.included /\ f \in Loaded(ci)
    BY <1>4, <1>5, <1>6, <1>7, <2>1 DEF FactFiles, Files
  <2>4. f \in FactFiles(f)
    BY <1>1, <2>3, <1>3, ClosureIsLeast DEF KnownInv
  <2>5. PICK y \in ci.facts[f] : y.file = f
    BY <2>4 DEF FactFiles
  <2>6. y = x
    BY <1>1, <1>2, <1>7, <2>1, <2>3, <2>5 DEF OwnInv
  <2>7. i \in Past(f)
    BY <1>3, <2>2, <2>3
  <2>8. y.macro[w] = Now(f, w)
    BY <1>1, <2>1, <2>2, <2>3, <2>5, <2>7 DEF SeenInv
  <2> QED
    BY <2>1, <2>6, <2>8
<1>8. \A x \in ci.facts[m] : x.args = cmd.args
  BY <1>1, <1>2 DEF ArgsInv
<1> QED
  BY <1>2, <1>4, <1>6, <1>7, <1>8

\* Every compilation that succeeds with a cache has seen what one without would have
\* seen: the files its text reaches and no others, under its own arguments, each with
\* the macros it tests as they are now; for any project whose headers include others
\* plainly and in no circle, whose main files take back no watched macro, and whose
\* configuration names the other macros' headers (performCompile).
THEOREM ResultsAreFresh ==
  ASSUME UnguardedHeaders, Acyclic, NoUndef, Configured
  PROVE  Spec => []ResultIsFresh
<1> DEFINE J == /\ NotedInv /\ ChainInv /\ FreshInv
                /\ phase \notin {"failed", "exit"} => FactsInv
<1>1. Init => J
  <2> SUFFICES ASSUME Init PROVE J
    OBVIOUS
  <2>1. ci = Empty /\ stack = <<>> /\ phase = "idle" /\ Len(stack) = 0 /\ DOMAIN stack = {}
    BY DEF Init
  <2>2. NotedInv /\ ChainInv /\ FactsInv
    BY <2>1 DEF Init, Empty, NotedInv, EmptyStart, ChainInv, FactsInv
  <2>3. \A f \in Files : ci.stat[f] = Missing /\ ci.facts[f] = {} /\ ci.includees[f] = {}
    BY <2>1 DEF Empty
  <2>4. Loaded(ci) = {}
    BY <2>3 DEF Loaded
  <2>5. PathInv /\ OwnInv /\ ArgsInv /\ KnownInv /\ MacroInv /\ SensitiveInv /\ SeenInv
        /\ IncludedInv
    BY <2>1, <2>3, <2>4 DEF PathInv, OwnInv, ArgsInv, KnownInv, MacroInv, SensitiveInv,
                            SeenInv, IncludedInv
  <2> QED
    BY <2>2, <2>5 DEF FreshInv
<1>2. IInv /\ J /\ [Next]_vars => J'
  <2> SUFFICES ASSUME IInv, J, [Next]_vars PROVE J'
    OBVIOUS
  <2>1. TypeOK /\ LexInv
    BY DEF IInv, StackInv, LexInv
  <2>2. NotedInv'
    BY <2>1, RestNoted, UnloadNoted, EnterNoted, IncludeNoted, LexNoted DEF Next, ServerStep
  <2>3. ChainInv' /\ (phase' \notin {"failed", "exit"} => FactsInv') /\ FreshInv'
    BY ChainNext, FactsNext, FreshNext
  <2> QED
    BY <2>2, <2>3
<1>3. IInv /\ J => ResultIsFresh
  BY FreshAtEnd
<1> QED
  BY <1>1, <1>2, <1>3, Inductive, PTL DEF Spec
=============================================================================
