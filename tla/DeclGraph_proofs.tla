-------------------------- MODULE DeclGraph_proofs --------------------------
(***************************************************************************)
(* Proofs about the dependency map, for every set of declarations, types   *)
(* and files, whatever the texts and the references are.                   *)
(*                                                                         *)
(* The argument: each reference of a node that stays is known to the graph *)
(* as an edge, or, once what it refers to is to be unloaded, waits in the  *)
(* call that looks at the dependents of that (EdgesKnown).  When no call   *)
(* is under way, no node that stays refers to one that does not.  What is  *)
(* to be unloaded at any time belongs to every set of nodes that can be    *)
(* unloaded without more (Least), so the collection ends with the least.   *)
(***************************************************************************)
EXTENDS DeclGraph, SequenceTheorems, WellFoundedInduction, TLAPS

(* A node refers softly to what it uses softly, hardly to the rest.        *)
Kinds ==
  \A x \in Symbols :
    /\ \A r \in soft[x] : Entity[r] \in SoftUses[x] \cup LateUses[x]
    /\ \A r \in hard[x] : Entity[r] \in HardUses[x] \/ (x \in Implicit /\ Entity[r] \in Partials[x])

(* Every node in memory refers to nodes in memory, but those that are      *)
(* being unloaded.                                                         *)
Staying == IF phase = "unload" THEN live \ seen ELSE live

Memory == \A x \in Staying : Refs(x) \subseteq Staying

(* Each declaration is mapped to the file it starts in, once update has    *)
(* seen it.                                                                *)
Mapped ==
  /\ \A d \in Decls : declFile[d] # None => d \in live /\ declFile[d] = FileOf[d]
  /\ \A d \in Decls : d \in live /\ d \notin fresh => declFile[d] = FileOf[d]
  /\ \A d \in Staying \cap Decls : FileOf[d] \in Staying
  /\ \A f \in Files : f \notin Staying => includees[f] = {}

(* What a compilation has told the map.                                    *)
News ==
  /\ phase # "compile" => newFEs = {} /\ fresh = {} /\ moved = {} /\ reading = <<>>
  /\ phase = "compile" => main \in Entered
  /\ \A n \in DOMAIN reading : reading[n] \in Entered
  /\ \A p \in newFEs : p[1] \in live /\ p[2] \in live /\ p[2] \in Entered
  /\ \A d \in fresh : d \in live /\ (d \in Decls \ Implicit => FileOf[d] \in Entered)
  /\ \A p \in moved : /\ p[2] \in live
                      /\ p[1] # None /\ p[2] \in soft[p[1]] \cup hard[p[1]] => p[1] \in Renewed

(* The nodes whose references the graph need not know.                     *)
Unlooked ==
  IF phase = "compile" THEN Entered \cup Renewed
  ELSE IF phase = "update" THEN pending \cup {main}
  ELSE IF phase = "collect" THEN {main} ELSE {}

Waiting(x, z) == \E n \in DOMAIN stack : stack[n].of = z /\ x \in stack[n].todo

EdgesKnown ==
  \A x \in live \ (Unlooked \cup seen) : \A z \in Refs(x) :
    IF z \in seen THEN Waiting(x, z) ELSE x \in dependents[z]

(* The graph has no edge but for a reference.                              *)
EdgesTrue ==
  \A z \in Node : \A x \in dependents[z] :
    x \in Staying /\ (z \in Refs(x) \/ <<z, x>> \in moved)

(* The collection under way.                                               *)
Collecting ==
  /\ phase \notin {"collect", "unload"} => seen = {}
  /\ phase # "collect" => stack = <<>>
  /\ phase \in {"update", "collect"} => main \in files
  /\ phase = "update" => pending \subseteq live \ visited
  /\ files \subseteq live
  /\ \A z \in seen : dependents[z] = {}
  /\ \A n \in DOMAIN stack : /\ stack[n].of \in seen
                             /\ \A x \in stack[n].todo : x \in live /\ stack[n].of \in Refs(x)
                             /\ \A k \in DOMAIN stack : stack[k].of = stack[n].of => k = n
  /\ phase = "unload" => Roots = {}

(* A file that stays and is not being read is whole.                       *)
Whole ==
  \A f \in Staying \cap Files : \A n \in DOMAIN Text[f] :
    (\A k \in DOMAIN reading : reading[k] # f) =>
      IF Text[f][n] \in Files
        THEN Text[f][n] \in includees[f] \cup {f} \/ <<Text[f][n], f>> \in newFEs
        ELSE Text[f][n] \in Staying

IInv == TypeOK /\ Kinds /\ Memory /\ Mapped /\ News /\ EdgesKnown /\ EdgesTrue /\ Collecting /\ Whole

-----------------------------------------------------------------------------
(* Facts about stacks.                                                     *)

LEMMA TopType ==
  ASSUME NEW S, NEW s \in Seq(S), s # <<>>
  PROVE  Len(s) \in DOMAIN s /\ Top(s) = s[Len(s)] /\ Top(s) \in S
BY DEF Top

LEMMA PoppedType ==
  ASSUME NEW S, NEW s \in Seq(S), s # <<>>
  PROVE  /\ Popped(s) \in Seq(S)
         /\ DOMAIN Popped(s) = 1 .. Len(s) - 1
         /\ \A n \in 1 .. Len(s) - 1 : Popped(s)[n] = s[n] /\ n \in DOMAIN s
<1>1. Len(s) \in Nat /\ Len(s) # 0 /\ DOMAIN s = 1 .. Len(s)
  OBVIOUS
<1> QED
  BY <1>1, SubSeqProperties DEF Popped

LEMMA AppendType ==
  ASSUME NEW S, NEW s \in Seq(S), NEW x \in S
  PROVE  /\ Append(s, x) \in Seq(S)
         /\ DOMAIN Append(s, x) = 1 .. Len(s) + 1
         /\ \A n \in 1 .. Len(s) : Append(s, x)[n] = s[n] /\ n \in DOMAIN s
         /\ Append(s, x)[Len(s) + 1] = x
         /\ Append(s, x) # <<>>
BY AppendProperties

Frames == [of : Node, todo : SUBSET Node]

(* Taking a dependent out of the innermost call.                           *)
LEMMA TakenType ==
  ASSUME stack \in Seq(Frames), stack # <<>>, NEW y
  PROVE  /\ Taken(y) \in Seq(Frames)
         /\ DOMAIN Taken(y) = DOMAIN stack
         /\ Frame \in Frames /\ Len(stack) \in DOMAIN stack /\ Frame = stack[Len(stack)]
         /\ \A n \in DOMAIN stack :
              /\ Taken(y)[n].of = stack[n].of
              /\ Taken(y)[n].todo \subseteq stack[n].todo
              /\ \A x \in stack[n].todo : x # y \/ n # Len(stack) => x \in Taken(y)[n].todo
              /\ n = Len(stack) => y \notin Taken(y)[n].todo
<1>1. Len(stack) \in DOMAIN stack /\ Frame = stack[Len(stack)] /\ Frame \in Frames
  BY TopType DEF Frame
<1>2. [stack[Len(stack)] EXCEPT !.todo = @ \ {y}] \in Frames
  BY <1>1 DEF Frames
<1>3. Taken(y) = [stack EXCEPT ![Len(stack)] = [stack[Len(stack)] EXCEPT !.todo = @ \ {y}]]
  BY DEF Taken
<1>4. Taken(y) \in Seq(Frames) /\ DOMAIN Taken(y) = DOMAIN stack
  BY <1>1, <1>2, <1>3, ExceptSeq
<1>5. ASSUME NEW n \in DOMAIN stack
      PROVE  /\ Taken(y)[n].of = stack[n].of
             /\ Taken(y)[n].todo \subseteq stack[n].todo
             /\ \A x \in stack[n].todo : x # y \/ n # Len(stack) => x \in Taken(y)[n].todo
             /\ n = Len(stack) => y \notin Taken(y)[n].todo
  <2>1. stack[n] \in Frames
    OBVIOUS
  <2>2. Taken(y)[n] = IF n = Len(stack) THEN [stack[n] EXCEPT !.todo = @ \ {y}] ELSE stack[n]
    BY <1>3
  <2> QED
    BY <2>1, <2>2 DEF Frames
<1> QED
  BY <1>1, <1>4, <1>5

LEMMA RefsType ==
  ASSUME GraphAssumption, TypeOK, NEW x \in Node
  PROVE  Refs(x) \subseteq Node
BY DEF GraphAssumption, TypeOK, Refs, Node, Symbols

-----------------------------------------------------------------------------
(* Types.                                                                  *)

LEMMA ResolvedType ==
  ASSUME NEW x \in Symbols, NEW uses, NEW s \in Resolved(x, uses)
  PROVE  /\ s \subseteq Symbols /\ s \subseteq live \cup {x}
         /\ \A r \in s : Entity[r] \in uses
BY DEF Resolved

LEMMA EnteredType ==
  ASSUME GraphAssumption, TypeOK
  PROVE  /\ Entered \subseteq Files /\ Renewed \subseteq Symbols
         /\ \A f : NewIncludees(f) \subseteq Files
         /\ \A x : Kept(x) \subseteq dependents[x]
<1>1. \A p \in newFEs : p[1] \in Files /\ p[2] \in Files
  BY DEF TypeOK
<1>2. \A p \in moved : p[2] \in Decls
  BY DEF TypeOK
<1> QED
  BY <1>1, <1>2 DEF TypeOK, Entered, Renewed, NewIncludees, Kept, Symbols

LEMMA CollectUsersOfType ==
  ASSUME TypeOK, NEW x \in Node, NEW calls \in Seq(Frames), CollectUsersOf(x, calls, dependents)
  PROVE  stack' \in Seq(Frames) /\ dependents' \in [Node -> SUBSET Node] /\ seen' \subseteq Node
<1>1. CASE x \in seen
  BY <1>1 DEF CollectUsersOf, TypeOK
<1>2. CASE x \notin seen
  <2>1. dependents[x] \subseteq Node
    BY DEF TypeOK
  <2>2. [of |-> x, todo |-> dependents[x]] \in Frames
    BY <2>1 DEF Frames
  <2>3. Append(calls, [of |-> x, todo |-> dependents[x]]) \in Seq(Frames)
    BY <2>2
  <2>4. stack' = Append(calls, [of |-> x, todo |-> dependents[x]])
    BY <1>2 DEF CollectUsersOf
  <2> QED
    BY <1>2, <2>3, <2>4 DEF CollectUsersOf, TypeOK
<1> QED
  BY <1>1, <1>2

LEMMA CompileType ==
  ASSUME GraphAssumption, TypeOK, Compile
  PROVE  TypeOK'
<1>1. ASSUME NEW m \in MainFiles, EnterMainFile(m) PROVE TypeOK'
  <2>1. m \in Files /\ m \in Node /\ <<m>> \in Seq(Files)
    BY DEF GraphAssumption, Node
  <2>2. {<<m, m>>} \subseteq Files \X Files
    BY <2>1
  <2>3. newFEs' \subseteq Files \X Files /\ live' \subseteq Node
    BY <1>1, <2>1, <2>2 DEF EnterMainFile, TypeOK
  <2>4. main' = m /\ reading' = <<m>> /\ phase' = "compile"
    BY <1>1 DEF EnterMainFile
  <2>5. UNCHANGED <<order, soft, hard, fresh, moved, graph, unloading>>
    BY <1>1 DEF EnterMainFile
  <2> QED
    BY <2>1, <2>3, <2>4, <2>5 DEF TypeOK, graph, unloading
<1>2. ASSUME NEW g \in Files, Include(g) PROVE TypeOK'
  <2>1. reading \in Seq(Files) /\ reading # <<>> /\ Top(reading) \in Files
    BY <1>2, TopType DEF Include, IsNextLine, TypeOK
  <2>2. g \in Node /\ Append(reading, g) \in Seq(Files)
    BY <2>1 DEF Node
  <2>3. live' \subseteq Node /\ reading' \in Seq(Files)
    <3>1. CASE g \in live
      BY <1>2, <2>1, <3>1 DEF Include, TypeOK
    <3>2. CASE g \notin live
      <4>1. live' = live \cup {g} /\ reading' = Append(reading, g)
        BY <1>2, <3>2 DEF Include
      <4>2. live \subseteq Node
        BY DEF TypeOK
      <4> QED
        BY <2>2, <4>1, <4>2
    <3> QED
      BY <3>1, <3>2
  <2>4. {<<g, Top(reading)>>} \subseteq Files \X Files
    BY <2>1
  <2>5. newFEs' \subseteq Files \X Files
    BY <1>2, <2>4 DEF Include, TypeOK
  <2> QED
    BY <1>2, <2>3, <2>5 DEF Include, TypeOK, graph, unloading
<1>3. CASE EndOfFile
  <2>1. reading' \in Seq(Files)
    BY <1>3, PoppedType DEF EndOfFile, TypeOK
  <2> QED
    BY <1>3, <2>1 DEF EndOfFile, TypeOK, news, graph, unloading
<1>4. ASSUME NEW x \in Symbols, Create(x) PROVE TypeOK'
  <2>1. soft' \in [Symbols -> SUBSET Symbols] /\ hard' \in [Symbols -> SUBSET Symbols]
    <3>1. PICK s \in Resolved(x, SoftUses[x]), h \in Resolved(x, HardUses[x]) :
            soft' = [soft EXCEPT ![x] = s] /\ hard' = [hard EXCEPT ![x] = h]
      BY <1>4 DEF Create
    <3>2. s \subseteq Symbols /\ h \subseteq Symbols
      BY <3>1, ResolvedType
    <3> QED
      BY <3>1, <3>2 DEF TypeOK
  <2>2. order' \in Seq(Decls)
    BY <1>4 DEF Create, TypeOK
  <2> QED
    BY <1>4, <2>1, <2>2 DEF Create, TypeOK, graph, unloading, Node
<1>5. ASSUME NEW d \in Decls, Instantiate(d) PROVE TypeOK'
  <2>1. soft' \in [Symbols -> SUBSET Symbols]
    BY <1>5 DEF Instantiate, TypeOK, Symbols
  <2>2. moved' \subseteq (Decls \cup {None}) \X Decls
    BY <1>5 DEF Instantiate, TypeOK
  <2> QED
    BY <1>5, <2>1, <2>2 DEF Instantiate, TypeOK, graph, unloading
<1>6. ASSUME NEW d \in Implicit, SetInstantiationOf(d) PROVE TypeOK'
  <2>1. d \in Decls
    BY DEF GraphAssumption
  <2>2. hard' \in [Symbols -> SUBSET Symbols] /\ moved' \subseteq (Decls \cup {None}) \X Decls
    BY <1>6, <2>1 DEF SetInstantiationOf, TypeOK, Symbols
  <2> QED
    BY <1>6, <2>2 DEF SetInstantiationOf, TypeOK, graph, unloading
<1> QED
  BY <1>1, <1>2, <1>3, <1>4, <1>5, <1>6 DEF Compile

LEMMA CollectType ==
  ASSUME GraphAssumption, TypeOK, Collect
  PROVE  TypeOK'
<1>1. CASE Update
  <2>1. includees' \in [Files -> SUBSET Files] /\ dependents' \in [Node -> SUBSET Node]
    BY <1>1, EnteredType DEF Update, TypeOK
  <2>2. declFile' \in [Decls -> Files \cup {None}]
    BY <1>1 DEF Update, TypeOK, GraphAssumption
  <2>3. pending' \subseteq Node /\ visited' \subseteq Node
    BY <1>1, EnteredType DEF Update, TypeOK, Node
  <2>4. files' \subseteq Files
    BY <1>1 DEF Update, Unloadable
  <2> QED
    BY <1>1, <2>1, <2>2, <2>3, <2>4 DEF Update, TypeOK, compiler
<1>2. CASE FindDependees
  <2>1. \A y \in Node : Refs(y) \subseteq Node
    BY RefsType
  <2>2. pending' \subseteq Node /\ visited' \subseteq Node /\ dependents' \in [Node -> SUBSET Node]
    BY <1>2, <2>1 DEF FindDependees, TypeOK
  <2> QED
    BY <1>2, <2>2 DEF FindDependees, TypeOK, compiler, news, unloading
<1>3. ASSUME NEW x \in Node, CollectRoot(x) PROVE TypeOK'
  <2>1. <<>> \in Seq(Frames)
    OBVIOUS
  <2>2. stack' \in Seq(Frames) /\ dependents' \in [Node -> SUBSET Node] /\ seen' \subseteq Node
    BY <1>3, <2>1, CollectUsersOfType DEF CollectRoot
  <2> QED
    BY <1>3, <2>2 DEF CollectRoot, TypeOK, compiler, news, Frames
<1>4. ASSUME NEW y \in Node, Rewrite(y) PROVE TypeOK'
  <2>1. stack' \in Seq(Frames)
    BY <1>4, TakenType DEF Rewrite, TypeOK, Frames
  <2>2. PICK r \in Decls : /\ soft' = [soft EXCEPT ![y] = (@ \ {Frame.of}) \cup {r}]
                           /\ dependents' = [dependents EXCEPT ![r] = @ \cup {y}]
    BY <1>4 DEF Rewrite
  <2>3. soft' \in [Symbols -> SUBSET Symbols] /\ dependents' \in [Node -> SUBSET Node]
    BY <1>4, <2>2 DEF Rewrite, TypeOK, Symbols, Node
  <2> QED
    BY <1>4, <2>1, <2>3 DEF Rewrite, TypeOK, news, Frames
<1>5. ASSUME NEW y \in Node, Follow(y) PROVE TypeOK'
  <2>1. Taken(y) \in Seq(Frames)
    BY <1>5, TakenType DEF Follow, TypeOK, Frames
  <2>2. stack' \in Seq(Frames) /\ dependents' \in [Node -> SUBSET Node] /\ seen' \subseteq Node
    BY <1>5, <2>1, CollectUsersOfType DEF Follow
  <2> QED
    BY <1>5, <2>2 DEF Follow, TypeOK, compiler, news, Frames
<1>6. CASE Return
  <2>1. stack' \in Seq(Frames)
    BY <1>6, PoppedType DEF Return, TypeOK, Frames
  <2> QED
    BY <1>6, <2>1 DEF Return, TypeOK, compiler, news, graph, Frames
<1>7. CASE RemoveDependencies
  BY <1>7 DEF RemoveDependencies, TypeOK, compiler, news, unloading
<1> QED
  BY <1>1, <1>2, <1>3, <1>4, <1>5, <1>6, <1>7 DEF Collect

LEMMA UnloadType ==
  ASSUME GraphAssumption, TypeOK, UnloadRest \/ \E d \in Decls : UnloadDecl(d)
  PROVE  TypeOK'
<1>1. CASE UnloadRest
  BY <1>1 DEF UnloadRest, TypeOK, news
<1>2. ASSUME NEW d \in Decls, UnloadDecl(d) PROVE TypeOK'
  <2>1. PICK n \in DOMAIN order :
          order' = SubSeq(order, 1, n - 1) \o SubSeq(order, n + 1, Len(order))
    BY <1>2 DEF UnloadDecl
  <2>2. order \in Seq(Decls) /\ n \in 1 .. Len(order)
    BY DEF TypeOK
  <2>3. order' \in Seq(Decls)
    BY <2>1, <2>2, SubSeqProperties, ConcatProperties
  <2> QED
    BY <1>2, <2>3 DEF UnloadDecl, TypeOK, news, unloading
<1> QED
  BY <1>1, <1>2

LEMMA TypeStep ==
  ASSUME GraphAssumption, TypeOK, [Next]_vars
  PROVE  TypeOK'
<1>1. CASE UNCHANGED vars
  BY <1>1 DEF TypeOK, vars, compiler, news, graph, unloading
<1> QED
  BY <1>1, CompileType, CollectType, UnloadType DEF Next

LEMMA TypeInit ==
  ASSUME GraphAssumption, Init
  PROVE  TypeOK
BY DEF GraphAssumption, Init, TypeOK

(* Every variable keeps its type, whatever the program that is compiled.   *)
THEOREM TypeCorrect == Spec => []TypeOK
<1>1. Init => TypeOK
  BY TypeInit, GraphAssumption
<1>2. TypeOK /\ [Next]_vars => TypeOK'
  BY TypeStep, GraphAssumption
<1> QED
  BY <1>1, <1>2, PTL DEF Spec

-----------------------------------------------------------------------------
(* References keep their kinds.                                            *)

LEMMA KindsStep ==
  ASSUME GraphAssumption, TypeOK, Kinds, [Next]_vars
  PROVE  Kinds'
<1>1. CASE UNCHANGED <<soft, hard>>
  BY <1>1 DEF Kinds
<1>2. ASSUME NEW x \in Symbols, Create(x) PROVE Kinds'
  <2>1. PICK s \in Resolved(x, SoftUses[x]), h \in Resolved(x, HardUses[x]) :
          soft' = [soft EXCEPT ![x] = s] /\ hard' = [hard EXCEPT ![x] = h]
    BY <1>2 DEF Create
  <2>2. /\ \A r \in s : Entity[r] \in SoftUses[x]
        /\ \A r \in h : Entity[r] \in HardUses[x]
    BY <2>1, ResolvedType
  <2>3. ASSUME NEW z \in Symbols
        PROVE  soft'[z] = (IF z = x THEN s ELSE soft[z]) /\ hard'[z] = (IF z = x THEN h ELSE hard[z])
    BY <2>1 DEF TypeOK
  <2> QED
    BY <2>2, <2>3 DEF Kinds
<1>3. ASSUME NEW d \in Decls, Instantiate(d) PROVE Kinds'
  <2>1. PICK e \in LateUses[d], r \in live \cap Symbols :
          Entity[r] = e /\ soft' = [soft EXCEPT ![d] = @ \cup {r}]
    BY <1>3 DEF Instantiate
  <2>2. ASSUME NEW z \in Symbols
        PROVE  soft'[z] = (IF z = d THEN soft[d] \cup {r} ELSE soft[z]) /\ hard'[z] = hard[z]
    BY <1>3, <2>1 DEF Instantiate, TypeOK
  <2> QED
    BY <2>1, <2>2 DEF Kinds
<1>4. ASSUME NEW d \in Implicit, SetInstantiationOf(d) PROVE Kinds'
  <2>1. PICK p \in hard[d] \cap Decls, q \in live \cap Symbols :
          Entity[q] \in Partials[d] /\ hard' = [hard EXCEPT ![d] = (@ \ {p}) \cup {q}]
    BY <1>4 DEF SetInstantiationOf
  <2>2. d \in Symbols
    BY DEF GraphAssumption, Symbols
  <2>3. ASSUME NEW z \in Symbols
        PROVE  hard'[z] = (IF z = d THEN (hard[d] \ {p}) \cup {q} ELSE hard[z]) /\ soft'[z] = soft[z]
    BY <1>4, <2>1, <2>2 DEF SetInstantiationOf, TypeOK
  <2> QED
    BY <2>1, <2>3 DEF Kinds
<1>5. ASSUME NEW y \in Node, Rewrite(y) PROVE Kinds'
  <2>1. PICK r \in Decls : /\ IsReplacement(Frame.of, r)
                           /\ soft[y] \cap {Frame.of, r} # {}
                           /\ soft' = [soft EXCEPT ![y] = (@ \ {Frame.of}) \cup {r}]
    BY <1>5 DEF Rewrite
  <2>2. y \in Symbols /\ Entity[r] = Entity[Frame.of]
    BY <1>5, <2>1 DEF Rewrite, IsReplacement, Candidates
  <2>3. Entity[r] \in SoftUses[y] \cup LateUses[y]
    BY <2>1, <2>2 DEF Kinds
  <2>4. ASSUME NEW z \in Symbols
        PROVE  /\ soft'[z] = (IF z = y THEN (soft[y] \ {Frame.of}) \cup {r} ELSE soft[z])
               /\ hard'[z] = hard[z]
    BY <1>5, <2>1, <2>2 DEF Rewrite, TypeOK
  <2>5. ASSUME NEW z \in Symbols, NEW q \in soft'[z]
        PROVE  Entity[q] \in SoftUses[z] \cup LateUses[z]
    <3>1. q \in soft[z] \/ (z = y /\ q = r)
      BY <2>4, <2>5
    <3> QED
      BY <2>3, <3>1 DEF Kinds
  <2>6. \A z \in Symbols : hard'[z] = hard[z]
    BY <2>4
  <2> QED
    BY <2>5, <2>6, Zenon DEF Kinds
<1>6. CASE UnloadRest
  <2>1. ASSUME NEW z \in Symbols
        PROVE  soft'[z] \subseteq soft[z] /\ hard'[z] \subseteq hard[z]
    BY <1>6 DEF UnloadRest
  <2> QED
    BY <2>1 DEF Kinds
<1>7. [Next]_vars => \/ UNCHANGED <<soft, hard>>
                     \/ \E x \in Symbols : Create(x)
                     \/ \E d \in Decls : Instantiate(d)
                     \/ \E d \in Implicit : SetInstantiationOf(d)
                     \/ \E y \in Node : Rewrite(y)
                     \/ UnloadRest
  BY DEF Next, Compile, Collect, EnterMainFile, Include, EndOfFile, Update, FindDependees,
         CollectRoot, Follow, Return, RemoveDependencies, UnloadDecl, vars, compiler
<1> QED
  BY <1>1, <1>2, <1>3, <1>4, <1>5, <1>6, <1>7

(* No node refers to an entity in both ways.                               *)
LEMMA KindsApart ==
  ASSUME GraphAssumption, TypeOK, Kinds, NEW x \in Symbols, NEW r \in soft[x], NEW q \in hard[x]
  PROVE  Entity[r] # Entity[q]
BY DEF GraphAssumption, Kinds

-----------------------------------------------------------------------------
(* A compilation.                                                          *)

Rest == Memory /\ Mapped /\ News /\ EdgesKnown /\ EdgesTrue /\ Collecting /\ Whole

LEMMA SameRefs ==
  ASSUME UNCHANGED <<soft, hard, includees, declFile>>
  PROVE  \A x : Refs(x)' = Refs(x)
BY DEF Refs

LEMMA RefsCases ==
  ASSUME GraphAssumption
  PROVE  /\ \A x \in Symbols : Refs(x) = soft[x] \cup hard[x]
         /\ \A f \in Files : Refs(f) = includees[f] \cup {d \in Decls \ Implicit : declFile[d] = f}
BY DEF GraphAssumption, Refs

LEMMA EnterMainFileStep ==
  ASSUME GraphAssumption, IInv, NEW m \in MainFiles, EnterMainFile(m)
  PROVE  Rest'
<1>1. /\ phase = "idle" /\ phase' = "compile" /\ main' = m /\ reading' = <<m>>
      /\ live' = live \cup {m} /\ newFEs' = {<<m, m>>}
      /\ UNCHANGED <<soft, hard, fresh, moved, includees, declFile, visited, pending, dependents,
                     files, seen, stack>>
  BY DEF EnterMainFile, graph, unloading
<1>2. seen = {} /\ stack = <<>> /\ fresh = {} /\ moved = {}
  BY <1>1 DEF IInv, Collecting, News
<1>3. m \in Files
  BY DEF GraphAssumption
<1>4. Staying = live /\ Staying' = live \cup {m}
  BY <1>1, <1>2 DEF Staying
<1>5. Entered' = {m}
  BY <1>1 DEF Entered
<1>6. \A x : Refs(x)' = Refs(x)
  BY <1>1, SameRefs
<1>7. Memory'
  <2>1. m # None /\ Refs(m) = includees[m] \cup {d \in Decls \ Implicit : declFile[d] = m}
    BY <1>3, RefsCases DEF GraphAssumption, Node
  <2>2. \A d \in Decls : declFile[d] = m => d \in live
    BY <2>1 DEF IInv, Mapped
  <2>3. Refs(m) \subseteq live
    <3>1. CASE m \in live
      BY <1>4, <3>1 DEF IInv, Memory
    <3>2. CASE m \notin live
      BY <1>3, <1>4, <2>1, <2>2, <3>2 DEF IInv, Mapped
    <3> QED
      BY <3>1, <3>2
  <2> QED
    BY <1>4, <1>6, <2>3 DEF IInv, Memory
<1>8. Mapped'
  <2>1. /\ \A d \in Decls : declFile[d] # None => d \in live /\ declFile[d] = FileOf[d]
        /\ \A d \in Decls : d \in live /\ d \notin fresh => declFile[d] = FileOf[d]
        /\ \A d \in live \cap Decls : FileOf[d] \in live
        /\ \A f \in Files : f \notin live => includees[f] = {}
    BY <1>4 DEF IInv, Mapped
  <2>2. m \notin Decls
    BY <1>3 DEF GraphAssumption, Symbols
  <2>3. \A d \in Decls : d \in live' <=> d \in live
    BY <1>1, <2>2
  <2>4. \A d \in Staying' \cap Decls : FileOf[d] \in Staying'
    BY <1>1, <1>4, <2>1, <2>3
  <2>5. \A f \in Files : f \notin Staying' => includees'[f] = {}
    BY <1>1, <1>4, <2>1
  <2> QED
    BY <1>1, <2>1, <2>3, <2>4, <2>5 DEF Mapped
<1>9. News'
  BY <1>1, <1>2, <1>5 DEF News
<1>10. EdgesKnown'
  <2>1. Unlooked = {}
    BY <1>1 DEF Unlooked
  <2>2. m \in Unlooked'
    BY <1>1, <1>5 DEF Unlooked
  <2> QED
    BY <1>1, <1>2, <1>6, <2>1, <2>2 DEF IInv, EdgesKnown
<1>11. EdgesTrue'
  BY <1>1, <1>4, <1>6 DEF IInv, EdgesTrue
<1>12. Collecting'
  BY <1>1, <1>2 DEF IInv, Collecting
<1>13. Whole'
  <2>1. reading = <<>> /\ newFEs = {}
    BY <1>1 DEF IInv, News
  <2>2. \A f \in Files : f # m /\ f \in Staying' => f \in Staying /\ \A k \in DOMAIN reading : reading[k] # f
    BY <1>4, <2>1
  <2>3. 1 \in DOMAIN reading' /\ reading'[1] = m
    BY <1>1
  <2> QED
    BY <1>1, <1>4, <2>1, <2>2, <2>3 DEF IInv, Whole
<1> QED
  BY <1>7, <1>8, <1>9, <1>10, <1>11, <1>12, <1>13 DEF Rest

(* What holds while a compilation runs, and what its steps leave alone.    *)
LEMMA Compiling ==
  ASSUME GraphAssumption, IInv, phase = "compile", UNCHANGED <<phase, graph, unloading>>
  PROVE  /\ seen = {} /\ stack = <<>> /\ Staying = live /\ Unlooked = Entered \cup Renewed
         /\ Staying' = live' /\ Unlooked' = Entered' \cup Renewed'
         /\ Entered \subseteq live /\ Renewed \subseteq live
         /\ live \subseteq live' => Collecting'
         /\ /\ \A x \in live' \ Unlooked' : x \in live \ Unlooked /\ Refs(x)' = Refs(x)
            => EdgesKnown'
         /\ UNCHANGED <<includees, declFile, dependents, files, seen, stack>>
<1>1. UNCHANGED <<includees, declFile, visited, pending, dependents, files, seen, stack>>
  BY DEF graph, unloading
<1>2. seen = {} /\ stack = <<>>
  BY DEF IInv, Collecting
<1>3. Staying = live /\ Staying' = live' /\ Unlooked = Entered \cup Renewed
      /\ Unlooked' = Entered' \cup Renewed'
  BY <1>1, <1>2 DEF Staying, Unlooked
<1>4. Entered \subseteq live /\ Renewed \subseteq live
  BY DEF IInv, News, Entered, Renewed
<1>5. ASSUME live \subseteq live' PROVE Collecting'
  BY <1>1, <1>2, <1>5 DEF IInv, Collecting
<1>6. ASSUME \A x \in live' \ Unlooked' : x \in live \ Unlooked /\ Refs(x)' = Refs(x)
      PROVE  EdgesKnown'
  <2>1. \A x \in live \ Unlooked : \A z \in Refs(x) : x \in dependents[z]
    BY <1>2 DEF IInv, EdgesKnown
  <2> QED
    BY <1>1, <1>2, <1>6, <2>1 DEF EdgesKnown
<1> QED
  BY <1>1, <1>2, <1>3, <1>4, <1>5, <1>6

(* A file without a line read is known to the map only if it stays.        *)
LEMMA FileRefs ==
  ASSUME GraphAssumption, IInv, Staying = live, NEW f \in Files
  PROVE  Refs(f) \subseteq live
<1>1. f # None /\ Refs(f) = includees[f] \cup {d \in Decls \ Implicit : declFile[d] = f}
  BY RefsCases DEF GraphAssumption, Node
<1>2. \A d \in Decls : declFile[d] = f => d \in live
  BY <1>1 DEF IInv, Mapped
<1>3. CASE f \in live
  BY <1>3 DEF IInv, Memory
<1>4. CASE f \notin live
  BY <1>1, <1>2, <1>4 DEF IInv, Mapped
<1> QED
  BY <1>3, <1>4

LEMMA FileMapped ==
  ASSUME GraphAssumption, IInv, Staying = live, Staying' = live', NEW f \in Files,
         live' = live \cup {f}, UNCHANGED <<fresh, includees, declFile>>
  PROVE  Mapped'
<1>1. /\ \A d \in Decls : declFile[d] # None => d \in live /\ declFile[d] = FileOf[d]
      /\ \A d \in Decls : d \in live /\ d \notin fresh => declFile[d] = FileOf[d]
      /\ \A d \in live \cap Decls : FileOf[d] \in live
      /\ \A g \in Files : g \notin live => includees[g] = {}
  BY DEF IInv, Mapped
<1>2. f \notin Decls
  BY DEF GraphAssumption, Symbols
<1>3. \A d \in Decls : d \in live' <=> d \in live
  BY <1>2
<1>4. \A d \in Staying' \cap Decls : FileOf[d] \in Staying'
  BY <1>1, <1>3
<1>5. \A g \in Files : g \notin Staying' => includees'[g] = {}
  BY <1>1
<1> QED
  BY <1>1, <1>3, <1>4, <1>5 DEF Mapped

LEMMA IncludeStep ==
  ASSUME GraphAssumption, IInv, NEW g \in Files, Include(g)
  PROVE  Rest'
<1>1. /\ phase = "compile" /\ reading # <<>>
      /\ newFEs' = newFEs \cup {<<g, Top(reading)>>}
      /\ live' = live \cup {g}
      /\ (g \in live /\ reading' = reading) \/ (g \notin live /\ reading' = Append(reading, g))
      /\ UNCHANGED <<phase, main, soft, hard, fresh, moved, graph, unloading>>
  BY DEF Include, IsNextLine
<1>2. /\ Staying = live /\ Staying' = live' /\ Unlooked = Entered \cup Renewed
      /\ Unlooked' = Entered' \cup Renewed' /\ Entered \subseteq live /\ Collecting'
      /\ UNCHANGED <<includees, declFile, dependents, files, seen, stack>>
  BY <1>1, Compiling
<1>3. Entered' = Entered \cup {g} /\ Renewed' = Renewed
  <2>1. Renewed' = Renewed
    BY <1>1 DEF Renewed
  <2>2. PICK q : q = <<g, Top(reading)>> /\ q[1] = g /\ newFEs' = newFEs \cup {q}
    BY <1>1
  <2>3. Entered' = {p[1] : p \in newFEs \cup {q}}
    BY <2>2 DEF Entered
  <2>4. Entered' = {p[1] : p \in newFEs} \cup {q[1]}
    BY <2>3
  <2> QED
    BY <2>1, <2>2, <2>4 DEF Entered
<1>4. \A x : Refs(x)' = Refs(x)
  BY <1>1, <1>2, SameRefs
<1>5. Top(reading) \in Entered
  <2>1. reading \in Seq(Files)
    BY DEF IInv, TypeOK
  <2>2. Len(reading) \in DOMAIN reading /\ Top(reading) = reading[Len(reading)]
    BY <1>1, <2>1, TopType
  <2> QED
    BY <2>2 DEF IInv, News
<1>6. /\ \A k \in DOMAIN reading : k \in DOMAIN reading' /\ reading'[k] = reading[k]
      /\ g \notin live => \E k \in DOMAIN reading' : reading'[k] = g
      /\ \A k \in DOMAIN reading' : reading'[k] = g \/ (k \in DOMAIN reading /\ reading'[k] = reading[k])
  <2>1. reading \in Seq(Files)
    BY DEF IInv, TypeOK
  <2>2. CASE reading' = reading /\ g \in live
    BY <2>2
  <2>3. CASE reading' = Append(reading, g)
    <3>1. DOMAIN reading = 1 .. Len(reading) /\ Len(reading) \in Nat
      BY <2>1
    <3>2. /\ DOMAIN reading' = 1 .. Len(reading) + 1 /\ reading'[Len(reading) + 1] = g
          /\ \A n \in 1 .. Len(reading) : reading'[n] = reading[n]
      BY <2>1, <2>3, AppendProperties
    <3>3. Len(reading) + 1 \in DOMAIN reading'
      BY <3>1, <3>2
    <3> QED
      BY <3>1, <3>2, <3>3
  <2> QED
    BY <1>1, <2>2, <2>3
<1>7. Memory'
  <2>1. Refs(g) \subseteq live
    BY <1>2, FileRefs
  <2> QED
    BY <1>1, <1>2, <1>4, <2>1 DEF IInv, Memory
<1>8. Mapped'
  BY <1>1, <1>2, FileMapped
<1>9. News'
  <2>1. \A n \in DOMAIN reading' : reading'[n] \in Entered'
    BY <1>3, <1>6 DEF IInv, News
  <2>2. \A p \in newFEs' : p[1] \in live' /\ p[2] \in live' /\ p[2] \in Entered'
    BY <1>1, <1>2, <1>3, <1>5 DEF IInv, News
  <2> QED
    BY <1>1, <1>3, <2>1, <2>2 DEF IInv, News
<1>10. EdgesKnown'
  <2>1. \A x \in live' \ Unlooked' : x \in live \ Unlooked /\ Refs(x)' = Refs(x)
    BY <1>1, <1>2, <1>3, <1>4
  <2> QED
    BY <1>1, <2>1, Compiling
<1>11. EdgesTrue'
  BY <1>1, <1>2, <1>4 DEF IInv, EdgesTrue
<1>12. Whole'
  <2> SUFFICES ASSUME NEW f \in Staying' \cap Files, NEW n \in DOMAIN Text[f],
                      \A k \in DOMAIN reading' : reading'[k] # f
               PROVE  IF Text[f][n] \in Files
                        THEN Text[f][n] \in includees[f] \cup {f} \/ <<Text[f][n], f>> \in newFEs
                        ELSE Text[f][n] \in live
    BY <1>1, <1>2 DEF Whole
  <2>1. \A k \in DOMAIN reading : reading[k] # f
    BY <1>6
  <2>2. f \in live
    BY <1>1, <1>2, <1>6
  <2> QED
    BY <1>2, <2>1, <2>2 DEF IInv, Whole
<1> QED
  BY <1>2, <1>7, <1>8, <1>9, <1>10, <1>11, <1>12 DEF Rest

LEMMA EndOfFileStep ==
  ASSUME GraphAssumption, IInv, EndOfFile
  PROVE  Rest'
<1>1. /\ phase = "compile" /\ reading # <<>> /\ reading' = Popped(reading)
      /\ \A n \in DOMAIN Text[Top(reading)] : Read(Top(reading), n)
      /\ UNCHANGED <<phase, main, live, soft, hard, newFEs, fresh, moved, graph, unloading>>
  BY DEF EndOfFile, news
<1>2. /\ Staying = live /\ Staying' = live' /\ Unlooked = Entered \cup Renewed
      /\ Unlooked' = Entered' \cup Renewed' /\ Collecting'
      /\ UNCHANGED <<includees, declFile, dependents, files, seen, stack>>
  BY <1>1, Compiling
<1>3. Entered' = Entered /\ Renewed' = Renewed
  BY <1>1 DEF Entered, Renewed
<1>4. \A x : Refs(x)' = Refs(x)
  BY <1>1, <1>2, SameRefs
<1>5. /\ Len(reading) \in DOMAIN reading /\ Top(reading) = reading[Len(reading)]
      /\ \A k \in DOMAIN reading' : k \in DOMAIN reading /\ reading'[k] = reading[k]
      /\ \A k \in DOMAIN reading : k \in DOMAIN reading' \/ k = Len(reading)
  <2>1. reading \in Seq(Files)
    BY DEF IInv, TypeOK
  <2>2. DOMAIN reading = 1 .. Len(reading) /\ Len(reading) \in Nat
    BY <2>1
  <2>3. /\ DOMAIN reading' = 1 .. Len(reading) - 1
        /\ \A n \in 1 .. Len(reading) - 1 : reading'[n] = reading[n] /\ n \in DOMAIN reading
    BY <1>1, <2>1, PoppedType
  <2>4. Len(reading) \in DOMAIN reading /\ Top(reading) = reading[Len(reading)]
    BY <1>1, <2>1, TopType
  <2> QED
    BY <2>2, <2>3, <2>4
<1>6. Memory' /\ Mapped'
  BY <1>1, <1>2, <1>4 DEF IInv, Memory, Mapped
<1>7. News'
  BY <1>1, <1>3, <1>5 DEF IInv, News
<1>8. EdgesKnown'
  BY <1>1, <1>2, <1>3, <1>4, Compiling
<1>9. EdgesTrue'
  BY <1>1, <1>2, <1>4 DEF IInv, EdgesTrue
<1>10. Whole'
  <2> SUFFICES ASSUME NEW f \in live \cap Files, NEW n \in DOMAIN Text[f],
                      \A k \in DOMAIN reading' : reading'[k] # f
               PROVE  IF Text[f][n] \in Files
                        THEN Text[f][n] \in includees[f] \cup {f} \/ <<Text[f][n], f>> \in newFEs
                        ELSE Text[f][n] \in live
    BY <1>1, <1>2 DEF Whole
  <2>1. CASE f = Top(reading)
    BY <1>1, <2>1 DEF Read
  <2>2. CASE f # Top(reading)
    <3>1. \A k \in DOMAIN reading : reading[k] # f
      BY <1>5, <2>2
    <3> QED
      BY <1>2, <3>1 DEF IInv, Whole
  <2> QED
    BY <2>1, <2>2
<1> QED
  BY <1>2, <1>6, <1>7, <1>8, <1>9, <1>10 DEF Rest

LEMMA CreateStep ==
  ASSUME GraphAssumption, IInv, NEW x \in Symbols, Create(x)
  PROVE  Rest'
<1>1. /\ phase = "compile" /\ x \notin live /\ (x \in Decls => FileOf[x] \in live)
      /\ live' = live \cup {x} /\ fresh' = fresh \cup {x}
      /\ UNCHANGED <<phase, main, reading, newFEs, moved, graph, unloading>>
  BY DEF Create
<1>2. /\ Staying = live /\ Staying' = live' /\ Unlooked = Entered \cup Renewed
      /\ Unlooked' = Entered' \cup Renewed' /\ Collecting'
      /\ UNCHANGED <<includees, declFile, dependents, files, seen, stack>>
  BY <1>1, Compiling
<1>3. Entered' = Entered /\ Renewed' = Renewed \cup {x}
  BY <1>1 DEF Entered, Renewed
<1>4. /\ \A z \in Symbols \ {x} : soft'[z] = soft[z] /\ hard'[z] = hard[z]
      /\ soft'[x] \cup hard'[x] \subseteq live \cup {x}
  <2>1. PICK s \in Resolved(x, SoftUses[x]), h \in Resolved(x, HardUses[x]) :
          soft' = [soft EXCEPT ![x] = s] /\ hard' = [hard EXCEPT ![x] = h]
    BY DEF Create
  <2>2. s \subseteq live \cup {x} /\ h \subseteq live \cup {x}
    BY ResolvedType
  <2> QED
    BY <2>1, <2>2 DEF IInv, TypeOK
<1>5. \A z \in Node \ {x} : Refs(z)' = Refs(z)
  BY <1>2, <1>4 DEF Refs, Node
<1>6. live \subseteq Node /\ x \in Node
  BY DEF IInv, TypeOK, Node
<1>7. Memory'
  <2>1. Refs(x)' \subseteq live'
    BY <1>1, <1>4 DEF Refs, GraphAssumption
  <2> QED
    BY <1>1, <1>2, <1>5, <1>6, <2>1 DEF IInv, Memory
<1>8. Mapped'
  <2>1. x \notin Files
    BY DEF GraphAssumption
  <2> QED
    BY <1>1, <1>2, <2>1 DEF IInv, Mapped
<1>9. News'
  <2>1. x \in Decls \ Implicit => FileOf[x] \in Entered
    <3> SUFFICES ASSUME x \in Decls \ Implicit PROVE FileOf[x] \in Entered
      OBVIOUS
    <3>1. reading # <<>> /\ \E n \in DOMAIN Text[Top(reading)] : Text[Top(reading)][n] = x
      BY DEF Create, IsNextLine
    <3>2. reading \in Seq(Files)
      BY DEF IInv, TypeOK
    <3>3. Len(reading) \in DOMAIN reading /\ Top(reading) = reading[Len(reading)] /\ Top(reading) \in Files
      BY <3>1, <3>2, TopType
    <3>4. FileOf[x] = Top(reading)
      BY <3>1, <3>3 DEF GraphAssumption
    <3> QED
      BY <3>3, <3>4 DEF IInv, News
  <2>2. ASSUME NEW p \in moved, p[1] # None, p[2] \in soft'[p[1]] \cup hard'[p[1]], p[1] # x
        PROVE  p[1] \in Renewed
    <3>1. p[1] \in Symbols
      BY <2>2 DEF IInv, TypeOK, Symbols
    <3> QED
      BY <1>4, <2>2, <3>1 DEF IInv, News
  <2> QED
    BY <1>1, <1>3, <2>1, <2>2 DEF IInv, News
<1>10. EdgesKnown'
  BY <1>1, <1>2, <1>3, <1>5, <1>6, Compiling
<1>11. EdgesTrue'
  BY <1>1, <1>2, <1>5, <1>6 DEF IInv, EdgesTrue
<1>12. Whole'
  <2>1. x \notin Files
    BY DEF GraphAssumption
  <2> QED
    BY <1>1, <1>2, <2>1 DEF IInv, Whole
<1> QED
  BY <1>2, <1>7, <1>8, <1>9, <1>10, <1>11, <1>12 DEF Rest

(* A declaration d in memory refers to something else from now on; p is    *)
(* what it no longer refers to, None when it refers to all that it did.    *)
LEMMA MovedStep ==
  ASSUME GraphAssumption, IInv, NEW d \in Decls, NEW p \in Decls \cup {None},
         phase = "compile", d \in live, moved' = moved \cup {<<p, d>>},
         UNCHANGED <<phase, main, reading, live, newFEs, fresh, graph, unloading>>,
         \A z \in Symbols \ {d} : soft'[z] = soft[z] /\ hard'[z] = hard[z],
         Refs(d)' \subseteq live, Refs(d) \subseteq Refs(d)' \cup {p},
         p # None => d \notin Refs(p)
  PROVE  Rest'
<1>1. /\ Staying = live /\ Staying' = live' /\ Unlooked = Entered \cup Renewed
      /\ Unlooked' = Entered' \cup Renewed' /\ Collecting'
      /\ UNCHANGED <<includees, declFile, dependents, files, seen, stack>>
  BY Compiling
<1>2. Entered' = Entered /\ Renewed' = Renewed \cup {d}
  <2>1. PICK q : q = <<p, d>> /\ q[2] = d /\ moved' = moved \cup {q}
    OBVIOUS
  <2>2. Renewed' = fresh \cup {r[2] : r \in moved} \cup {q[2]}
    BY <2>1 DEF Renewed
  <2> QED
    BY <2>1, <2>2 DEF Entered, Renewed
<1>3. \A z \in Node \ {d} : Refs(z)' = Refs(z)
  BY <1>1 DEF Refs, Node
<1>4. live \subseteq Node /\ d \in Node
  BY DEF IInv, TypeOK, Node, Symbols
<1>5. Memory' /\ Mapped' /\ Whole'
  <2>1. Memory'
    <3> SUFFICES ASSUME NEW x \in live PROVE Refs(x)' \subseteq live
      BY <1>1 DEF Memory
    <3>1. CASE x # d
      <4>1. Refs(x) \subseteq live /\ Refs(x)' = Refs(x)
        BY <1>1, <1>3, <1>4, <3>1 DEF IInv, Memory
      <4> QED
        BY <4>1
    <3> QED
      BY <3>1
  <2>2. Mapped'
    BY <1>1 DEF IInv, Mapped
  <2>3. Whole'
    BY <1>1 DEF IInv, Whole
  <2> QED
    BY <2>1, <2>2, <2>3
<1>6. News'
  <2>1. \A q \in moved' : q[2] \in live'
    BY DEF IInv, News
  <2>2. ASSUME NEW q \in moved', q[1] # None, q[2] \in soft'[q[1]] \cup hard'[q[1]]
        PROVE  q[1] \in Renewed'
    <3>1. CASE q[1] = d
      BY <1>2, <3>1
    <3>2. CASE q[1] # d
      <4>1. q[1] \in Symbols
        <5>1. CASE q \in moved
          BY <2>2, <5>1 DEF IInv, TypeOK, Symbols
        <5>2. CASE q = <<p, d>>
          BY <2>2, <5>2 DEF Symbols
        <5> QED
          BY <5>1, <5>2
      <4>2. q[2] \in soft[q[1]] \cup hard[q[1]]
        BY <2>2, <3>2, <4>1
      <4>3. Refs(q[1]) = soft[q[1]] \cup hard[q[1]]
        BY <4>1, RefsCases
      <4>4. CASE q \in moved
        BY <1>2, <2>2, <4>2, <4>4 DEF IInv, News
      <4>5. CASE q = <<p, d>>
        BY <2>2, <4>2, <4>3, <4>5
      <4> QED
        BY <4>4, <4>5
    <3> QED
      BY <3>1, <3>2
  <2> QED
    BY <1>2, <2>1, <2>2 DEF IInv, News
<1>7. EdgesKnown'
  BY <1>1, <1>2, <1>3, <1>4, Compiling
<1>8. EdgesTrue'
  <2> SUFFICES ASSUME NEW z \in Node, NEW x \in dependents[z]
               PROVE  x \in live /\ (z \in Refs(x)' \/ <<z, x>> \in moved')
    BY <1>1 DEF EdgesTrue
  <2>1. x \in live /\ (z \in Refs(x) \/ <<z, x>> \in moved)
    BY <1>1 DEF IInv, EdgesTrue
  <2>2. CASE x = d
    BY <2>1, <2>2
  <2>3. CASE x # d
    BY <1>3, <1>4, <2>1, <2>3
  <2> QED
    BY <2>1, <2>2, <2>3
<1> QED
  BY <1>1, <1>5, <1>6, <1>7, <1>8 DEF Rest

LEMMA InstantiateStep ==
  ASSUME GraphAssumption, IInv, NEW d \in Decls, Instantiate(d)
  PROVE  Rest'
<1>1. PICK r \in live \cap Symbols : soft' = [soft EXCEPT ![d] = @ \cup {r}]
  BY DEF Instantiate
<1>2. /\ phase = "compile" /\ d \in live /\ moved' = moved \cup {<<None, d>>}
      /\ UNCHANGED <<phase, main, reading, live, hard, newFEs, fresh, graph, unloading>>
  BY DEF Instantiate
<1>3. /\ \A z \in Symbols \ {d} : soft'[z] = soft[z] /\ hard'[z] = hard[z]
      /\ d \in Symbols /\ soft'[d] = soft[d] \cup {r} /\ hard'[d] = hard[d]
  BY <1>1, <1>2 DEF IInv, TypeOK, Symbols
<1>4. Refs(d) = soft[d] \cup hard[d] /\ Refs(d)' = soft'[d] \cup hard'[d]
  BY <1>3 DEF Refs, GraphAssumption
<1>5. Refs(d) \subseteq live
  BY <1>2, Compiling DEF IInv, Memory
<1> QED
  BY <1>2, <1>3, <1>4, <1>5, MovedStep

LEMMA SetInstantiationOfStep ==
  ASSUME GraphAssumption, IInv, NEW d \in Implicit, SetInstantiationOf(d)
  PROVE  Rest'
<1>1. PICK p \in hard[d] \cap Decls, q \in live \cap Symbols :
        /\ d \notin Refs(p) /\ hard' = [hard EXCEPT ![d] = (@ \ {p}) \cup {q}]
        /\ moved' = moved \cup {<<p, d>>}
  BY DEF SetInstantiationOf
<1>2. /\ phase = "compile" /\ d \in live /\ d \in Decls
      /\ UNCHANGED <<phase, main, reading, live, soft, newFEs, fresh, graph, unloading>>
  BY DEF SetInstantiationOf, GraphAssumption
<1>3. /\ \A z \in Symbols \ {d} : soft'[z] = soft[z] /\ hard'[z] = hard[z]
      /\ d \in Symbols /\ soft'[d] = soft[d] /\ hard'[d] = (hard[d] \ {p}) \cup {q}
  BY <1>1, <1>2 DEF IInv, TypeOK, Symbols
<1>4. Refs(d) = soft[d] \cup hard[d] /\ Refs(d)' = soft'[d] \cup hard'[d]
  BY <1>3 DEF Refs, GraphAssumption
<1>5. Refs(d) \subseteq live
  BY <1>2, Compiling DEF IInv, Memory
<1> QED
  BY <1>1, <1>2, <1>3, <1>4, <1>5, MovedStep

-----------------------------------------------------------------------------
(* The map learns of the compilation.                                      *)

LEMMA UpdateStep ==
  ASSUME GraphAssumption, IInv, Update
  PROVE  Rest'
<1>1. /\ phase = "compile" /\ phase' = "update" /\ reading = <<>>
      /\ includees' = [f \in Files |-> includees[f] \cup NewIncludees(f)]
      /\ declFile' = [d \in Decls |-> IF d \in Renewed THEN FileOf[d] ELSE declFile[d]]
      /\ dependents' = [x \in Node |-> Kept(x)]
      /\ visited' = visited \ (Entered \cup Renewed)
      /\ pending' = (Entered \ {main}) \cup Renewed
      /\ main \in files' /\ files' \subseteq live
      /\ newFEs' = {} /\ fresh' = {} /\ moved' = {}
      /\ UNCHANGED <<main, reading, live, soft, hard, seen, stack>>
  BY DEF Update, Unloadable, compiler
<1>2. seen = {} /\ stack = <<>> /\ Staying = live /\ Staying' = live
  BY <1>1 DEF IInv, Collecting, Staying
<1>3. /\ Entered \subseteq live /\ Renewed \subseteq live /\ main \in Entered
      /\ Unlooked = Entered \cup Renewed /\ Unlooked' = Entered \cup Renewed
  <2>1. Entered \subseteq live /\ Renewed \subseteq live /\ main \in Entered
    BY <1>1 DEF IInv, News, Entered, Renewed
  <2> QED
    BY <1>1, <2>1 DEF Unlooked
<1>4. live \subseteq Node /\ Entered \subseteq Files /\ Renewed \subseteq Symbols
  BY EnteredType DEF IInv, TypeOK
<1>5. \A f \in Files : /\ NewIncludees(f) \subseteq live
                       /\ f \notin Entered => NewIncludees(f) = {}
                       /\ \A g \in Files : <<g, f>> \in newFEs => g \in NewIncludees(f) \cup {f}
  <2>1. \A q \in newFEs : q[1] \in live /\ q[2] \in live /\ q[2] \in Entered
    BY DEF IInv, News
  <2>2. \A f \in Files, g \in Files : <<g, f>>[1] = g /\ <<g, f>>[2] = f
    OBVIOUS
  <2> QED
    BY <2>1, <2>2 DEF NewIncludees
<1>6. /\ \A d \in Decls : declFile'[d] # None => d \in live /\ declFile'[d] = FileOf[d]
      /\ \A d \in Decls : d \in live => declFile'[d] = FileOf[d]
      /\ \A d \in Decls : declFile[d] # None => declFile'[d] = declFile[d]
      /\ \A d \in Decls \ Implicit : FileOf[d] \notin Entered => declFile'[d] = declFile[d]
  <2>1. \A d \in Decls : declFile'[d] = IF d \in Renewed THEN FileOf[d] ELSE declFile[d]
    BY <1>1
  <2>2. fresh \subseteq Renewed
    BY DEF Renewed
  <2>3. ASSUME NEW d \in Decls \ Implicit, FileOf[d] \notin Entered
        PROVE  declFile'[d] = declFile[d]
    <3>1. d \notin fresh
      BY <2>3 DEF IInv, News
    <3> QED
      BY <1>3, <2>1, <3>1 DEF IInv, Mapped
  <2> QED
    BY <1>3, <2>1, <2>2, <2>3 DEF IInv, Mapped
<1>7. \A x \in Symbols : Refs(x)' = Refs(x)
  BY <1>1 DEF Refs, GraphAssumption
<1>8. \A f \in Files : /\ Refs(f) = includees[f] \cup {d \in Decls \ Implicit : declFile[d] = f}
                       /\ Refs(f)' = includees[f] \cup NewIncludees(f)
                                     \cup {d \in Decls \ Implicit : declFile'[d] = f}
                       /\ f # None
  BY <1>1, RefsCases DEF Refs, GraphAssumption, Node
<1>9. \A x \in Node : /\ Refs(x) \subseteq Refs(x)'
                      /\ x \notin Entered => Refs(x)' = Refs(x)
                      /\ x \in live => Refs(x)' \subseteq live
  <2>1. ASSUME NEW f \in Files
        PROVE  /\ Refs(f) \subseteq Refs(f)'
               /\ f \notin Entered => Refs(f)' = Refs(f)
               /\ f \in live => Refs(f)' \subseteq live
    <3>1. Refs(f) \subseteq Refs(f)'
      BY <1>6, <1>8
    <3>2. f \notin Entered => Refs(f)' = Refs(f)
      <4> SUFFICES ASSUME f \notin Entered PROVE Refs(f)' = Refs(f)
        OBVIOUS
      <4>1. \A d \in Decls \ Implicit : declFile'[d] = f => declFile[d] = f
        BY <1>6, <1>8
      <4> QED
        BY <1>5, <1>8, <3>1, <4>1
    <3>3. f \in live => Refs(f)' \subseteq live
      <4> SUFFICES ASSUME f \in live, NEW z \in Refs(f)' PROVE z \in live
        OBVIOUS
      <4>1. includees[f] \subseteq live
        BY <1>2, <1>8 DEF IInv, Memory
      <4>2. CASE z \in includees[f] \cup NewIncludees(f)
        BY <1>5, <4>1, <4>2
      <4>3. CASE z \in Decls /\ declFile'[z] = f
        BY <1>6, <1>8, <4>3
      <4> QED
        BY <1>8, <4>2, <4>3
    <3> QED
      BY <3>1, <3>2, <3>3
  <2>2. ASSUME NEW x \in Symbols
        PROVE  x \in live => Refs(x)' \subseteq live
    BY <1>2, <1>7 DEF IInv, Memory
  <2> QED
    BY <1>7, <2>1, <2>2 DEF Node
<1>10. Memory'
  BY <1>1, <1>2, <1>4, <1>9 DEF Memory
<1>11. Mapped'
  <2>1. \A d \in Decls \cap live : FileOf[d] \in live
    BY <1>2 DEF IInv, Mapped
  <2>2. \A f \in Files : f \notin live => includees'[f] = {}
    BY <1>1, <1>2, <1>3, <1>5 DEF IInv, Mapped
  <2> QED
    BY <1>1, <1>2, <1>6, <2>1, <2>2 DEF Mapped
<1>12. News'
  BY <1>1 DEF News
<1>13. EdgesKnown'
  <2> SUFFICES ASSUME NEW x \in live \ (Entered \cup Renewed), NEW z \in Refs(x)'
               PROVE  x \in dependents'[z]
    BY <1>1, <1>2, <1>3 DEF EdgesKnown
  <2>1. z \in Refs(x) /\ x \in Node /\ z \in Node
    <3>1. x \in Node /\ x \notin Entered
      BY <1>4
    <3>2. z \in Refs(x) /\ z \in live
      BY <1>9, <3>1
    <3> QED
      BY <1>4, <3>1, <3>2
  <2>2. x \in dependents[z]
    BY <1>2, <1>3, <2>1 DEF IInv, EdgesKnown
  <2>3. ASSUME NEW q \in moved, q[1] = x, q[2] = z PROVE FALSE
    <3>1. x \in Decls /\ x # None
      BY <2>1, <2>3 DEF IInv, TypeOK, GraphAssumption
    <3>2. z \in soft[x] \cup hard[x]
      BY <2>1, <3>1, RefsCases DEF Symbols
    <3> QED
      BY <2>3, <3>1, <3>2 DEF IInv, News
  <2>4. ASSUME NEW q \in moved, q[2] = x PROVE FALSE
    BY <2>4 DEF Renewed
  <2> QED
    BY <1>1, <2>1, <2>2, <2>3, <2>4 DEF Kept
<1>14. EdgesTrue'
  <2> SUFFICES ASSUME NEW z \in Node, NEW x \in dependents'[z]
               PROVE  x \in live /\ z \in Refs(x)'
    BY <1>1, <1>2 DEF EdgesTrue
  <2>1. x \in Kept(z)
    BY <1>1
  <2>2. x \in dependents[z] /\ \A q \in moved : q[1] = z => q[2] # x
    BY <2>1 DEF Kept
  <2>3. x \in live /\ (z \in Refs(x) \/ <<z, x>> \in moved)
    BY <1>2, <2>2 DEF IInv, EdgesTrue
  <2>4. <<z, x>>[1] = z /\ <<z, x>>[2] = x
    OBVIOUS
  <2> QED
    BY <1>4, <1>9, <2>2, <2>3, <2>4
<1>15. Collecting'
  BY <1>1, <1>2, <1>3 DEF Collecting
<1>16. Whole'
  <2> SUFFICES ASSUME NEW f \in live \cap Files, NEW n \in DOMAIN Text[f]
               PROVE  IF Text[f][n] \in Files
                        THEN Text[f][n] \in includees'[f] \cup {f}
                        ELSE Text[f][n] \in live
    BY <1>1, <1>2 DEF Whole
  <2>1. IF Text[f][n] \in Files
          THEN Text[f][n] \in includees[f] \cup {f} \/ <<Text[f][n], f>> \in newFEs
          ELSE Text[f][n] \in live
    BY <1>1, <1>2 DEF IInv, Whole
  <2>2. includees'[f] = includees[f] \cup NewIncludees(f)
    BY <1>1
  <2> QED
    BY <1>5, <2>1, <2>2
<1> QED
  BY <1>10, <1>11, <1>12, <1>13, <1>14, <1>15, <1>16 DEF Rest

LEMMA FindDependeesStep ==
  ASSUME GraphAssumption, IInv, FindDependees
  PROVE  Rest'
<1>1. /\ phase = "update" /\ pending \subseteq live \ visited
      /\ visited' = visited \cup pending
      /\ dependents' = [x \in Node |-> dependents[x] \cup {y \in pending : x \in Refs(y)}]
      /\ pending' = (UNION {Refs(y) : y \in pending}) \ visited'
      /\ phase' = IF pending' = {} THEN "collect" ELSE "update"
      /\ UNCHANGED <<main, reading, live, soft, hard, newFEs, fresh, moved, includees, declFile,
                     files, seen, stack>>
  <2>1. phase = "update"
    BY DEF FindDependees
  <2>2. pending \subseteq live \ visited
    BY <2>1 DEF IInv, Collecting
  <2>3. pending \ visited = pending
    BY <2>2
  <2> QED
    BY <2>1, <2>2, <2>3 DEF FindDependees, compiler, news, unloading
<1>2. seen = {} /\ stack = <<>> /\ Staying = live /\ Staying' = live
  BY <1>1 DEF IInv, Collecting, Staying
<1>3. \A x : Refs(x)' = Refs(x)
  BY <1>1, SameRefs
<1>4. Unlooked = pending \cup {main} /\ Unlooked' = pending' \cup {main}
  BY <1>1 DEF Unlooked
<1>5. Memory' /\ Mapped' /\ News' /\ Whole'
  <2>1. Memory'
    BY <1>1, <1>2, <1>3 DEF IInv, Memory
  <2>2. Mapped'
    BY <1>1, <1>2 DEF IInv, Mapped
  <2>3. News'
    BY <1>1 DEF IInv, News
  <2>4. Whole'
    BY <1>1, <1>2 DEF IInv, Whole
  <2> QED
    BY <2>1, <2>2, <2>3, <2>4
<1>6. EdgesKnown'
  <2> SUFFICES ASSUME NEW x \in live \ (pending' \cup {main}), NEW z \in Refs(x)
               PROVE  x \in dependents'[z]
    BY <1>1, <1>2, <1>3, <1>4 DEF EdgesKnown
  <2>1. z \in Node
    BY <1>2 DEF IInv, Memory, TypeOK
  <2>2. CASE x \in pending
    BY <1>1, <2>1, <2>2
  <2>3. CASE x \notin pending
    <3>1. x \in dependents[z]
      BY <1>2, <1>4, <2>3 DEF IInv, EdgesKnown
    <3> QED
      BY <1>1, <2>1, <3>1
  <2> QED
    BY <2>2, <2>3
<1>7. EdgesTrue'
  BY <1>1, <1>2, <1>3 DEF IInv, EdgesTrue
<1>8. Collecting'
  <2>1. pending' \subseteq live \ visited'
    BY <1>1, <1>2 DEF IInv, Memory
  <2> QED
    BY <1>1, <1>2, <2>1 DEF IInv, Collecting
<1> QED
  BY <1>5, <1>6, <1>7, <1>8 DEF Rest

-----------------------------------------------------------------------------
(* The users of what is to be unloaded.                                    *)

(* What the steps of the collection leave alone.                           *)
LEMMA CollectingRest ==
  ASSUME GraphAssumption, IInv, phase = "collect",
         UNCHANGED <<phase, main, live, reading, news, includees, declFile, files>>,
         \A x \in live : Refs(x)' \subseteq live
  PROVE  /\ Staying = live /\ Staying' = live /\ moved = {} /\ moved' = {}
         /\ Unlooked = {main} /\ Unlooked' = {main}
         /\ Memory' /\ Mapped' /\ News' /\ Whole'
<1>1. Staying = live /\ Staying' = live /\ Unlooked = {main} /\ Unlooked' = {main}
  BY DEF Staying, Unlooked
<1>2. UNCHANGED <<newFEs, fresh, moved>> /\ moved = {} /\ newFEs = {} /\ fresh = {} /\ reading = <<>>
  BY DEF IInv, News, news
<1>3. Memory'
  BY <1>1 DEF Memory
<1>4. Mapped'
  BY <1>1, <1>2 DEF IInv, Mapped
<1>5. News'
  BY <1>2 DEF News
<1>6. Whole'
  BY <1>1, <1>2 DEF IInv, Whole
<1> QED
  BY <1>1, <1>2, <1>3, <1>4, <1>5, <1>6

(* A call begins: the dependents of x wait in its frame.                   *)
LEMMA BeginCall ==
  ASSUME GraphAssumption, IInv, phase = "collect", NEW x \in Node, x \notin seen,
         NEW calls \in Seq(Frames), DOMAIN calls = DOMAIN stack,
         \A n \in DOMAIN stack : /\ calls[n].of = stack[n].of
                                 /\ calls[n].todo \subseteq stack[n].todo
                                 /\ \A y \in stack[n].todo : y # x => y \in calls[n].todo,
         CollectUsersOf(x, calls, dependents),
         UNCHANGED <<phase, compiler, news, includees, declFile, visited, pending, files>>
  PROVE  Rest'
<1>1. /\ stack' = Append(calls, [of |-> x, todo |-> dependents[x]])
      /\ dependents' = [dependents EXCEPT ![x] = {}]
      /\ seen' = seen \cup {x}
  BY DEF CollectUsersOf
<1>2. UNCHANGED <<phase, main, reading, live, soft, hard, news, includees, declFile, files>>
  BY DEF compiler
<1>3. \A z : Refs(z)' = Refs(z)
  BY <1>2, SameRefs
<1>4. \A z \in live : Refs(z) \subseteq live
  BY DEF IInv, Memory, Staying
<1>5. /\ Staying = live /\ Staying' = live /\ moved = {} /\ moved' = {}
      /\ Unlooked = {main} /\ Unlooked' = {main}
      /\ Memory' /\ Mapped' /\ News' /\ Whole'
  BY <1>2, <1>3, <1>4, CollectingRest
<1>6. \A z \in Node : dependents'[z] = IF z = x THEN {} ELSE dependents[z]
  BY <1>1 DEF IInv, TypeOK
<1>7. /\ \A n \in DOMAIN stack : n \in DOMAIN stack' /\ stack'[n] = calls[n]
      /\ \A n \in DOMAIN stack' : n = Len(calls) + 1 \/ n \in DOMAIN stack
      /\ Len(calls) + 1 \in DOMAIN stack' /\ Len(calls) + 1 \notin DOMAIN stack
      /\ stack'[Len(calls) + 1] = [of |-> x, todo |-> dependents[x]]
  <2>1. dependents[x] \subseteq Node
    BY DEF IInv, TypeOK
  <2>2. [of |-> x, todo |-> dependents[x]] \in Frames
    BY <2>1 DEF Frames
  <2>3. DOMAIN calls = 1 .. Len(calls) /\ Len(calls) \in Nat
    OBVIOUS
  <2>4. /\ DOMAIN stack' = 1 .. Len(calls) + 1
        /\ stack'[Len(calls) + 1] = [of |-> x, todo |-> dependents[x]]
        /\ \A n \in 1 .. Len(calls) : stack'[n] = calls[n]
    BY <1>1, <2>2, AppendProperties
  <2> QED
    BY <2>3, <2>4
<1>8. EdgesKnown'
  <2> SUFFICES ASSUME NEW y \in live, y # main, y \notin seen', NEW z \in Refs(y)
               PROVE  IF z \in seen' THEN Waiting(y, z)' ELSE y \in dependents'[z]
    BY <1>2, <1>3, <1>5 DEF EdgesKnown
  <2>1. y \notin seen /\ y # x /\ z \in Node
    BY <1>1, <1>4 DEF IInv, TypeOK
  <2>2. IF z \in seen THEN Waiting(y, z) ELSE y \in dependents[z]
    BY <1>5, <2>1 DEF IInv, EdgesKnown
  <2>3. CASE z \in seen
    <3>1. PICK n \in DOMAIN stack : stack[n].of = z /\ y \in stack[n].todo
      BY <2>2, <2>3 DEF Waiting
    <3>2. n \in DOMAIN stack' /\ stack'[n].of = z /\ y \in stack'[n].todo
      BY <1>7, <2>1, <3>1
    <3>3. Waiting(y, z)'
      BY <3>2 DEF Waiting
    <3> QED
      BY <1>1, <2>3, <3>3
  <2>4. CASE z = x
    BY <1>1, <1>7, <2>2, <2>4 DEF Waiting
  <2>5. CASE z \notin seen /\ z # x
    BY <1>1, <1>6, <2>1, <2>2, <2>5
  <2> QED
    BY <2>3, <2>4, <2>5
<1>9. EdgesTrue'
  BY <1>2, <1>3, <1>5, <1>6 DEF IInv, EdgesTrue
<1>10. Collecting'
  <2>1. \A z \in seen' : dependents'[z] = {}
    BY <1>1, <1>6 DEF IInv, TypeOK, Collecting
  <2>2. ASSUME NEW n \in DOMAIN stack'
        PROVE  /\ stack'[n].of \in seen'
               /\ \A w \in stack'[n].todo : w \in live /\ stack'[n].of \in Refs(w)
               /\ \A k \in DOMAIN stack' : stack'[k].of = stack'[n].of => k = n
    <3>1. \A k \in DOMAIN stack : stack'[k].of = stack[k].of /\ stack[k].of \in seen
      BY <1>7 DEF IInv, Collecting
    <3>2. CASE n \in DOMAIN stack
      <4>1. \A w \in stack'[n].todo : w \in live /\ stack'[n].of \in Refs(w)
        BY <1>7, <3>1, <3>2 DEF IInv, Collecting
      <4>2. \A k \in DOMAIN stack' : stack'[k].of = stack'[n].of => k = n
        BY <1>7, <3>1, <3>2 DEF IInv, Collecting
      <4> QED
        BY <1>1, <3>1, <3>2, <4>1, <4>2
    <3>3. CASE n = Len(calls) + 1
      <4>1. stack'[n].of = x /\ stack'[n].todo = dependents[x]
        BY <1>7, <3>3
      <4>2. \A w \in dependents[x] : w \in live /\ x \in Refs(w)
        BY <1>5 DEF IInv, EdgesTrue
      <4>3. \A k \in DOMAIN stack' : stack'[k].of = x => k = n
        <5>1. \A k \in DOMAIN stack : stack'[k].of # x
          BY <3>1
        <5> QED
          BY <1>7, <3>3, <5>1
      <4> QED
        BY <1>1, <4>1, <4>2, <4>3
    <3> QED
      BY <1>7, <3>2, <3>3
  <2> QED
    BY <1>2, <1>3, <2>1, <2>2 DEF IInv, Collecting
<1> QED
  BY <1>5, <1>8, <1>9, <1>10 DEF Rest

(* A call has looked at y, at nothing, or has ended; nothing else changes. *)
LEMMA CallGoesOn ==
  ASSUME GraphAssumption, IInv, phase = "collect", NEW y,
         \/ stack # <<>> /\ y \in seen /\ stack' = Taken(y)
         \/ stack # <<>> /\ Frame.todo = {} /\ stack' = Popped(stack),
         UNCHANGED <<phase, compiler, news, includees, declFile, visited, pending, dependents,
                     files, seen>>
  PROVE  Rest'
<1>1. UNCHANGED <<phase, main, reading, live, soft, hard, news, includees, declFile, files>>
  BY DEF compiler
<1>2. \A z : Refs(z)' = Refs(z)
  BY <1>1, SameRefs
<1>3. \A z \in live : Refs(z) \subseteq live
  BY DEF IInv, Memory, Staying
<1>4. /\ Staying = live /\ Staying' = live /\ moved = {} /\ moved' = {}
      /\ Unlooked = {main} /\ Unlooked' = {main}
      /\ Memory' /\ Mapped' /\ News' /\ Whole'
  BY <1>1, <1>2, <1>3, CollectingRest
<1>5. /\ \A n \in DOMAIN stack' : /\ n \in DOMAIN stack /\ stack'[n].of = stack[n].of
                                  /\ stack'[n].todo \subseteq stack[n].todo
      /\ \A n \in DOMAIN stack : \A x \in stack[n].todo :
           x \in seen \/ (n \in DOMAIN stack' /\ x \in stack'[n].todo)
  <2>1. stack \in Seq(Frames)
    BY DEF IInv, TypeOK, Frames
  <2>2. CASE stack # <<>> /\ y \in seen /\ stack' = Taken(y)
    BY <2>1, <2>2, TakenType
  <2>3. CASE stack # <<>> /\ Frame.todo = {} /\ stack' = Popped(stack)
    <3>1. /\ DOMAIN stack' = 1 .. Len(stack) - 1
          /\ \A n \in 1 .. Len(stack) - 1 : stack'[n] = stack[n] /\ n \in DOMAIN stack
      BY <2>1, <2>3, PoppedType
    <3>2. DOMAIN stack = 1 .. Len(stack) /\ Len(stack) \in Nat
      BY <2>1
    <3>3. stack[Len(stack)].todo = {}
      BY <2>3 DEF Frame, Top
    <3>4. \A n \in DOMAIN stack' : n \in DOMAIN stack /\ stack'[n] = stack[n]
      BY <3>1
    <3>5. \A n \in DOMAIN stack : n = Len(stack) \/ (n \in DOMAIN stack' /\ stack'[n] = stack[n])
      BY <3>1, <3>2
    <3> QED
      BY <3>3, <3>4, <3>5
  <2> QED
    BY <2>2, <2>3
<1>6. EdgesKnown'
  <2> SUFFICES ASSUME NEW x \in live, x # main, x \notin seen, NEW z \in Refs(x)
               PROVE  IF z \in seen THEN Waiting(x, z)' ELSE x \in dependents[z]
    BY <1>1, <1>2, <1>4 DEF EdgesKnown
  <2>1. IF z \in seen THEN Waiting(x, z) ELSE x \in dependents[z]
    BY <1>4 DEF IInv, EdgesKnown
  <2> QED
    BY <1>5, <2>1 DEF Waiting
<1>7. EdgesTrue'
  BY <1>1, <1>2, <1>4 DEF IInv, EdgesTrue
<1>8. Collecting'
  <2>1. ASSUME NEW n \in DOMAIN stack'
        PROVE  /\ stack'[n].of \in seen
               /\ \A w \in stack'[n].todo : w \in live /\ stack'[n].of \in Refs(w)
               /\ \A k \in DOMAIN stack' : stack'[k].of = stack'[n].of => k = n
    BY <1>5 DEF IInv, Collecting
  <2> QED
    BY <1>1, <1>2, <2>1 DEF IInv, Collecting
<1> QED
  BY <1>4, <1>6, <1>7, <1>8 DEF Rest

LEMMA CollectRootStep ==
  ASSUME GraphAssumption, IInv, NEW x \in Node, CollectRoot(x)
  PROVE  Rest'
<1>1. /\ phase = "collect" /\ stack = <<>> /\ x \notin seen /\ CollectUsersOf(x, <<>>, dependents)
      /\ UNCHANGED <<phase, compiler, news, includees, declFile, visited, pending, files>>
  BY DEF CollectRoot, Roots
<1>2. <<>> \in Seq(Frames) /\ DOMAIN <<>> = {}
  OBVIOUS
<1> QED
  BY <1>1, <1>2, BeginCall

LEMMA FollowStep ==
  ASSUME GraphAssumption, IInv, NEW y \in Node, Follow(y)
  PROVE  Rest'
<1>1. /\ phase = "collect" /\ stack # <<>> /\ CollectUsersOf(y, Taken(y), dependents)
      /\ UNCHANGED <<phase, compiler, news, includees, declFile, visited, pending, files>>
  BY DEF Follow
<1>2. CASE y \in seen
  BY <1>1, <1>2, CallGoesOn DEF CollectUsersOf
<1>3. CASE y \notin seen
  <2>1. stack \in Seq(Frames)
    BY DEF IInv, TypeOK, Frames
  <2>2. /\ Taken(y) \in Seq(Frames) /\ DOMAIN Taken(y) = DOMAIN stack
        /\ \A n \in DOMAIN stack : /\ Taken(y)[n].of = stack[n].of
                                   /\ Taken(y)[n].todo \subseteq stack[n].todo
                                   /\ \A w \in stack[n].todo : w # y => w \in Taken(y)[n].todo
    BY <1>1, <2>1, TakenType
  <2> QED
    BY <1>1, <1>3, <2>2, BeginCall
<1> QED
  BY <1>2, <1>3

LEMMA ReturnStep ==
  ASSUME GraphAssumption, IInv, Return
  PROVE  Rest'
<1>1. /\ phase = "collect" /\ stack # <<>> /\ Frame.todo = {} /\ stack' = Popped(stack)
      /\ UNCHANGED <<phase, compiler, news, includees, declFile, visited, pending, dependents,
                     files, seen>>
  BY DEF Return, graph
<1> QED
  BY <1>1, CallGoesOn

LEMMA RewriteStep ==
  ASSUME GraphAssumption, IInv, NEW y \in Node, Rewrite(y)
  PROVE  Rest'
<1>1. PICK r \in Decls :
        /\ IsReplacement(Frame.of, r) /\ soft[y] \cap {Frame.of, r} # {}
        /\ soft' = [soft EXCEPT ![y] = (@ \ {Frame.of}) \cup {r}]
        /\ dependents' = [dependents EXCEPT ![r] = @ \cup {y}]
  BY DEF Rewrite
<1>2. /\ phase = "collect" /\ stack # <<>> /\ y \in Frame.todo /\ y \in Symbols
      /\ stack' = Taken(y)
      /\ UNCHANGED <<phase, main, reading, live, hard, news, includees, declFile, files, seen>>
  BY DEF Rewrite
<1>3. /\ Len(stack) \in DOMAIN stack /\ Frame = stack[Len(stack)]
      /\ DOMAIN stack' = DOMAIN stack
      /\ \A n \in DOMAIN stack :
           /\ stack'[n].of = stack[n].of /\ stack'[n].todo \subseteq stack[n].todo
           /\ \A x \in stack[n].todo : x # y \/ n # Len(stack) => x \in stack'[n].todo
           /\ n = Len(stack) => y \notin stack'[n].todo
  <2>1. stack \in Seq(Frames)
    BY DEF IInv, TypeOK, Frames
  <2> QED
    BY <1>2, <2>1, TakenType
<1>4. /\ Frame.of \in seen /\ y \in live /\ Frame.of \in Refs(y)
      /\ \A n \in DOMAIN stack : stack[n].of = Frame.of => n = Len(stack)
  BY <1>2, <1>3 DEF IInv, Collecting
<1>5. /\ Frame.of \in Decls /\ r \in live /\ r \notin seen /\ Entity[r] = Entity[Frame.of] /\ r \in Node
  BY <1>1 DEF IsReplacement, Candidates, Node, Symbols
<1>6. /\ Refs(y) = soft[y] \cup hard[y]
      /\ Refs(y)' = (soft[y] \ {Frame.of}) \cup {r} \cup hard[y]
      /\ \A z \in Node \ {y} : Refs(z)' = Refs(z)
  <2>1. /\ soft'[y] = (soft[y] \ {Frame.of}) \cup {r}
        /\ \A z \in Symbols \ {y} : soft'[z] = soft[z]
    BY <1>1, <1>2 DEF IInv, TypeOK
  <2>2. Refs(y)' = soft'[y] \cup hard'[y] /\ Refs(y) = soft[y] \cup hard[y]
    BY <1>2 DEF Refs, GraphAssumption
  <2>3. \A z \in Node \ {y} : Refs(z)' = Refs(z)
    BY <1>2, <2>1 DEF Refs, Node
  <2> QED
    BY <1>2, <2>1, <2>2, <2>3
<1>7. Frame.of \notin hard[y]
  <2>1. PICK q \in soft[y] : Entity[q] = Entity[Frame.of]
    BY <1>1, <1>5
  <2> QED
    BY <1>2, <2>1, KindsApart DEF IInv
<1>8. Refs(y)' = (Refs(y) \ {Frame.of}) \cup {r}
  BY <1>6, <1>7
<1>9. \A z \in live : Refs(z) \subseteq live
  BY <1>2 DEF IInv, Memory, Staying
<1>10. live \subseteq Node
  BY DEF IInv, TypeOK
<1>11. \A z \in live : Refs(z)' \subseteq live
  <2>1. Refs(y)' \subseteq live
    BY <1>4, <1>5, <1>8, <1>9
  <2> QED
    BY <1>6, <1>9, <1>10, <2>1
<1>12. /\ Staying = live /\ Staying' = live /\ moved = {} /\ moved' = {}
       /\ Unlooked = {main} /\ Unlooked' = {main}
       /\ Memory' /\ Mapped' /\ News' /\ Whole'
  BY <1>2, <1>11, CollectingRest
<1>13. \A z \in Node : dependents'[z] = IF z = r THEN dependents[r] \cup {y} ELSE dependents[z]
  BY <1>1 DEF IInv, TypeOK
<1>14. EdgesKnown'
  <2> SUFFICES ASSUME NEW x \in live, x # main, x \notin seen, NEW z \in Refs(x)'
               PROVE  IF z \in seen THEN Waiting(x, z)' ELSE x \in dependents'[z]
    BY <1>2, <1>12 DEF EdgesKnown
  <2>1. z \in Node
    BY <1>10, <1>11
  <2>2. CASE x = y /\ z = r
    BY <1>5, <1>13, <2>2
  <2>3. CASE ~ (x = y /\ z = r)
    <3>1. z \in Refs(x) /\ (x = y => z # Frame.of)
      <4>1. CASE x = y
        BY <1>4, <1>5, <1>8, <2>3, <4>1
      <4>2. CASE x # y
        BY <1>6, <1>10, <4>2
      <4> QED
        BY <4>1, <4>2
    <3>2. IF z \in seen THEN Waiting(x, z) ELSE x \in dependents[z]
      BY <1>12, <3>1 DEF IInv, EdgesKnown
    <3>3. CASE z \in seen
      <4>1. PICK n \in DOMAIN stack : stack[n].of = z /\ x \in stack[n].todo
        BY <3>2, <3>3 DEF Waiting
      <4>2. x # y \/ n # Len(stack)
        BY <1>3, <3>1, <4>1
      <4>3. n \in DOMAIN stack' /\ stack'[n].of = z /\ x \in stack'[n].todo
        BY <1>3, <4>1, <4>2
      <4>4. Waiting(x, z)'
        BY <4>3 DEF Waiting
      <4> QED
        BY <3>3, <4>4
    <3>4. CASE z \notin seen
      BY <1>13, <2>1, <3>2, <3>4
    <3> QED
      BY <3>3, <3>4
  <2> QED
    BY <2>2, <2>3
<1>15. EdgesTrue'
  <2> SUFFICES ASSUME NEW z \in Node, NEW x \in dependents'[z]
               PROVE  x \in live /\ z \in Refs(x)'
    BY <1>12 DEF EdgesTrue
  <2>1. CASE z = r /\ x = y
    BY <1>4, <1>8, <2>1
  <2>2. CASE ~ (z = r /\ x = y)
    <3>1. x \in dependents[z]
      BY <1>13, <2>2
    <3>2. x \in live /\ z \in Refs(x)
      BY <1>12, <3>1 DEF IInv, EdgesTrue
    <3>3. z # Frame.of
      BY <1>4, <3>1 DEF IInv, Collecting
    <3> QED
      BY <1>6, <1>8, <1>10, <3>2, <3>3
  <2> QED
    BY <2>1, <2>2
<1>16. Collecting'
  <2>1. \A z \in seen : dependents'[z] = {}
    BY <1>5, <1>13 DEF IInv, TypeOK, Collecting
  <2>2. ASSUME NEW n \in DOMAIN stack'
        PROVE  /\ stack'[n].of \in seen
               /\ \A w \in stack'[n].todo : w \in live /\ stack'[n].of \in Refs(w)'
               /\ \A k \in DOMAIN stack' : stack'[k].of = stack'[n].of => k = n
    <3>1. ASSUME NEW w \in stack'[n].todo
          PROVE  w \in live /\ stack'[n].of \in Refs(w)'
      <4>1. w \in live /\ stack[n].of \in Refs(w)
        BY <1>3 DEF IInv, Collecting
      <4>2. CASE w = y
        <5>1. stack[n].of # Frame.of
          BY <1>3, <1>4, <4>2
        <5> QED
          BY <1>3, <1>8, <4>1, <4>2, <5>1
      <4>3. CASE w # y
        BY <1>3, <1>6, <1>10, <4>1, <4>3
      <4> QED
        BY <4>2, <4>3
    <3>2. /\ stack'[n].of \in seen
          /\ \A k \in DOMAIN stack' : stack'[k].of = stack'[n].of => k = n
      BY <1>3 DEF IInv, Collecting
    <3> QED
      BY <3>1, <3>2
  <2> QED
    BY <1>2, <2>1, <2>2 DEF IInv, Collecting
<1> QED
  BY <1>12, <1>14, <1>15, <1>16 DEF Rest

LEMMA RemoveDependenciesStep ==
  ASSUME GraphAssumption, IInv, RemoveDependencies
  PROVE  Rest'
<1>1. /\ phase = "collect" /\ phase' = "unload" /\ stack = <<>> /\ Roots = {}
      /\ dependents' = [x \in Node |-> dependents[x] \ {y \in seen : x \in Refs(y)}]
      /\ includees' = [f \in Files |-> IF f \in seen THEN {} ELSE includees[f]]
      /\ UNCHANGED <<main, reading, live, soft, hard, newFEs, fresh, moved, declFile, files, seen,
                     stack>>
  BY DEF RemoveDependencies, compiler, news, unloading
<1>2. /\ newFEs = {} /\ fresh = {} /\ moved = {} /\ reading = <<>>
      /\ main \in files /\ files \subseteq live /\ Staying = live
  BY <1>1 DEF IInv, News, Collecting, Staying
<1>3. main \in seen
  BY <1>1, <1>2 DEF Roots
<1>4. \A d \in Decls : declFile[d] \in seen => d \in seen
  BY <1>1 DEF Roots
<1>5. Staying' = live \ seen /\ Unlooked' = {} /\ Unlooked = {main} /\ live \subseteq Node
  BY <1>1 DEF Staying, Unlooked, IInv, TypeOK
<1>6. \A x \in live \ seen : \A z \in Refs(x) : z \in live \ seen /\ x \in dependents[z]
  <2> SUFFICES ASSUME NEW x \in live \ seen, NEW z \in Refs(x)
               PROVE  z \in live \ seen /\ x \in dependents[z]
    OBVIOUS
  <2>1. IF z \in seen THEN Waiting(x, z) ELSE x \in dependents[z]
    BY <1>3, <1>5 DEF IInv, EdgesKnown
  <2>2. ~ Waiting(x, z)
    BY <1>1 DEF Waiting
  <2>3. z \in live
    BY <1>2 DEF IInv, Memory
  <2> QED
    BY <2>1, <2>2, <2>3
<1>7. \A x \in Node \ seen : Refs(x)' = Refs(x)
  BY <1>1 DEF Refs
<1>8. Memory'
  BY <1>5, <1>6, <1>7 DEF Memory
<1>9. Mapped'
  <2>1. /\ \A d \in Decls : declFile[d] # None => d \in live /\ declFile[d] = FileOf[d]
        /\ \A d \in Decls : d \in live => declFile[d] = FileOf[d]
        /\ \A d \in live \cap Decls : FileOf[d] \in live
        /\ \A f \in Files : f \notin live => includees[f] = {}
    BY <1>2 DEF IInv, Mapped
  <2>2. \A d \in Staying' \cap Decls : FileOf[d] \in Staying'
    BY <1>4, <1>5, <2>1
  <2>3. \A f \in Files : f \notin Staying' => includees'[f] = {}
    BY <1>1, <1>5, <2>1
  <2> QED
    BY <1>1, <2>1, <2>2, <2>3 DEF Mapped
<1>10. News'
  BY <1>1, <1>2 DEF News
<1>11. EdgesKnown'
  <2> SUFFICES ASSUME NEW x \in live \ seen, NEW z \in Refs(x)
               PROVE  z \notin seen /\ x \in dependents'[z]
    BY <1>1, <1>5, <1>7 DEF EdgesKnown
  <2>1. z \in Node /\ z \notin seen /\ x \in dependents[z]
    BY <1>5, <1>6
  <2> QED
    BY <1>1, <2>1
<1>12. EdgesTrue'
  <2> SUFFICES ASSUME NEW z \in Node, NEW x \in dependents'[z]
               PROVE  x \in Staying' /\ z \in Refs(x)'
    BY DEF EdgesTrue
  <2>1. x \in dependents[z] /\ x \notin {y \in seen : z \in Refs(y)}
    BY <1>1
  <2>2. x \in live /\ z \in Refs(x)
    BY <1>2, <2>1 DEF IInv, EdgesTrue
  <2> QED
    BY <1>5, <1>7, <2>1, <2>2
<1>13. Collecting'
  <2>1. Roots' = {}
    BY <1>1 DEF Roots
  <2>2. \A z \in seen : dependents'[z] = {}
    BY <1>1 DEF IInv, TypeOK, Collecting
  <2>3. stack' = <<>> /\ DOMAIN stack' = {}
    BY <1>1
  <2>4. phase' = "unload" /\ seen' = seen /\ files' \subseteq live'
    BY <1>1, <1>2
  <2> QED
    BY <2>1, <2>2, <2>3, <2>4 DEF Collecting
<1>14. Whole'
  <2> SUFFICES ASSUME NEW f \in (live \ seen) \cap Files, NEW n \in DOMAIN Text[f]
               PROVE  IF Text[f][n] \in Files
                        THEN Text[f][n] \in includees'[f] \cup {f}
                        ELSE Text[f][n] \in live \ seen
    BY <1>1, <1>5 DEF Whole
  <2>1. IF Text[f][n] \in Files
          THEN Text[f][n] \in includees[f] \cup {f}
          ELSE Text[f][n] \in live
    BY <1>2 DEF IInv, Whole
  <2>2. CASE Text[f][n] \in Files
    BY <1>1, <2>1, <2>2
  <2>3. CASE Text[f][n] \notin Files
    <3>1. Text[f][n] \in Decls \ Implicit /\ FileOf[Text[f][n]] = f
      <4>1. Text[f] \in Seq((Decls \ Implicit) \cup (Files \ MainFiles))
        BY DEF GraphAssumption
      <4>2. Text[f][n] \in (Decls \ Implicit) \cup (Files \ MainFiles)
        BY <4>1
      <4> QED
        BY <2>3, <4>2 DEF GraphAssumption
    <3>2. declFile[Text[f][n]] = f
      BY <1>2, <2>1, <2>3, <3>1 DEF IInv, Mapped
    <3>3. Text[f][n] \in Refs(f)
      BY <3>1, <3>2, RefsCases
    <3> QED
      BY <1>6, <2>3, <3>3
  <2> QED
    BY <2>2, <2>3
<1> QED
  BY <1>8, <1>9, <1>10, <1>11, <1>12, <1>13, <1>14 DEF Rest

-----------------------------------------------------------------------------
(* The unloader.                                                           *)

LEMMA UnloadDeclStep ==
  ASSUME GraphAssumption, IInv, NEW d \in Decls, UnloadDecl(d)
  PROVE  Rest'
<1>1. /\ phase = "unload" /\ d \in seen /\ live' = live \ {d}
      /\ declFile' = [declFile EXCEPT ![d] = None]
      /\ UNCHANGED <<phase, main, reading, soft, hard, newFEs, fresh, moved, includees, dependents,
                     files, seen, stack>>
  BY DEF UnloadDecl, news, unloading
<1>2. /\ Staying = live \ seen /\ Staying' = Staying /\ Unlooked = {} /\ Unlooked' = {}
      /\ newFEs = {} /\ fresh = {} /\ moved = {} /\ reading = <<>> /\ stack = <<>> /\ Roots = {}
  BY <1>1 DEF Staying, Unlooked, IInv, News, Collecting
<1>3. /\ declFile'[d] = None /\ \A e \in Decls : e # d => declFile'[e] = declFile[e]
      /\ live \subseteq Node /\ seen \subseteq Node /\ None \notin Node /\ d \notin Files
  BY <1>1 DEF IInv, TypeOK, GraphAssumption, Symbols
<1>4. ASSUME NEW x \in Staying PROVE Refs(x)' = Refs(x) /\ x \in Node
  <2>1. Refs(x) \subseteq Staying /\ x \in Node
    BY <1>2, <1>3 DEF IInv, Memory
  <2>2. CASE x \in Files
    <3>1. Refs(x) = includees[x] \cup {e \in Decls \ Implicit : declFile[e] = x}
      BY <2>2, RefsCases
    <3>2. Refs(x)' = includees[x] \cup {e \in Decls \ Implicit : declFile'[e] = x}
      BY <1>1, <2>2 DEF Refs
    <3>3. d \notin Refs(x) /\ x # None
      BY <1>1, <1>2, <1>3, <2>1
    <3>4. {e \in Decls \ Implicit : declFile[e] = x} = {e \in Decls \ Implicit : declFile'[e] = x}
      BY <1>3, <3>1, <3>3
    <3> QED
      BY <2>1, <3>1, <3>2, <3>4
  <2>3. CASE x \notin Files
    BY <1>1, <2>1, <2>3 DEF Refs
  <2> QED
    BY <2>2, <2>3
<1>5. Memory' /\ News' /\ Whole'
  <2>1. Memory'
    BY <1>2, <1>4 DEF IInv, Memory
  <2>2. News'
    BY <1>1, <1>2 DEF News
  <2>3. Whole'
    BY <1>1, <1>2 DEF IInv, Whole
  <2> QED
    BY <2>1, <2>2, <2>3
<1>6. Mapped'
  BY <1>1, <1>2, <1>3 DEF IInv, Mapped
<1>7. EdgesKnown'
  <2> SUFFICES ASSUME NEW x \in Staying, NEW z \in Refs(x)
               PROVE  IF z \in seen THEN Waiting(x, z) ELSE x \in dependents[z]
    BY <1>1, <1>2, <1>4 DEF EdgesKnown, Waiting
  <2> QED
    BY <1>2 DEF IInv, EdgesKnown
<1>8. EdgesTrue'
  <2> SUFFICES ASSUME NEW z \in Node, NEW x \in dependents[z]
               PROVE  x \in Staying /\ z \in Refs(x)'
    BY <1>1, <1>2 DEF EdgesTrue
  <2>1. x \in Staying /\ z \in Refs(x)
    BY <1>2 DEF IInv, EdgesTrue
  <2> QED
    BY <1>4, <2>1
<1>9. Collecting'
  <2>1. Roots' = {}
    BY <1>1, <1>2, <1>3 DEF Roots
  <2>2. files \subseteq live' /\ (\A z \in seen : dependents[z] = {})
    BY <1>1, <1>3 DEF IInv, Collecting, TypeOK
  <2>3. stack' = <<>> /\ DOMAIN stack' = {}
    BY <1>1, <1>2
  <2> QED
    BY <1>1, <2>1, <2>2, <2>3 DEF Collecting
<1> QED
  BY <1>5, <1>6, <1>7, <1>8, <1>9 DEF Rest

LEMMA UnloadRestStep ==
  ASSUME GraphAssumption, IInv, UnloadRest
  PROVE  Rest'
<1>1. /\ phase = "unload" /\ phase' = "idle" /\ seen \cap live \cap Decls = {}
      /\ live' = live \ seen
      /\ soft' = [x \in Symbols |-> IF x \in seen THEN {} ELSE soft[x]]
      /\ hard' = [x \in Symbols |-> IF x \in seen THEN {} ELSE hard[x]]
      /\ declFile' = [d \in Decls |-> IF declFile[d] \in seen THEN None ELSE declFile[d]]
      /\ files' = {} /\ seen' = {}
      /\ UNCHANGED <<reading, newFEs, fresh, moved, includees, dependents, stack>>
  BY DEF UnloadRest, news
<1>2. /\ Staying = live \ seen /\ Staying' = Staying /\ live' = Staying
      /\ Unlooked = {} /\ Unlooked' = {}
      /\ newFEs = {} /\ fresh = {} /\ moved = {} /\ reading = <<>> /\ stack = <<>> /\ Roots = {}
  BY <1>1 DEF Staying, Unlooked, IInv, News, Collecting
<1>3. \A d \in Decls : declFile[d] # None => d \in live' /\ declFile[d] = FileOf[d]
  BY <1>1 DEF IInv, Mapped
<1>4. \A d \in Decls : declFile'[d] = declFile[d]
  <2> SUFFICES ASSUME NEW d \in Decls, declFile[d] \in seen PROVE FALSE
    BY <1>1
  <2>1. declFile[d] # None
    BY DEF IInv, TypeOK, GraphAssumption
  <2>2. d \in live' /\ d \in seen
    BY <1>2, <1>3, <2>1 DEF Roots
  <2> QED
    BY <1>1, <2>2
<1>5. Staying \subseteq Node
  BY <1>2 DEF IInv, TypeOK
<1>6. \A x \in Staying : Refs(x)' = Refs(x)
  BY <1>1, <1>2, <1>4, <1>5 DEF Refs, Node
<1>7. Memory' /\ News' /\ Whole'
  <2>1. Memory'
    BY <1>2, <1>6 DEF IInv, Memory
  <2>2. News'
    BY <1>1, <1>2 DEF News
  <2>3. Whole'
    BY <1>1, <1>2 DEF IInv, Whole
  <2> QED
    BY <2>1, <2>2, <2>3
<1>8. Mapped'
  <2>1. /\ \A d \in Decls : d \in live => declFile[d] = FileOf[d]
        /\ \A d \in Staying \cap Decls : FileOf[d] \in Staying
        /\ \A f \in Files : f \notin Staying => includees[f] = {}
    BY <1>2 DEF IInv, Mapped
  <2> QED
    BY <1>1, <1>2, <1>3, <1>4, <2>1 DEF Mapped
<1>9. EdgesKnown'
  <2> SUFFICES ASSUME NEW x \in Staying, NEW z \in Refs(x)
               PROVE  x \in dependents[z]
    BY <1>1, <1>2, <1>6 DEF EdgesKnown
  <2>1. z \notin seen
    BY <1>2 DEF IInv, Memory
  <2> QED
    BY <1>2, <2>1 DEF IInv, EdgesKnown
<1>10. EdgesTrue'
  <2> SUFFICES ASSUME NEW z \in Node, NEW x \in dependents[z]
               PROVE  x \in Staying /\ z \in Refs(x)'
    BY <1>1, <1>2 DEF EdgesTrue
  <2>1. x \in Staying /\ z \in Refs(x)
    BY <1>2 DEF IInv, EdgesTrue
  <2> QED
    BY <1>6, <2>1
<1>11. Collecting'
  BY <1>1, <1>2 DEF Collecting
<1> QED
  BY <1>7, <1>8, <1>9, <1>10, <1>11 DEF Rest

-----------------------------------------------------------------------------
(* The invariant and what it implies.                                      *)

LEMMA InvariantInit ==
  ASSUME GraphAssumption, Init
  PROVE  IInv
<1>1. /\ phase = "idle" /\ live = {} /\ stack = <<>> /\ seen = {} /\ Staying = {}
      /\ \A d \in Decls : declFile[d] = None
      /\ \A x \in Symbols : soft[x] = {} /\ hard[x] = {}
      /\ \A f \in Files : includees[f] = {}
      /\ \A x \in Node : dependents[x] = {}
      /\ newFEs = {} /\ fresh = {} /\ moved = {} /\ reading = <<>> /\ files = {}
  BY DEF Init, Staying
<1>2. Kinds /\ Memory /\ Mapped
  BY <1>1 DEF Kinds, Memory, Mapped
<1>3. News /\ EdgesKnown /\ EdgesTrue
  BY <1>1 DEF News, EdgesKnown, EdgesTrue
<1>4. Collecting /\ Whole
  BY <1>1 DEF Collecting, Whole
<1> QED
  BY <1>2, <1>3, <1>4, TypeInit DEF IInv

LEMMA InvariantStep ==
  ASSUME GraphAssumption, IInv, [Next]_vars
  PROVE  IInv'
<1> SUFFICES Rest'
  BY TypeStep, KindsStep DEF IInv, Rest
<1>2. CASE UNCHANGED vars
  <2>1. UNCHANGED <<phase, main, reading, live, soft, hard, newFEs, fresh, moved, includees,
                    declFile, visited, pending, dependents, files, seen, stack>>
    BY <1>2 DEF vars, compiler, news, graph, unloading
  <2>2. \A x : Refs(x)' = Refs(x)
    BY <2>1, SameRefs
  <2>3. Staying' = Staying /\ Entered' = Entered /\ Renewed' = Renewed /\ Roots' = Roots
    BY <2>1 DEF Staying, Entered, Renewed, Roots
  <2>4. Unlooked' = Unlooked
    BY <2>1, <2>3 DEF Unlooked
  <2>5. Memory' /\ Mapped'
    BY <2>1, <2>2, <2>3 DEF IInv, Memory, Mapped
  <2>6. News' /\ EdgesTrue'
    BY <2>1, <2>2, <2>3 DEF IInv, News, EdgesTrue
  <2>7. EdgesKnown'
    BY <2>1, <2>2, <2>4 DEF IInv, EdgesKnown, Waiting
  <2>8. Collecting' /\ Whole'
    BY <2>1, <2>2, <2>3 DEF IInv, Collecting, Whole
  <2> QED
    BY <2>5, <2>6, <2>7, <2>8 DEF Rest
<1>3. CASE Compile
  BY <1>3, EnterMainFileStep, IncludeStep, EndOfFileStep, CreateStep, InstantiateStep,
     SetInstantiationOfStep DEF Compile
<1>4. CASE Collect
  BY <1>4, UpdateStep, FindDependeesStep, CollectRootStep, RewriteStep, FollowStep, ReturnStep,
     RemoveDependenciesStep DEF Collect
<1>5. CASE UnloadRest \/ \E d \in Decls : UnloadDecl(d)
  BY <1>5, UnloadRestStep, UnloadDeclStep
<1> QED
  BY <1>2, <1>3, <1>4, <1>5 DEF Next

LEMMA Invariant == Spec => []IInv
<1>1. Init => IInv
  BY InvariantInit, GraphAssumption
<1>2. IInv /\ [Next]_vars => IInv'
  BY InvariantStep, GraphAssumption
<1> QED
  BY <1>1, <1>2, PTL DEF Spec

(* No declaration, type or file that stays refers to one that was          *)
(* unloaded, whatever depends on what and whatever changed.                *)
THEOREM Safe == Spec => []NoDanglingReference
<1>1. IInv => NoDanglingReference
  BY DEF IInv, Memory, Staying, NoDanglingReference
<1> QED
  BY <1>1, Invariant, PTL

(* A file that stays in the cache is there with all that its text declares *)
(* and includes.                                                           *)
THEOREM WholeFiles == Spec => []CachedFilesWhole
<1>1. ASSUME IInv PROVE CachedFilesWhole
  <2> SUFFICES ASSUME phase = "idle", NEW f \in live \cap Files, NEW n \in DOMAIN Text[f]
               PROVE  Text[f][n] \in live
    BY DEF CachedFilesWhole
  <2>1. Staying = live /\ newFEs = {} /\ reading = <<>>
    BY <1>1 DEF IInv, News, Staying
  <2>2. \A k \in DOMAIN reading : reading[k] # f
    BY <2>1
  <2>3. IF Text[f][n] \in Files THEN Text[f][n] \in includees[f] \cup {f} ELSE Text[f][n] \in live
    BY <1>1, <2>1, <2>2 DEF IInv, Whole
  <2>4. includees[f] \subseteq live
    BY <1>1, <2>1, RefsCases, GraphAssumption DEF IInv, Memory
  <2> QED
    BY <2>3, <2>4
<1> QED
  BY <1>1, Invariant, PTL

(* The graph mentions only what is in memory between the commands.         *)
THEOREM NoStaleEdge == Spec => []NoStaleDependents
<1>1. ASSUME IInv PROVE NoStaleDependents
  <2> SUFFICES ASSUME phase = "idle", NEW z \in Node, NEW x \in dependents[z]
               PROVE  x \in live /\ z \in live
    BY DEF NoStaleDependents
  <2>1. Staying = live /\ moved = {}
    BY <1>1 DEF IInv, News, Staying
  <2>2. x \in live /\ z \in Refs(x)
    BY <1>1, <2>1 DEF IInv, EdgesTrue
  <2> QED
    BY <1>1, <2>1, <2>2 DEF IInv, Memory
<1> QED
  BY <1>1, Invariant, PTL

(* The map from declarations to files follows the memory.                  *)
THEOREM MappingCorrect == Spec => []MappingLive
<1>1. ASSUME IInv PROVE MappingLive
  <2>1. phase \in {"idle", "compile"} => Staying = live
    BY DEF Staying
  <2>2. phase = "idle" => fresh = {}
    BY <1>1 DEF IInv, News
  <2>3. \A d \in Decls : declFile[d] # None => d \in live
    BY <1>1 DEF IInv, Mapped
  <2>4. phase = "idle" => \A d \in Decls : d \in live => declFile[d] = FileOf[d] /\ FileOf[d] \in live
    BY <1>1, <2>1, <2>2 DEF IInv, Mapped
  <2> QED
    BY <2>3, <2>4 DEF MappingLive
<1> QED
  BY <1>1, Invariant, PTL
-----------------------------------------------------------------------------
(* The collection unloads no more than it must.                            *)

(* Whatever has been collected belongs to each set that can be unloaded    *)
(* without more.  A user of a dead declaration is collected only when no   *)
(* other declaration of the same thing is left (findReplacement looks at   *)
(* all of them, so each must be in the list it goes through).              *)
Least == phase = "collect" => \A S \in SUBSET Node : Closed(S) => seen \subseteq S

Ordered == \A d \in live \cap Decls : \E n \in DOMAIN order : order[n] = d

(* A nonempty set of indices has a least one.                              *)
LEMMA LeastIndex ==
  ASSUME NEW I \in SUBSET Nat, I # {}
  PROVE  \E i \in I : \A j \in I : i <= j
<1>1. PICK i \in I : \A j \in I : <<j, i>> \notin OpToRel(<, Nat)
  BY WFMin, NatLessThanWellFounded, Zenon
<1>2. \A j \in I : ~ (j < i)
  <2> SUFFICES ASSUME NEW j \in I, j < i PROVE <<j, i>> \in OpToRel(<, Nat)
    BY <1>1
  <2>1. <<j, i>> \in Nat \X Nat /\ <<j, i>>[1] < <<j, i>>[2]
    OBVIOUS
  <2> QED
    BY <2>1, Zenon DEF OpToRel
<1>3. i \in Nat /\ \A j \in I : j \in Nat
  OBVIOUS
<1> QED
  BY <1>2, <1>3

(* findReplacement finds a declaration when there is one.                  *)
LEMMA ReplacementExists ==
  ASSUME TypeOK, Ordered, NEW x \in Decls, Candidates(x) # {}
  PROVE  \E r \in Decls : IsReplacement(x, r)
<1> DEFINE I == {n \in DOMAIN order : order[n] \in Candidates(x)}
<1>1. \A q \in Candidates(x) : q \in Decls /\ \E n \in I : order[n] = q
  BY DEF Candidates, Ordered
<1>2. I \in SUBSET Nat /\ I # {}
  BY <1>1 DEF TypeOK
<1>3. PICK i \in I : \A j \in I : i <= j
  BY <1>2, LeastIndex
<1>4. order[i] \in Candidates(x) /\ order[i] \in Decls
  BY <1>1, <1>3
<1>5. ASSUME NEW q \in Candidates(x) \ {order[i]} PROVE Before(order[i], q)
  <2>1. PICK j \in I : order[j] = q
    BY <1>1
  <2>2. i < j
    BY <1>2, <1>3, <2>1
  <2> QED
    BY <1>3, <2>1, <2>2 DEF Before
<1> QED
  BY <1>4, <1>5 DEF IsReplacement

(* Taking one element out of a sequence leaves the others.                 *)
Without(s, n) == SubSeq(s, 1, n - 1) \o SubSeq(s, n + 1, Len(s))

LEMMA WithoutOne ==
  ASSUME NEW S, NEW s \in Seq(S), NEW n \in 1 .. Len(s), NEW m \in 1 .. Len(s), m # n
  PROVE  \E k \in DOMAIN Without(s, n) : Without(s, n)[k] = s[m]
<1>1. Len(s) \in Nat /\ (m < n \/ m > n)
  OBVIOUS
<1> DEFINE a == SubSeq(s, 1, n - 1)
           b == SubSeq(s, n + 1, Len(s))
<1>2. a \in Seq(S) /\ Len(a) = n - 1 /\ \A i \in 1 .. n - 1 : a[i] = s[i]
  OBVIOUS
<1>3. b \in Seq(S) /\ Len(b) = Len(s) - n /\ \A i \in 1 .. Len(s) - n : b[i] = s[n + i]
  OBVIOUS
<1>4. Without(s, n) = a \o b
  BY DEF Without
<1> HIDE DEF a, b
<1>5. /\ a \o b \in Seq(S) /\ Len(a \o b) = Len(a) + Len(b)
      /\ \A i \in 1 .. Len(a) + Len(b) : (a \o b)[i] = IF i <= Len(a) THEN a[i] ELSE b[i - Len(a)]
  BY <1>2, <1>3, ConcatProperties
<1>6. Len(a) + Len(b) = Len(s) - 1 /\ DOMAIN (a \o b) = 1 .. Len(s) - 1
  BY <1>1, <1>2, <1>3, <1>5
<1>7. CASE m < n
  <2>1. m \in 1 .. Len(s) - 1 /\ m \in 1 .. n - 1 /\ m <= n - 1
    BY <1>1, <1>7
  <2>2. (a \o b)[m] = s[m]
    BY <1>2, <1>5, <1>6, <2>1
  <2> QED
    BY <1>4, <1>6, <2>1, <2>2
<1>8. CASE m > n
  <2>1. /\ m - 1 \in 1 .. Len(s) - 1 /\ ~ (m - 1 <= n - 1) /\ m - n \in 1 .. Len(s) - n
        /\ (m - 1) - (n - 1) = m - n /\ n + (m - n) = m
    BY <1>1, <1>8
  <2>2. (a \o b)[m - 1] = b[m - n]
    BY <1>2, <1>5, <1>6, <2>1
  <2>3. b[m - n] = s[m]
    BY <1>3, <2>1
  <2> QED
    BY <1>4, <1>6, <2>1, <2>2, <2>3
<1> QED
  BY <1>1, <1>7, <1>8

(* The list of the declarations in memory.                                 *)
LEMMA OrderedStep ==
  ASSUME GraphAssumption, TypeOK, Ordered, [Next]_vars
  PROVE  Ordered'
<1>1. CASE live' \cap Decls \subseteq live \cap Decls /\ order' = order
  BY <1>1 DEF Ordered
<1>2. CASE UNCHANGED vars
  BY <1>1, <1>2 DEF vars, compiler
<1>3. CASE Compile
  <2>1. ASSUME NEW m \in MainFiles, EnterMainFile(m) PROVE Ordered'
    <3>1. live' \cap Decls \subseteq live \cap Decls
      BY <2>1 DEF EnterMainFile, GraphAssumption, Symbols
    <3> QED
      BY <1>1, <2>1, <3>1 DEF EnterMainFile
  <2>2. ASSUME NEW g \in Files, Include(g) PROVE Ordered'
    <3>1. live' \cap Decls \subseteq live \cap Decls
      BY <2>2 DEF Include, GraphAssumption, Symbols
    <3> QED
      BY <1>1, <2>2, <3>1 DEF Include
  <2>3. ASSUME NEW x \in Symbols, Create(x) PROVE Ordered'
    <3>1. live' = live \cup {x} /\ order' = IF x \in Decls THEN Append(order, x) ELSE order
      BY <2>3 DEF Create
    <3>2. CASE x \in Decls
      <4>1. order \in Seq(Decls) /\ DOMAIN order = 1 .. Len(order) /\ Len(order) \in Nat
        BY DEF TypeOK
      <4>2. /\ DOMAIN order' = 1 .. Len(order) + 1
            /\ \A n \in 1 .. Len(order) : order'[n] = order[n]
            /\ order'[Len(order) + 1] = x
        BY <3>1, <3>2, <4>1, AppendType
      <4>3. Len(order) + 1 \in DOMAIN order' /\ DOMAIN order \subseteq DOMAIN order'
        BY <4>1, <4>2
      <4>4. ASSUME NEW d \in live' \cap Decls, d # x PROVE \E n \in DOMAIN order' : order'[n] = d
        <5>1. PICK n \in DOMAIN order : order[n] = d
          BY <3>1, <4>4 DEF Ordered
        <5> QED
          BY <4>1, <4>2, <4>3, <5>1
      <4> QED
        BY <4>2, <4>3, <4>4 DEF Ordered
    <3>3. CASE x \notin Decls
      BY <1>1, <3>1, <3>3
    <3> QED
      BY <3>2, <3>3
  <2>4. ASSUME EndOfFile \/ (\E d \in Decls : Instantiate(d))
               \/ (\E d \in Implicit : SetInstantiationOf(d))
        PROVE  Ordered'
    <3>1. live' = live /\ order' = order
      BY <2>4 DEF EndOfFile, Instantiate, SetInstantiationOf
    <3> QED
      BY <1>1, <3>1
  <2> QED
    BY <1>3, <2>1, <2>2, <2>3, <2>4 DEF Compile
<1>4. CASE Collect
  BY <1>1, <1>4 DEF Collect, Update, FindDependees, CollectRoot, Rewrite, Follow, Return,
     RemoveDependencies, compiler
<1>5. CASE UnloadRest
  BY <1>1, <1>5 DEF UnloadRest
<1>6. ASSUME NEW d \in Decls, UnloadDecl(d) PROVE Ordered'
  <2>1. PICK n \in DOMAIN order : order[n] = d /\ order' = Without(order, n)
    BY <1>6 DEF UnloadDecl, Without
  <2>2. order \in Seq(Decls) /\ DOMAIN order = 1 .. Len(order)
    BY DEF TypeOK
  <2>3. ASSUME NEW m \in DOMAIN order, m # n
        PROVE  \E k \in DOMAIN order' : order'[k] = order[m]
    BY <2>1, <2>2, <2>3, WithoutOne
  <2>4. ASSUME NEW e \in live' \cap Decls PROVE \E k \in DOMAIN order' : order'[k] = e
    <3>1. e \in live \cap Decls /\ e # d
      BY <1>6 DEF UnloadDecl
    <3>2. PICK m \in DOMAIN order : order[m] = e
      BY <3>1 DEF Ordered
    <3> QED
      BY <2>1, <2>3, <3>1, <3>2
  <2> QED
    BY <2>4 DEF Ordered
<1> QED
  BY <1>2, <1>3, <1>4, <1>5, <1>6 DEF Next

(* What belongs to every set that can be unloaded without more.            *)
LEMMA LeastStep ==
  ASSUME GraphAssumption, TypesAssumption, IInv, Ordered, Least, [Next]_vars
  PROVE  Least'
<1> SUFFICES ASSUME phase' = "collect", NEW S \in SUBSET Node, Closed(S)'
             PROVE  seen' \subseteq S
  BY DEF Least
<1>1. ASSUME phase = "collect", seen' = seen, UNCHANGED <<files, live, soft, hard, includees, declFile>>
      PROVE  seen' \subseteq S
  <2>1. \A x : Refs(x)' = Refs(x)
    BY <1>1 DEF Refs
  <2>2. Closed(S)
    BY <1>1, <2>1 DEF Closed
  <2> QED
    BY <1>1, <2>2 DEF Least
<1>2. ASSUME phase = "collect", UNCHANGED <<files, live, soft, hard, includees, declFile>>,
             NEW x \in Node, seen' \subseteq seen \cup {x},
             Closed(S) /\ seen \subseteq S => x \in S
      PROVE  seen' \subseteq S
  <2>1. \A y : Refs(y)' = Refs(y)
    BY <1>2 DEF Refs
  <2>2. Closed(S)
    BY <1>2, <2>1 DEF Closed
  <2>3. seen \subseteq S
    BY <1>2, <2>2 DEF Least
  <2> QED
    BY <1>2, <2>2, <2>3
<1>3. CASE UNCHANGED vars
  BY <1>1, <1>3 DEF vars, compiler, graph, unloading
<1>4. CASE FindDependees
  <2>1. seen' = {}
    BY <1>4 DEF FindDependees, unloading, IInv, Collecting
  <2> QED
    BY <2>1
<1>5. ASSUME NEW x \in Node, CollectRoot(x) PROVE seen' \subseteq S
  <2>1. /\ phase = "collect" /\ UNCHANGED <<files, live, soft, hard, includees, declFile>>
        /\ seen' \subseteq seen \cup {x} /\ x \in Roots
    BY <1>5 DEF CollectRoot, CollectUsersOf, compiler
  <2>2. ASSUME Closed(S), seen \subseteq S PROVE x \in S
    BY <2>1, <2>2 DEF Roots, Closed
  <2> QED
    BY <1>2, <2>1, <2>2
<1>6. ASSUME NEW y \in Node, Rewrite(y) PROVE seen' \subseteq S
  <2>1. PICK r \in Decls : /\ IsReplacement(Frame.of, r)
                           /\ soft' = [soft EXCEPT ![y] = (@ \ {Frame.of}) \cup {r}]
    BY <1>6 DEF Rewrite
  <2>2. /\ phase = "collect" /\ y \in Symbols
        /\ UNCHANGED <<files, live, hard, includees, declFile, seen>>
    BY <1>6 DEF Rewrite
  <2>3. r \in live \cap Symbols /\ Entity[r] = Entity[Frame.of]
    BY <2>1 DEF IsReplacement, Candidates, Symbols
  <2>4. \A f \in Files : Refs(f)' = Refs(f)
    BY <2>2 DEF Refs
  <2>5. /\ soft'[y] = (soft[y] \ {Frame.of}) \cup {r}
        /\ \A x \in Symbols : x # y => soft'[x] = soft[x]
    BY <2>1, <2>2 DEF IInv, TypeOK
  <2>6. ASSUME NEW x \in live \cap Symbols,
               \/ hard[x] \cap S # {}
               \/ \E q \in soft[x] \cap S :
                    \A p \in live \cap Symbols : Entity[p] = Entity[q] => p \in S
        PROVE  x \in S
    <3>1. \/ hard[x] \cap S # {}
          \/ \E q \in soft'[x] \cap S :
               \A p \in live \cap Symbols : Entity[p] = Entity[q] => p \in S
      <4>1. CASE hard[x] \cap S # {}
        BY <4>1
      <4>2. CASE x # y
        BY <2>5, <2>6, <4>2
      <4>3. ASSUME x = y, NEW q \in soft[x] \cap S,
                   \A p \in live \cap Symbols : Entity[p] = Entity[q] => p \in S
            PROVE  \E u \in soft'[x] \cap S :
                     \A p \in live \cap Symbols : Entity[p] = Entity[u] => p \in S
        <5>1. CASE q # Frame.of
          BY <2>5, <4>3, <5>1
        <5>2. CASE q = Frame.of
          <6>1. r \in soft'[x] \cap S
            BY <2>3, <2>5, <4>3, <5>2
          <6>2. \A p \in live \cap Symbols : Entity[p] = Entity[r] => p \in S
            BY <2>3, <4>3, <5>2
          <6> QED
            BY <6>1, <6>2
        <5> QED
          BY <5>1, <5>2
      <4> QED
        BY <2>6, <4>1, <4>2, <4>3
    <3> QED
      BY <2>2, <3>1 DEF Closed
  <2>7. Closed(S)
    BY <2>2, <2>4, <2>6 DEF Closed
  <2> QED
    BY <2>2, <2>7 DEF Least
<1>7. ASSUME NEW y \in Node, Follow(y) PROVE seen' \subseteq S
  <2>1. /\ phase = "collect" /\ UNCHANGED <<files, live, soft, hard, includees, declFile>>
        /\ stack # <<>> /\ y \in Frame.todo /\ seen' \subseteq seen \cup {y}
        /\ y \in Symbols => \A r \in Decls : IsReplacement(Frame.of, r) =>
                                               soft[y] \cap {Frame.of, r} = {}
    BY <1>7 DEF Follow, CollectUsersOf, compiler
  <2>2. Len(stack) \in DOMAIN stack /\ Frame = stack[Len(stack)]
    BY <2>1, TopType DEF IInv, TypeOK, Frame
  <2>3. Frame.of \in seen /\ y \in live /\ Frame.of \in Refs(y)
    BY <2>1, <2>2 DEF IInv, Collecting
  <2>4. ASSUME Closed(S), seen \subseteq S PROVE y \in S
    <3>1. CASE y \in Files
      BY <2>3, <2>4, <3>1 DEF Closed
    <3>2. CASE y \in Symbols
      <4>1. Frame.of \in soft[y] \cup hard[y]
        BY <2>3, <3>2, RefsCases
      <4>2. CASE Frame.of \in hard[y]
        BY <2>3, <2>4, <3>2, <4>2 DEF Closed
      <4>3. CASE Frame.of \in soft[y]
        <5>1. Frame.of \in Symbols
          BY <3>2, <4>3 DEF IInv, TypeOK
        <5>2. ASSUME NEW q \in live \cap Symbols, Entity[q] = Entity[Frame.of], q \notin S
              PROVE  FALSE
          <6>1. q # Frame.of /\ q \notin seen
            BY <2>3, <2>4, <5>2
          <6>2. q \in Decls /\ Frame.of \in Decls
            BY <5>1, <5>2, <6>1, TypesAssumption DEF Symbols, TypesAssumption
          <6>3. Candidates(Frame.of) # {}
            BY <5>2, <6>1, <6>2 DEF Candidates
          <6>4. PICK r \in Decls : IsReplacement(Frame.of, r)
            BY <6>2, <6>3, ReplacementExists DEF IInv
          <6> QED
            BY <2>1, <3>2, <4>3, <6>4
        <5> QED
          BY <2>3, <2>4, <3>2, <4>3, <5>2 DEF Closed
      <4> QED
        BY <4>1, <4>2, <4>3
    <3> QED
      BY <3>1, <3>2 DEF Node
  <2> QED
    BY <1>2, <2>1, <2>4
<1>8. CASE Return
  BY <1>1, <1>8 DEF Return, compiler, graph
<1>9. CASE Compile \/ Update \/ RemoveDependencies \/ UnloadRest \/ \E d \in Decls : UnloadDecl(d)
  BY <1>9 DEF Compile, EnterMainFile, Include, EndOfFile, Create, Instantiate, SetInstantiationOf,
     Update, RemoveDependencies, UnloadRest, UnloadDecl
<1> QED
  BY <1>3, <1>4, <1>5, <1>6, <1>7, <1>8, <1>9 DEF Next, Collect

(* The users that the collection ends with are the least set of nodes that *)
(* can be unloaded with the files that are to go: none is forgotten that   *)
(* refers to another one, and none goes that could have stayed, in         *)
(* whatever order the dependents are looked at and rewritten.              *)
THEOREM UnloadsLeast == Spec => []OnlyWhatMust
<1>1. Init => Ordered /\ Least
  BY DEF Init, Ordered, Least
<1>2. IInv /\ Ordered /\ Least /\ [Next]_vars => Ordered' /\ Least'
  BY OrderedStep, LeastStep, GraphAssumption, TypesAssumption DEF IInv
<1>3. ASSUME IInv, Least PROVE OnlyWhatMust
  <2> SUFFICES ASSUME phase = "collect", stack = <<>>, Roots = {}
               PROVE  Closed(seen) /\ \A S \in SUBSET seen : Closed(S) => S = seen
    BY DEF OnlyWhatMust
  <2>1. files \subseteq seen /\ (\A d \in Decls : declFile[d] \in seen => d \in seen)
    BY DEF Roots
  <2>2. main \in seen /\ Unlooked = {main} /\ seen \subseteq Node
    BY <1>3, <2>1 DEF IInv, Collecting, Unlooked, TypeOK
  <2>3. ASSUME NEW x \in live \ seen, NEW z \in Refs(x) PROVE z \notin seen
    <3>1. IF z \in seen THEN Waiting(x, z) ELSE x \in dependents[z]
      BY <1>3, <2>2 DEF IInv, EdgesKnown
    <3>2. ~ Waiting(x, z)
      BY DEF Waiting
    <3> QED
      BY <3>1, <3>2
  <2>4. \A f \in live \cap Files : Refs(f) \cap seen # {} => f \in seen
    BY <2>3
  <2>5. \A x \in live \cap Symbols : (soft[x] \cup hard[x]) \cap seen # {} => x \in seen
    BY <2>3, RefsCases, GraphAssumption
  <2>6. Closed(seen)
    BY <2>1, <2>4, <2>5 DEF Closed
  <2>7. \A S \in SUBSET seen : Closed(S) => S = seen
    BY <1>3, <2>2 DEF Least
  <2> QED
    BY <2>6, <2>7
<1> QED
  BY <1>1, <1>2, <1>3, Invariant, PTL DEF Spec
=============================================================================
