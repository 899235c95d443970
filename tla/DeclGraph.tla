------------------------------ MODULE DeclGraph ------------------------------
(***************************************************************************)
(* The dependency map of a zapccs server (src/tools/zapccs/                *)
(* DependencyMap.cpp) and the declarations it decides about.  What Clang   *)
(* made of the headers stays in memory between compilations.  Before the   *)
(* next one the server unloads the declarations, the types and the files   *)
(* that depend on a file that changed: it follows the edges of the graph   *)
(* backwards from these files, except where a user of an unloaded          *)
(* declaration can be made to refer to another declaration of the same     *)
(* thing.                                                                  *)
(*                                                                         *)
(* Nodes are declarations, types and files.  Types stand for nested name   *)
(* specifiers too, which have no file and no redeclaration either.  A node *)
(* refers softly to what UserReplacer can rewrite in it (the declaration   *)
(* of a DeclRefExpr, a MemberExpr, a tag type ...) and hardly to all else. *)
(***************************************************************************)
EXTENDS Naturals, Sequences

CONSTANTS
  Decls,          \* declarations a compilation may make
  Types,          \* types, and nested name specifiers
  Files,          \* source files
  MainFiles,      \* files given on a command line
  Implicit,       \* declarations that the compiler makes when they are used
  FileOf,         \* [Decls -> Files]: where a declaration starts
  Text,           \* [Files -> Seq(Decls \cup Files)]: what a file declares and includes
  Entity,         \* what a declaration declares, or the type itself
  SoftUses,       \* the entities a node refers to softly
  HardUses,       \* the entities a node refers to hardly
  LateUses,       \* those that a later instantiation of its body refers to softly
  Partials,       \* [Implicit -> entities]: a better template to instantiate
  None            \* no declaration, no file

Symbols == Decls \cup Types
Node == Symbols \cup Files

Entities == {Entity[x] : x \in Symbols}

(* Nothing is two things, no file includes a main file, and no node refers  *)
(* to one entity both softly and hardly: UserReplacer calls a user          *)
(* rewritten when one of its references was.                                *)
ASSUME GraphAssumption ==
  /\ Decls \cap Types = {} /\ Symbols \cap Files = {} /\ None \notin Node
  /\ MainFiles \subseteq Files /\ Implicit \subseteq Decls
  /\ FileOf \in [Decls -> Files]
  /\ Text \in [Files -> Seq((Decls \ Implicit) \cup (Files \ MainFiles))]
  /\ \A f \in Files : \A n \in DOMAIN Text[f] :
       Text[f][n] \in Decls => FileOf[Text[f][n]] = f
  /\ SoftUses \in [Symbols -> SUBSET Entities]
  /\ HardUses \in [Symbols -> SUBSET Entities]
  /\ LateUses \in [Symbols -> SUBSET Entities]
  /\ Partials \in [Implicit -> SUBSET Entities]
  /\ \A x \in Symbols : (SoftUses[x] \cup LateUses[x]) \cap HardUses[x] = {}
  /\ \A x \in Implicit : (SoftUses[x] \cup LateUses[x]) \cap Partials[x] = {}

(* Nothing else declares what a type is.                                   *)
ASSUME TypesAssumption ==
  \A t \in Types : \A x \in Symbols : Entity[x] = Entity[t] => x = t

VARIABLES
  phase,       \* "idle", "compile", "update", "collect", "unload"
  main,        \* the main file of the compilation
  reading,     \* the files the preprocessor is inside, the innermost last
  live,        \* the nodes in memory
  order,       \* the live declarations, the oldest first
  soft,        \* the references of each node that UserReplacer rewrites
  hard,        \* its other references
  newFEs,      \* Preprocessor::NewFEs: <<includee, includer>> of this compilation
  fresh,       \* ASTContext::NewDecls, NewTypes
  moved,       \* ASTContext::ModifiedDecls: <<dependee, dependent>>
  includees,   \* DependencyMap::FileEntryDependees
  declFile,    \* FileDeclsMapping
  visited,     \* DependencyMap::Visited
  pending,     \* the nodes update has still to look into
  dependents,  \* DependencyMap::Dependents
  files,       \* UserData::FileEntries that no edge was followed to
  seen,        \* DependencyMap::VisitedUsers, the Decls, Types and FileEntries of UserData
  stack        \* the calls of collectUsersOf under way, the innermost last

compiler == <<main, reading, live, order, soft, hard>>
news == <<newFEs, fresh, moved>>
graph == <<includees, declFile, visited, pending, dependents>>
unloading == <<files, seen, stack>>
vars == <<phase, compiler, news, graph, unloading>>

Top(s) == s[Len(s)]
Popped(s) == SubSeq(s, 1, Len(s) - 1)

(* The lines of f read so far are a beginning of its text.                 *)
Read(f, n) == IF Text[f][n] \in Files THEN <<Text[f][n], f>> \in newFEs ELSE Text[f][n] \in live
IsNextLine(x) ==
  /\ reading # <<>>
  /\ \E n \in DOMAIN Text[Top(reading)] :
       /\ Text[Top(reading)][n] = x
       /\ ~ Read(Top(reading), n)
       /\ \A k \in 1 .. n - 1 : Read(Top(reading), k)

\* Mutant: a file does not depend on its declarations.
RefsIncludesOnly(x) == IF x \in Files THEN includees[x] ELSE soft[x] \cup hard[x]

(* What findInFileEntry finds in a file, and findInDecl or findInType in a *)
(* symbol: implicit instantiations are the only declarations a file does   *)
(* not depend on.                                                          *)
Refs(x) == IF x \in Files
             THEN includees[x] \cup {d \in Decls \ Implicit : declFile[d] = x}
             ELSE soft[x] \cup hard[x]

Init ==
  /\ phase = "idle" /\ main = None /\ reading = <<>>
  /\ live = {} /\ order = <<>>
  /\ soft = [x \in Symbols |-> {}] /\ hard = [x \in Symbols |-> {}]
  /\ newFEs = {} /\ fresh = {} /\ moved = {}
  /\ includees = [f \in Files |-> {}]
  /\ declFile = [d \in Decls |-> None]
  /\ visited = {} /\ pending = {} /\ dependents = [x \in Node |-> {}]
  /\ files = {} /\ seen = {} /\ stack = <<>>

-----------------------------------------------------------------------------
(* A compilation.  Clang's part is external: it makes declarations, types  *)
(* and references, and tells the map about the new and the changed ones.   *)

(* The main file is its own includer, and is always parsed.                *)
EnterMainFile(m) ==
  /\ phase = "idle"
  /\ phase' = "compile" /\ main' = m /\ reading' = <<m>>
  /\ live' = live \cup {m}
  /\ newFEs' = {<<m, m>>}
  /\ UNCHANGED <<order, soft, hard, fresh, moved, graph, unloading>>

(* A header is entered unless it is cached; that it was included is noted  *)
(* either way.                                                             *)
Include(g) ==
  /\ phase = "compile" /\ IsNextLine(g)
  /\ newFEs' = newFEs \cup {<<g, Top(reading)>>}
  /\ IF g \in live
       THEN UNCHANGED <<live, reading>>
       ELSE live' = live \cup {g} /\ reading' = Append(reading, g)
  /\ UNCHANGED <<phase, main, order, soft, hard, fresh, moved, graph, unloading>>

EndOfFile ==
  /\ phase = "compile" /\ reading # <<>>
  /\ \A n \in DOMAIN Text[Top(reading)] : Read(Top(reading), n)
  /\ reading' = Popped(reading)
  /\ UNCHANGED <<phase, main, live, order, soft, hard, news, graph, unloading>>

(* The ways Sema may resolve what x uses: a declaration in memory for      *)
(* each entity, x itself included.                                         *)
Resolved(x, uses) ==
  {{p[e] : e \in uses} :
     p \in {q \in [uses -> (live \cup {x}) \cap Symbols] :
              \A e \in uses : Entity[q[e]] = e}}

(* A declaration in the text of the file being read, an implicit           *)
(* instantiation, which starts where its pattern does, or a type comes     *)
(* into being.                                                             *)
Create(x) ==
  /\ phase = "compile" /\ x \notin live
  /\ x \in Decls => FileOf[x] \in live
  /\ x \in Decls \ Implicit => IsNextLine(x)
  /\ \E s \in Resolved(x, SoftUses[x]), h \in Resolved(x, HardUses[x]) :
       /\ soft' = [soft EXCEPT ![x] = s]
       /\ hard' = [hard EXCEPT ![x] = h]
  /\ live' = live \cup {x}
  /\ order' = IF x \in Decls THEN Append(order, x) ELSE order
  /\ fresh' = fresh \cup {x}
  /\ UNCHANGED <<phase, main, reading, newFEs, moved, graph, unloading>>

\* Mutant: the modified declaration is entered as the dependee.
InstantiateSwapped(d) ==
  /\ phase = "compile" /\ d \in live
  /\ \E e \in LateUses[d] : \E r \in live \cap Symbols :
       Entity[r] = e /\ soft' = [soft EXCEPT ![d] = @ \cup {r}]
  /\ moved' = moved \cup {<<d, None>>}
  /\ UNCHANGED <<phase, main, reading, live, order, hard, newFEs, fresh, graph, unloading>>

(* A declaration, cached or not, is instantiated and refers to more.       *)
Instantiate(d) ==
  /\ phase = "compile" /\ d \in live
  /\ \E e \in LateUses[d] :
       /\ \A r \in soft[d] : Entity[r] # e
       /\ \E r \in live \cap Symbols :
            /\ Entity[r] = e
            /\ soft' = [soft EXCEPT ![d] = @ \cup {r}]
  /\ moved' = moved \cup {<<None, d>>}
  /\ UNCHANGED <<phase, main, reading, live, order, hard, newFEs, fresh, graph, unloading>>

(* An implicit instantiation of template p turns out to be one of a        *)
(* partial specialization q of it.  A template does not refer to its       *)
(* instantiations.                                                         *)
SetInstantiationOf(d) ==
  /\ phase = "compile" /\ d \in live
  /\ \E p \in hard[d] \cap Decls, q \in live \cap Symbols :
       /\ Entity[p] \in HardUses[d] /\ d \notin Refs(p)
       /\ Entity[q] \in Partials[d]
       /\ hard' = [hard EXCEPT ![d] = (@ \ {p}) \cup {q}]
       /\ moved' = moved \cup {<<p, d>>}
  /\ UNCHANGED <<phase, main, reading, live, order, soft, newFEs, fresh, graph, unloading>>

-----------------------------------------------------------------------------
(* The next command: CachingCompiler::unload.                              *)

(* The files parsed and the declarations to be looked at again.            *)
Entered == {p[1] : p \in newFEs}
Renewed == fresh \cup {p[2] : p \in moved}

(* The files to unload: the main file and any others, for findModifiedFiles *)
(* or UnloadSelector may ask for each of them.                              *)
Unloadable == {F \in SUBSET (live \cap Files) : main \in F}

\* Mutant: the edges that a changed declaration had stay.
KeptAll(x) == dependents[x]

(* The edges that a changed declaration had go, the new includes and       *)
(* declarations are entered in the maps, and what is new is searched.      *)
Kept(x) == dependents[x] \ ({p[2] : p \in {q \in moved : q[1] = x}}
                            \cup {p[1] : p \in {q \in moved : q[2] = x}})

NewIncludees(f) == {p[1] : p \in {q \in newFEs : q[2] = f}} \ {f}

Update ==
  /\ phase = "compile" /\ reading = <<>>
  /\ includees' = [f \in Files |-> includees[f] \cup NewIncludees(f)]
  /\ declFile' = [d \in Decls |-> IF d \in Renewed THEN FileOf[d] ELSE declFile[d]]
  /\ dependents' = [x \in Node |-> Kept(x)]
  /\ visited' = visited \ (Entered \cup Renewed)
  /\ pending' = (Entered \ {main}) \cup Renewed
  /\ files' \in Unloadable
  /\ phase' = "update"
  /\ newFEs' = {} /\ fresh' = {} /\ moved' = {}
  /\ UNCHANGED <<compiler, seen, stack>>

(* findInFileEntry, findInDecl and findInType of the pending nodes: what   *)
(* each refers to gets it as a dependent, and is pending unless visited.   *)
FindDependees ==
  LET found == pending \ visited
  IN /\ phase = "update"
     /\ visited' = visited \cup found
     /\ dependents' = [x \in Node |-> dependents[x] \cup {y \in found : x \in Refs(y)}]
     /\ pending' = (UNION {Refs(y) : y \in found}) \ visited'
     /\ phase' = IF pending' = {} THEN "collect" ELSE "update"
     /\ UNCHANGED <<compiler, news, includees, declFile, unloading>>

(* findReplacement: the oldest other declaration of the same thing that    *)
(* stays.                                                                  *)
Before(r, q) == \E i, j \in DOMAIN order : i < j /\ order[i] = r /\ order[j] = q

Candidates(x) == {r \in (live \cap Decls) \ (seen \cup {x}) : Entity[r] = Entity[x]}

IsReplacement(x, r) ==
  /\ x \in Decls
  /\ r \in Candidates(x)
  /\ \A q \in Candidates(x) \ {r} : Before(r, q)

(* collectUsersOf(x): x is to be unloaded, and its dependents are looked   *)
(* at; at most once.                                                       *)
CollectUsersOf(x, calls, deps) ==
  IF x \in seen
    THEN stack' = calls /\ dependents' = deps /\ UNCHANGED seen
    ELSE /\ stack' = Append(calls, [of |-> x, todo |-> deps[x]])
         /\ dependents' = [deps EXCEPT ![x] = {}]
         /\ seen' = seen \cup {x}

(* The files, then the declarations that start in a file to be unloaded,   *)
(* those that the loop reaches by itself.                                  *)
Roots == (files \cup {d \in Decls : declFile[d] \in seen}) \ seen

CollectRoot(x) ==
  /\ phase = "collect" /\ stack = <<>> /\ x \in Roots
  /\ CollectUsersOf(x, <<>>, dependents)
  /\ UNCHANGED <<phase, compiler, news, includees, declFile, visited, pending, files>>

(* The call under way has one dependent less to look at.                   *)
Frame == Top(stack)
Taken(y) == [stack EXCEPT ![Len(stack)].todo = @ \ {y}]

\* Mutant: a rewritten dependent is not entered as one of the replacement.
RewriteOnly(y) ==
  /\ phase = "collect" /\ stack # <<>> /\ y \in Frame.todo \cap Symbols
  /\ \E r \in Decls :
       /\ IsReplacement(Frame.of, r)
       /\ soft[y] \cap {Frame.of, r} # {}
       /\ soft' = [soft EXCEPT ![y] = (@ \ {Frame.of}) \cup {r}]
  /\ stack' = Taken(y)
  /\ UNCHANGED <<phase, main, reading, live, order, hard, news, graph, files, seen>>

(* A dependent is rewritten to refer to the replacement, and depends on it *)
(* from now on.                                                            *)
Rewrite(y) ==
  /\ phase = "collect" /\ stack # <<>> /\ y \in Frame.todo \cap Symbols
  /\ \E r \in Decls :
       /\ IsReplacement(Frame.of, r)
       /\ soft[y] \cap {Frame.of, r} # {}
       /\ soft' = [soft EXCEPT ![y] = (@ \ {Frame.of}) \cup {r}]
       /\ dependents' = [dependents EXCEPT ![r] = @ \cup {y}]
  /\ stack' = Taken(y)
  /\ UNCHANGED <<phase, main, reading, live, order, hard, news, includees, declFile,
                 visited, pending, files, seen>>

(* Any other dependent is unloaded too.                                    *)
Follow(y) ==
  /\ phase = "collect" /\ stack # <<>> /\ y \in Frame.todo
  /\ y \in Symbols => \A r \in Decls : IsReplacement(Frame.of, r) =>
                                         soft[y] \cap {Frame.of, r} = {}
  /\ CollectUsersOf(y, Taken(y), dependents)
  /\ UNCHANGED <<phase, compiler, news, includees, declFile, visited, pending, files>>

Return ==
  /\ phase = "collect" /\ stack # <<>> /\ Frame.todo = {}
  /\ stack' = Popped(stack)
  /\ UNCHANGED <<phase, compiler, news, graph, files, seen>>

\* Mutant: the edges to the users that go stay where the dependee stays.
ForgetUsers ==
  /\ phase = "collect" /\ stack = <<>> /\ Roots = {}
  /\ visited' = visited \ seen
  /\ includees' = [f \in Files |-> IF f \in seen THEN {} ELSE includees[f]]
  /\ phase' = "unload"
  /\ UNCHANGED <<compiler, news, declFile, pending, dependents, unloading>>

(* All users are known: they and their edges leave the graph.              *)
RemoveDependencies ==
  /\ phase = "collect" /\ stack = <<>> /\ Roots = {}
  /\ dependents' = [x \in Node |-> dependents[x] \ {y \in seen : x \in Refs(y)}]
  /\ visited' = visited \ seen
  /\ includees' = [f \in Files |-> IF f \in seen THEN {} ELSE includees[f]]
  /\ phase' = "unload"
  /\ UNCHANGED <<compiler, news, declFile, pending, unloading>>

\* Mutant: the declaration stays in FileDeclsMapping.
UnloadDeclMapped(d) ==
  /\ phase = "unload" /\ d \in seen \cap live
  /\ live' = live \ {d}
  /\ order' = SelectSeq(order, LAMBDA o : o # d)
  /\ UNCHANGED <<phase, main, reading, soft, hard, news, graph, unloading>>

(* Unloader: the declarations one after the other, in no particular order, *)
UnloadDecl(d) ==
  /\ phase = "unload" /\ d \in seen \cap live
  /\ live' = live \ {d}
  /\ \E n \in DOMAIN order :
       /\ order[n] = d
       /\ order' = SubSeq(order, 1, n - 1) \o SubSeq(order, n + 1, Len(order))
  /\ declFile' = [declFile EXCEPT ![d] = None]
  /\ UNCHANGED <<phase, main, reading, soft, hard, news, includees, visited, pending,
                 dependents, unloading>>

(* then the types and the files at once.                                   *)
UnloadRest ==
  /\ phase = "unload" /\ seen \cap live \cap Decls = {}
  /\ live' = live \ seen
  /\ soft' = [x \in Symbols |-> IF x \in seen THEN {} ELSE soft[x]]
  /\ hard' = [x \in Symbols |-> IF x \in seen THEN {} ELSE hard[x]]
  /\ declFile' = [d \in Decls |-> IF declFile[d] \in seen THEN None ELSE declFile[d]]
  /\ files' = {} /\ seen' = {}
  /\ phase' = "idle" /\ main' = None
  /\ UNCHANGED <<reading, order, news, includees, visited, pending, dependents, stack>>

-----------------------------------------------------------------------------
Compile ==
  \/ \E m \in MainFiles : EnterMainFile(m)
  \/ \E g \in Files : Include(g)
  \/ EndOfFile
  \/ \E x \in Symbols : Create(x)
  \/ \E d \in Decls : Instantiate(d)
  \/ \E d \in Implicit : SetInstantiationOf(d)

Collect ==
  \/ Update \/ FindDependees
  \/ \E x \in Node : CollectRoot(x) \/ Rewrite(x) \/ Follow(x)
  \/ Return
  \/ RemoveDependencies

Next == Compile \/ Collect \/ UnloadRest \/ \E d \in Decls : UnloadDecl(d)

Spec == Init /\ [][Next]_vars
-----------------------------------------------------------------------------
TypeOK ==
  /\ phase \in {"idle", "compile", "update", "collect", "unload"}
  /\ main \in MainFiles \cup {None} /\ reading \in Seq(Files)
  /\ live \subseteq Node /\ order \in Seq(Decls)
  /\ soft \in [Symbols -> SUBSET Symbols] /\ hard \in [Symbols -> SUBSET Symbols]
  /\ newFEs \subseteq Files \X Files /\ fresh \subseteq Symbols
  /\ moved \subseteq (Decls \cup {None}) \X Decls
  /\ includees \in [Files -> SUBSET Files]
  /\ declFile \in [Decls -> Files \cup {None}]
  /\ visited \subseteq Node /\ pending \subseteq Node
  /\ dependents \in [Node -> SUBSET Node]
  /\ files \subseteq Files /\ seen \subseteq Node
  /\ stack \in Seq([of : Node, todo : SUBSET Node])

(* When a compilation starts or runs, whatever is in memory refers to what *)
(* is in memory only: collectUsersOf left out no user of what the unloader *)
(* removed, and the next compilation follows no dangling pointer.          *)
NoDanglingReference ==
  phase \in {"idle", "compile"} => \A x \in live : Refs(x) \subseteq live

(* A header in the cache is not parsed again, so it must be whole: all     *)
(* that its text declares and includes is in memory too.  findInFileEntry  *)
(* makes a file depend on its declarations for that.                       *)
CachedFilesWhole ==
  phase = "idle" => \A f \in live \cap Files : \A n \in DOMAIN Text[f] : Text[f][n] \in live

(* A set of nodes that cannot be unloaded without more: a file goes with   *)
(* what starts in it, a node with what it refers to hardly, a file with    *)
(* any of its declarations and includes, and a node with an entity it      *)
(* refers to softly when no declaration of it is left.                     *)
Closed(S) ==
  /\ files \subseteq S
  /\ \A d \in Decls : declFile[d] \in S => d \in S
  /\ \A f \in live \cap Files : Refs(f) \cap S # {} => f \in S
  /\ \A x \in live \cap Symbols :
       \/ hard[x] \cap S # {}
       \/ \E r \in soft[x] \cap S : \A q \in live \cap Symbols : Entity[q] = Entity[r] => q \in S
       => x \in S

(* Once the users are collected, in whatever order the hash tables gave    *)
(* them, they are the least set that can be unloaded: what a changed file  *)
(* does not concern stays in the cache, though users move from one         *)
(* declaration to another while the collection goes on.                    *)
OnlyWhatMust ==
  phase = "collect" /\ stack = <<>> /\ Roots = {} =>
    /\ Closed(seen)
    /\ \A S \in SUBSET seen : Closed(S) => S = seen

(* Between the commands the graph mentions nothing that was unloaded, the  *)
(* assertion that ends collectUsers in a comment: a new declaration at the *)
(* address of an old one would inherit its edges.                          *)
NoStaleDependents ==
  phase = "idle" => \A x \in Node : /\ dependents[x] \subseteq live
                                    /\ dependents[x] # {} => x \in live

(* The map from declarations to files holds live declarations only, all of *)
(* them once they were looked at: CachingCompiler::compile asserts that    *)
(* each has a context.                                                     *)
MappingLive ==
  /\ phase \in {"idle", "compile"} =>
       \A d \in Decls : declFile[d] # None => d \in live
  /\ phase = "idle" =>
       \A d \in Decls : d \in live => declFile[d] = FileOf[d] /\ FileOf[d] \in live
=============================================================================
