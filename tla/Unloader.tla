------------------------------ MODULE Unloader ------------------------------
(***************************************************************************)
(* The unloading of declarations and macros at the level of the pointers   *)
(* it patches (src/tools/zapccs/Unloader.cpp, UnloaderIR.cpp): the         *)
(* redeclaration chain of each entity and the declaration that name lookup *)
(* finds for it, the list of declarations of the translation unit, and the *)
(* history of a macro.  The unloader takes the dead ones out of these      *)
(* lists in no particular order.                                           *)
(*                                                                         *)
(* DeclGraph decides what is unloaded; each of its actions is done here    *)
(* together with its effect on the pointers.                               *)
(***************************************************************************)
EXTENDS DeclGraph, SequencesExt

CONSTANTS
  MacroLines      \* [Files -> Seq({"define", "undef"})]: a file's directives of a macro

ASSUME MacroAssumption == MacroLines \in [Files -> Seq({"define", "undef"})]

Directives == {<<f, n>> : f \in Files, n \in 1 .. 2}
Kind(md) == MacroLines[md[1]][md[2]]

VARIABLES
  first,       \* Redeclarable::First
  link,        \* Redeclarable::RedeclLink: <<"latest", d>> or <<"previous", d>>
  lookup,      \* the declaration the StoredDeclsList of an entity's name holds
  firstDecl, lastDecl, nextInContext,  \* DeclContext of the translation unit
  latest,      \* MacroState: the last directive
  previous,    \* MacroDirective::Previous
  hasMacro,    \* IdentifierInfo::hasMacroDefinition
  generated,   \* Preprocessor::GeneratedMacros
  history      \* the directives in memory, the oldest first

redecls == <<first, link, lookup>>
context == <<firstDecl, lastDecl, nextInContext>>
macros == <<latest, previous, hasMacro, generated, history>>
lists == <<redecls, context, macros>>
uvars == <<vars, lists>>

UInit ==
  /\ Init
  /\ first = [d \in Decls |-> d]
  /\ link = [d \in Decls |-> <<"latest", d>>]
  /\ lookup = [e \in Entities |-> None]
  /\ firstDecl = None /\ lastDecl = None
  /\ nextInContext = [d \in Decls |-> None]
  /\ latest = None /\ previous = [md \in Directives |-> None]
  /\ hasMacro = FALSE
  /\ generated = [f \in Files |-> <<>>] /\ history = <<>>

-----------------------------------------------------------------------------
(* Redeclaration chains: the first declaration links to the latest, every  *)
(* other one to the one before it.                                         *)
PreviousDecl(ln, d) == IF ln[d][1] = "previous" THEN ln[d][2] ELSE None
MostRecent(fi, ln, d) == ln[fi[d]][2]

(* A declaration joins the chain of the one that lookup finds, and         *)
(* replaces it there.                                                      *)
SetPreviousDecl(d) ==
  LET prev == lookup[Entity[d]]
  IN IF prev = None
       THEN /\ first' = [first EXCEPT ![d] = d]
            /\ link' = [link EXCEPT ![d] = <<"latest", d>>]
       ELSE /\ first' = [first EXCEPT ![d] = first[prev]]
            /\ link' = [link EXCEPT ![d] = <<"previous", MostRecent(first, link, prev)>>,
                                    ![first[prev]] = <<"latest", d>>]

(* The declarations from the one that d's chain ends with to its first.    *)
RECURSIVE Backwards(_, _)
Backwards(ln, d) == IF d = None THEN <<>>
                                ELSE <<d>> \o Backwards(ln, PreviousDecl(ln, d))

Chain(fi, ln, d) == Backwards(ln, MostRecent(fi, ln, d))

\* Mutant: the others of the chain keep the unloaded declaration as the first.
UnchainedFirst(r) ==
  LET f == first[r]
      last == MostRecent(first, link, r)
      after == CHOOSE d \in ToSet(Chain(first, link, r)) : PreviousDecl(link, d) = r
  IN CASE f = last -> [fi |-> first, ln |-> link]
       [] f # last /\ r = last ->
            [fi |-> first, ln |-> [link EXCEPT ![f] = <<"latest", link[r][2]>>]]
       [] r = f /\ r # last ->
            [fi |-> [first EXCEPT ![after] = after],
             ln |-> [link EXCEPT ![after] = <<"latest", last>>]]
       [] OTHER -> [fi |-> first, ln |-> [link EXCEPT ![after] = link[r]]]

(* VisitRedeclarable: r leaves its chain.                                  *)
Unchained(r) ==
  LET f == first[r]
      last == MostRecent(first, link, r)
      after == CHOOSE d \in ToSet(Chain(first, link, r)) : PreviousDecl(link, d) = r
  IN CASE f = last ->
            [fi |-> first, ln |-> link]
       [] f # last /\ r = last ->
            [fi |-> first, ln |-> [link EXCEPT ![f] = <<"latest", link[r][2]>>]]
       [] r = f /\ r # last ->
            LET ln == [link EXCEPT ![after] = <<"latest", last>>]
            IN [fi |-> [d \in Decls |-> IF d \in ToSet(Backwards(ln, last)) THEN after
                                                                      ELSE first[d]],
                ln |-> ln]
       [] OTHER ->
            [fi |-> first, ln |-> [link EXCEPT ![after] = link[r]]]

VisitRedeclarable(r) ==
  LET kept == Unchained(r)
      alone == first[r] = MostRecent(first, link, r)
      other == CHOOSE d \in ToSet(Chain(first, link, r)) \ {r} : TRUE
  IN /\ first' = [kept.fi EXCEPT ![r] = r]
     /\ link' = [kept.ln EXCEPT ![r] = <<"latest", r>>]
     /\ lookup' = IF lookup[Entity[r]] # r THEN lookup
                  ELSE [lookup EXCEPT ![Entity[r]] =
                          IF alone THEN None ELSE MostRecent(kept.fi, kept.ln, other)]

-----------------------------------------------------------------------------
(* The list of declarations of a context.                                  *)
AddHiddenDecl(d) ==
  /\ lastDecl' = d
  /\ IF firstDecl # None
       THEN nextInContext' = [nextInContext EXCEPT ![lastDecl] = d] /\ UNCHANGED firstDecl
       ELSE firstDecl' = d /\ UNCHANGED nextInContext

RECURSIVE Listed(_, _)
Listed(next, d) == IF d = None THEN <<>> ELSE <<d>> \o Listed(next, next[d])

\* Mutant: an unloaded declaration counts as the previous one of the next.
PassPrevious(dead, s, d) ==
  CASE d \notin dead -> [s EXCEPT !.prev = d]
    [] d \in dead /\ d = s.first ->
         [s EXCEPT !.first = nextInContext[d], !.next[d] = None, !.prev = d]
    [] d \in dead /\ d # s.first ->
         [s EXCEPT !.next[s.prev] = nextInContext[d], !.next[d] = None, !.prev = d]

(* unloadDeclContexts: one pass over the list, which unlinks the marked.   *)
Pass(dead, s, d) ==
  CASE d \notin dead -> [s EXCEPT !.prev = d]
    [] d \in dead /\ d = s.first ->
         [s EXCEPT !.first = nextInContext[d], !.next[d] = None]
    [] d \in dead /\ d # s.first ->
         [s EXCEPT !.next[s.prev] = nextInContext[d], !.next[d] = None]

UnloadDeclContexts ==
  LET swept == FoldLeft(LAMBDA s, d : Pass(seen, s, d),
                        [first |-> firstDecl, prev |-> None, next |-> nextInContext],
                        Listed(nextInContext, firstDecl))
  IN /\ firstDecl' = swept.first /\ lastDecl' = swept.prev
     /\ nextInContext' = swept.next

-----------------------------------------------------------------------------
(* Macro histories.                                                        *)
MacroState == [latest |-> latest, previous |-> previous, hasMacro |-> hasMacro]

AppendMacroDirective(s, md) ==
  [latest |-> md, previous |-> [s.previous EXCEPT ![md] = s.latest],
   hasMacro |-> Kind(md) = "define"]

\* Mutant: the identifier remains a macro when its definition was the latest.
RemoveMacroDefined(s, md) ==
  IF md = s.latest
    THEN [s EXCEPT !.latest = s.previous[md]]
    ELSE LET next == CHOOSE n \in ToSet(Listed(s.previous, s.latest)) : s.previous[n] = md
         IN [s EXCEPT !.previous[next] = s.previous[md]]

RemoveMacro(s, md) ==
  IF md = s.latest
    THEN [s EXCEPT !.latest = s.previous[md],
                   !.hasMacro = s.previous[md] # None /\ Kind(s.previous[md]) = "define"]
    ELSE LET next == CHOOSE n \in ToSet(Listed(s.previous, s.latest)) : s.previous[n] = md
         IN [s EXCEPT !.previous[next] = s.previous[md]]

SetMacros(s) == latest' = s.latest /\ previous' = s.previous /\ hasMacro' = s.hasMacro

DirectivesOf(f) == [n \in DOMAIN MacroLines[f] |-> <<f, n>>]

(* A file that is entered executes its directives.                         *)
DefineMacros(f) ==
  /\ SetMacros(FoldLeft(AppendMacroDirective, MacroState, DirectivesOf(f)))
  /\ generated' = [generated EXCEPT ![f] = DirectivesOf(f)]
  /\ history' = history \o DirectivesOf(f)

(* eraseMacros, for one file: the last directive first.                    *)
EraseMacros(f) ==
  /\ phase = "unload" /\ seen \cap live \cap Decls = {}
  /\ f \in seen /\ generated[f] # <<>>
  /\ SetMacros(FoldLeft(RemoveMacro, MacroState, Reverse(generated[f])))
  /\ generated' = [generated EXCEPT ![f] = <<>>]
  /\ history' = SelectSeq(history, LAMBDA md : md[1] # f)
  /\ UNCHANGED <<vars, redecls, context>>

-----------------------------------------------------------------------------
UEnterMainFile(m) == EnterMainFile(m) /\ DefineMacros(m) /\ UNCHANGED <<redecls, context>>

UInclude(g) ==
  /\ Include(g)
  /\ IF g \in live THEN UNCHANGED macros ELSE DefineMacros(g)
  /\ UNCHANGED <<redecls, context>>

UCreate(x) ==
  /\ Create(x)
  /\ IF x \in Decls
       THEN /\ SetPreviousDecl(x) /\ AddHiddenDecl(x)
            /\ lookup' = [lookup EXCEPT ![Entity[x]] = x]
       ELSE UNCHANGED <<redecls, context>>
  /\ UNCHANGED macros

UUnloadDecl(d) == UnloadDecl(d) /\ VisitRedeclarable(d) /\ UNCHANGED <<context, macros>>

UUnloadRest ==
  /\ \A f \in seen \cap Files : generated[f] = <<>>
  /\ UnloadRest /\ UnloadDeclContexts
  /\ UNCHANGED <<redecls, macros>>

UCompile ==
  \/ \E m \in MainFiles : UEnterMainFile(m)
  \/ \E g \in Files : UInclude(g)
  \/ \E x \in Symbols : UCreate(x)
  \/ /\ UNCHANGED lists
     /\ EndOfFile \/ (\E d \in Decls : Instantiate(d)) \/ \E d \in Implicit : SetInstantiationOf(d)

UNext ==
  \/ UCompile
  \/ Collect /\ UNCHANGED lists
  \/ \E d \in Decls : UUnloadDecl(d)
  \/ \E f \in Files : EraseMacros(f)
  \/ UUnloadRest

USpec == UInit /\ [][UNext]_uvars
-----------------------------------------------------------------------------
(* However the unloading is ordered, each chain holds the live             *)
(* declarations of its entity in their order, with one first, and name     *)
(* lookup finds the latest of them, or nothing when there is none.         *)
ChainsInOrder ==
  /\ \A d \in live \cap Decls :
       /\ Reverse(Chain(first, link, d)) = SelectSeq(order, LAMBDA o : Entity[o] = Entity[d])
       /\ first[d] = Last(Chain(first, link, d))
  /\ \A e \in Entities :
       LET redecls_e == SelectSeq(order, LAMBDA o : Entity[o] = e)
       IN lookup[e] = IF redecls_e = <<>> THEN None ELSE Last(redecls_e)

(* The list of declarations of the translation unit, which the next        *)
(* compilation appends to and code generation walks, holds the live ones.  *)
ContextInOrder ==
  phase \in {"idle", "compile"} =>
    /\ Listed(nextInContext, firstDecl) = order
    /\ lastDecl = IF order = <<>> THEN None ELSE Last(order)

(* The history of a macro is that of the directives in memory, though they *)
(* are removed by file; the identifier is a macro when the last defines it.*)
MacrosInOrder ==
  /\ Reverse(Listed(previous, latest)) = history
  /\ hasMacro = (history # <<>> /\ Kind(Last(history)) = "define")
=============================================================================
