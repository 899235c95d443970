---------------------------- MODULE MCServerCache ----------------------------
(* Small projects for ServerCache. *)
EXTENDS ServerCache

Dir(o, g, m) == [op |-> o, file |-> g, macro |-> m]
Inc(g)   == Dir("include", g, "W")
Guard(g) == Dir("guarded", g, "W")
Def(m)   == Dir("define", "h1", m)
Undef(m) == Dir("undef", "h1", m)
Use(m)   == Dir("use", "h1", m)

\* Two main files share h1, which includes h2; one of them has included h2 first.
PlainProject ==
  [f \in Files |->
     CASE f = "h1" -> <<Inc("h2")>>
       [] f = "m1" -> <<Inc("h1")>>
       [] f = "m2" -> <<Inc("h2"), Inc("h1")>>
       [] OTHER -> <<>>]

\* h2 tests W, which m2 defines before it gets h2; h1 includes h2 between #ifndef
\* and #endif.  The source file c1 and the mutable header h3 test U, which nobody
\* watches and m3 defines.
MacroProject ==
  [f \in Files |->
     CASE f = "h1" -> <<Guard("h2")>>
       [] f = "h2" -> <<Use("W")>>
       [] f = "h3" -> <<Use("U")>>
       [] f = "c1" -> <<Use("U")>>
       [] f = "m1" -> <<Inc("h2"), Inc("h1"), Inc("h3"), Inc("c1")>>
       [] f = "m2" -> <<Def("W"), Def("U"), Undef("U"), Inc("h1")>>
       [] f = "m3" -> <<Def("U"), Inc("h3"), Inc("c1")>>]

\* m2 forgets the macro again before it includes anything.
UndefProject ==
  [f \in Files |->
     CASE f = "h1" -> <<Use("W")>>
       [] f = "m1" -> <<Def("W"), Inc("h1")>>
       [] f = "m2" -> <<Def("W"), Undef("W"), Inc("h1")>>]

\* h1 includes h2 between #ifndef and #endif; both main files have it before.
GuardProject ==
  [f \in Files |->
     CASE f = "h1" -> <<Guard("h2")>>
       [] f = "m1" -> <<Inc("h2"), Inc("h1")>>
       [] f = "m2" -> <<Inc("h2"), Inc("h1")>>
       [] OTHER -> <<>>]

NoneBroken   == {}
SecondBroken == {<<"h1", 2>>}
==============================================================================
