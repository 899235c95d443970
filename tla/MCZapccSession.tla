--------------------------- MODULE MCZapccSession ---------------------------
(* Small instances of ZapccSession for TLC. *)
EXTENDS ZapccSession, TLC

\* Clients and server process ids are interchangeable.
Symmetry == Permutations(Clients) \cup Permutations(Servers)

\* A client may be interrupted anywhere but between its two connects.
OutsideConnects == {"lock", "open", "create", "reopen", "send", "wait", "local"}
BetweenConnects == {"openErr"}
AnyClientPoint  == ClientPC \ {"idle"}
AnyServerPoint  == ServerPC \ {"none", "dieIn", "dieErr"}
=============================================================================
