----------------------------- MODULE MCUnloader -----------------------------
(* Two headers that both declare a function f, and a main file that        *)
(* declares it once more.  a.h has a template T, of which i is an implicit *)
(* instantiation that may call f.  c.h includes b.h and has a partial      *)
(* specialization Q of T.  b.h has a user g of a type t that refers to f.  *)
EXTENDS Unloader

MCFiles == {"m.cc", "a.h", "b.h", "c.h"}
MCText == [f \in MCFiles |->
             CASE f = "m.cc" -> <<"a.h", "c.h", "f3">>
               [] f = "a.h"  -> <<"T", "f1">>
               [] f = "b.h"  -> <<"f2", "g">>
               [] f = "c.h"  -> <<"b.h", "Q">>]
MCMacroLines == [f \in MCFiles |->
                   CASE f = "m.cc" -> <<"undef">>
                     [] f = "a.h"  -> <<"define">>
                     [] f = "b.h"  -> <<"undef", "define">>
                     [] f = "c.h"  -> <<>>]

MCDecls == {"f1", "f2", "f3", "T", "Q", "g", "i"}
MCSymbols == MCDecls \cup {"t"}
MCFileOf == [d \in MCDecls |-> IF d \in {"T", "f1", "i"} THEN "a.h"
                               ELSE IF d \in {"f2", "g"} THEN "b.h"
                               ELSE IF d = "Q" THEN "c.h" ELSE "m.cc"]
MCEntity == [x \in MCSymbols |-> IF x \in {"f1", "f2", "f3"} THEN "f" ELSE x]
MCSoftUses == [x \in MCSymbols |-> IF x \in {"f2", "t"} THEN {"f"} ELSE {}]
MCHardUses == [x \in MCSymbols |-> IF x = "g" THEN {"t"}
                                   ELSE IF x \in {"Q", "i"} THEN {"T"} ELSE {}]
MCLateUses == [x \in MCSymbols |-> IF x = "i" THEN {"f"} ELSE {}]
MCPartials == [x \in {"i"} |-> {"Q"}]
=============================================================================
