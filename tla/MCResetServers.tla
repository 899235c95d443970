--------------------------- MODULE MCResetServers ---------------------------
(* A command that succeeds with a warning, one whose file the server does  *)
(* not want and that fails, and one that prints an object file.  A server  *)
(* may leave after any command here, as it does after one that fails.      *)
EXTENDS ResetServers

MCClients == {"warned", "unwanted", "object"}
MCOutput == [c \in MCClients |->
               CASE c = "warned"   -> [out |-> <<65>>, err |-> <<66>>]
                 [] c = "unwanted" -> [out |-> <<>>, err |-> <<66>>]
                 [] c = "object"   -> [out |-> <<65, 0>>, err |-> <<>>]]
MCOutcome == [c \in MCClients |-> IF c = "unwanted" THEN 1 ELSE 0]
=============================================================================
