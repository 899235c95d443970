----------------------------- MODULE CompileFarm -----------------------------
(***************************************************************************)
(* What zapcc promises its user, with no server, port or connection in     *)
(* sight: a farm of compile slots.  A run asks for a slot, uses it alone,  *)
(* and ends with the truth about its own command, or with the failure      *)
(* status 1, or is killed.  A command the farm declines is compiled by the *)
(* run itself, after it has given its slot back.                           *)
(***************************************************************************)
EXTENDS Integers

CONSTANTS
  Runs,        \* compiler processes, each running one command after another
  Slots,       \* the farm
  Commands,    \* what a run may be asked to compile
  Verdict,     \* Verdict[r]: 0 when command r compiles, 1 when it does not
  Declined,    \* commands the farm declines once it has seen them
  KeptLocal,   \* commands that are never sent to the farm
  Nobody, Killed

VARIABLES
  phase,   \* of each run: idle, asking, using a slot, or compiling by itself
  command, \* of each run
  status,  \* of each run: how it ended; Killed while it runs
  user     \* of each slot: the run using it

farmVars == <<phase, command, status, user>>

FarmInit ==
  /\ phase \in [Runs -> {"idle"}]
  /\ command \in [Runs -> {r \in Commands : Verdict[r] = 0}]
  /\ status = [c \in Runs |-> 0]
  /\ user = [k \in Slots |-> Nobody]

Start(c) ==
  /\ phase[c] = "idle"
  /\ \E r \in Commands :
       /\ command' = [command EXCEPT ![c] = r]
       /\ phase' = [phase EXCEPT ![c] = IF r \in KeptLocal THEN "alone" ELSE "asking"]
  /\ status' = [status EXCEPT ![c] = Killed]
  /\ UNCHANGED user

Claim(c) ==
  /\ phase[c] = "asking"
  /\ \E k \in Slots :
       /\ user[k] = Nobody
       /\ user' = [user EXCEPT ![k] = c]
  /\ phase' = [phase EXCEPT ![c] = "using"]
  /\ UNCHANGED <<command, status>>

FreeSlots(c) == user' = [k \in Slots |-> IF user[k] = c THEN Nobody ELSE user[k]]

\* The run ends with status r and gives back what it holds.
End(c, r) ==
  /\ phase' = [phase EXCEPT ![c] = "idle"]
  /\ status' = [status EXCEPT ![c] = r]
  /\ FreeSlots(c)
  /\ UNCHANGED command

\* The farm, or the run itself, has compiled the command.
Answer(c) ==
  /\ \/ phase[c] = "alone"
     \/ phase[c] = "using" /\ command[c] \notin Declined
  /\ End(c, Verdict[command[c]])

Decline(c) ==
  /\ phase[c] = "using"
  /\ command[c] \in Declined
  /\ phase' = [phase EXCEPT ![c] = "alone"]
  /\ FreeSlots(c)
  /\ UNCHANGED <<command, status>>

GiveUp(c) == phase[c] \in {"asking", "using"} /\ End(c, 1)

Abort(c) == phase[c] # "idle" /\ End(c, Killed)

FarmNext ==
  \E c \in Runs :
    Start(c) \/ Claim(c) \/ Answer(c) \/ Decline(c) \/ GiveUp(c) \/ Abort(c)

\* A run that is waiting for something gets it, or is told that it will not.
FarmFairness ==
  \A c \in Runs : WF_farmVars(Claim(c) \/ Answer(c) \/ Decline(c) \/ GiveUp(c))

FarmSpec == FarmInit /\ [][FarmNext]_farmVars
FairFarmSpec == FarmSpec /\ FarmFairness
=============================================================================
