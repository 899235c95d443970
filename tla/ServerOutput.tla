---------------------------- MODULE ServerOutput ----------------------------
(***************************************************************************)
(* What the caller of zapcc gets from a command: its exit code, and what   *)
(* it prints.  A server writes the output of the compiler to two sockets   *)
(* and, after it, the exit code as one more byte to the first; the client  *)
(* copies what it reads, takes a byte 0, 1 or 2 at the end of a read for   *)
(* the exit code, and goes on until both sockets end.  Servers end after a *)
(* failed command or when their memory is used up, crash, and are killed.  *)
(*                                                                         *)
(* How a client finds its server is the subject of ZapccSession.           *)
(***************************************************************************)
EXTENDS Integers, Sequences

CONSTANTS
  Clients,      \* the commands given, each to a client of its own
  Pids,         \* processes that clients may start, numbered in that order
  Output,       \* [Clients -> [Streams -> Seq(Byte)]]: what the compiler prints
  Outcome,      \* [Clients -> {0, 1}]: how it ends
  Unsuited,     \* commands that zapcc does not send: the argument "-", .c files ...
  DoNotZap,     \* commands whose file the server does not want to compile
  BufferSize,   \* of a read of the client
  None

Streams == {"out", "err"}
Codes == {0, 1, 2}
NotFound == -9999   \* NotFoundExitCode

(* Objects are never printed by a server, for the output file "-" makes a  *)
(* command unsuited; the text it prints has no bytes 0, 1 and 2.           *)
ASSUME OutputAssumption ==
  /\ Pids \subseteq Nat /\ BufferSize \in Nat \ {0}
  /\ Output \in [Clients -> [Streams -> Seq(Nat)]]
  /\ Outcome \in [Clients -> {0, 1}]
  /\ DoNotZap \subseteq Clients /\ Unsuited \subseteq Clients
  /\ \A c \in Clients \ Unsuited : \A s \in Streams : \A i \in DOMAIN Output[c][s] :
       Output[c][s][i] \notin Codes
  /\ None \notin Clients

VARIABLES
  client,    \* "start", "read", "end"
  open,      \* FdOpen of readServerOutput
  found,     \* its ExitCode
  printed,   \* what the client wrote to its own streams
  code,      \* the exit code of the client, None before it ends
  proc,      \* the processes, "none" before they are started
  parent,    \* the client that started a process
  user,      \* the client a server is connected to
  todo,      \* what the compiler has still to print
  sent,      \* what is under way in the sockets of a client
  ended      \* the sockets of a client that the server's side has closed

clients == <<client, open, found, printed, code>>
servers == <<proc, parent, user>>
sockets == <<todo, sent, ended>>
vars == <<clients, servers, sockets>>

Last(s) == s[Len(s)]
Least(m, n) == IF m < n THEN m ELSE n

(* What performCompile returns: 2 asks the client to compile by itself.    *)
RetCode(c) == IF c \in DoNotZap THEN 2 ELSE Outcome[c]

(* What a server writes for a command: the text and, at the end of the     *)
(* first stream, the exit code.                                            *)
ToWrite(c) ==
  [s \in Streams |-> (IF c \in DoNotZap THEN <<>> ELSE Output[c][s])
                     \o (IF s = "out" THEN <<RetCode(c)>> ELSE <<>>)]

(* States a server process goes through; a "forked" one has yet to become  *)
(* one, a "zombie" waits for its parent to end.                            *)
Serving == {"accept", "compile", "answered"}
Exists == {"forked", "dying", "zombie"} \cup Serving

Init ==
  /\ client = [c \in Clients |-> "start"]
  /\ open = [c \in Clients |-> Streams]
  /\ found = [c \in Clients |-> NotFound]
  /\ printed = [c \in Clients |-> [s \in Streams |-> <<>>]]
  /\ code = [c \in Clients |-> None]
  /\ proc = [p \in Pids |-> "none"]
  /\ parent = [p \in Pids |-> None] /\ user = [p \in Pids |-> None]
  /\ todo = [c \in Clients |-> ToWrite(c)]
  /\ sent = [c \in Clients |-> [s \in Streams |-> <<>>]]
  /\ ended = [c \in Clients |-> {}]

-----------------------------------------------------------------------------
(* The client: cc1_selector and startServerAndSend.                        *)

(* cc1_main: the client compiles by itself.                                *)
Cc1Main(c) ==
  /\ client' = [client EXCEPT ![c] = "end"]
  /\ code' = [code EXCEPT ![c] = Outcome[c]]
  /\ printed' = [printed EXCEPT ![c] = [s \in Streams |-> @[s] \o Output[c][s]]]

(* useClang: a command that is not sent.                                   *)
UseClang(c) ==
  /\ client[c] = "start" /\ c \in Unsuited
  /\ Cc1Main(c)
  /\ UNCHANGED <<open, found, servers, sockets>>

(* The client connects to a server that waits in accept, or starts one,    *)
(* and sends the command.                                                  *)
Connect(c, p) ==
  /\ client[c] = "start" /\ c \notin Unsuited
  /\ proc[p] = "accept"
  /\ proc' = [proc EXCEPT ![p] = "compile"]
  /\ user' = [user EXCEPT ![p] = c]
  /\ client' = [client EXCEPT ![c] = "read"]
  /\ UNCHANGED <<open, found, printed, code, parent, sockets>>

StartServer(c, p) ==
  /\ client[c] = "start" /\ c \notin Unsuited
  /\ proc[p] = "none" /\ \A q \in Pids : q < p => proc[q] # "none"
  /\ proc' = [proc EXCEPT ![p] = "forked"]
  /\ parent' = [parent EXCEPT ![p] = c] /\ user' = [user EXCEPT ![p] = c]
  /\ client' = [client EXCEPT ![c] = "read"]
  /\ UNCHANGED <<open, found, printed, code, sockets>>

\* Mutants: any last byte is an exit code; a read without one forgets the last.
FindAnyCode(chunk, old) == Last(chunk)
FindLatestCode(chunk, old) == IF Last(chunk) \in Codes THEN Last(chunk) ELSE NotFound

(* One read of readServerOutput, and findExitCode on what it returned.     *)
FindExitCode(chunk, old) == IF Last(chunk) \in Codes THEN Last(chunk) ELSE old
Stripped(chunk) == IF Last(chunk) \in Codes THEN SubSeq(chunk, 1, Len(chunk) - 1) ELSE chunk

Read(c, s) ==
  LET n == Least(BufferSize, Len(sent[c][s]))
      chunk == SubSeq(sent[c][s], 1, n)
  IN /\ client[c] = "read" /\ s \in open[c] /\ sent[c][s] # <<>>
     /\ sent' = [sent EXCEPT ![c][s] = SubSeq(@, n + 1, Len(@))]
     /\ found' = [found EXCEPT ![c] = FindExitCode(chunk, @)]
     /\ printed' = [printed EXCEPT ![c][s] = @ \o Stripped(chunk)]
     /\ UNCHANGED <<client, open, code, servers, todo, ended>>

ReadEnd(c, s) ==
  /\ client[c] = "read" /\ s \in open[c] /\ sent[c][s] = <<>> /\ s \in ended[c]
  /\ open' = [open EXCEPT ![c] = @ \ {s}]
  /\ UNCHANGED <<client, found, printed, code, servers, sockets>>

\* Mutant: the client goes once it has the exit code.
FinishOnExitCode(c) ==
  /\ client[c] = "read" /\ (found[c] # NotFound \/ open[c] = {})
  /\ \/ found[c] = 2 /\ Cc1Main(c)
     \/ /\ found[c] # 2
        /\ client' = [client EXCEPT ![c] = "end"]
        /\ code' = [code EXCEPT ![c] = IF found[c] = NotFound THEN 1 ELSE found[c]]
        /\ UNCHANGED printed
  /\ UNCHANGED <<open, found, servers, sockets>>

(* Both have ended.  Without an exit code the server is assumed to have    *)
(* crashed, which is an error.                                             *)
Finish(c) ==
  /\ client[c] = "read" /\ open[c] = {}
  /\ \/ found[c] = 2 /\ Cc1Main(c)
     \/ /\ found[c] # 2
        /\ client' = [client EXCEPT ![c] = "end"]
        /\ code' = [code EXCEPT ![c] = IF found[c] = NotFound THEN 1 ELSE found[c]]
        /\ UNCHANGED printed
  /\ UNCHANGED <<open, found, servers, sockets>>

-----------------------------------------------------------------------------
(* The server: runServerMode.                                              *)

Exec(p) ==
  /\ proc[p] = "forked"
  /\ proc' = [proc EXCEPT ![p] = "compile"]
  /\ UNCHANGED <<clients, parent, user, sockets>>

(* The compiler prints a byte; then, when all is printed, the exit code    *)
(* follows.                                                                *)
Write(c, s) ==
  /\ sent' = [sent EXCEPT ![c][s] = Append(@, Head(todo[c][s]))]
  /\ todo' = [todo EXCEPT ![c][s] = Tail(@)]

PrintByte(p, s) ==
  /\ proc[p] = "compile"
  /\ Len(todo[user[p]][s]) > IF s = "out" THEN 1 ELSE 0
  /\ Write(user[p], s)
  /\ UNCHANGED <<clients, servers, ended>>

WriteExitCode(p) ==
  /\ proc[p] = "compile"
  /\ todo[user[p]]["err"] = <<>> /\ Len(todo[user[p]]["out"]) = 1
  /\ Write(user[p], "out")
  /\ proc' = [proc EXCEPT ![p] = "answered"]
  /\ UNCHANGED <<clients, parent, user, ended>>

\* Mutant: the server keeps its end of the second socket.
DisconnectOut(p) ==
  /\ proc[p] = "answered" /\ RetCode(user[p]) # 1
  /\ ended' = [ended EXCEPT ![user[p]] = @ \cup {"out"}]
  /\ proc' = [proc EXCEPT ![p] = "accept"]
  /\ user' = [user EXCEPT ![p] = None]
  /\ UNCHANGED <<clients, parent, todo, sent>>

(* The next command, unless this one failed or the memory is used up.      *)
Disconnect(p) ==
  /\ proc[p] = "answered"
  /\ RetCode(user[p]) # 1
  /\ ended' = [ended EXCEPT ![user[p]] = Streams]
  /\ proc' = [proc EXCEPT ![p] = "accept"]
  /\ user' = [user EXCEPT ![p] = None]
  /\ UNCHANGED <<clients, parent, todo, sent>>

(* The server leaves its loop after the command, or while it compiles: it  *)
(* crashes, or cannot change to the directory it was started from.         *)
Leave(p) ==
  /\ proc[p] \in {"compile", "answered"}
  /\ proc' = [proc EXCEPT ![p] = "dying"]
  /\ UNCHANGED <<clients, parent, user, sockets>>

(* The system closes the sockets of a process that dies, and forgets it    *)
(* when its parent, or init after it, asks how it ended.                   *)
Die(p) ==
  /\ proc[p] = "dying"
  /\ proc' = [proc EXCEPT ![p] = "zombie"]
  /\ ended' = IF user[p] = None THEN ended ELSE [ended EXCEPT ![user[p]] = Streams]
  /\ user' = [user EXCEPT ![p] = None]
  /\ UNCHANGED <<clients, parent, todo, sent>>

Reap(p) ==
  /\ proc[p] = "zombie" /\ client[parent[p]] = "end"
  /\ proc' = [proc EXCEPT ![p] = "gone"]
  /\ UNCHANGED <<clients, parent, user, sockets>>

-----------------------------------------------------------------------------
ClientStep(c) ==
  \/ UseClang(c) \/ Finish(c)
  \/ \E s \in Streams : Read(c, s) \/ ReadEnd(c, s)

ServerStep(p) ==
  \/ Exec(p) \/ WriteExitCode(p) \/ Disconnect(p) \/ Leave(p) \/ Die(p) \/ Reap(p)
  \/ \E s \in Streams : PrintByte(p, s)

Next ==
  \/ \E c \in Clients : ClientStep(c) \/ \E p \in Pids : Connect(c, p) \/ StartServer(c, p)
  \/ \E p \in Pids : ServerStep(p)

(* Every process goes on; none has to crash, none has to start.            *)
ServerGoesOn(p) ==
  \/ Exec(p) \/ WriteExitCode(p) \/ Disconnect(p) \/ Die(p) \/ Reap(p)
  \/ \E s \in Streams : PrintByte(p, s)
  \/ proc[p] = "answered" /\ Leave(p)

Fairness ==
  /\ \A c \in Clients : WF_vars((\E s \in Streams : Read(c, s) \/ ReadEnd(c, s)) \/ Finish(c))
  /\ \A p \in Pids : WF_vars(ServerGoesOn(p))

Spec == Init /\ [][Next]_vars /\ Fairness
-----------------------------------------------------------------------------
ServerTypeOK ==
  /\ client \in [Clients -> {"start", "read", "end"}]
  /\ open \in [Clients -> SUBSET Streams]
  /\ found \in [Clients -> Codes \cup {NotFound}]
  /\ printed \in [Clients -> [Streams -> Seq(Nat)]]
  /\ code \in [Clients -> Codes \cup {None}]
  /\ proc \in [Pids -> Exists \cup {"none", "gone"}]
  /\ parent \in [Pids -> Clients \cup {None}] /\ user \in [Pids -> Clients \cup {None}]
  /\ todo \in [Clients -> [Streams -> Seq(Nat)]]
  /\ sent \in [Clients -> [Streams -> Seq(Nat)]]
  /\ ended \in [Clients -> SUBSET Streams]

Answered(c) == todo[c]["out"] = <<>>

(* A command ends with the exit code of the compiler, or with 1 when its   *)
(* server did not come to write one: no byte of the text is taken for the  *)
(* exit code, wherever the reads cut it, and none is overwritten by what   *)
(* is read after it.                                                       *)
ExitCodeTrue ==
  \A c \in Clients : client[c] = "end" =>
    \/ code[c] = Outcome[c]
    \/ code[c] = 1 /\ ~ Answered(c)

(* The caller reads what the compiler printed, in order and without the    *)
(* exit code, and all of it unless the server did not come to the end.     *)
IsPrefix(s, t) == Len(s) <= Len(t) /\ s = SubSeq(t, 1, Len(s))

TextTrue ==
  \A c \in Clients : \A s \in Streams :
    /\ IsPrefix(printed[c][s], Output[c][s])
    /\ client[c] = "end" =>
         \/ printed[c][s] = Output[c][s]
         \/ c \notin Unsuited /\ ~ Answered(c)

(* A command that is sent comes to its end, however its server ends.       *)
CommandsEnd == \A c \in Clients \ Unsuited : (client[c] # "start") ~> (client[c] = "end")
=============================================================================
