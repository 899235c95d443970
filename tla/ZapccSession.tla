---------------------------- MODULE ZapccSession ----------------------------
(***************************************************************************)
(* The Unix session protocol between zapcc (the client, Client.cpp) and    *)
(* zapccs (the caching server, Server.cpp and ZapccsMain.cpp).             *)
(*                                                                         *)
(* A client takes the fcntl lock of a slot (a ServerId), connects to the   *)
(* two listening ports of that slot, forks a server when nobody listens,   *)
(* sends one command, and reads until both connections are closed.  The    *)
(* server accepts one InOut and one Error connection, reads a command,     *)
(* compiles, writes the exit code as the last byte of its output and       *)
(* closes.  Every action is one system call of one process, or several     *)
(* that no other process can see apart.                                    *)
(*                                                                         *)
(* A connection is known by the client at its other end.  When that client *)
(* dies the connection becomes an orphan, known by the command its buffer  *)
(* still holds.                                                            *)
(***************************************************************************)
EXTENDS Integers, Sequences, FiniteSets

CONSTANTS
  Clients,      \* zapcc processes, each running one command after another
  Servers,      \* process ids fork() can hand out; it fails when none is left
  MaxServers,   \* Client::MaxServers, the slots connectToAny scans
  MaxSpecific,  \* bound on the N of -serverid N
  Backlog,      \* connections a listening socket queues before accept
  Unopenable,   \* slots whose lock file ::open fails (another user owns it)
  Commands,     \* the kinds of command the build gives
  KillAt,       \* client program points at which a client may be killed
  CrashAt,      \* server program points at which a server may be killed
  StickyEof     \* getc(stdin) keeps answering EOF after it once has, as C99 has
                \* it and the C libraries of today do (glibc before 2.28 did not)

None     == "none"
NotFound == -9999
Requests == {"ok", "bad", "dnz", "clang"}
Orphans  == Requests \cup {"unsent"}
Peers    == Clients \cup Orphans
Slots    == 1 .. (MaxServers + MaxSpecific)

ClientPC == {"idle", "lock", "open", "create", "reopen", "openErr", "send",
             "wait", "local"}
ServerPC == {"none", "acceptIn", "acceptErr", "read", "compile", "disconnect",
             "closeIn", "closeErr", "closeConn", "dieIn", "dieErr"}

ASSUME ConstantsAssumption ==
  /\ MaxServers \in Nat \ {0}
  /\ MaxSpecific \in Nat
  /\ Backlog \in Nat \ {0}
  /\ Unopenable \subseteq Slots
  /\ Commands \subseteq Requests
  /\ KillAt \subseteq ClientPC \ {"idle"}
  /\ CrashAt \subseteq ServerPC \ {"none", "dieIn", "dieErr"}
  /\ Clients \cap (Orphans \cup {None}) = {}
  /\ StickyEof \in BOOLEAN

VARIABLES
  \* of each client: program counter, ServerId under trial, the command it was
  \* given, and the exit code it has read or (when idle) ended with
  pc, slot, req, code,
  lock,         \* holder of the write lock on each slot's lock file
  \* of each server: program counter, ServerId, accept queues of its two
  \* listening sockets, the peers on stdin/stdout and on stderr, the command,
  \* and whether its stdin stays at end of file
  spc, sslot, inQ, errQ, out, err, job, eof

clientVars == <<pc, slot, req, code>>
serverVars == <<spc, sslot, inQ, errQ, out, err, job, eof>>
vars == <<pc, slot, req, code, lock, spc, sslot, inQ, errQ, out, err, job, eof>>

-----------------------------------------------------------------------------
\* What a command is worth.  "ok" and "bad" compile and do not compile, "dnz"
\* names a DoNotZap file, "clang" is one cc1_selector keeps from the server.

\* What performCompile returns for a command, or for "eof": the client went
\* away before it sent a working directory.
RetCode(j) == CASE j = "bad" -> 1 [] j = "dnz" -> 2 [] OTHER -> 0

\* What compiling the command really gives, by whichever process.
Truth(r) == IF r = "bad" THEN 1 ELSE 0

\* A server has its listening sockets from before the fork until it closes them.
ListensIn(s, k) ==
  /\ sslot[s] = k
  /\ spc[s] \notin {"none", "closeErr", "closeConn", "dieErr"}

ListensErr(s, k) ==
  /\ sslot[s] = k
  /\ spc[s] \notin {"none", "closeConn"}

Queued(q, c) == \E i \in DOMAIN q : q[i] = c

\* The client's InOut or Error connection is still open at the server's end.
InConnected(c)  == \E s \in Servers : out[s] = c \/ Queued(inQ[s], c)
ErrConnected(c) == \E s \in Servers : err[s] = c \/ Queued(errQ[s], c)

-----------------------------------------------------------------------------
Init ==
  /\ pc    = [c \in Clients |-> "idle"]
  /\ slot  = [c \in Clients |-> 1]
  /\ req   = [c \in Clients |-> "ok"]
  /\ code  = [c \in Clients |-> 0]
  /\ lock  = [k \in Slots |-> None]
  /\ spc   = [s \in Servers |-> "none"]
  /\ sslot = [s \in Servers |-> 1]
  /\ inQ   = [s \in Servers |-> <<>>]
  /\ errQ  = [s \in Servers |-> <<>>]
  /\ out   = [s \in Servers |-> None]
  /\ err   = [s \in Servers |-> None]
  /\ job   = [s \in Servers |-> None]
  /\ eof   = [s \in Servers |-> FALSE]

-----------------------------------------------------------------------------
(* The client. *)

\* The build starts zapcc with a command: cc1_selector keeps what useClang
\* picks, startServerAndSend takes the rest to a server, either scanning from
\* slot 1 or trying only the slot that -serverid names.
Invoke(c) ==
  /\ pc[c] = "idle"
  /\ \E r \in Commands, k \in {1} \cup (MaxServers + 1 .. MaxServers + MaxSpecific) :
       /\ r = "clang" => k = 1
       /\ pc' = [pc EXCEPT ![c] = IF r = "clang" THEN "local" ELSE "lock"]
       /\ req' = [req EXCEPT ![c] = r]
       /\ slot' = [slot EXCEPT ![c] = k]
  /\ code' = [code EXCEPT ![c] = NotFound]
  /\ UNCHANGED <<lock, serverVars>>

\* A connection of a departing client, as the server will find it: what was
\* sent on it stays readable, followed by end of file.
Orphan(c, p) ==
  IF p # c THEN p ELSE IF pc[c] = "wait" THEN req[c] ELSE "unsent"

\* The client process ends with status r: ~Client or the kernel drops its
\* lock, the kernel closes its sockets, its ServerId is forgotten.
Depart(c, r) ==
  /\ pc'   = [pc EXCEPT ![c] = "idle"]
  /\ slot' = [slot EXCEPT ![c] = 1]
  /\ code' = [code EXCEPT ![c] = r]
  /\ lock' = [k \in Slots |-> IF lock[k] = c THEN None ELSE lock[k]]
  /\ inQ'  = [s \in Servers |-> [i \in DOMAIN inQ[s] |-> Orphan(c, inQ[s][i])]]
  /\ errQ' = [s \in Servers |-> [i \in DOMAIN errQ[s] |-> Orphan(c, errQ[s][i])]]
  /\ out'  = [s \in Servers |-> Orphan(c, out[s])]
  /\ err'  = [s \in Servers |-> Orphan(c, err[s])]
  /\ UNCHANGED <<req, spc, sslot, job, eof>>

\* Mutant: a shared fcntl lock, which conflicts with nothing.
ObtainSharedLock(c) ==
  /\ pc[c] = "lock"
  /\ slot[c] \notin Unopenable
  /\ lock' = [lock EXCEPT ![slot[c]] = c]
  /\ pc' = [pc EXCEPT ![c] = "open"]
  /\ UNCHANGED <<slot, req, code, serverVars>>

ObtainLock(c) ==
  /\ pc[c] = "lock"
  /\ slot[c] \notin Unopenable
  /\ lock[slot[c]] = None
  /\ lock' = [lock EXCEPT ![slot[c]] = c]
  /\ pc' = [pc EXCEPT ![c] = "open"]
  /\ UNCHANGED <<slot, req, code, serverVars>>

\* fcntl answers EAGAIN: connectToAny skips to the next slot.
LockBusyNext(c) ==
  /\ pc[c] = "lock"
  /\ slot[c] \notin Unopenable
  /\ lock[slot[c]] # None
  /\ slot[c] < MaxServers
  /\ slot' = [slot EXCEPT ![c] = @ + 1]
  /\ UNCHANGED <<pc, req, code, lock, serverVars>>

\* The last slot of the scan, or the specific slot asked for, is busy.
LockBusyLast(c) ==
  /\ pc[c] = "lock"
  /\ slot[c] \notin Unopenable
  /\ lock[slot[c]] # None
  /\ slot[c] >= MaxServers
  /\ Depart(c, 1)

\* ::open of the lock file fails: Unexpected, which ends the scan too.
LockUnexpected(c) ==
  /\ pc[c] = "lock"
  /\ slot[c] \in Unopenable
  /\ Depart(c, 1)

\* Mutant: no limit on the connections waiting to be accepted.
OpenInOutUnbounded(c) ==
  /\ pc[c] \in {"open", "reopen"}
  /\ \E s \in Servers :
       /\ ListensIn(s, slot[c])
       /\ inQ' = [inQ EXCEPT ![s] = Append(@, c)]
  /\ pc' = [pc EXCEPT ![c] = "openErr"]
  /\ UNCHANGED <<slot, req, code, lock, spc, sslot, errQ, out, err, job, eof>>

\* Mutant: the client of a new server does not connect to its Error port.
OpenInOutOnly(c) ==
  /\ pc[c] \in {"open", "reopen"}
  /\ \E s \in Servers :
       /\ ListensIn(s, slot[c])
       /\ Len(inQ[s]) < Backlog
       /\ inQ' = [inQ EXCEPT ![s] = Append(@, c)]
  /\ pc' = [pc EXCEPT ![c] = IF @ = "open" THEN "openErr" ELSE "send"]
  /\ UNCHANGED <<slot, req, code, lock, spc, sslot, errQ, out, err, job, eof>>

\* open(), first half: connect to the InOut port.
OpenInOut(c) ==
  /\ pc[c] \in {"open", "reopen"}
  /\ \E s \in Servers :
       /\ ListensIn(s, slot[c])
       /\ Len(inQ[s]) < Backlog
       /\ inQ' = [inQ EXCEPT ![s] = Append(@, c)]
  /\ pc' = [pc EXCEPT ![c] = "openErr"]
  /\ UNCHANGED <<slot, req, code, lock, spc, sslot, errQ, out, err, job, eof>>

\* ECONNREFUSED is NotFound: the first time, create a server.
OpenRefused(c) ==
  /\ pc[c] = "open"
  /\ \A s \in Servers : ~ListensIn(s, slot[c])
  /\ pc' = [pc EXCEPT ![c] = "create"]
  /\ UNCHANGED <<slot, req, code, lock, serverVars>>

\* "Server created, but not found."
ReopenRefused(c) ==
  /\ pc[c] = "reopen"
  /\ \A s \in Servers : ~ListensIn(s, slot[c])
  /\ Depart(c, 1)

\* With the accept queue full connect() blocks; the kernel gives up in the end.
OpenTimesOut(c) ==
  /\ pc[c] \in {"open", "reopen"}
  /\ \E s \in Servers : ListensIn(s, slot[c]) /\ Len(inQ[s]) >= Backlog
  /\ Depart(c, 1)

\* open(), second half: connect to the Error port.
OpenError(c) ==
  /\ pc[c] = "openErr"
  /\ \E s \in Servers :
       /\ ListensErr(s, slot[c])
       /\ Len(errQ[s]) < Backlog
       /\ errQ' = [errQ EXCEPT ![s] = Append(@, c)]
  /\ pc' = [pc EXCEPT ![c] = "send"]
  /\ UNCHANGED <<slot, req, code, lock, spc, sslot, inQ, out, err, job, eof>>

\* Any failure to reach the Error port is Unexpected.
OpenErrorRefused(c) ==
  /\ pc[c] = "openErr"
  /\ \A s \in Servers : ~ListensErr(s, slot[c])
  /\ Depart(c, 1)

\* Mutant: bind() on the Error port does not fail.
InOutPortFree(k) == \A s \in Servers : ~ListensIn(s, k)

\* Neither port of the slot may be bound to a listening socket.
PortsFree(k) == \A s \in Servers : ~ListensIn(s, k) /\ ~ListensErr(s, k)

\* createPipeAndServer: bind and listen on both ports, fork, exec, and close
\* the parent's copies.  The sockets are private to the lock holder until the
\* parent connects again, so the whole is one step.
CreatePipeAndServer(c) ==
  /\ pc[c] = "create"
  /\ PortsFree(slot[c])
  /\ \E s \in Servers :
       /\ spc[s] = "none"
       /\ spc' = [spc EXCEPT ![s] = "acceptIn"]
       /\ sslot' = [sslot EXCEPT ![s] = slot[c]]
       /\ eof' = [eof EXCEPT ![s] = FALSE]
  /\ pc' = [pc EXCEPT ![c] = "reopen"]
  /\ UNCHANGED <<slot, req, code, lock, inQ, errQ, out, err, job>>

\* bind() answers EADDRINUSE, or fork() fails: Unexpected.
CreateFails(c) ==
  /\ pc[c] = "create"
  /\ ~PortsFree(slot[c]) \/ \A s \in Servers : spc[s] # "none"
  /\ Depart(c, 1)

\* The kernel takes the command even when the server is already gone.
Send(c) ==
  /\ pc[c] = "send"
  /\ pc' = [pc EXCEPT ![c] = "wait"]
  /\ UNCHANGED <<slot, req, code, lock, serverVars>>

\* ... or answers that the connection was reset.
SendFails(c) ==
  /\ pc[c] = "send"
  /\ ~InConnected(c)
  /\ Depart(c, 1)

\* Mutant: the client leaves once it has its exit code.
EndOnExitCode(c) ==
  /\ pc[c] = "wait"
  /\ code[c] \in {0, 1}
  /\ Depart(c, code[c])

\* Mutant: no exit code is taken for success.
EndOfOutputSucceeds(c) ==
  /\ pc[c] = "wait"
  /\ ~InConnected(c) /\ ~ErrConnected(c)
  /\ code[c] # 2
  /\ Depart(c, IF code[c] = NotFound THEN 0 ELSE code[c])

\* Mutant: without an exit code the client keeps waiting for one.
EndOfOutputWithCode(c) ==
  /\ pc[c] = "wait"
  /\ ~InConnected(c) /\ ~ErrConnected(c)
  /\ code[c] \in {0, 1}
  /\ Depart(c, code[c])

\* readServerOutput has seen both connections close.  No exit code means the
\* server crashed; 2 asks for a compilation by this process.
EndOfOutput(c) ==
  /\ pc[c] = "wait"
  /\ ~InConnected(c) /\ ~ErrConnected(c)
  /\ code[c] # 2
  /\ Depart(c, IF code[c] = NotFound THEN 1 ELSE code[c])

\* Mutant: the lock goes while the server may still have the connections.
LocalWithoutEnd(c) ==
  /\ pc[c] = "wait"
  /\ code[c] = 2
  /\ pc' = [pc EXCEPT ![c] = "local"]
  /\ lock' = [lock EXCEPT ![slot[c]] = None]
  /\ UNCHANGED <<slot, req, code, serverVars>>

\* Mutant: the Client object, and its lock, live on during cc1_main.
LocalUnderLock(c) ==
  /\ pc[c] = "wait"
  /\ ~InConnected(c) /\ ~ErrConnected(c)
  /\ code[c] = 2
  /\ pc' = [pc EXCEPT ![c] = "local"]
  /\ UNCHANGED <<slot, req, code, lock, serverVars>>

\* startServerAndSend returns 2, which drops the lock; cc1_main follows.
EndOfOutputLocal(c) ==
  /\ pc[c] = "wait"
  /\ ~InConnected(c) /\ ~ErrConnected(c)
  /\ code[c] = 2
  /\ pc' = [pc EXCEPT ![c] = "local"]
  /\ lock' = [lock EXCEPT ![slot[c]] = None]
  /\ UNCHANGED <<slot, req, code, serverVars>>

CompileLocally(c) ==
  /\ pc[c] = "local"
  /\ Depart(c, Truth(req[c]))

\* The user interrupts the build, or runs pkill zapcc.
Kill(c) ==
  /\ pc[c] \in KillAt
  /\ Depart(c, NotFound)

-----------------------------------------------------------------------------
(* The server. *)

AcceptInOut(s) ==
  /\ spc[s] = "acceptIn"
  /\ inQ[s] # <<>>
  /\ out' = [out EXCEPT ![s] = Head(inQ[s])]
  /\ inQ' = [inQ EXCEPT ![s] = Tail(@)]
  /\ spc' = [spc EXCEPT ![s] = "acceptErr"]
  /\ UNCHANGED <<clientVars, lock, sslot, errQ, err, job, eof>>

AcceptError(s) ==
  /\ spc[s] = "acceptErr"
  /\ errQ[s] # <<>>
  /\ err' = [err EXCEPT ![s] = Head(errQ[s])]
  /\ errQ' = [errQ EXCEPT ![s] = Tail(@)]
  /\ spc' = [spc EXCEPT ![s] = "read"]
  /\ UNCHANGED <<clientVars, lock, sslot, inQ, out, job, eof>>

\* Mutant: end of file on stdin goes unnoticed.
ReadCommandOnly(s) ==
  /\ spc[s] = "read"
  /\ \/ /\ out[s] \in Clients
        /\ pc[out[s]] = "wait"
        /\ job' = [job EXCEPT ![s] = req[out[s]]]
     \/ /\ out[s] \in Requests
        /\ job' = [job EXCEPT ![s] = out[s]]
  /\ spc' = [spc EXCEPT ![s] = "compile"]
  /\ UNCHANGED <<clientVars, lock, sslot, inQ, errQ, out, err, eof>>

\* performCompile reads the command from stdin: it blocks while a live client
\* has sent nothing, and finds end of file where a dead one sent nothing.
\* Server::connect clears std::cin, but nothing clears the indicator of the C
\* stream below it.
ReadCommand(s) ==
  /\ spc[s] = "read"
  /\ \/ /\ eof[s]
        /\ job' = [job EXCEPT ![s] = "eof"]
     \/ /\ ~eof[s]
        /\ out[s] \in Clients
        /\ pc[out[s]] = "wait"
        /\ job' = [job EXCEPT ![s] = req[out[s]]]
     \/ /\ ~eof[s]
        /\ out[s] \in Orphans
        /\ job' = [job EXCEPT ![s] = IF out[s] = "unsent" THEN "eof" ELSE out[s]]
  /\ eof' = [eof EXCEPT ![s] = StickyEof /\ job'[s] = "eof"]
  /\ spc' = [spc EXCEPT ![s] = "compile"]
  /\ UNCHANGED <<clientVars, lock, sslot, inQ, errQ, out, err>>

\* Mutant: done() closes the connections before the listening sockets.
WriteExitCodeAndClose(s) ==
  /\ spc[s] = "compile"
  /\ code' = IF out[s] \in Clients
             THEN [code EXCEPT ![out[s]] = RetCode(job[s])] ELSE code
  /\ \/ spc' = [spc EXCEPT ![s] = "disconnect"] /\ RetCode(job[s]) # 1
        /\ UNCHANGED <<out, err>>
     \/ /\ spc' = [spc EXCEPT ![s] = "closeIn"]
        /\ out' = [out EXCEPT ![s] = None]
        /\ err' = [err EXCEPT ![s] = None]
  /\ job' = [job EXCEPT ![s] = None]
  /\ UNCHANGED <<pc, slot, req, lock, sslot, inQ, errQ, eof>>

\* The exit code goes out last, on stdout.  A failed compilation or a cache
\* over its memory limit ends the loop of runServerMode.
WriteExitCode(s) ==
  /\ spc[s] = "compile"
  /\ code' = IF out[s] \in Clients
             THEN [code EXCEPT ![out[s]] = RetCode(job[s])] ELSE code
  /\ \E OutOfMemory \in BOOLEAN :
       spc' = [spc EXCEPT ![s] = IF RetCode(job[s]) # 1 /\ ~OutOfMemory
                                 THEN "disconnect" ELSE "closeIn"]
  /\ job' = [job EXCEPT ![s] = None]
  /\ UNCHANGED <<pc, slot, req, lock, sslot, inQ, errQ, out, err, eof>>

\* Mutant: stderr stays connected.
DisconnectInOut(s) ==
  /\ spc[s] = "disconnect"
  /\ out' = [out EXCEPT ![s] = None]
  /\ spc' = [spc EXCEPT ![s] = "acceptIn"]
  /\ UNCHANGED <<clientVars, lock, sslot, inQ, errQ, err, job, eof>>

Disconnect(s) ==
  /\ spc[s] = "disconnect"
  /\ out' = [out EXCEPT ![s] = None]
  /\ err' = [err EXCEPT ![s] = None]
  /\ spc' = [spc EXCEPT ![s] = "acceptIn"]
  /\ UNCHANGED <<clientVars, lock, sslot, inQ, errQ, job, eof>>

\* Server::done(), or the kernel ending the process, closes the listening
\* InOut socket; the connections it had queued are reset.
CloseInOut(s) ==
  /\ spc[s] \in {"closeIn", "dieIn"}
  /\ inQ' = [inQ EXCEPT ![s] = <<>>]
  /\ spc' = [spc EXCEPT ![s] = IF @ = "closeIn" THEN "closeErr" ELSE "dieErr"]
  /\ UNCHANGED <<clientVars, lock, sslot, errQ, out, err, job, eof>>

\* ... then the listening Error socket, the last descriptor of a dying process.
CloseError(s) ==
  /\ spc[s] \in {"closeErr", "dieErr"}
  /\ errQ' = [errQ EXCEPT ![s] = <<>>]
  /\ spc' = [spc EXCEPT ![s] = IF @ = "closeErr" THEN "closeConn" ELSE "none"]
  /\ sslot' = [sslot EXCEPT ![s] = IF spc'[s] = "none" THEN 1 ELSE @]
  /\ UNCHANGED <<clientVars, lock, inQ, out, err, job, eof>>

\* ... and done() only then closes the client's connections; main returns.
CloseConnections(s) ==
  /\ spc[s] = "closeConn"
  /\ out' = [out EXCEPT ![s] = None]
  /\ err' = [err EXCEPT ![s] = None]
  /\ spc' = [spc EXCEPT ![s] = "none"]
  /\ sslot' = [sslot EXCEPT ![s] = 1]
  /\ UNCHANGED <<clientVars, lock, inQ, errQ, job, eof>>

\* A process that is killed loses descriptors 0, 1 and 2 first.
Die(s) ==
  /\ out' = [out EXCEPT ![s] = None]
  /\ err' = [err EXCEPT ![s] = None]
  /\ job' = [job EXCEPT ![s] = None]
  /\ sslot' = [sslot EXCEPT ![s] = IF spc'[s] = "none" THEN 1 ELSE @]
  /\ UNCHANGED <<clientVars, lock, inQ, errQ, eof>>

\* What is left to close depends on how far done() had come.
LeftToClose(p) ==
  CASE p = "closeErr" -> "dieErr" [] p = "closeConn" -> "none" [] OTHER -> "dieIn"

Crash(s) ==
  /\ spc[s] \in CrashAt
  /\ spc' = [spc EXCEPT ![s] = LeftToClose(spc[s])]
  /\ Die(s)

\* Writing to a connection whose client is gone raises SIGPIPE, which the
\* server handles as an interrupt: it ends.
BrokenPipe(s) ==
  /\ spc[s] = "compile"
  /\ out[s] \in Orphans \/ err[s] \in Orphans
  /\ spc' = [spc EXCEPT ![s] = "dieIn"]
  /\ Die(s)

-----------------------------------------------------------------------------
\* What a client does once it runs, whatever the environment.
ClientStep(c) ==
  \/ ObtainLock(c) \/ LockBusyNext(c) \/ LockBusyLast(c) \/ LockUnexpected(c)
  \/ OpenInOut(c) \/ OpenRefused(c) \/ ReopenRefused(c)
  \/ OpenError(c) \/ OpenErrorRefused(c)
  \/ CreatePipeAndServer(c) \/ CreateFails(c)
  \/ Send(c) \/ EndOfOutput(c) \/ EndOfOutputLocal(c) \/ CompileLocally(c)

\* What a server does by itself.
ServerStep(s) ==
  \/ AcceptInOut(s) \/ AcceptError(s) \/ ReadCommand(s) \/ WriteExitCode(s)
  \/ Disconnect(s) \/ CloseInOut(s) \/ CloseError(s) \/ CloseConnections(s)

\* What the environment may do to either.
ClientFault(c) == Kill(c) \/ OpenTimesOut(c) \/ SendFails(c)
ServerFault(s) == Crash(s) \/ BrokenPipe(s)

Next ==
  \/ \E c \in Clients : Invoke(c) \/ ClientStep(c) \/ ClientFault(c)
  \/ \E s \in Servers : ServerStep(s) \/ ServerFault(s)

Spec == Init /\ [][Next]_vars

\* The operating system schedules every process, and every compilation ends.
\* Nobody has to start a run, kill a process or let a connect time out.
Fairness ==
  /\ \A c \in Clients : WF_vars(ClientStep(c))
  /\ \A s \in Servers : WF_vars(ServerStep(s))

FairSpec == Spec /\ Fairness
-----------------------------------------------------------------------------
(* The session implements the abstract compile farm: a slot is in use while  *)
(* its lock is held, and a run's status shows once the process has ended.    *)

FarmPhase ==
  [c \in Clients |-> CASE pc[c] = "idle"  -> "idle"
                       [] pc[c] = "lock"  -> "asking"
                       [] pc[c] = "local" -> "alone"
                       [] OTHER           -> "using"]

FarmStatus == [c \in Clients |-> IF pc[c] = "idle" THEN code[c] ELSE NotFound]

Farm == INSTANCE CompileFarm WITH
  Runs      <- Clients,
  Slots     <- Slots,
  Commands  <- Requests,
  Verdict   <- [r \in Requests |-> Truth(r)],
  Declined  <- {"dnz"},
  KeptLocal <- {"clang"},
  Nobody    <- None,
  Killed    <- NotFound,
  phase     <- FarmPhase,
  command   <- req,
  status    <- FarmStatus,
  user      <- lock

-----------------------------------------------------------------------------
(* Properties. *)

\* Every variable keeps its type: accept queues never outgrow the backlog.
TypeOK ==
  /\ pc \in [Clients -> ClientPC]
  /\ slot \in [Clients -> Slots]
  /\ req \in [Clients -> Requests]
  /\ code \in [Clients -> {NotFound, 0, 1, 2}]
  /\ lock \in [Slots -> Clients \cup {None}]
  /\ spc \in [Servers -> ServerPC]
  /\ sslot \in [Servers -> Slots]
  /\ inQ \in [Servers -> Seq(Peers)]
  /\ errQ \in [Servers -> Seq(Peers)]
  /\ \A s \in Servers : Len(inQ[s]) <= Backlog /\ Len(errQ[s]) <= Backlog
  /\ out \in [Servers -> Peers \cup {None}]
  /\ err \in [Servers -> Peers \cup {None}]
  /\ job \in [Servers -> Requests \cup {None, "eof"}]
  /\ eof \in [Servers -> BOOLEAN]

\* The fcntl lock outlives the connections it guards (obtainLock is called
\* before open, ~Client after the reader saw both streams close): whatever dies
\* and in whatever order, a live client that any server of a slot has queued or
\* accepted, on either port, holds that slot's lock.
ConnectedHoldsLock ==
  \A s \in Servers, c \in Clients :
    (out[s] = c \/ err[s] = c \/ Queued(inQ[s], c) \/ Queued(errQ[s], c))
      => lock[sslot[s]] = c

\* Two servers never share a port pair, even while one of them is dying.
OneListener ==
  \A s, t \in Servers, k \in Slots : ListensErr(s, k) /\ ListensErr(t, k) => s = t

\* The exit code a client reads is the one performCompile gave its own command,
\* and a run never reports success for a command that does not compile.
AnswerIsOwn ==
  \A c \in Clients :
    /\ pc[c] = "wait" /\ code[c] # NotFound => code[c] = RetCode(req[c])
    /\ pc[c] = "idle" /\ code[c] = 0 => Truth(req[c]) = 0

\* While a server compiles, the client that gets the diagnostics is the client
\* whose command it is and that gets the output (Server::connect pairs two
\* accepts that nothing but their order relates).
StreamsOfOneClient ==
  \A s \in Servers :
    spc[s] = "compile" /\ err[s] \in Clients => out[s] = err[s]

\* The peers whose InOut connection a server has still to pair, the one it has
\* accepted first.
Ins(s) == (IF spc[s] = "acceptErr" THEN <<out[s]>> ELSE <<>>) \o inQ[s]

\* What is left of a dead client need not be the same on both.
SamePeer(p, q) == p \in Clients \/ q \in Clients => p = q

InStep(ins, errs) ==
  /\ Len(ins) - Len(errs) \in {0, 1}
  /\ \A i \in DOMAIN errs : SamePeer(ins[i], errs[i])

Listening(s) == ListensIn(s, sslot[s]) /\ spc[s] # "dieIn"

\* What makes that pairing right: of a listening server the Error queue lags
\* the InOut queue by at most the client between its two connects, and the two
\* agree up to there.
QueuesInStep ==
  \A s \in Servers : Listening(s) =>
    /\ InStep(Ins(s), errQ[s])
    /\ Len(Ins(s)) > Len(errQ[s]) =>
         Ins(s)[Len(Ins(s))] \in Clients /\ pc[Ins(s)[Len(Ins(s))]] = "openErr"

\* Each run reuses an existing server or, if none is available, starts a new
\* one, so it fails only because its command does not compile.  This needs a
\* server that ends (after a failed compilation, or out of memory) to close its
\* listening ports before its client is told.
NoSpuriousFailure ==
  \A c \in Clients : pc[c] = "idle" /\ code[c] = 1 => req[c] = "bad"

\* When nothing is killed a slot never has two server processes, each with a
\* cache of its own: the old one has ended before the lock is free.
OneServerPerSlot ==
  \A s, t \in Servers :
    spc[s] # "none" /\ spc[t] # "none" /\ sslot[s] = sslot[t] => s = t

\* Seen from outside, the session is a compile farm: exclusive slots, truthful
\* answers, a declined command compiled only after its slot is given back.
ImplementsFarm == Farm!FarmSpec

\* ... in which a run that waits is served or fails.
ImplementsFairFarm == Farm!FairFarmSpec

\* Every run of zapcc ends.
EveryRunEnds == \A c \in Clients : pc[c] # "idle" ~> pc[c] = "idle"

\* A server does not stay with a client that is gone: it comes back to its
\* first accept, or ends.
EveryServerReturns ==
  \A s \in Servers : spc[s] # "none" ~> spc[s] \in {"acceptIn", "none"}
-----------------------------------------------------------------------------
(* The inductive invariant. *)

\* Program points at which a client holds the lock of its slot.
Holding == {"open", "create", "reopen", "openErr", "send", "wait"}

LockInv ==
  /\ \A c \in Clients : pc[c] \in Holding => lock[slot[c]] = c
  /\ \A k \in Slots, c \in Clients :
       lock[k] = c => k = slot[c] /\ pc[c] \in Holding

\* A live client is connected only to a server of its slot, and only after the
\* connect that put it there.
ConnInv ==
  \A s \in Servers, c \in Clients :
    /\ out[s] = c \/ Queued(inQ[s], c) =>
         sslot[s] = slot[c] /\ pc[c] \in {"openErr", "send", "wait"}
    /\ err[s] = c \/ Queued(errQ[s], c) =>
         sslot[s] = slot[c] /\ pc[c] \in {"send", "wait"}

\* What a server has closed is empty.
ClosedInv ==
  \A s \in Servers :
    /\ spc[s] \in {"none", "closeErr", "closeConn", "dieErr"} => inQ[s] = <<>>
    /\ spc[s] \in {"none", "closeConn"} => errQ[s] = <<>>
    /\ spc[s] \in {"none", "acceptIn", "dieIn", "dieErr"} =>
         out[s] = None /\ err[s] = None

\* A server compiles the command of the client on its stdin, which waits; an
\* exit code is there only once that client waits.
JobInv ==
  /\ \A s \in Servers : spc[s] = "compile" /\ out[s] \in Clients =>
       pc[out[s]] = "wait" /\ job[s] = req[out[s]]
  /\ \A c \in Clients :
       pc[c] \in (Holding \ {"wait"}) \cup {"lock"} => code[c] = NotFound

\* Stdin stays at end of file only in a C library that makes it.
EofInv == \A s \in Servers : eof[s] => StickyEof

\* ... and only such a library can make an answer wrong.
AnswerInv == StickyEof \/ (JobInv /\ AnswerIsOwn)

IInv ==
  TypeOK /\ LockInv /\ ConnInv /\ ClosedInv /\ OneListener /\ EofInv /\ AnswerInv

-----------------------------------------------------------------------------
(* Where no client dies between its two connects. *)

\* The client between its connects is the last that its server has to pair, and
\* what a server has paired is one client.
Paired(s) ==
  /\ Listening(s) =>
       /\ InStep(Ins(s), errQ[s])
       /\ Len(Ins(s)) > Len(errQ[s]) =>
            Ins(s)[Len(Ins(s))] \in Clients /\ pc[Ins(s)[Len(Ins(s))]] = "openErr"
       /\ \A c \in Clients : pc[c] = "openErr" /\ sslot[s] = slot[c] =>
            Len(Ins(s)) = Len(errQ[s]) + 1 /\ Ins(s)[Len(Ins(s))] = c
  /\ spc[s] \in {"read", "compile"} => SamePeer(out[s], err[s])

PairsInv == \A s \in Servers : Paired(s)

-----------------------------------------------------------------------------
(* Where nothing is killed. *)

\* A server between two clients.
Idle(s) ==
  /\ spc[s] = "acceptIn"
  /\ inQ[s] = <<>> /\ errQ[s] = <<>> /\ out[s] = None /\ err[s] = None

\* A server has client c and nobody else, from c's connect to the closing of both
\* connections; c waits for its exit code until it is written, and has it then.
Connecting(s, c) ==
  /\ errQ[s] = IF pc[c] = "openErr" THEN <<>> ELSE <<c>>
  /\ err[s] = None
  /\ \/ spc[s] = "acceptIn" /\ inQ[s] = <<c>> /\ out[s] = None
     \/ spc[s] = "acceptErr" /\ inQ[s] = <<>> /\ out[s] = c

Serving(s, c) ==
  /\ inQ[s] = <<>> /\ errQ[s] = <<>> /\ out[s] = c /\ err[s] = c
  /\ \/ spc[s] = "read" /\ pc[c] \in {"send", "wait"} /\ code[c] = NotFound
     \/ spc[s] = "compile" /\ pc[c] = "wait" /\ code[c] = NotFound /\ job[s] = req[c]
     \/ /\ spc[s] \in {"disconnect", "closeIn", "closeErr", "closeConn"}
        /\ pc[c] = "wait" /\ code[c] = RetCode(req[c])

Engaged(s, c) ==
  /\ pc[c] \in {"openErr", "send", "wait"} /\ slot[c] = sslot[s]
  /\ (Connecting(s, c) /\ code[c] = NotFound) \/ Serving(s, c)

\* A server is idle or has one client.  A client that is not through with its
\* server has one: an idle one when it is to connect, later one engaged with it.
QuietInv ==
  /\ OneServerPerSlot
  /\ \A s \in Servers : spc[s] # "none" =>
       ~eof[s] /\ (Idle(s) \/ \E c \in Clients : Engaged(s, c))
  /\ \A c \in Clients :
       /\ pc[c] \in {"lock", "open", "create", "reopen"} => code[c] = NotFound
       /\ pc[c] = "create" => \A s \in Servers : spc[s] # "none" => sslot[s] # slot[c]
       /\ pc[c] = "reopen" => \E s \in Servers : sslot[s] = slot[c] /\ Idle(s)
       /\ pc[c] \in {"openErr", "send"} => \E s \in Servers : Engaged(s, c)
       /\ pc[c] = "wait" =>
            code[c] = RetCode(req[c]) \/ \E s \in Servers : Engaged(s, c)

\* The clients that scan or hold slot k or a later one are no more than these
\* slots: two are at slot k when the one that found it busy goes on to the next.
Beyond(k) == {c \in Clients : pc[c] \in Holding \cup {"lock"} /\ slot[c] >= k}
ScanInv == \A k \in Slots : Cardinality(Beyond(k)) <= MaxServers - k + 1
=============================================================================
