------------------------ MODULE ZapccSession_proofs ------------------------
(***************************************************************************)
(* Proofs about the session protocol, for any number of clients, servers   *)
(* and slots, any backlog, and any kills and crashes.                      *)
(***************************************************************************)
EXTENDS ZapccSession, TLAPS, SequenceTheorems

-----------------------------------------------------------------------------
(* What a departing client leaves in an accept queue. *)

LEMMA OrphanType ==
  ASSUME req \in [Clients -> Requests], NEW c \in Clients, NEW p \in Peers
  PROVE  Orphan(c, p) \in Peers
BY DEF Orphan, Peers, Orphans, Requests

LEMMA OrphanQueue ==
  ASSUME req \in [Clients -> Requests], NEW c \in Clients, NEW q \in Seq(Peers)
  PROVE  LET r == [i \in DOMAIN q |-> Orphan(c, q[i])]
         IN  r \in Seq(Peers) /\ Len(r) = Len(q) /\ DOMAIN r = DOMAIN q
<1> DEFINE r == [i \in DOMAIN q |-> Orphan(c, q[i])]
<1>1. DOMAIN q = 1 .. Len(q) /\ Len(q) \in Nat
  BY LenProperties
<1>2. \A i \in DOMAIN q : Orphan(c, q[i]) \in Peers
  BY <1>1, ElementOfSeq, OrphanType
<1>3. r \in [1 .. Len(q) -> Peers]
  BY <1>1, <1>2
<1>4. r \in Seq(Peers)
  BY <1>1, <1>3, SeqDef
<1>5. Len(r) = Len(q)
  BY <1>1, <1>3, <1>4, LenProperties
<1> QED
  BY <1>4, <1>5

-----------------------------------------------------------------------------
(* Type correctness. *)

LEMMA DepartType ==
  ASSUME TypeOK, NEW c \in Clients, NEW r \in {NotFound, 0, 1}, Depart(c, r)
  PROVE  TypeOK'
<1>1. pc' \in [Clients -> ClientPC]
  BY DEF Depart, TypeOK, ClientPC
<1>2. slot' \in [Clients -> Slots]
  BY ConstantsAssumption DEF Depart, TypeOK, Slots
<1>3. code' \in [Clients -> {NotFound, 0, 1, 2}]
  BY DEF Depart, TypeOK
<1>4. lock' \in [Slots -> Clients \cup {None}]
  BY DEF Depart, TypeOK
<1>5. inQ' \in [Servers -> Seq(Peers)] /\ \A s \in Servers : Len(inQ'[s]) <= Backlog
  BY OrphanQueue DEF Depart, TypeOK
<1>6. errQ' \in [Servers -> Seq(Peers)] /\ \A s \in Servers : Len(errQ'[s]) <= Backlog
  BY OrphanQueue DEF Depart, TypeOK
<1>7. \A p \in Peers \cup {None} : Orphan(c, p) \in Peers \cup {None}
  BY OrphanType, ConstantsAssumption DEF TypeOK, Orphan
<1>8. out' \in [Servers -> Peers \cup {None}] /\ err' \in [Servers -> Peers \cup {None}]
  BY <1>7 DEF Depart, TypeOK
<1>9. req' \in [Clients -> Requests] /\ spc' \in [Servers -> ServerPC]
      /\ sslot' \in [Servers -> Slots] /\ job' \in [Servers -> Requests \cup {None, "eof"}]
      /\ eof' \in [Servers -> BOOLEAN]
  BY DEF Depart, TypeOK
<1> QED
  BY <1>1, <1>2, <1>3, <1>4, <1>5, <1>6, <1>8, <1>9 DEF TypeOK

LEMMA ClientType ==
  ASSUME TypeOK, NEW c \in Clients,
         Invoke(c) \/ ClientStep(c) \/ ClientFault(c)
  PROVE  TypeOK'
<1>1. CASE Invoke(c)
  <2>1. PICK r \in Commands, k \in {1} \cup (MaxServers + 1 .. MaxServers + MaxSpecific) :
          /\ pc' = [pc EXCEPT ![c] = IF r = "clang" THEN "local" ELSE "lock"]
          /\ req' = [req EXCEPT ![c] = r]
          /\ slot' = [slot EXCEPT ![c] = k]
    BY <1>1 DEF Invoke
  <2>2. k \in Slots /\ r \in Requests
    BY ConstantsAssumption DEF Slots
  <2> QED
    BY <1>1, <2>1, <2>2 DEF Invoke, TypeOK, ClientPC, serverVars
<1>2. CASE ObtainLock(c)
  BY <1>2 DEF ObtainLock, TypeOK, ClientPC, serverVars
<1>3. CASE LockBusyNext(c)
  <2>1. slot[c] + 1 \in Slots
    BY <1>3, ConstantsAssumption DEF LockBusyNext, TypeOK, Slots
  <2> QED
    BY <1>3, <2>1 DEF LockBusyNext, TypeOK, serverVars
<1>4. CASE OpenInOut(c)
  <2>1. PICK s \in Servers : /\ Len(inQ[s]) < Backlog
                             /\ inQ' = [inQ EXCEPT ![s] = Append(@, c)]
    BY <1>4 DEF OpenInOut
  <2>2. Append(inQ[s], c) \in Seq(Peers) /\ Len(Append(inQ[s], c)) = Len(inQ[s]) + 1
    BY AppendProperties DEF TypeOK, Peers
  <2>3. inQ' \in [Servers -> Seq(Peers)] /\ \A t \in Servers : Len(inQ'[t]) <= Backlog
    <3>1. Len(inQ[s]) \in Nat
      BY LenProperties DEF TypeOK
    <3> QED
      BY <2>1, <2>2, <3>1, ConstantsAssumption DEF TypeOK
  <2> QED
    BY <1>4, <2>3 DEF OpenInOut, TypeOK, ClientPC
<1>5. CASE OpenRefused(c)
  BY <1>5 DEF OpenRefused, TypeOK, ClientPC, serverVars
<1>6. CASE OpenError(c)
  <2>1. PICK s \in Servers : /\ Len(errQ[s]) < Backlog
                             /\ errQ' = [errQ EXCEPT ![s] = Append(@, c)]
    BY <1>6 DEF OpenError
  <2>2. Append(errQ[s], c) \in Seq(Peers) /\ Len(Append(errQ[s], c)) = Len(errQ[s]) + 1
    BY AppendProperties DEF TypeOK, Peers
  <2>3. errQ' \in [Servers -> Seq(Peers)] /\ \A t \in Servers : Len(errQ'[t]) <= Backlog
    <3>1. Len(errQ[s]) \in Nat
      BY LenProperties DEF TypeOK
    <3> QED
      BY <2>1, <2>2, <3>1, ConstantsAssumption DEF TypeOK
  <2> QED
    BY <1>6, <2>3 DEF OpenError, TypeOK, ClientPC
<1>7. CASE CreatePipeAndServer(c)
  BY <1>7 DEF CreatePipeAndServer, TypeOK, ClientPC, ServerPC
<1>8. CASE Send(c)
  BY <1>8 DEF Send, TypeOK, ClientPC, serverVars
<1>9. CASE EndOfOutputLocal(c)
  BY <1>9 DEF EndOfOutputLocal, TypeOK, ClientPC, serverVars
<1>10. CASE LockBusyLast(c) \/ LockUnexpected(c) \/ ReopenRefused(c) \/ OpenTimesOut(c)
            \/ OpenErrorRefused(c) \/ CreateFails(c) \/ SendFails(c)
  BY <1>10, DepartType DEF LockBusyLast, LockUnexpected, ReopenRefused, OpenTimesOut,
       OpenErrorRefused, CreateFails, SendFails
<1>11. CASE EndOfOutput(c)
  <2>1. (IF code[c] = NotFound THEN 1 ELSE code[c]) \in {NotFound, 0, 1}
    BY <1>11 DEF EndOfOutput, TypeOK
  <2> QED
    BY <1>11, <2>1, DepartType DEF EndOfOutput
<1>12. CASE CompileLocally(c)
  BY <1>12, DepartType DEF CompileLocally, Truth
<1>13. CASE Kill(c)
  BY <1>13, DepartType DEF Kill
<1> QED
  BY <1>1, <1>2, <1>3, <1>4, <1>5, <1>6, <1>7, <1>8, <1>9, <1>10, <1>11, <1>12, <1>13
     DEF ClientStep, ClientFault

LEMMA ServerType ==
  ASSUME TypeOK, NEW s \in Servers, ServerStep(s) \/ ServerFault(s)
  PROVE  TypeOK'
<1>1. CASE AcceptInOut(s)
  <2>1. Head(inQ[s]) \in Peers /\ Tail(inQ[s]) \in Seq(Peers)
        /\ Len(Tail(inQ[s])) = Len(inQ[s]) - 1 /\ Len(inQ[s]) \in Nat
    BY <1>1, HeadTailProperties, LenProperties DEF AcceptInOut, TypeOK
  <2> QED
    BY <1>1, <2>1, ConstantsAssumption DEF AcceptInOut, TypeOK, ServerPC, clientVars
<1>2. CASE AcceptError(s)
  <2>1. Head(errQ[s]) \in Peers /\ Tail(errQ[s]) \in Seq(Peers)
        /\ Len(Tail(errQ[s])) = Len(errQ[s]) - 1 /\ Len(errQ[s]) \in Nat
    BY <1>2, HeadTailProperties, LenProperties DEF AcceptError, TypeOK
  <2> QED
    BY <1>2, <2>1, ConstantsAssumption DEF AcceptError, TypeOK, ServerPC, clientVars
<1>3. CASE ReadCommand(s)
  BY <1>3 DEF ReadCommand, TypeOK, ServerPC, Orphans, Requests, clientVars
<1>4. CASE WriteExitCode(s)
  BY <1>4 DEF WriteExitCode, RetCode, TypeOK, ServerPC
<1>5. CASE Disconnect(s)
  BY <1>5 DEF Disconnect, TypeOK, ServerPC, clientVars
<1>6. CASE CloseInOut(s)
  BY <1>6, ConstantsAssumption DEF CloseInOut, TypeOK, ServerPC, clientVars
<1>7. CASE CloseError(s)
  BY <1>7, ConstantsAssumption DEF CloseError, TypeOK, ServerPC, clientVars, Slots
<1>8. CASE CloseConnections(s)
  BY <1>8, ConstantsAssumption DEF CloseConnections, TypeOK, ServerPC, clientVars, Slots
<1>9. CASE Crash(s) \/ BrokenPipe(s)
  <2>1. PICK p \in {"none", "dieErr", "dieIn"} : spc' = [spc EXCEPT ![s] = p]
    BY <1>9 DEF Crash, BrokenPipe, LeftToClose
  <2>2. spc' \in [Servers -> ServerPC]
    BY <2>1 DEF TypeOK, ServerPC
  <2>3. Die(s)
    BY <1>9 DEF Crash, BrokenPipe
  <2>4. sslot' \in [Servers -> Slots]
    <3>1. 1 \in Slots
      BY ConstantsAssumption DEF Slots
    <3> QED
      BY <2>3, <3>1 DEF Die, TypeOK
  <2> QED
    BY <2>2, <2>3, <2>4 DEF Die, TypeOK, clientVars
<1> QED
  BY <1>1, <1>2, <1>3, <1>4, <1>5, <1>6, <1>7, <1>8, <1>9 DEF ServerStep, ServerFault

\* The values of the variables, and the backlog of the accept queues, are right
\* in every reachable state.
THEOREM TypeCorrect == Spec => []TypeOK
<1>1. Init => TypeOK
  BY ConstantsAssumption, EmptySeq
     DEF Init, TypeOK, ClientPC, ServerPC, Slots, Requests
<1>2. TypeOK /\ [Next]_vars => TypeOK'
  <2> SUFFICES ASSUME TypeOK, [Next]_vars
               PROVE  TypeOK'
    OBVIOUS
  <2>1. CASE UNCHANGED vars
    BY <2>1 DEF vars, TypeOK
  <2> QED
    BY <2>1, ClientType, ServerType DEF Next
<1> QED
  BY <1>1, <1>2, PTL DEF Spec

-----------------------------------------------------------------------------
(* Who is in an accept queue. *)

LEMMA QueuedEmpty == \A c : ~Queued(<<>>, c)
BY DEF Queued

LEMMA QueuedAppend ==
  ASSUME NEW q \in Seq(Peers), NEW c \in Peers, NEW d, Queued(Append(q, c), d)
  PROVE  d = c \/ Queued(q, d)
BY AppendProperties, LenProperties DEF Queued

LEMMA QueuedHeadTail ==
  ASSUME NEW q \in Seq(Peers), q # <<>>, NEW d, Head(q) = d \/ Queued(Tail(q), d)
  PROVE  Queued(q, d)
<1>1. /\ DOMAIN q = 1 .. Len(q) /\ Len(q) \in Nat \ {0} /\ Head(q) = q[1]
      /\ Tail(q) \in Seq(Peers) /\ Len(Tail(q)) = Len(q) - 1
      /\ \A i \in 1 .. Len(Tail(q)) : Tail(q)[i] = q[i + 1]
  BY HeadTailProperties, LenProperties, EmptySeq
<1>2. DOMAIN Tail(q) = 1 .. Len(q) - 1
  BY <1>1, LenProperties
<1>3. CASE Head(q) = d
  BY <1>1, <1>3 DEF Queued
<1>4. CASE Queued(Tail(q), d)
  <2>1. PICK i \in 1 .. Len(q) - 1 : Tail(q)[i] = d
    BY <1>2, <1>4 DEF Queued
  <2> QED
    BY <1>1, <2>1 DEF Queued
<1> QED
  BY <1>3, <1>4

\* A departing client leaves no connection of its own and disturbs no other.
LEMMA OrphanIsOther ==
  ASSUME TypeOK, NEW c \in Clients, NEW d \in Clients, NEW p, Orphan(c, p) = d
  PROVE  p = d /\ d # c
BY ConstantsAssumption DEF Orphan, Orphans, Requests, TypeOK

LEMMA OrphanQueued ==
  ASSUME TypeOK, NEW c \in Clients, NEW d \in Clients, NEW q,
         Queued([i \in DOMAIN q |-> Orphan(c, q[i])], d)
  PROVE  Queued(q, d) /\ d # c
<1>1. PICK i \in DOMAIN q : Orphan(c, q[i]) = d
  BY DEF Queued
<1> QED
  BY <1>1, OrphanIsOther DEF Queued

-----------------------------------------------------------------------------
(* The inductive invariant. *)

\* A run that ends as its command deserves, or in failure, keeps it.
LEMMA DepartInv ==
  ASSUME IInv, NEW c \in Clients, NEW r \in {NotFound, 0, 1},
         r = 0 => StickyEof \/ Truth(req[c]) = 0, Depart(c, r)
  PROVE  IInv'
<1> USE DEF IInv
<1>1. TypeOK'
  BY DepartType
<1>2. \A d \in Clients : d # c => /\ pc'[d] = pc[d] /\ slot'[d] = slot[d]
                                  /\ req'[d] = req[d] /\ code'[d] = code[d]
  BY DEF Depart, TypeOK
<1>3. pc'[c] = "idle" /\ code'[c] = r /\ req'[c] = req[c]
  BY DEF Depart, TypeOK
<1>4. LockInv'
  BY <1>1, <1>2, <1>3, ConstantsAssumption DEF LockInv, Depart, TypeOK, Holding
<1>5. \A s \in Servers, d \in Clients :
        /\ out'[s] = d \/ Queued(inQ'[s], d) => d # c /\ (out[s] = d \/ Queued(inQ[s], d))
        /\ err'[s] = d \/ Queued(errQ'[s], d) => d # c /\ (err[s] = d \/ Queued(errQ[s], d))
  BY OrphanIsOther, OrphanQueued DEF Depart
<1>6. ConnInv'
  BY <1>2, <1>5 DEF ConnInv, Depart
<1>7. ClosedInv'
  <2>1. Orphan(c, None) = None
    BY ConstantsAssumption DEF Orphan
  <2>2. \A q : q = <<>> => [i \in DOMAIN q |-> Orphan(c, q[i])] = <<>>
    OBVIOUS
  <2> QED
    BY <2>1, <2>2 DEF ClosedInv, Depart
<1>8. ASSUME JobInv PROVE JobInv'
  <2>1. \A s \in Servers : out'[s] \in Clients => out[s] = out'[s] /\ out[s] # c
    BY OrphanIsOther DEF Depart
  <2> QED
    BY <1>2, <1>3, <1>8, <2>1 DEF JobInv, Depart, Holding
<1>9. OneListener'
  BY DEF OneListener, ListensErr, Depart
<1>10. StickyEof \/ (AnswerIsOwn => AnswerIsOwn')
  BY <1>2, <1>3 DEF AnswerIsOwn
<1>11. AnswerInv'
  BY <1>8, <1>10 DEF AnswerInv
<1>12. EofInv'
  BY DEF EofInv, Depart
<1> QED
  BY <1>1, <1>4, <1>6, <1>7, <1>9, <1>11, <1>12

\* Every step of a client, and every fault of one, keeps it.
LEMMA ClientInv ==
  ASSUME IInv, NEW c \in Clients, Invoke(c) \/ ClientStep(c) \/ ClientFault(c)
  PROVE  IInv'
<1> USE DEF IInv
<1>0. TypeOK'
  BY ClientType
<1>14. EofInv'
  <2>1. CASE CreatePipeAndServer(c)
    BY <2>1 DEF CreatePipeAndServer, EofInv, TypeOK
  <2>2. CASE ~CreatePipeAndServer(c)
    <3>1. eof' = eof
      BY <2>2 DEF ClientStep, ClientFault, Invoke, ObtainLock, LockBusyNext, LockBusyLast,
         LockUnexpected, OpenInOut, OpenRefused, ReopenRefused, OpenError,
         OpenErrorRefused, CreateFails, Send, EndOfOutput, EndOfOutputLocal,
         CompileLocally, Kill, OpenTimesOut, SendFails, Depart, serverVars
    <3> QED
      BY <3>1 DEF EofInv
  <2> QED
    BY <2>1, <2>2
<1>1. CASE Invoke(c)
  <2>1. /\ \A d \in Clients \ {c} : /\ pc'[d] = pc[d] /\ req'[d] = req[d]
                                    /\ slot'[d] = slot[d] /\ code'[d] = code[d]
        /\ pc[c] = "idle" /\ pc'[c] \in {"local", "lock"} /\ code'[c] = NotFound
        /\ UNCHANGED <<lock, serverVars>>
    BY <1>1 DEF Invoke, TypeOK
  <2>2. LockInv'
    <3>1. \A k \in Slots : lock[k] # c
      BY <2>1 DEF LockInv, Holding
    <3>2. \A d \in Clients : pc'[d] \in Holding => d # c
      BY <2>1 DEF Holding
    <3>3. lock' = lock
      BY <2>1
    <3> QED
      BY <2>1, <3>1, <3>2, <3>3 DEF LockInv
  <2>3. ConnInv' /\ ClosedInv'
    <3>1. UNCHANGED <<spc, sslot, inQ, errQ, out, err>>
      BY <2>1 DEF serverVars
    <3>2. ConnInv'
      BY <2>1, <3>1 DEF ConnInv
    <3> QED
      BY <3>1, <3>2 DEF ClosedInv
  <2>4. ASSUME JobInv PROVE JobInv'
    <3>1. UNCHANGED <<spc, out, job>>
      BY <2>1 DEF serverVars
    <3>2. \A s \in Servers : spc[s] = "compile" /\ out[s] \in Clients => out[s] # c
      BY <2>1, <2>4 DEF JobInv
    <3> QED
      BY <2>1, <2>4, <3>1, <3>2 DEF JobInv, Holding
  <2>7. ASSUME AnswerIsOwn PROVE AnswerIsOwn'
    BY <2>1, <2>7 DEF AnswerIsOwn, NotFound
  <2>6. AnswerInv'
    BY <2>4, <2>7 DEF AnswerInv
  <2>5. OneListener'
    BY <2>1 DEF OneListener, ListensErr, serverVars
  <2> QED
    BY <1>0, <1>14, <2>2, <2>3, <2>5, <2>6
<1>2. CASE ObtainLock(c)
  <2>1. LockInv'
    BY <1>2, ConstantsAssumption DEF ObtainLock, LockInv, TypeOK, Holding
  <2>2. ConnInv' /\ ClosedInv'
    BY <1>2 DEF ObtainLock, ConnInv, ClosedInv, TypeOK, serverVars
  <2>3. AnswerInv'
    BY <1>2 DEF ObtainLock, AnswerInv, JobInv, AnswerIsOwn, TypeOK, Holding, serverVars
  <2>4. OneListener'
    BY <1>2 DEF ObtainLock, OneListener, ListensErr, serverVars
  <2> QED
    BY <1>0, <1>14, <2>1, <2>2, <2>3, <2>4
<1>3. CASE LockBusyNext(c)
  <2>1. LockInv'
    BY <1>3 DEF LockBusyNext, LockInv, TypeOK, Holding
  <2>2. ConnInv' /\ ClosedInv'
    BY <1>3 DEF LockBusyNext, ConnInv, ClosedInv, TypeOK, serverVars
  <2>3. AnswerInv'
    BY <1>3 DEF LockBusyNext, AnswerInv, JobInv, AnswerIsOwn, serverVars
  <2>4. OneListener'
    BY <1>3 DEF LockBusyNext, OneListener, ListensErr, serverVars
  <2> QED
    BY <1>0, <1>14, <2>1, <2>2, <2>3, <2>4
<1>4. CASE OpenInOut(c)
  <2>1. PICK s \in Servers : /\ ListensIn(s, slot[c])
                             /\ inQ' = [inQ EXCEPT ![s] = Append(@, c)]
    BY <1>4 DEF OpenInOut
  <2>2. \A t \in Servers, d \in Clients : Queued(inQ'[t], d) =>
          Queued(inQ[t], d) \/ (t = s /\ d = c)
    BY <2>1, QueuedAppend DEF TypeOK, Peers
  <2>3. LockInv'
    BY <1>4 DEF OpenInOut, LockInv, TypeOK, Holding
  <2>4. ConnInv'
    BY <1>4, <2>1, <2>2 DEF OpenInOut, ConnInv, ListensIn, TypeOK
  <2>5. ClosedInv'
    BY <1>4, <2>1 DEF OpenInOut, ClosedInv, ListensIn, TypeOK
  <2>6. AnswerInv'
    BY <1>4 DEF OpenInOut, AnswerInv, JobInv, AnswerIsOwn, TypeOK, Holding
  <2>7. OneListener'
    BY <1>4 DEF OpenInOut, OneListener, ListensErr
  <2> QED
    BY <1>0, <1>14, <2>3, <2>4, <2>5, <2>6, <2>7
<1>5. CASE OpenRefused(c)
  <2>1. LockInv'
    BY <1>5 DEF OpenRefused, LockInv, TypeOK, Holding
  <2>2. ConnInv' /\ ClosedInv'
    BY <1>5 DEF OpenRefused, ConnInv, ClosedInv, TypeOK, serverVars
  <2>3. AnswerInv'
    BY <1>5 DEF OpenRefused, AnswerInv, JobInv, AnswerIsOwn, TypeOK, Holding, serverVars
  <2>4. OneListener'
    BY <1>5 DEF OpenRefused, OneListener, ListensErr, serverVars
  <2> QED
    BY <1>0, <1>14, <2>1, <2>2, <2>3, <2>4
<1>6. CASE OpenError(c)
  <2>1. PICK s \in Servers : /\ ListensErr(s, slot[c])
                             /\ errQ' = [errQ EXCEPT ![s] = Append(@, c)]
    BY <1>6 DEF OpenError
  <2>2. \A t \in Servers, d \in Clients : Queued(errQ'[t], d) =>
          Queued(errQ[t], d) \/ (t = s /\ d = c)
    BY <2>1, QueuedAppend DEF TypeOK, Peers
  <2>3. LockInv'
    BY <1>6 DEF OpenError, LockInv, TypeOK, Holding
  <2>4. ConnInv'
    BY <1>6, <2>1, <2>2 DEF OpenError, ConnInv, ListensErr, TypeOK
  <2>5. ClosedInv'
    BY <1>6, <2>1 DEF OpenError, ClosedInv, ListensErr, TypeOK
  <2>6. AnswerInv'
    BY <1>6 DEF OpenError, AnswerInv, JobInv, AnswerIsOwn, TypeOK, Holding
  <2>7. OneListener'
    BY <1>6 DEF OpenError, OneListener, ListensErr
  <2> QED
    BY <1>0, <1>14, <2>3, <2>4, <2>5, <2>6, <2>7
<1>7. CASE CreatePipeAndServer(c)
  <2>1. PICK s \in Servers : /\ spc[s] = "none"
                             /\ spc' = [spc EXCEPT ![s] = "acceptIn"]
                             /\ sslot' = [sslot EXCEPT ![s] = slot[c]]
    BY <1>7 DEF CreatePipeAndServer
  <2>2. LockInv'
    BY <1>7 DEF CreatePipeAndServer, LockInv, TypeOK, Holding
  <2>3. ConnInv'
    <3>1. out[s] = None /\ err[s] = None /\ inQ[s] = <<>> /\ errQ[s] = <<>>
      BY <2>1 DEF ClosedInv
    <3>2. \A d \in Clients : d # None /\ ~Queued(<<>>, d)
      BY QueuedEmpty, ConstantsAssumption
    <3> QED
      BY <1>7, <2>1, <3>1, <3>2 DEF CreatePipeAndServer, ConnInv, TypeOK
  <2>4. ClosedInv'
    BY <1>7, <2>1 DEF CreatePipeAndServer, ClosedInv, TypeOK
  <2>5. AnswerInv'
    BY <1>7, <2>1 DEF CreatePipeAndServer, AnswerInv, JobInv, AnswerIsOwn, TypeOK, Holding
  <2>6. OneListener'
    BY <1>7, <2>1 DEF CreatePipeAndServer, PortsFree, OneListener, ListensErr, TypeOK
  <2> QED
    BY <1>0, <1>14, <2>2, <2>3, <2>4, <2>5, <2>6
<1>8. CASE Send(c)
  <2>1. LockInv'
    BY <1>8 DEF Send, LockInv, TypeOK, Holding
  <2>2. ConnInv' /\ ClosedInv'
    BY <1>8 DEF Send, ConnInv, ClosedInv, TypeOK, serverVars
  <2>3. AnswerInv'
    BY <1>8 DEF Send, AnswerInv, JobInv, AnswerIsOwn, TypeOK, Holding, serverVars
  <2>4. OneListener'
    BY <1>8 DEF Send, OneListener, ListensErr, serverVars
  <2> QED
    BY <1>0, <1>14, <2>1, <2>2, <2>3, <2>4
<1>9. CASE EndOfOutputLocal(c)
  <2>1. LockInv'
    BY <1>9, ConstantsAssumption DEF EndOfOutputLocal, LockInv, TypeOK, Holding
  <2>2. ConnInv' /\ ClosedInv'
    BY <1>9 DEF EndOfOutputLocal, InConnected, ErrConnected, ConnInv, ClosedInv, TypeOK,
         serverVars
  <2>3. AnswerInv'
    BY <1>9 DEF EndOfOutputLocal, InConnected, AnswerInv, JobInv, AnswerIsOwn, TypeOK, Holding,
         serverVars
  <2>4. OneListener'
    BY <1>9 DEF EndOfOutputLocal, OneListener, ListensErr, serverVars
  <2> QED
    BY <1>0, <1>14, <2>1, <2>2, <2>3, <2>4
<1>10. CASE LockBusyLast(c) \/ LockUnexpected(c) \/ ReopenRefused(c) \/ OpenTimesOut(c)
            \/ OpenErrorRefused(c) \/ CreateFails(c) \/ SendFails(c)
  BY <1>10, DepartInv DEF LockBusyLast, LockUnexpected, ReopenRefused, OpenTimesOut,
       OpenErrorRefused, CreateFails, SendFails
<1>11. CASE EndOfOutput(c)
  <2>1. (IF code[c] = NotFound THEN 1 ELSE code[c]) \in {NotFound, 0, 1}
    BY <1>11 DEF EndOfOutput, TypeOK
  <2>2. code[c] = 0 => StickyEof \/ Truth(req[c]) = 0
    BY <1>11 DEF EndOfOutput, AnswerInv, AnswerIsOwn, RetCode, Truth, NotFound
  <2> QED
    BY <1>11, <2>1, <2>2, DepartInv DEF EndOfOutput
<1>12. CASE CompileLocally(c)
  BY <1>12, DepartInv DEF CompileLocally, Truth
<1>13. CASE Kill(c)
  BY <1>13, DepartInv DEF Kill, NotFound
<1> QED
  BY <1>1, <1>2, <1>3, <1>4, <1>5, <1>6, <1>7, <1>8, <1>9, <1>10, <1>11, <1>12, <1>13
     DEF ClientStep, ClientFault

\* Every step of a server, and every fault of one, keeps it.
LEMMA ServerInv ==
  ASSUME IInv, NEW s \in Servers, ServerStep(s) \/ ServerFault(s)
  PROVE  IInv'
<1> USE DEF IInv
<1>0. TypeOK'
  BY ServerType
<1>14. EofInv'
  <2>1. CASE ReadCommand(s)
    BY <2>1 DEF ReadCommand, EofInv, TypeOK
  <2>2. CASE ~ReadCommand(s)
    <3>1. eof' = eof
      BY <2>2 DEF ServerStep, ServerFault, AcceptInOut, AcceptError, WriteExitCode,
         Disconnect, CloseInOut, CloseError, CloseConnections, Crash, BrokenPipe, Die
    <3> QED
      BY <3>1 DEF EofInv
  <2> QED
    BY <2>1, <2>2
<1>1. CASE AcceptInOut(s)
  <2>1. \A d \in Clients : out'[s] = d \/ Queued(inQ'[s], d) => Queued(inQ[s], d)
    BY <1>1, QueuedHeadTail DEF AcceptInOut, TypeOK
  <2>2. ConnInv'
    BY <1>1, <2>1 DEF AcceptInOut, ConnInv, TypeOK, clientVars
  <2>3. ClosedInv'
    BY <1>1 DEF AcceptInOut, ClosedInv, TypeOK
  <2>4. LockInv' /\ AnswerInv'
    BY <1>1 DEF AcceptInOut, LockInv, AnswerInv, JobInv, AnswerIsOwn, TypeOK, clientVars
  <2>5. OneListener'
    BY <1>1 DEF AcceptInOut, OneListener, ListensErr, TypeOK
  <2> QED
    BY <1>0, <1>14, <2>2, <2>3, <2>4, <2>5
<1>2. CASE AcceptError(s)
  <2>1. \A d \in Clients : err'[s] = d \/ Queued(errQ'[s], d) => Queued(errQ[s], d)
    BY <1>2, QueuedHeadTail DEF AcceptError, TypeOK
  <2>2. ConnInv'
    BY <1>2, <2>1 DEF AcceptError, ConnInv, TypeOK, clientVars
  <2>3. ClosedInv'
    BY <1>2 DEF AcceptError, ClosedInv, TypeOK
  <2>4. LockInv' /\ AnswerInv'
    BY <1>2 DEF AcceptError, LockInv, AnswerInv, JobInv, AnswerIsOwn, TypeOK, clientVars
  <2>5. OneListener'
    BY <1>2 DEF AcceptError, OneListener, ListensErr, TypeOK
  <2> QED
    BY <1>0, <1>14, <2>2, <2>3, <2>4, <2>5
<1>3. CASE ReadCommand(s)
  <2>1. ConnInv' /\ ClosedInv'
    BY <1>3 DEF ReadCommand, ConnInv, ClosedInv, TypeOK, clientVars
  <2>2. LockInv' /\ (AnswerIsOwn => AnswerIsOwn')
    BY <1>3 DEF ReadCommand, LockInv, AnswerIsOwn, clientVars
  <2>3. ASSUME ~StickyEof, JobInv PROVE JobInv'
    BY <1>3, <2>3, ConstantsAssumption DEF ReadCommand, JobInv, EofInv, TypeOK, clientVars
  <2>5. AnswerInv'
    BY <2>2, <2>3 DEF AnswerInv
  <2>4. OneListener'
    BY <1>3 DEF ReadCommand, OneListener, ListensErr, TypeOK
  <2> QED
    BY <1>0, <1>14, <2>1, <2>2, <2>4, <2>5
<1>4. CASE WriteExitCode(s)
  <2>1. PICK p \in {"disconnect", "closeIn"} : spc' = [spc EXCEPT ![s] = p]
    BY <1>4 DEF WriteExitCode
  <2>2. ConnInv' /\ ClosedInv' /\ LockInv'
    BY <1>4, <2>1 DEF WriteExitCode, ConnInv, ClosedInv, LockInv, TypeOK
  <2>3. ASSUME JobInv PROVE JobInv'
    BY <1>4, <2>1, <2>3 DEF WriteExitCode, JobInv, TypeOK, Holding
  <2>6. ASSUME JobInv, AnswerIsOwn PROVE AnswerIsOwn'
    BY <1>4, <2>6 DEF WriteExitCode, AnswerIsOwn, JobInv, TypeOK
  <2>4. AnswerInv'
    BY <2>3, <2>6 DEF AnswerInv
  <2>5. OneListener'
    BY <1>4, <2>1 DEF WriteExitCode, OneListener, ListensErr, TypeOK
  <2> QED
    BY <1>0, <1>14, <2>2, <2>3, <2>4, <2>5
<1>5. CASE Disconnect(s)
  <2>1. \A d \in Clients : d # None
    BY ConstantsAssumption
  <2>2. ConnInv'
    BY <1>5, <2>1 DEF Disconnect, ConnInv, TypeOK, clientVars
  <2>3. ClosedInv' /\ LockInv' /\ AnswerInv'
    BY <1>5 DEF Disconnect, ClosedInv, LockInv, AnswerInv, JobInv, AnswerIsOwn, TypeOK, clientVars
  <2>4. OneListener'
    BY <1>5 DEF Disconnect, OneListener, ListensErr, TypeOK
  <2> QED
    BY <1>0, <1>14, <2>2, <2>3, <2>4
<1>6. CASE CloseInOut(s)
  <2>1. PICK p \in {"closeErr", "dieErr"} : /\ spc' = [spc EXCEPT ![s] = p]
                                            /\ p = "dieErr" => spc[s] = "dieIn"
    BY <1>6 DEF CloseInOut, TypeOK
  <2>2. ConnInv'
    BY <1>6, QueuedEmpty DEF CloseInOut, ConnInv, TypeOK, clientVars
  <2>3. ClosedInv'
    BY <1>6, <2>1 DEF CloseInOut, ClosedInv, TypeOK
  <2>4. LockInv' /\ AnswerInv'
    BY <1>6, <2>1 DEF CloseInOut, LockInv, AnswerInv, JobInv, AnswerIsOwn, TypeOK, clientVars
  <2>5. OneListener'
    BY <1>6, <2>1 DEF CloseInOut, OneListener, ListensErr, TypeOK
  <2> QED
    BY <1>0, <1>14, <2>2, <2>3, <2>4, <2>5
<1>7. CASE CloseError(s)
  <2>1. PICK p \in {"closeConn", "none"} :
          /\ spc' = [spc EXCEPT ![s] = p]
          /\ p = "none" => spc[s] = "dieErr"
          /\ p = "closeConn" => spc[s] = "closeErr" /\ sslot' = sslot
    BY <1>7 DEF CloseError, TypeOK
  <2>2. ClosedInv'
    BY <1>7, <2>1 DEF CloseError, ClosedInv, TypeOK
  <2>3. ConnInv'
    <3>1. \A d \in Clients : d # None
      BY ConstantsAssumption
    <3>2. CASE p = "closeConn"
      BY <1>7, <2>1, <3>2, QueuedEmpty DEF CloseError, ConnInv, TypeOK, clientVars
    <3>3. CASE p = "none"
      <4>1. out[s] = None /\ err[s] = None /\ inQ[s] = <<>> /\ errQ'[s] = <<>>
        BY <1>7, <2>1, <3>3 DEF CloseError, ClosedInv, TypeOK
      <4> QED
        BY <1>7, <3>1, <4>1, QueuedEmpty DEF CloseError, ConnInv, TypeOK, clientVars
    <3> QED
      BY <2>1, <3>2, <3>3
  <2>4. LockInv' /\ AnswerInv'
    BY <1>7, <2>1 DEF CloseError, LockInv, AnswerInv, JobInv, AnswerIsOwn, TypeOK, clientVars
  <2>5. OneListener'
    BY <1>7, <2>1 DEF CloseError, OneListener, ListensErr, TypeOK
  <2> QED
    BY <1>0, <1>14, <2>2, <2>3, <2>4, <2>5
<1>8. CASE CloseConnections(s)
  <2>1. ClosedInv'
    BY <1>8 DEF CloseConnections, ClosedInv, TypeOK
  <2>2. ConnInv'
    <3>1. inQ[s] = <<>> /\ errQ[s] = <<>>
      BY <1>8 DEF CloseConnections, ClosedInv
    <3>2. \A d \in Clients : d # None
      BY ConstantsAssumption
    <3> QED
      BY <1>8, <3>1, <3>2, QueuedEmpty DEF CloseConnections, ConnInv, TypeOK, clientVars
  <2>3. LockInv' /\ AnswerInv'
    BY <1>8 DEF CloseConnections, LockInv, AnswerInv, JobInv, AnswerIsOwn, TypeOK, clientVars
  <2>4. OneListener'
    BY <1>8 DEF CloseConnections, OneListener, ListensErr, TypeOK
  <2> QED
    BY <1>0, <1>14, <2>1, <2>2, <2>3, <2>4
<1>9. CASE Crash(s) \/ BrokenPipe(s)
  <2>1. PICK p \in {"none", "dieErr", "dieIn"} :
          /\ spc' = [spc EXCEPT ![s] = p]
          /\ p = "none" => spc[s] = "closeConn"
          /\ p = "dieErr" => spc[s] = "closeErr"
          /\ p # "none" => spc[s] \notin {"none", "closeConn"}
    <3>1. spc[s] # "none"
      BY <1>9, ConstantsAssumption DEF Crash, BrokenPipe
    <3>2. spc[s] # "closeConn" => spc'[s] # "none"
      BY <1>9 DEF Crash, BrokenPipe, LeftToClose, TypeOK
    <3> QED
      BY <1>9, <3>1, <3>2 DEF Crash, BrokenPipe, LeftToClose, TypeOK
  <2>2. Die(s)
    BY <1>9 DEF Crash, BrokenPipe
  <2>3. ClosedInv'
    BY <2>1, <2>2 DEF Die, ClosedInv, TypeOK
  <2>4. ConnInv'
    <3>1. \A d \in Clients : d # None
      BY ConstantsAssumption
    <3>2. CASE p = "none"
      <4>1. inQ[s] = <<>> /\ errQ[s] = <<>>
        BY <2>1, <3>2 DEF ClosedInv
      <4> QED
        BY <2>2, <3>1, <4>1, QueuedEmpty DEF Die, ConnInv, TypeOK, clientVars
    <3>3. CASE p # "none"
      <4>1. sslot' = sslot
        BY <2>1, <2>2, <3>3 DEF Die, TypeOK
      <4> QED
        BY <2>2, <3>1, <4>1 DEF Die, ConnInv, TypeOK, clientVars
    <3> QED
      BY <3>2, <3>3
  <2>5. LockInv' /\ AnswerInv'
    BY <2>1, <2>2 DEF Die, LockInv, AnswerInv, JobInv, AnswerIsOwn, TypeOK, clientVars
  <2>6. OneListener'
    BY <2>1, <2>2 DEF Die, OneListener, ListensErr, TypeOK
  <2> QED
    BY <1>0, <1>14, <2>3, <2>4, <2>5, <2>6
<1> QED
  BY <1>1, <1>2, <1>3, <1>4, <1>5, <1>6, <1>7, <1>8, <1>9 DEF ServerStep, ServerFault

LEMMA InitInv == Init => IInv
<1> SUFFICES ASSUME Init PROVE IInv
  OBVIOUS
<1>1. TypeOK
  BY ConstantsAssumption, EmptySeq
     DEF Init, TypeOK, ClientPC, ServerPC, Slots, Requests
<1>2. \A c \in Clients : c # None
  BY ConstantsAssumption
<1>3. LockInv /\ ConnInv /\ ClosedInv
  BY <1>2, QueuedEmpty DEF Init, LockInv, ConnInv, ClosedInv, Holding
<1>4. OneListener /\ EofInv /\ AnswerInv
  BY DEF Init, OneListener, ListensErr, EofInv, AnswerInv, JobInv, AnswerIsOwn,
     Holding, Truth
<1> QED
  BY <1>1, <1>3, <1>4 DEF IInv

LEMMA NextInv == IInv /\ [Next]_vars => IInv'
<1> SUFFICES ASSUME IInv, [Next]_vars PROVE IInv'
  OBVIOUS
<1>1. CASE UNCHANGED vars
  BY <1>1 DEF vars, IInv, TypeOK, LockInv, ConnInv, ClosedInv, OneListener, EofInv,
       AnswerInv, JobInv, ListensErr, AnswerIsOwn, Queued
<1> QED
  BY <1>1, ClientInv, ServerInv DEF Next

\* Two clients past the lock of a slot are one.
LEMMA OneHolder ==
  ASSUME IInv, NEW c \in Clients, NEW d \in Clients,
         pc[c] \in Holding, pc[d] \in Holding, slot[c] = slot[d]
  PROVE  c = d
BY DEF IInv, LockInv

\* Every reachable state satisfies the inductive invariant.
THEOREM Inductive == Spec => []IInv
BY InitInv, NextInv, PTL DEF Spec

LEMMA ConnectedFromInv == IInv => ConnectedHoldsLock
BY DEF IInv, ConnectedHoldsLock, ConnInv, LockInv, Holding

\* Whatever client is killed and whatever server crashes, in whatever order, a
\* live client that a server of some slot has queued or accepted holds that
\* slot's lock: closing connections before releasing the lock is enough.
THEOREM ConnectedClientsHoldLocks == Spec => []ConnectedHoldsLock
BY Inductive, ConnectedFromInv, PTL

\* No two server processes ever listen on the port pair of one slot.
THEOREM ListenersAreUnique == Spec => []OneListener
<1>1. IInv => OneListener
  BY DEF IInv
<1> QED
  BY <1>1, Inductive, PTL

\* Where the C library lets stdin come back from end of file, no client ever
\* reads the exit code of another client's command, and no run reports success
\* for a command that does not compile.
THEOREM AnswersAreOwn == ASSUME ~StickyEof PROVE Spec => []AnswerIsOwn
<1>1. IInv => AnswerIsOwn
  BY DEF IInv, AnswerInv
<1> QED
  BY <1>1, Inductive, PTL

-----------------------------------------------------------------------------
(* The session implements the compile farm. *)

LEMMA DepartEndsRun ==
  ASSUME TypeOK, NEW c \in Clients, NEW r, Depart(c, r)
  PROVE  Farm!End(c, r)
<1>1. FarmPhase' = [FarmPhase EXCEPT ![c] = "idle"]
  BY DEF Depart, TypeOK, FarmPhase
<1>2. FarmStatus' = [FarmStatus EXCEPT ![c] = r]
  BY DEF Depart, TypeOK, FarmStatus
<1> QED
  BY <1>1, <1>2 DEF Depart, Farm!End, Farm!FreeSlots

LEMMA FarmStutter ==
  ASSUME TypeOK, UNCHANGED <<req, lock>>,
         \A c \in Clients : /\ FarmPhase'[c] = FarmPhase[c]
                            /\ FarmStatus'[c] = FarmStatus[c]
  PROVE  UNCHANGED Farm!farmVars
<1>1. FarmPhase' = FarmPhase
  BY DEF FarmPhase
<1>2. FarmStatus' = FarmStatus
  BY DEF FarmStatus
<1> QED
  BY <1>1, <1>2 DEF Farm!farmVars

\* A step of a client is a step of its run, or invisible.
LEMMA ClientRefines ==
  ASSUME ~StickyEof, IInv, NEW c \in Clients, Invoke(c) \/ ClientStep(c) \/ ClientFault(c)
  PROVE  Farm!FarmNext \/ UNCHANGED Farm!farmVars
<1> USE DEF IInv, AnswerInv
<1>1. CASE Invoke(c)
  <2>1. PICK r \in Requests :
          /\ pc' = [pc EXCEPT ![c] = IF r = "clang" THEN "local" ELSE "lock"]
          /\ req' = [req EXCEPT ![c] = r]
    BY <1>1, ConstantsAssumption DEF Invoke
  <2>2. FarmPhase' = [FarmPhase EXCEPT ![c] = IF r \in {"clang"} THEN "alone" ELSE "asking"]
    BY <2>1 DEF FarmPhase, TypeOK
  <2>3. FarmStatus' = [FarmStatus EXCEPT ![c] = NotFound]
    BY <1>1, <2>1 DEF Invoke, FarmStatus, TypeOK
  <2>4. FarmPhase[c] = "idle" /\ lock' = lock
    BY <1>1 DEF Invoke, FarmPhase
  <2>5. Farm!Start(c)
    BY <2>1, <2>2, <2>3, <2>4 DEF Farm!Start
  <2> QED
    BY <2>5 DEF Farm!FarmNext
<1>2. CASE ObtainLock(c)
  <2>1. FarmPhase[c] = "asking"
    BY <1>2 DEF ObtainLock, FarmPhase
  <2>2. FarmPhase' = [FarmPhase EXCEPT ![c] = "using"]
    BY <1>2 DEF ObtainLock, FarmPhase, TypeOK
  <2>3. FarmStatus' = FarmStatus
    BY <1>2 DEF ObtainLock, FarmStatus, TypeOK
  <2>4. slot[c] \in Slots /\ lock[slot[c]] = None /\ lock' = [lock EXCEPT ![slot[c]] = c]
        /\ req' = req
    BY <1>2 DEF ObtainLock, TypeOK
  <2>5. Farm!Claim(c)
    BY <2>1, <2>2, <2>3, <2>4 DEF Farm!Claim
  <2> QED
    BY <2>5 DEF Farm!FarmNext
<1>3. CASE \/ LockBusyNext(c) \/ OpenInOut(c) \/ OpenRefused(c) \/ OpenError(c)
           \/ CreatePipeAndServer(c) \/ Send(c)
  <2>1. /\ req' = req /\ lock' = lock /\ code' = code
        /\ \A d \in Clients : d # c => pc'[d] = pc[d]
        /\ pc[c] = "lock" => pc'[c] = "lock"
        /\ pc[c] # "lock" => /\ pc[c] \in Holding
                             /\ pc'[c] \in Holding
    BY <1>3 DEF LockBusyNext, OpenInOut, OpenRefused, OpenError, CreatePipeAndServer,
         Send, Holding, TypeOK
  <2>2. \A d \in Clients : FarmPhase'[d] = FarmPhase[d] /\ FarmStatus'[d] = FarmStatus[d]
    BY <2>1 DEF FarmPhase, FarmStatus, Holding
  <2> QED
    BY <2>1, <2>2, FarmStutter
<1>4. CASE \/ LockBusyLast(c) \/ LockUnexpected(c) \/ ReopenRefused(c) \/ OpenTimesOut(c)
           \/ OpenErrorRefused(c) \/ CreateFails(c) \/ SendFails(c)
           \/ EndOfOutput(c) /\ code[c] = NotFound
  <2>1. Depart(c, 1) /\ FarmPhase[c] \in {"asking", "using"}
    BY <1>4 DEF LockBusyLast, LockUnexpected, ReopenRefused, OpenTimesOut,
         OpenErrorRefused, CreateFails, SendFails, EndOfOutput, FarmPhase
  <2>2. Farm!GiveUp(c)
    BY <2>1, DepartEndsRun DEF Farm!GiveUp
  <2> QED
    BY <2>2 DEF Farm!FarmNext
<1>5. CASE EndOfOutput(c) /\ code[c] # NotFound
  <2>1. code[c] = RetCode(req[c]) /\ req[c] \in Requests
    BY <1>5 DEF EndOfOutput, AnswerIsOwn, TypeOK
  <2>2. req[c] # "dnz" /\ code[c] = Truth(req[c])
    BY <1>5, <2>1 DEF EndOfOutput, RetCode, Truth
  <2>3. Depart(c, Truth(req[c])) /\ FarmPhase[c] = "using"
    BY <1>5, <2>2 DEF EndOfOutput, FarmPhase
  <2>4. Farm!Answer(c)
    BY <2>1, <2>2, <2>3, DepartEndsRun DEF Farm!Answer
  <2> QED
    BY <2>4 DEF Farm!FarmNext
<1>6. CASE EndOfOutputLocal(c)
  <2>1. req[c] = "dnz"
    <3>1. pc[c] = "wait" /\ code[c] = 2
      BY <1>6 DEF EndOfOutputLocal
    <3>2. RetCode(req[c]) = 2
      BY <3>1 DEF AnswerIsOwn, NotFound
    <3> QED
      BY <3>2 DEF RetCode
  <2>2. FarmPhase[c] = "using" /\ FarmPhase' = [FarmPhase EXCEPT ![c] = "alone"]
    BY <1>6 DEF EndOfOutputLocal, FarmPhase, TypeOK
  <2>3. FarmStatus' = FarmStatus /\ req' = req
    BY <1>6 DEF EndOfOutputLocal, FarmStatus, TypeOK
  <2>4. lock' = [k \in Slots |-> IF lock[k] = c THEN None ELSE lock[k]]
    <3>1. lock' = [lock EXCEPT ![slot[c]] = None] /\ pc[c] = "wait"
      BY <1>6 DEF EndOfOutputLocal
    <3>2. lock[slot[c]] = c /\ \A k \in Slots : lock[k] = c => k = slot[c]
      BY <3>1 DEF LockInv, Holding
    <3>3. slot[c] \in Slots /\ lock = [k \in Slots |-> lock[k]]
      BY DEF TypeOK
    <3> HIDE DEF IInv
    <3> QED
      BY <3>1, <3>2, <3>3
  <2>5. Farm!Decline(c)
    BY <2>1, <2>2, <2>3, <2>4 DEF Farm!Decline, Farm!FreeSlots
  <2> QED
    BY <2>5 DEF Farm!FarmNext
<1>7. CASE CompileLocally(c)
  <2>1. Depart(c, Truth(req[c])) /\ FarmPhase[c] = "alone" /\ req[c] \in Requests
    BY <1>7 DEF CompileLocally, FarmPhase, TypeOK
  <2>2. Farm!Answer(c)
    BY <2>1, DepartEndsRun DEF Farm!Answer
  <2> QED
    BY <2>2 DEF Farm!FarmNext
<1>8. CASE Kill(c)
  <2>1. Depart(c, NotFound) /\ pc[c] # "idle"
    BY <1>8, ConstantsAssumption DEF Kill
  <2>2. Farm!Abort(c)
    BY <2>1, DepartEndsRun DEF Farm!Abort, FarmPhase
  <2> QED
    BY <2>2 DEF Farm!FarmNext
<1> QED
  BY <1>1, <1>2, <1>3, <1>4, <1>5, <1>6, <1>7, <1>8 DEF ClientStep, ClientFault

\* Servers are invisible.
LEMMA ServerRefines ==
  ASSUME ~StickyEof, IInv, NEW s \in Servers, ServerStep(s) \/ ServerFault(s)
  PROVE  UNCHANGED Farm!farmVars
<1> USE DEF IInv, AnswerInv
<1>1. pc' = pc /\ req' = req /\ lock' = lock
  BY DEF ServerStep, ServerFault, AcceptInOut, AcceptError, ReadCommand, WriteExitCode,
     Disconnect, CloseInOut, CloseError, CloseConnections, Crash, BrokenPipe, Die, clientVars
<1>2. \A c \in Clients : pc[c] = "idle" => code'[c] = code[c]
  <2>1. CASE WriteExitCode(s)
    BY <2>1 DEF WriteExitCode, JobInv, TypeOK
  <2>2. CASE ~WriteExitCode(s)
    BY <2>2 DEF ServerStep, ServerFault, AcceptInOut, AcceptError, ReadCommand,
       Disconnect, CloseInOut, CloseError, CloseConnections, Crash, BrokenPipe, Die,
       clientVars
  <2> QED
    BY <2>1, <2>2
<1>3. \A c \in Clients : FarmPhase'[c] = FarmPhase[c] /\ FarmStatus'[c] = FarmStatus[c]
  BY <1>1, <1>2 DEF FarmPhase, FarmStatus
<1> QED
  BY <1>1, <1>3, FarmStutter

\* The session, with its locks, ports, servers, kills and crashes, behaves as the
\* abstract farm of exclusive, truthful compile slots.
THEOREM SessionImplementsFarm == ASSUME ~StickyEof PROVE Spec => ImplementsFarm
<1>1. Init => Farm!FarmInit
  <2> SUFFICES ASSUME Init PROVE Farm!FarmInit
    OBVIOUS
  <2>1. FarmPhase \in [Clients -> {"idle"}]
    BY DEF Init, FarmPhase
  <2>2. FarmStatus = [c \in Clients |-> 0]
    BY DEF Init, FarmStatus
  <2>3. req \in [Clients -> {r \in Requests : [q \in Requests |-> Truth(q)][r] = 0}]
    BY DEF Init, Requests, Truth
  <2> QED
    BY <2>1, <2>2, <2>3 DEF Init, Farm!FarmInit
<1>2. IInv /\ [Next]_vars => [Farm!FarmNext]_(Farm!farmVars)
  <2> SUFFICES ASSUME IInv, [Next]_vars
               PROVE  Farm!FarmNext \/ UNCHANGED Farm!farmVars
    OBVIOUS
  <2>1. CASE UNCHANGED vars
    BY <2>1, FarmStutter DEF vars, FarmPhase, FarmStatus, IInv
  <2> QED
    BY <2>1, ClientRefines, ServerRefines DEF Next
<1> QED
  BY <1>1, <1>2, Inductive, PTL DEF Spec, ImplementsFarm, Farm!FarmSpec

=============================================================================
