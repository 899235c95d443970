---------------------- MODULE ZapccSessionQuiet_proofs ----------------------
(***************************************************************************)
(* Proofs about a build nobody disturbs: no process is killed.             *)
(***************************************************************************)
EXTENDS ZapccSession_proofs, FiniteSetTheorems

Quiet == KillAt = {} /\ CrashAt = {}

-----------------------------------------------------------------------------
(* A server and the client it has. *)

LEMMA EngagedFacts ==
  ASSUME NEW s \in Servers, NEW c \in Clients, Engaged(s, c)
  PROVE  /\ spc[s] \in {"acceptIn", "acceptErr", "read", "compile", "disconnect", "closeIn",
                        "closeErr", "closeConn"}
         /\ ~Idle(s) /\ InConnected(c) /\ slot[c] = sslot[s]
         /\ pc[c] \in Holding /\ pc[c] \notin {"open", "create", "reopen"}
BY DEF Engaged, Connecting, Serving, Idle, InConnected, Queued, Holding

LEMMA EngagedOnce ==
  ASSUME ClosedInv, NEW s \in Servers, NEW c \in Clients, NEW d \in Clients,
         Engaged(s, c), Engaged(s, d)
  PROVE  c = d
BY DEF Engaged, Connecting, Serving

LEMMA EngagedFrame ==
  ASSUME NEW s \in Servers, NEW c \in Clients, Engaged(s, c),
         spc'[s] = spc[s], sslot'[s] = sslot[s], inQ'[s] = inQ[s], errQ'[s] = errQ[s],
         out'[s] = out[s], err'[s] = err[s], job'[s] = job[s],
         pc'[c] = pc[c], slot'[c] = slot[c], req'[c] = req[c], code'[c] = code[c]
  PROVE  Engaged(s, c)'
BY DEF Engaged, Connecting, Serving

LEMMA IdleFrame ==
  ASSUME NEW s \in Servers, Idle(s), spc'[s] = spc[s], inQ'[s] = inQ[s],
         errQ'[s] = errQ[s], out'[s] = out[s], err'[s] = err[s]
  PROVE  Idle(s)'
BY DEF Idle

\* A server at the slot of a client that has not connected to it is idle.
LEMMA IdleForNewcomer ==
  ASSUME IInv, QuietInv, NEW c \in Clients, pc[c] \in {"open", "create", "reopen"},
         NEW s \in Servers, spc[s] # "none", sslot[s] = slot[c]
  PROVE  Idle(s)
<1>1. ASSUME NEW d \in Clients, Engaged(s, d) PROVE FALSE
  <2>1. d = c
    BY <1>1, EngagedFacts, OneHolder DEF Holding
  <2> QED
    BY <1>1, <2>1, EngagedFacts
<1> QED
  BY <1>1 DEF QuietInv

-----------------------------------------------------------------------------
(* The steps. *)

\* A client that no server has goes where none needs to have it.
LEMMA ClientFrame ==
  ASSUME QuietInv, NEW c \in Clients, UNCHANGED serverVars, ~InConnected(c),
         \A d \in Clients : d # c => /\ pc'[d] = pc[d] /\ slot'[d] = slot[d]
                                     /\ req'[d] = req[d] /\ code'[d] = code[d],
         pc'[c] \in {"lock", "open"} => code'[c] = NotFound,
         pc'[c] \in {"idle", "lock", "open", "local"}
  PROVE  QuietInv'
<1>1. OneServerPerSlot'
  BY DEF OneServerPerSlot, QuietInv, serverVars
<1>2. \A s \in Servers, d \in Clients : Engaged(s, d) => d # c /\ Engaged(s, d)'
  BY EngagedFacts, EngagedFrame DEF serverVars
<1>3. \A s \in Servers : Idle(s) => Idle(s)'
  BY IdleFrame DEF serverVars
<1>4. \A s \in Servers : spc'[s] # "none" =>
        ~eof'[s] /\ (Idle(s)' \/ \E d \in Clients : Engaged(s, d)')
  BY <1>2, <1>3 DEF QuietInv, serverVars
<1>5. ASSUME NEW d \in Clients PROVE
        /\ pc'[d] \in {"lock", "open", "create", "reopen"} => code'[d] = NotFound
        /\ pc'[d] = "create" => \A s \in Servers : spc'[s] # "none" => sslot'[s] # slot'[d]
        /\ pc'[d] = "reopen" => \E s \in Servers : sslot'[s] = slot'[d] /\ Idle(s)'
        /\ pc'[d] \in {"openErr", "send"} => \E s \in Servers : Engaged(s, d)'
        /\ pc'[d] = "wait" =>
             code'[d] = RetCode(req'[d]) \/ \E s \in Servers : Engaged(s, d)'
  BY <1>2, <1>3 DEF QuietInv, serverVars
<1> QED
  BY <1>1, <1>4, <1>5 DEF QuietInv

\* A client that leaves without a connection leaves no trace.
LEMMA UnconnectedDepart ==
  ASSUME TypeOK, NEW c \in Clients, NEW r, Depart(c, r), ~InConnected(c), ~ErrConnected(c)
  PROVE  UNCHANGED serverVars
<1>1. \A s \in Servers :
        /\ out[s] # c /\ err[s] # c
        /\ \A i \in DOMAIN inQ[s] : inQ[s][i] # c
        /\ \A i \in DOMAIN errQ[s] : errQ[s][i] # c
  BY DEF InConnected, ErrConnected, Queued
<1>2. out' = out /\ err' = err
  BY <1>1 DEF Depart, Orphan, TypeOK
<1>3. inQ' = inQ /\ errQ' = errQ
  <2>1. \A s \in Servers : /\ inQ[s] = [i \in DOMAIN inQ[s] |-> inQ[s][i]]
                           /\ errQ[s] = [i \in DOMAIN errQ[s] |-> errQ[s][i]]
    BY LenProperties DEF TypeOK
  <2>2. \A s \in Servers : /\ [i \in DOMAIN inQ[s] |-> Orphan(c, inQ[s][i])] = inQ[s]
                           /\ [i \in DOMAIN errQ[s] |-> Orphan(c, errQ[s][i])] = errQ[s]
    BY <1>1, <2>1 DEF Orphan
  <2> QED
    BY <2>2 DEF Depart, TypeOK
<1> QED
  BY <1>2, <1>3 DEF Depart, serverVars

LEMMA NotYetConnected ==
  ASSUME IInv, NEW c \in Clients, pc[c] \notin {"openErr", "send", "wait"}
  PROVE  ~InConnected(c) /\ ~ErrConnected(c)
BY DEF IInv, ConnInv, InConnected, ErrConnected

\* Only a client without a connection ends: servers answer in time and nobody is
\* killed.
LEMMA WhoDeparts ==
  ASSUME Quiet, IInv, QuietInv, NEW c \in Clients,
         \/ LockBusyLast(c) \/ LockUnexpected(c) \/ ReopenRefused(c) \/ OpenTimesOut(c)
         \/ OpenErrorRefused(c) \/ CreateFails(c) \/ SendFails(c) \/ CompileLocally(c)
         \/ Kill(c) \/ EndOfOutput(c)
  PROVE  /\ LockBusyLast(c) \/ LockUnexpected(c) \/ CreateFails(c) \/ CompileLocally(c)
            \/ EndOfOutput(c)
         /\ ~InConnected(c) /\ ~ErrConnected(c)
<1>1. ~Kill(c)
  BY DEF Quiet, Kill
<1>2. ~ReopenRefused(c)
  BY DEF ReopenRefused, QuietInv, Idle, ListensIn
<1>3. ~OpenTimesOut(c)
  <2> SUFFICES ASSUME OpenTimesOut(c) PROVE FALSE
    OBVIOUS
  <2>1. PICK s \in Servers : ListensIn(s, slot[c]) /\ Len(inQ[s]) >= Backlog
    BY DEF OpenTimesOut
  <2>2. Idle(s)
    BY <2>1, IdleForNewcomer DEF OpenTimesOut, ListensIn
  <2>3. Len(inQ[s]) = 0
    BY <2>2 DEF Idle
  <2> QED
    BY <2>1, <2>3, ConstantsAssumption
<1>4. ~OpenErrorRefused(c)
  <2> SUFFICES ASSUME OpenErrorRefused(c) PROVE FALSE
    OBVIOUS
  <2>1. PICK s \in Servers : Engaged(s, c)
    BY DEF OpenErrorRefused, QuietInv
  <2> QED
    BY <2>1 DEF OpenErrorRefused, Engaged, Connecting, Serving, ListensErr
<1>5. ~SendFails(c)
  BY EngagedFacts DEF SendFails, QuietInv
<1>6. LockBusyLast(c) \/ LockUnexpected(c) \/ CreateFails(c) \/ CompileLocally(c)
      \/ EndOfOutput(c)
  BY <1>1, <1>2, <1>3, <1>4, <1>5
<1> QED
  BY <1>6, NotYetConnected DEF LockBusyLast, LockUnexpected, CreateFails, CompileLocally,
     EndOfOutput

LEMMA ClientQuiet ==
  ASSUME Quiet, IInv, QuietInv, NEW c \in Clients,
         Invoke(c) \/ ClientStep(c) \/ ClientFault(c)
  PROVE  QuietInv'
<1>1. TypeOK
  BY DEF IInv
<1>2. CASE Invoke(c) \/ ObtainLock(c) \/ LockBusyNext(c) \/ EndOfOutputLocal(c)
  <2>1. /\ UNCHANGED serverVars
        /\ \A d \in Clients : d # c => /\ pc'[d] = pc[d] /\ slot'[d] = slot[d]
                                       /\ req'[d] = req[d] /\ code'[d] = code[d]
        /\ pc'[c] \in {"lock", "open", "local"}
        /\ pc'[c] \in {"lock", "open"} => code'[c] = NotFound
    BY <1>1, <1>2 DEF Invoke, ObtainLock, LockBusyNext, EndOfOutputLocal, TypeOK, QuietInv
  <2>2. ~InConnected(c)
    BY <1>2, NotYetConnected DEF Invoke, ObtainLock, LockBusyNext, EndOfOutputLocal
  <2> QED
    BY <2>1, <2>2, ClientFrame
<1>3. CASE \/ LockBusyLast(c) \/ LockUnexpected(c) \/ ReopenRefused(c) \/ OpenTimesOut(c)
           \/ OpenErrorRefused(c) \/ CreateFails(c) \/ SendFails(c) \/ CompileLocally(c)
           \/ Kill(c) \/ EndOfOutput(c)
  <2>1. PICK r : Depart(c, r)
    BY <1>3 DEF LockBusyLast, LockUnexpected, ReopenRefused, OpenTimesOut,
       OpenErrorRefused, CreateFails, SendFails, CompileLocally, Kill, EndOfOutput
  <2>2. ~InConnected(c) /\ ~ErrConnected(c)
    BY <1>3, WhoDeparts
  <2>3. UNCHANGED serverVars
    BY <1>1, <2>1, <2>2, UnconnectedDepart
  <2>4. /\ \A d \in Clients : d # c => /\ pc'[d] = pc[d] /\ slot'[d] = slot[d]
                                       /\ req'[d] = req[d] /\ code'[d] = code[d]
        /\ pc'[c] = "idle"
    BY <1>1, <2>1 DEF Depart, TypeOK
  <2> QED
    BY <2>2, <2>3, <2>4, ClientFrame
<1>4. CASE OpenRefused(c)
  <2>1. /\ pc[c] = "open" /\ pc' = [pc EXCEPT ![c] = "create"]
        /\ UNCHANGED <<slot, req, code, serverVars>>
        /\ \A s \in Servers : ~ListensIn(s, slot[c])
    BY <1>4 DEF OpenRefused
  <2>2. \A s \in Servers : spc[s] # "none" => sslot[s] # slot[c]
    BY <2>1, IdleForNewcomer DEF Idle, ListensIn
  <2>3. \A s \in Servers, d \in Clients : Engaged(s, d) => d # c /\ Engaged(s, d)'
    BY <1>1, <2>1, EngagedFacts, EngagedFrame DEF serverVars, TypeOK
  <2>4. \A s \in Servers : Idle(s) => Idle(s)'
    BY <2>1, IdleFrame DEF serverVars
  <2>5. OneServerPerSlot'
    BY <2>1 DEF OneServerPerSlot, QuietInv, serverVars
  <2> QED
    BY <1>1, <2>1, <2>2, <2>3, <2>4, <2>5 DEF QuietInv, serverVars, TypeOK
<1>5. CASE OpenInOut(c)
  <2>1. PICK s \in Servers : /\ ListensIn(s, slot[c])
                             /\ inQ' = [inQ EXCEPT ![s] = Append(@, c)]
    BY <1>5 DEF OpenInOut
  <2>2. /\ pc[c] \in {"open", "reopen"} /\ pc' = [pc EXCEPT ![c] = "openErr"]
        /\ UNCHANGED <<slot, req, code, lock, spc, sslot, errQ, out, err, job, eof>>
    BY <1>5 DEF OpenInOut
  <2>3. Idle(s)
    BY <2>1, <2>2, IdleForNewcomer DEF ListensIn
  <2>4. Engaged(s, c)'
    BY <1>1, <2>1, <2>2, <2>3 DEF Idle, Engaged, Connecting, ListensIn, QuietInv, TypeOK
  <2>5. \A t \in Servers : t # s => inQ'[t] = inQ[t]
    BY <1>1, <2>1 DEF TypeOK
  <2>6. \A d \in Clients : d # c => pc'[d] = pc[d] /\ (pc[d] = "reopen" => slot[d] # slot[c])
    BY <1>1, <2>2, OneHolder DEF Holding, TypeOK
  <2>7. \A t \in Servers, d \in Clients : Engaged(t, d) => d # c /\ t # s /\ Engaged(t, d)'
    BY <2>2, <2>3, <2>5, <2>6, EngagedFacts, EngagedFrame
  <2>8. \A t \in Servers : t # s /\ Idle(t) => Idle(t)'
    BY <2>2, <2>5, IdleFrame
  <2>9. OneServerPerSlot'
    BY <2>2 DEF OneServerPerSlot, QuietInv
  <2>10. pc'[c] = "openErr"
    BY <1>1, <2>2 DEF TypeOK
  <2>11. ASSUME NEW t \in Servers, spc'[t] # "none"
         PROVE  ~eof'[t] /\ (Idle(t)' \/ \E d \in Clients : Engaged(t, d)')
    BY <2>2, <2>4, <2>7, <2>8, <2>11 DEF QuietInv
  <2>12. ASSUME NEW d \in Clients, d # c PROVE
        /\ pc'[d] \in {"lock", "open", "create", "reopen"} => code'[d] = NotFound
        /\ pc'[d] = "create" => \A t \in Servers : spc'[t] # "none" => sslot'[t] # slot'[d]
        /\ pc'[d] = "reopen" => \E t \in Servers : sslot'[t] = slot'[d] /\ Idle(t)'
        /\ pc'[d] \in {"openErr", "send"} => \E t \in Servers : Engaged(t, d)'
        /\ pc'[d] = "wait" =>
             code'[d] = RetCode(req'[d]) \/ \E t \in Servers : Engaged(t, d)'
    BY <2>1, <2>2, <2>6, <2>7, <2>8, <2>12 DEF QuietInv, ListensIn
  <2> QED
    BY <2>4, <2>9, <2>10, <2>11, <2>12 DEF QuietInv
<1>6. CASE OpenError(c)
  <2>1. PICK s \in Servers : /\ ListensErr(s, slot[c])
                             /\ errQ' = [errQ EXCEPT ![s] = Append(@, c)]
    BY <1>6 DEF OpenError
  <2>2. /\ pc[c] = "openErr" /\ pc' = [pc EXCEPT ![c] = "send"]
        /\ UNCHANGED <<slot, req, code, lock, spc, sslot, inQ, out, err, job, eof>>
    BY <1>6 DEF OpenError
  <2>3. Engaged(s, c)
    <3>1. PICK t \in Servers : Engaged(t, c)
      BY <2>2 DEF QuietInv
    <3>2. t = s
      BY <2>1, <3>1, EngagedFacts DEF ListensErr, QuietInv, OneServerPerSlot
    <3> QED
      BY <3>1, <3>2
  <2>4. Engaged(s, c)'
    BY <1>1, <2>1, <2>2, <2>3 DEF Engaged, Connecting, Serving, TypeOK
  <2>5. \A t \in Servers : t # s => errQ'[t] = errQ[t]
    BY <1>1, <2>1 DEF TypeOK
  <2>6. \A d \in Clients : d # c => pc'[d] = pc[d]
    BY <1>1, <2>2 DEF TypeOK
  <2>7. \A t \in Servers, d \in Clients : Engaged(t, d) => Engaged(t, d)'
    <3> TAKE t \in Servers, d \in Clients
    <3> HAVE Engaged(t, d)
    <3>1. CASE d = c
      <4>1. t = s
        BY <2>3, <3>1, EngagedFacts DEF QuietInv, OneServerPerSlot
      <4> QED
        BY <2>4, <3>1, <4>1
    <3>2. CASE d # c
      <4>1. t # s
        BY <2>3, <3>2, EngagedOnce DEF IInv
      <4> QED
        BY <2>2, <2>5, <2>6, <3>2, <4>1, EngagedFrame
    <3> QED
      BY <3>1, <3>2
  <2>8. \A t \in Servers : Idle(t) => Idle(t)'
    BY <2>2, <2>3, <2>5, IdleFrame, EngagedFacts
  <2>9. OneServerPerSlot'
    BY <2>2 DEF OneServerPerSlot, QuietInv
  <2>10. pc'[c] = "send"
    BY <1>1, <2>2 DEF TypeOK
  <2> QED
    BY <2>2, <2>3, <2>6, <2>7, <2>8, <2>9, <2>10 DEF QuietInv
<1>7. CASE CreatePipeAndServer(c)
  <2>1. PICK s \in Servers : /\ spc[s] = "none"
                             /\ spc' = [spc EXCEPT ![s] = "acceptIn"]
                             /\ sslot' = [sslot EXCEPT ![s] = slot[c]]
                             /\ eof' = [eof EXCEPT ![s] = FALSE]
    BY <1>7 DEF CreatePipeAndServer
  <2>2. /\ pc[c] = "create" /\ pc' = [pc EXCEPT ![c] = "reopen"]
        /\ UNCHANGED <<slot, req, code, lock, inQ, errQ, out, err, job>>
    BY <1>7 DEF CreatePipeAndServer
  <2>3. Idle(s)' /\ sslot'[s] = slot'[c] /\ ~eof'[s] /\ pc'[c] = "reopen"
    <3>1. inQ[s] = <<>> /\ errQ[s] = <<>> /\ out[s] = None /\ err[s] = None
      BY <2>1 DEF IInv, ClosedInv
    <3> QED
      BY <1>1, <2>1, <2>2, <3>1 DEF Idle, TypeOK
  <2>4. \A t \in Servers : t # s => spc'[t] = spc[t] /\ sslot'[t] = sslot[t] /\ eof'[t] = eof[t]
    BY <1>1, <2>1 DEF TypeOK
  <2>5. \A d \in Clients : d # c => pc'[d] = pc[d] /\ (pc[d] = "create" => slot[d] # slot[c])
    BY <1>1, <2>2, OneHolder DEF Holding, TypeOK
  <2>6. \A t \in Servers, d \in Clients : Engaged(t, d) => d # c /\ t # s /\ Engaged(t, d)'
    BY <2>1, <2>2, <2>4, <2>5, EngagedFacts, EngagedFrame
  <2>7. \A t \in Servers : Idle(t) => t # s /\ Idle(t)'
    <3>1. ~Idle(s)
      BY <2>1 DEF Idle
    <3> QED
      BY <2>2, <2>4, <3>1, IdleFrame
  <2>8. OneServerPerSlot'
    <3>1. \A t \in Servers : spc[t] # "none" => sslot[t] # slot[c]
      BY <2>2 DEF QuietInv
    <3>2. \A t, u \in Servers : spc[t] # "none" /\ spc[u] # "none" /\ sslot[t] = sslot[u] => t = u
      BY DEF QuietInv, OneServerPerSlot
    <3> QED
      BY <2>2, <2>3, <2>4, <3>1, <3>2 DEF OneServerPerSlot
  <2>9. ASSUME NEW t \in Servers, spc'[t] # "none"
         PROVE  ~eof'[t] /\ (Idle(t)' \/ \E d \in Clients : Engaged(t, d)')
    BY <2>3, <2>4, <2>6, <2>7, <2>9 DEF QuietInv
  <2>10. ASSUME NEW d \in Clients, d # c PROVE
        /\ pc'[d] \in {"lock", "open", "create", "reopen"} => code'[d] = NotFound
        /\ pc'[d] = "create" => \A t \in Servers : spc'[t] # "none" => sslot'[t] # slot'[d]
        /\ pc'[d] = "reopen" => \E t \in Servers : sslot'[t] = slot'[d] /\ Idle(t)'
        /\ pc'[d] \in {"openErr", "send"} => \E t \in Servers : Engaged(t, d)'
        /\ pc'[d] = "wait" =>
             code'[d] = RetCode(req'[d]) \/ \E t \in Servers : Engaged(t, d)'
    BY <2>2, <2>3, <2>4, <2>5, <2>6, <2>7, <2>10 DEF QuietInv
  <2>11. code'[c] = NotFound
    BY <2>2 DEF QuietInv
  <2> QED
    BY <2>3, <2>8, <2>9, <2>10, <2>11 DEF QuietInv
<1>8. CASE Send(c)
  <2>1. /\ pc[c] = "send" /\ pc' = [pc EXCEPT ![c] = "wait"]
        /\ UNCHANGED <<slot, req, code, lock, serverVars>>
    BY <1>8 DEF Send
  <2>2. \A t \in Servers, d \in Clients : Engaged(t, d) => Engaged(t, d)'
    <3> TAKE t \in Servers, d \in Clients
    <3> HAVE Engaged(t, d)
    <3>1. CASE d = c
      BY <1>1, <2>1, <3>1 DEF Engaged, Connecting, Serving, serverVars, TypeOK
    <3>2. CASE d # c
      BY <1>1, <2>1, <3>2, EngagedFrame DEF serverVars, TypeOK
    <3> QED
      BY <3>1, <3>2
  <2>3. \A t \in Servers : Idle(t) => Idle(t)'
    BY <2>1, IdleFrame DEF serverVars
  <2>4. OneServerPerSlot'
    BY <2>1 DEF OneServerPerSlot, QuietInv, serverVars
  <2> QED
    BY <1>1, <2>1, <2>2, <2>3, <2>4 DEF QuietInv, serverVars, TypeOK
<1> QED
  BY <1>2, <1>3, <1>4, <1>5, <1>6, <1>7, <1>8 DEF ClientStep, ClientFault

\* A server goes on with the client it has, or is through with it.
LEMMA ServerFrame ==
  ASSUME IInv, QuietInv, NEW s \in Servers, NEW c \in Clients, Engaged(s, c),
         UNCHANGED <<pc, slot, req>>,
         \A t \in Servers : t # s =>
           /\ spc'[t] = spc[t] /\ sslot'[t] = sslot[t] /\ inQ'[t] = inQ[t]
           /\ errQ'[t] = errQ[t] /\ out'[t] = out[t] /\ err'[t] = err[t]
           /\ job'[t] = job[t] /\ eof'[t] = eof[t],
         \A d \in Clients : d # c => code'[d] = code[d],
         ~eof'[s], spc'[s] # "none" => sslot'[s] = sslot[s],
         \/ Engaged(s, c)'
         \/ /\ pc[c] = "wait" /\ code'[c] = RetCode(req[c])
            /\ Idle(s)' \/ spc'[s] = "none"
  PROVE  QuietInv'
<1>1. \A t \in Servers, d \in Clients : Engaged(t, d) /\ d # c => t # s /\ Engaged(t, d)'
  <2> TAKE t \in Servers, d \in Clients
  <2> HAVE Engaged(t, d) /\ d # c
  <2>1. t # s
    BY EngagedOnce DEF IInv
  <2> QED
    BY <2>1, EngagedFrame
<1>2. \A t \in Servers : Engaged(t, c) => t = s
  BY EngagedFacts DEF QuietInv, OneServerPerSlot
<1>3. \A t \in Servers : Idle(t) => t # s /\ Idle(t)'
  <2>1. ~Idle(s)
    BY EngagedFacts
  <2> QED
    BY <2>1, IdleFrame
<1>4. \A t \in Servers : spc'[t] # "none" => spc[t] # "none" /\ sslot'[t] = sslot[t]
  BY EngagedFacts
<1>5. OneServerPerSlot'
  BY <1>4 DEF OneServerPerSlot, QuietInv
<1>6. ASSUME NEW t \in Servers, spc'[t] # "none"
      PROVE  ~eof'[t] /\ (Idle(t)' \/ \E d \in Clients : Engaged(t, d)')
  <2>1. CASE t = s
    BY <1>6, <2>1
  <2>2. CASE t # s
    <3>1. ~eof[t] /\ (Idle(t) \/ \E d \in Clients : Engaged(t, d))
      BY <1>4, <1>6 DEF QuietInv
    <3> QED
      BY <1>1, <1>2, <1>3, <2>2, <3>1
  <2> QED
    BY <2>1, <2>2
<1>7. ASSUME NEW d \in Clients PROVE
        /\ pc'[d] \in {"lock", "open", "create", "reopen"} => code'[d] = NotFound
        /\ pc'[d] = "create" => \A t \in Servers : spc'[t] # "none" => sslot'[t] # slot'[d]
        /\ pc'[d] = "reopen" => \E t \in Servers : sslot'[t] = slot'[d] /\ Idle(t)'
        /\ pc'[d] \in {"openErr", "send"} => \E t \in Servers : Engaged(t, d)'
        /\ pc'[d] = "wait" =>
             code'[d] = RetCode(req'[d]) \/ \E t \in Servers : Engaged(t, d)'
  <2>1. CASE d = c
    BY <2>1, EngagedFacts DEF Holding
  <2>2. CASE d # c
    BY <1>1, <1>3, <1>4, <2>2 DEF QuietInv
  <2> QED
    BY <2>1, <2>2
<1> QED
  BY <1>5, <1>6, <1>7 DEF QuietInv

LEMMA ServerQuiet ==
  ASSUME Quiet, IInv, QuietInv, NEW s \in Servers, ServerStep(s) \/ ServerFault(s)
  PROVE  QuietInv'
<1>1. TypeOK
  BY DEF IInv
<1>2. /\ UNCHANGED <<pc, slot, req>>
      /\ \A t \in Servers : t # s =>
           /\ spc'[t] = spc[t] /\ sslot'[t] = sslot[t] /\ inQ'[t] = inQ[t]
           /\ errQ'[t] = errQ[t] /\ out'[t] = out[t] /\ err'[t] = err[t]
           /\ job'[t] = job[t] /\ eof'[t] = eof[t]
  BY <1>1 DEF ServerStep, ServerFault, AcceptInOut, AcceptError, ReadCommand,
     WriteExitCode, Disconnect, CloseInOut, CloseError, CloseConnections, Crash,
     BrokenPipe, Die, TypeOK, clientVars
<1>3. spc[s] # "none" /\ ~Idle(s) /\ ~Crash(s)
  BY DEF ServerStep, ServerFault, AcceptInOut, AcceptError, ReadCommand, WriteExitCode,
     Disconnect, CloseInOut, CloseError, CloseConnections, Crash, BrokenPipe, Idle, Quiet
<1>4. ~eof[s]
  BY <1>3 DEF QuietInv
<1>5. PICK c \in Clients : Engaged(s, c)
  BY <1>3 DEF QuietInv
<1>6. c \notin Orphans /\ c # None
  BY ConstantsAssumption
<1>7. CASE AcceptInOut(s)
  <2>1. inQ[s] = <<c>> /\ Connecting(s, c) /\ code[c] = NotFound
    BY <1>5, <1>7 DEF Engaged, Connecting, Serving, AcceptInOut
  <2>2. Engaged(s, c)'
    BY <1>1, <1>5, <1>7, <2>1 DEF Engaged, Connecting, AcceptInOut, TypeOK, clientVars
  <2> QED
    BY <1>2, <1>4, <1>5, <1>7, <2>2, ServerFrame DEF AcceptInOut, clientVars
<1>8. CASE AcceptError(s)
  <2>1. errQ[s] = <<c>> /\ Connecting(s, c) /\ code[c] = NotFound /\ pc[c] # "openErr"
    BY <1>5, <1>8 DEF Engaged, Connecting, Serving, AcceptError
  <2>2. Engaged(s, c)'
    BY <1>1, <1>5, <1>8, <2>1 DEF Engaged, Connecting, Serving, AcceptError, TypeOK,
       clientVars
  <2> QED
    BY <1>2, <1>4, <1>5, <1>8, <2>2, ServerFrame DEF AcceptError, clientVars
<1>9. CASE ReadCommand(s)
  <2>1. Serving(s, c) /\ spc[s] = "read" /\ out[s] = c
    BY <1>5, <1>9 DEF Engaged, Connecting, Serving, ReadCommand
  <2>2. pc[c] = "wait" /\ job'[s] = req[c] /\ req[c] # "eof"
    BY <1>1, <1>4, <1>6, <1>9, <2>1 DEF ReadCommand, TypeOK, Requests
  <2>3. ~eof'[s]
    BY <1>1, <1>9, <2>2 DEF ReadCommand, TypeOK
  <2>4. Engaged(s, c)'
    BY <1>1, <1>5, <1>9, <2>1, <2>2 DEF Engaged, Serving, ReadCommand, TypeOK, clientVars
  <2> QED
    BY <1>2, <1>5, <1>9, <2>3, <2>4, ServerFrame DEF ReadCommand, clientVars
<1>10. CASE WriteExitCode(s)
  <2>1. Serving(s, c) /\ spc[s] = "compile" /\ out[s] = c /\ job[s] = req[c] /\ pc[c] = "wait"
    BY <1>5, <1>10 DEF Engaged, Connecting, Serving, WriteExitCode
  <2>2. code' = [code EXCEPT ![c] = RetCode(req[c])]
    BY <1>10, <2>1 DEF WriteExitCode
  <2>3. spc'[s] \in {"disconnect", "closeIn"}
    BY <1>1, <1>10 DEF WriteExitCode, TypeOK
  <2>4. Engaged(s, c)'
    BY <1>1, <1>5, <1>10, <2>1, <2>2, <2>3 DEF Engaged, Serving, WriteExitCode, TypeOK
  <2> QED
    BY <1>1, <1>2, <1>4, <1>5, <1>10, <2>2, <2>4, ServerFrame DEF WriteExitCode, TypeOK
<1>11. CASE Disconnect(s)
  <2>1. Serving(s, c) /\ pc[c] = "wait" /\ code[c] = RetCode(req[c])
    BY <1>5, <1>11 DEF Engaged, Connecting, Serving, Disconnect
  <2>2. Idle(s)'
    BY <1>1, <1>11, <2>1 DEF Idle, Serving, Disconnect, TypeOK
  <2> QED
    BY <1>2, <1>4, <1>5, <1>11, <2>1, <2>2, ServerFrame DEF Disconnect, clientVars
<1>12. CASE CloseInOut(s)
  <2>1. Serving(s, c) /\ spc[s] = "closeIn" /\ pc[c] = "wait"
    BY <1>5, <1>12 DEF Engaged, Connecting, Serving, CloseInOut
  <2>2. Engaged(s, c)'
    BY <1>1, <1>5, <1>12, <2>1 DEF Engaged, Serving, CloseInOut, TypeOK, clientVars
  <2> QED
    BY <1>2, <1>4, <1>5, <1>12, <2>2, ServerFrame DEF CloseInOut, clientVars
<1>13. CASE CloseError(s)
  <2>1. Serving(s, c) /\ spc[s] = "closeErr" /\ pc[c] = "wait"
    BY <1>5, <1>13 DEF Engaged, Connecting, Serving, CloseError
  <2>2. spc'[s] = "closeConn" /\ sslot'[s] = sslot[s]
    BY <1>1, <1>13, <2>1 DEF CloseError, TypeOK
  <2>3. Engaged(s, c)'
    BY <1>1, <1>5, <1>13, <2>1, <2>2 DEF Engaged, Serving, CloseError, TypeOK, clientVars
  <2> QED
    BY <1>2, <1>4, <1>5, <1>13, <2>2, <2>3, ServerFrame DEF CloseError, clientVars
<1>14. CASE CloseConnections(s)
  <2>1. Serving(s, c) /\ pc[c] = "wait" /\ code[c] = RetCode(req[c])
    BY <1>5, <1>14 DEF Engaged, Connecting, Serving, CloseConnections
  <2>2. spc'[s] = "none"
    BY <1>1, <1>14 DEF CloseConnections, TypeOK
  <2> QED
    BY <1>2, <1>4, <1>5, <1>14, <2>1, <2>2, ServerFrame DEF CloseConnections, clientVars
<1>15. ~BrokenPipe(s)
  <2> SUFFICES ASSUME BrokenPipe(s) PROVE FALSE
    OBVIOUS
  <2>1. out[s] = c /\ err[s] = c
    BY <1>5 DEF BrokenPipe, Engaged, Connecting, Serving
  <2> QED
    BY <1>6, <2>1 DEF BrokenPipe
<1> QED
  BY <1>3, <1>7, <1>8, <1>9, <1>10, <1>11, <1>12, <1>13, <1>14, <1>15
     DEF ServerStep, ServerFault

LEMMA QuietInit == Init => QuietInv
BY DEF Init, QuietInv, OneServerPerSlot

LEMMA QuietNext == Quiet /\ IInv /\ QuietInv /\ [Next]_vars => QuietInv'
<1> SUFFICES ASSUME Quiet, IInv, QuietInv, [Next]_vars PROVE QuietInv'
  OBVIOUS
<1>1. CASE UNCHANGED vars
  <2>1. \A t \in Servers, d \in Clients : Engaged(t, d) => Engaged(t, d)'
    BY <1>1, EngagedFrame DEF vars
  <2>2. \A t \in Servers : Idle(t) => Idle(t)'
    BY <1>1, IdleFrame DEF vars
  <2>3. OneServerPerSlot'
    BY <1>1 DEF vars, OneServerPerSlot, QuietInv
  <2> QED
    BY <1>1, <2>1, <2>2, <2>3 DEF vars, QuietInv
<1> QED
  BY <1>1, ClientQuiet, ServerQuiet DEF Next

LEMMA QuietInductive == ASSUME Quiet PROVE Spec => [](IInv /\ QuietInv)
BY QuietInit, QuietNext, InitInv, NextInv, PTL DEF Spec

\* When nothing is killed a slot never has two server processes, each with a
\* cache of its own: the server that ends has ended before its client's lock is
\* free, and until then that client is the only one it has.
THEOREM ServersAreUnique ==
  ASSUME KillAt = {}, CrashAt = {} PROVE Spec => []OneServerPerSlot
<1>1. Quiet
  BY DEF Quiet
<1>2. QuietInv => OneServerPerSlot
  BY DEF QuietInv
<1> QED
  BY <1>1, <1>2, QuietInductive, PTL

-----------------------------------------------------------------------------
(* With a slot, and a process, for every client. *)

Enough ==
  /\ MaxSpecific = 0 /\ Unopenable = {}
  /\ IsFiniteSet(Clients) /\ Cardinality(Clients) <= MaxServers
  /\ IsFiniteSet(Servers) /\ MaxServers <= Cardinality(Servers)

LEMMA BeyondFinite ==
  ASSUME Enough, NEW k
  PROVE  IsFiniteSet(Beyond(k)) /\ Cardinality(Beyond(k)) \in Nat
         /\ Cardinality(Beyond(k)) <= Cardinality(Clients)
<1>1. Beyond(k) \in SUBSET Clients
  BY DEF Beyond
<1> QED
  BY <1>1, FS_Subset, FS_CardinalityType DEF Enough

\* A client that finds slot k busy is not the only one there.
LEMMA WithoutHolder ==
  ASSUME Enough, IInv, ScanInv, NEW c \in Clients, pc[c] = "lock", lock[slot[c]] # None
  PROVE  \E h \in Clients \ {c} :
           /\ h \in Beyond(slot[c]) /\ slot[h] = slot[c]
           /\ IsFiniteSet(Beyond(slot[c]) \ {h})
           /\ Cardinality(Beyond(slot[c]) \ {h}) <= MaxServers - slot[c]
<1> DEFINE k == slot[c]
           h == lock[k]
<1>1. k \in Slots /\ h \in Clients /\ k \in Int /\ MaxServers \in Int
  BY ConstantsAssumption DEF IInv, TypeOK, Slots
<1>2. slot[h] = k /\ pc[h] \in Holding /\ h # c
  BY <1>1 DEF IInv, LockInv, Holding
<1>3. h \in Beyond(k)
  BY <1>1, <1>2 DEF Beyond
<1>4. IsFiniteSet(Beyond(k)) /\ Cardinality(Beyond(k)) <= MaxServers - k + 1
      /\ Cardinality(Beyond(k)) \in Nat
  BY <1>1, BeyondFinite DEF ScanInv
<1>5. IsFiniteSet(Beyond(k) \ {h}) /\ Cardinality(Beyond(k) \ {h}) = Cardinality(Beyond(k)) - 1
  BY <1>3, <1>4, FS_RemoveElement
<1>6. Cardinality(Beyond(k) \ {h}) <= MaxServers - k
  BY <1>1, <1>4, <1>5
<1> QED
  BY <1>1, <1>2, <1>3, <1>5, <1>6

\* So a scan never comes to its end.
LEMMA NeverAllBusy ==
  ASSUME Enough, IInv, ScanInv, NEW c \in Clients
  PROVE  ~LockBusyLast(c)
<1> SUFFICES ASSUME LockBusyLast(c) PROVE FALSE
  OBVIOUS
<1>1. pc[c] = "lock" /\ lock[slot[c]] # None /\ slot[c] >= MaxServers
  BY DEF LockBusyLast
<1>2. slot[c] \in 1 .. MaxServers /\ MaxServers \in Nat
  BY ConstantsAssumption DEF IInv, TypeOK, Slots, Enough
<1>3. PICK h \in Clients \ {c} :
        /\ IsFiniteSet(Beyond(slot[c]) \ {h})
        /\ Cardinality(Beyond(slot[c]) \ {h}) <= MaxServers - slot[c]
  BY <1>1, WithoutHolder
<1>4. Cardinality(Beyond(slot[c]) \ {h}) = 0
  <2>1. Cardinality(Beyond(slot[c]) \ {h}) \in Nat
    BY <1>3, FS_CardinalityType
  <2> QED
    BY <1>1, <1>2, <1>3, <2>1
<1>5. Beyond(slot[c]) \ {h} = {}
  BY <1>3, <1>4, FS_EmptySet
<1>6. c \in Beyond(slot[c]) \ {h}
  BY <1>1, <1>2 DEF Beyond
<1> QED
  BY <1>5, <1>6

\* A client that is to create a server finds its ports free and a process for it.
LEMMA NeverOutOfServers ==
  ASSUME Enough, IInv, QuietInv, NEW c \in Clients
  PROVE  ~CreateFails(c)
<1> SUFFICES ASSUME CreateFails(c) PROVE FALSE
  OBVIOUS
<1>1. pc[c] = "create" /\ \A s \in Servers : spc[s] # "none" => sslot[s] # slot[c]
  BY DEF CreateFails, QuietInv
<1>2. PortsFree(slot[c])
  BY <1>1 DEF PortsFree, ListensIn, ListensErr
<1>3. \A s \in Servers : spc[s] # "none"
  BY <1>2 DEF CreateFails
<1> DEFINE S == (1 .. MaxServers) \ {slot[c]}
<1>4. MaxServers \in Nat \ {0} /\ slot[c] \in 1 .. MaxServers
  BY ConstantsAssumption DEF IInv, TypeOK, Slots, Enough
<1>5. IsFiniteSet(S) /\ Cardinality(S) = MaxServers - 1
  <2>1. IsFiniteSet(1 .. MaxServers) /\ Cardinality(1 .. MaxServers) = MaxServers
    BY <1>4, FS_Interval
  <2> QED
    BY <1>4, <2>1, FS_RemoveElement
<1>6. sslot \in Injection(Servers, S)
  <2>1. sslot \in [Servers -> S]
    <3>1. Slots = 1 .. MaxServers
      BY <1>4 DEF Slots, Enough
    <3>2. sslot \in [Servers -> Slots]
      BY DEF IInv, TypeOK
    <3> QED
      BY <1>1, <1>3, <3>1, <3>2
  <2>2. \A s, t \in Servers : sslot[s] = sslot[t] => s = t
    BY <1>3 DEF QuietInv, OneServerPerSlot
  <2> QED
    BY <2>1, <2>2 DEF Injection, IsInjective
<1>7. Cardinality(Servers) <= Cardinality(S)
  BY <1>5, <1>6, FS_Injection
<1>8. MaxServers <= Cardinality(Servers) /\ Cardinality(Servers) \in Nat
  BY FS_CardinalityType DEF Enough
<1> HIDE DEF S
<1> QED
  BY <1>4, <1>5, <1>7, <1>8

LEMMA ScanNext ==
  ASSUME Enough, IInv, ScanInv, NEW c \in Clients,
         Invoke(c) \/ ClientStep(c) \/ ClientFault(c)
  PROVE  ScanInv'
<1>1. TypeOK /\ \A k : Beyond(k) \in SUBSET Clients
  BY DEF IInv, Beyond
<1>2. \A k \in Slots : k \in 1 .. MaxServers /\ MaxServers \in Nat
  BY ConstantsAssumption DEF Slots, Enough
<1>3. ASSUME NEW k \in Slots, Beyond(k)' \subseteq Beyond(k)
      PROVE  Cardinality(Beyond(k)') <= MaxServers - k + 1
  <2>1. Cardinality(Beyond(k)') <= Cardinality(Beyond(k)) /\ IsFiniteSet(Beyond(k)')
    BY <1>3, BeyondFinite, FS_Subset
  <2>2. Cardinality(Beyond(k)') \in Nat /\ Cardinality(Beyond(k)) \in Nat
    BY <2>1, BeyondFinite, FS_CardinalityType
  <2>3. Cardinality(Beyond(k)) <= MaxServers - k + 1
    BY DEF ScanInv
  <2> QED
    BY <1>2, <2>1, <2>2, <2>3
<1>4. CASE Invoke(c)
  <2>1. slot'[c] = 1 /\ \A d \in Clients : d # c => pc'[d] = pc[d] /\ slot'[d] = slot[d]
    BY <1>1, <1>4, ConstantsAssumption DEF Invoke, TypeOK, Enough
  <2> SUFFICES ASSUME NEW k \in Slots PROVE Cardinality(Beyond(k)') <= MaxServers - k + 1
    BY DEF ScanInv
  <2>2. CASE k = 1
    <3>1. Beyond(k)' \in SUBSET Clients
      BY DEF Beyond
    <3>2. Cardinality(Beyond(k)') <= Cardinality(Clients)
          /\ Cardinality(Beyond(k)') \in Nat /\ Cardinality(Clients) \in Nat
      BY <3>1, FS_Subset, FS_CardinalityType DEF Enough
    <3> QED
      BY <1>2, <2>2, <3>2 DEF Enough
  <2>3. CASE k # 1
    <3>1. ~(1 >= k)
      BY <1>2, <2>3
    <3>2. Beyond(k)' \subseteq Beyond(k)
      BY <2>1, <3>1 DEF Beyond
    <3> QED
      BY <1>3, <3>2
  <2> QED
    BY <2>2, <2>3
<1>5. CASE LockBusyNext(c)
  <2>1. /\ pc[c] = "lock" /\ lock[slot[c]] # None /\ slot[c] \in Slots /\ pc' = pc
        /\ slot' = [slot EXCEPT ![c] = slot[c] + 1]
    BY <1>1, <1>5 DEF LockBusyNext, TypeOK
  <2>2. PICK h \in Clients \ {c} :
          /\ slot[h] = slot[c] /\ IsFiniteSet(Beyond(slot[c]) \ {h})
          /\ Cardinality(Beyond(slot[c]) \ {h}) <= MaxServers - slot[c]
    BY <2>1, WithoutHolder
  <2> SUFFICES ASSUME NEW k \in Slots PROVE Cardinality(Beyond(k)') <= MaxServers - k + 1
    BY DEF ScanInv
  <2>3. \A d \in Clients : slot[d] \in Int /\ slot'[d] = IF d = c THEN slot[c] + 1 ELSE slot[d]
    BY <1>1, <1>2, <2>1 DEF TypeOK
  <2>4. k \in Int /\ slot[c] \in Int /\ MaxServers \in Int
    BY <1>2, <2>1
  <2>5. CASE k = slot[c] + 1
    <3>1. ASSUME NEW d \in Beyond(k)' PROVE d \in Beyond(slot[c]) \ {h}
      <4>1. d \in Clients /\ pc[d] \in Holding \cup {"lock"} /\ slot'[d] >= k
        BY <2>1, <3>1 DEF Beyond
      <4>2. slot[d] >= slot[c]
        BY <2>3, <2>4, <2>5, <4>1
      <4>3. d # h
        BY <2>2, <2>3, <2>4, <2>5, <4>1
      <4> QED
        BY <4>1, <4>2, <4>3 DEF Beyond
    <3>2. Cardinality(Beyond(k)') <= Cardinality(Beyond(slot[c]) \ {h})
          /\ IsFiniteSet(Beyond(k)')
      BY <2>2, <3>1, FS_Subset
    <3>3. Cardinality(Beyond(k)') \in Nat /\ Cardinality(Beyond(slot[c]) \ {h}) \in Nat
      BY <2>2, <3>2, FS_CardinalityType
    <3> QED
      BY <2>2, <2>4, <2>5, <3>2, <3>3
  <2>6. CASE k # slot[c] + 1
    <3>1. slot[c] + 1 >= k => slot[c] >= k
      BY <2>4, <2>6
    <3>2. Beyond(k)' \subseteq Beyond(k)
      BY <2>1, <2>3, <3>1 DEF Beyond
    <3> QED
      BY <1>3, <3>2
  <2> QED
    BY <2>5, <2>6
<1>6. CASE ~Invoke(c) /\ ~LockBusyNext(c)
  <2>1. /\ \A d \in Clients : d # c => pc'[d] = pc[d] /\ slot'[d] = slot[d]
        /\ pc'[c] \in Holding \cup {"lock"} =>
             pc[c] \in Holding \cup {"lock"} /\ slot'[c] = slot[c]
    <3>1. CASE \/ ObtainLock(c) \/ OpenInOut(c) \/ OpenRefused(c) \/ OpenError(c)
               \/ CreatePipeAndServer(c) \/ Send(c) \/ EndOfOutputLocal(c)
      BY <1>1, <3>1 DEF ObtainLock, OpenInOut, OpenRefused, OpenError,
         CreatePipeAndServer, Send, EndOfOutputLocal, TypeOK, Holding
    <3>2. CASE \/ LockBusyLast(c) \/ LockUnexpected(c) \/ ReopenRefused(c)
               \/ OpenTimesOut(c) \/ OpenErrorRefused(c) \/ CreateFails(c)
               \/ SendFails(c) \/ CompileLocally(c) \/ Kill(c) \/ EndOfOutput(c)
      <4>1. PICK r : Depart(c, r)
        BY <3>2 DEF LockBusyLast, LockUnexpected, ReopenRefused, OpenTimesOut,
           OpenErrorRefused, CreateFails, SendFails, CompileLocally, Kill, EndOfOutput
      <4> QED
        BY <1>1, <4>1 DEF Depart, TypeOK, Holding
    <3> QED
      BY <1>6, <3>1, <3>2 DEF ClientStep, ClientFault
  <2>2. \A k \in Slots : Beyond(k)' \subseteq Beyond(k)
    BY <2>1 DEF Beyond
  <2> QED
    BY <1>3, <2>2 DEF ScanInv
<1> QED
  BY <1>4, <1>5, <1>6

LEMMA ScanInit == Enough /\ Init => ScanInv
<1> SUFFICES ASSUME Enough, Init, NEW k \in Slots
             PROVE  Cardinality(Beyond(k)) <= MaxServers - k + 1
  BY DEF ScanInv
<1>1. Beyond(k) = {}
  BY DEF Init, Beyond, Holding
<1>2. k \in 1 .. MaxServers /\ MaxServers \in Nat
  BY ConstantsAssumption DEF Slots, Enough
<1> QED
  BY <1>1, <1>2, FS_EmptySet

LEMMA FailuresNext ==
  ASSUME Quiet, Enough, IInv, QuietInv, ScanInv, NoSpuriousFailure, [Next]_vars
  PROVE  ScanInv' /\ NoSpuriousFailure'
<1>1. TypeOK
  BY DEF IInv
<1>2. CASE UNCHANGED vars
  BY <1>2 DEF vars, ScanInv, Beyond, NoSpuriousFailure
<1>3. ASSUME NEW c \in Clients, Invoke(c) \/ ClientStep(c) \/ ClientFault(c)
      PROVE  ScanInv' /\ NoSpuriousFailure'
  <2>1. ScanInv'
    BY <1>3, ScanNext
  <2>2. CASE \/ LockBusyLast(c) \/ LockUnexpected(c) \/ ReopenRefused(c) \/ OpenTimesOut(c)
             \/ OpenErrorRefused(c) \/ CreateFails(c) \/ SendFails(c) \/ CompileLocally(c)
             \/ Kill(c) \/ EndOfOutput(c)
    <3>1. CompileLocally(c) \/ EndOfOutput(c)
      BY <2>2, WhoDeparts, NeverAllBusy, NeverOutOfServers DEF LockUnexpected, Enough
    <3>2. ~InConnected(c)
      BY <2>2, WhoDeparts
    <3>3. PICK r : Depart(c, r) /\ (r = 1 => req[c] = "bad")
      <4>1. CASE CompileLocally(c)
        BY <4>1 DEF CompileLocally, Truth
      <4>2. CASE EndOfOutput(c)
        <5>1. code[c] = RetCode(req[c])
          BY <3>2, <4>2, EngagedFacts DEF EndOfOutput, QuietInv
        <5>2. RetCode(req[c]) # NotFound /\ (RetCode(req[c]) = 1 => req[c] = "bad")
          BY DEF RetCode, NotFound
        <5> QED
          BY <4>2, <5>1, <5>2 DEF EndOfOutput
      <4> QED
        BY <3>1, <4>1, <4>2
    <3>4. NoSpuriousFailure'
      BY <1>1, <3>3 DEF NoSpuriousFailure, Depart, TypeOK
    <3> QED
      BY <2>1, <3>4
  <2>3. CASE \/ Invoke(c) \/ ObtainLock(c) \/ LockBusyNext(c) \/ OpenInOut(c)
             \/ OpenRefused(c) \/ OpenError(c) \/ CreatePipeAndServer(c) \/ Send(c)
             \/ EndOfOutputLocal(c)
    <3>1. /\ pc'[c] # "idle"
          /\ \A d \in Clients : d # c => /\ pc'[d] = pc[d] /\ req'[d] = req[d]
                                         /\ code'[d] = code[d]
      BY <1>1, <2>3 DEF Invoke, ObtainLock, LockBusyNext, OpenInOut, OpenRefused, OpenError,
         CreatePipeAndServer, Send, EndOfOutputLocal, TypeOK
    <3> QED
      BY <2>1, <3>1 DEF NoSpuriousFailure
  <2> QED
    BY <1>3, <2>2, <2>3 DEF ClientStep, ClientFault
<1>4. ASSUME NEW s \in Servers, ServerStep(s) \/ ServerFault(s)
      PROVE  ScanInv' /\ NoSpuriousFailure'
  <2>1. pc' = pc /\ slot' = slot /\ req' = req
    BY <1>4 DEF ServerStep, ServerFault, AcceptInOut, AcceptError, ReadCommand,
       WriteExitCode, Disconnect, CloseInOut, CloseError, CloseConnections, Crash,
       BrokenPipe, Die, clientVars
  <2>2. \A c \in Clients : pc[c] = "idle" => code'[c] = code[c]
    <3>1. CASE WriteExitCode(s)
      <4>1. out[s] \in Clients => pc[out[s]] # "idle"
        BY <1>1, <3>1 DEF IInv, ConnInv
      <4> QED
        BY <1>1, <3>1, <4>1 DEF WriteExitCode, TypeOK
    <3>2. CASE ~WriteExitCode(s)
      BY <1>4, <3>2 DEF ServerStep, ServerFault, AcceptInOut, AcceptError, ReadCommand,
         Disconnect, CloseInOut, CloseError, CloseConnections, Crash, BrokenPipe, Die,
         clientVars
    <3> QED
      BY <3>1, <3>2
  <2>3. ScanInv'
    BY <2>1 DEF ScanInv, Beyond
  <2>4. NoSpuriousFailure'
    BY <2>1, <2>2 DEF NoSpuriousFailure
  <2> QED
    BY <2>3, <2>4
<1> QED
  BY <1>2, <1>3, <1>4 DEF Next

\* Where nothing is killed, every lock file can be opened, and there are slots and
\* processes for all the clients at once, a run fails only because its command
\* does not compile: no connect is refused or times out, no slot search comes to
\* its end, and a server that is to end is out of the way before its client is.
THEOREM OnlyBadCommandsFail ==
  ASSUME KillAt = {}, CrashAt = {}, Unopenable = {}, MaxSpecific = 0,
         IsFiniteSet(Clients), Cardinality(Clients) <= MaxServers,
         IsFiniteSet(Servers), MaxServers <= Cardinality(Servers)
  PROVE  Spec => []NoSpuriousFailure
<1>1. Quiet /\ Enough
  BY DEF Quiet, Enough
<1>2. Init => ScanInv /\ NoSpuriousFailure
  <2>1. Init => NoSpuriousFailure
    BY DEF Init, NoSpuriousFailure
  <2> QED
    BY <1>1, <2>1, ScanInit
<1>3. (IInv /\ QuietInv) /\ (ScanInv /\ NoSpuriousFailure) /\ [Next]_vars
        => (ScanInv /\ NoSpuriousFailure)'
  <2>1. ScanInv' /\ NoSpuriousFailure' => (ScanInv /\ NoSpuriousFailure)'
    OBVIOUS
  <2> QED
    BY <1>1, <2>1, FailuresNext
<1> QED
  BY <1>1, <1>2, <1>3, QuietInductive, PTL DEF Spec
=============================================================================
