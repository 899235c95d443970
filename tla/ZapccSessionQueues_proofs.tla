--------------------- MODULE ZapccSessionQueues_proofs ---------------------
(***************************************************************************)
(* Proofs that a server pairs the two connections of one client although   *)
(* nothing but their order relates them, whatever is killed and whatever   *)
(* crashes, so long as no client dies between its two connects.            *)
(***************************************************************************)
EXTENDS ZapccSession_proofs

-----------------------------------------------------------------------------
(* Sequences of peers. *)

Ends == Peers \cup {None}

\* The accepted InOut connection, when there is one, comes before the queue.
Prepend(p, o, q) == (IF p = "acceptErr" THEN <<o>> ELSE <<>>) \o q

LEMMA Prepended ==
  ASSUME NEW p, NEW o \in Ends, NEW q \in Seq(Ends)
  PROVE  LET r == Prepend(p, o, q)
         IN  /\ r \in Seq(Ends) /\ Len(r) \in Nat /\ DOMAIN r = 1 .. Len(r)
             /\ p # "acceptErr" => r = q
             /\ p = "acceptErr" => /\ Len(r) = Len(q) + 1 /\ r[1] = o
                                   /\ \A i \in 1 .. Len(q) : r[i + 1] = q[i]
<1> DEFINE r == Prepend(p, o, q)
<1>1. Len(q) \in Nat
  BY LenProperties
<1>2. CASE p # "acceptErr"
  BY <1>1, <1>2, ConcatEmptySeq, LenProperties DEF Prepend
<1>3. CASE p = "acceptErr"
  <2> DEFINE h == <<o>>
  <2>1. h \in Seq(Ends) /\ Len(h) = 1 /\ h[1] = o
    OBVIOUS
  <2>2. r = h \o q
    BY <1>3 DEF Prepend
  <2> HIDE DEF h, r
  <2>3. /\ r \in Seq(Ends) /\ Len(r) = 1 + Len(q)
        /\ \A i \in 1 .. 1 + Len(q) : r[i] = IF i <= 1 THEN h[i] ELSE q[i - 1]
    <3>1. /\ h \o q \in Seq(Ends) /\ Len(h \o q) = Len(h) + Len(q)
          /\ \A i \in 1 .. Len(h) + Len(q) :
               (h \o q)[i] = IF i <= Len(h) THEN h[i] ELSE q[i - Len(h)]
      BY <2>1, ConcatProperties
    <3> QED
      BY <2>1, <2>2, <3>1
  <2>4. \A i \in 1 .. Len(q) : r[i + 1] = q[i]
    BY <1>1, <2>3
  <2>5. r[1] = o /\ Len(r) = Len(q) + 1 /\ Len(r) \in Nat
    BY <1>1, <2>1, <2>2, <2>3
  <2>6. DOMAIN r = 1 .. Len(r)
    BY <2>3, LenProperties
  <2> QED
    BY <1>3, <2>3, <2>4, <2>5, <2>6 DEF r
<1> QED
  BY <1>2, <1>3

LEMMA InsSeq ==
  ASSUME TypeOK, NEW s \in Servers
  PROVE  /\ Ins(s) \in Seq(Ends) /\ Len(Ins(s)) \in Nat
         /\ DOMAIN Ins(s) = 1 .. Len(Ins(s))
         /\ spc[s] # "acceptErr" => Ins(s) = inQ[s]
         /\ spc[s] = "acceptErr" =>
              /\ Len(Ins(s)) = Len(inQ[s]) + 1 /\ Ins(s)[1] = out[s]
              /\ \A i \in 1 .. Len(inQ[s]) : Ins(s)[i + 1] = inQ[s][i]
<1>1. inQ[s] \in Seq(Ends) /\ out[s] \in Ends
  BY SeqMonotonic DEF TypeOK, Ends
<1>2. Ins(s) = Prepend(spc[s], out[s], inQ[s])
  BY DEF Ins, Prepend
<1> QED
  BY <1>1, <1>2, Prepended

LEMMA InsSeqNext ==
  ASSUME TypeOK', NEW s \in Servers
  PROVE  /\ Ins(s)' \in Seq(Ends) /\ Len(Ins(s)') \in Nat
         /\ DOMAIN Ins(s)' = 1 .. Len(Ins(s)')
         /\ spc'[s] # "acceptErr" => Ins(s)' = inQ'[s]
         /\ spc'[s] = "acceptErr" =>
              /\ Len(Ins(s)') = Len(inQ'[s]) + 1 /\ Ins(s)'[1] = out'[s]
              /\ \A i \in 1 .. Len(inQ'[s]) : Ins(s)'[i + 1] = inQ'[s][i]
<1>1. inQ'[s] \in Seq(Ends) /\ out'[s] \in Ends
  BY SeqMonotonic DEF TypeOK, Ends
<1>2. Ins(s)' = Prepend(spc'[s], out'[s], inQ'[s])
  BY DEF Ins, Prepend
<1> QED
  BY <1>1, <1>2, Prepended

LEMMA LagIsOne == ASSUME NEW m \in Nat, NEW n \in Nat, m - n \in {0, 1} PROVE n <= m
OBVIOUS

LEMMA TailLag ==
  ASSUME NEW m \in Nat, NEW n \in Nat \ {0}, NEW k, k = m + 1, k - n \in {0, 1}
  PROVE  /\ m - (n - 1) \in {0, 1} /\ m - (n - 1) = k - n /\ n - 1 <= m
         /\ m > n - 1 <=> k > n
         /\ k = n + 1 => m = (n - 1) + 1
OBVIOUS

LEMMA ErrSeq ==
  ASSUME TypeOK, NEW s \in Servers
  PROVE  errQ[s] \in Seq(Ends) /\ Len(errQ[s]) \in Nat /\ DOMAIN errQ[s] = 1 .. Len(errQ[s])
<1>1. errQ[s] \in Seq(Ends)
  BY SeqMonotonic DEF TypeOK, Ends
<1> QED
  BY <1>1, LenProperties

\* A live client that a server has to pair is a client of its slot.
LEMMA InsOfSlot ==
  ASSUME IInv, NEW s \in Servers, NEW i \in DOMAIN Ins(s), Ins(s)[i] \in Clients
  PROVE  slot[Ins(s)[i]] = sslot[s]
<1>1. TypeOK
  BY DEF IInv
<1>2. out[s] = Ins(s)[i] \/ Queued(inQ[s], Ins(s)[i])
  <2>1. DOMAIN inQ[s] = 1 .. Len(inQ[s]) /\ Len(inQ[s]) \in Nat
    BY <1>1, LenProperties DEF TypeOK
  <2>2. CASE spc[s] # "acceptErr"
    BY <1>1, <2>2, InsSeq DEF Queued
  <2>3. CASE spc[s] = "acceptErr"
    <3>1. /\ i \in 1 .. Len(inQ[s]) + 1 /\ Ins(s)[1] = out[s]
          /\ \A j \in 1 .. Len(inQ[s]) : Ins(s)[j + 1] = inQ[s][j]
      BY <1>1, <2>3, InsSeq
    <3>2. i = 1 \/ i - 1 \in 1 .. Len(inQ[s])
      BY <2>1, <3>1
    <3>3. CASE i - 1 \in 1 .. Len(inQ[s])
      <4>1. Ins(s)[(i - 1) + 1] = inQ[s][i - 1]
        BY <3>1, <3>3
      <4> QED
        BY <2>1, <3>1, <3>3, <4>1 DEF Queued
    <3> QED
      BY <3>1, <3>2, <3>3
  <2> QED
    BY <2>2, <2>3
<1> QED
  BY <1>2 DEF IInv, ConnInv

LEMMA ListeningIsUnique ==
  ASSUME IInv, NEW s \in Servers, NEW t \in Servers, Listening(s),
         ListensErr(t, sslot[s])
  PROVE  s = t
<1>1. ListensErr(s, sslot[s]) /\ sslot[s] \in Slots
  BY DEF Listening, ListensIn, ListensErr, IInv, TypeOK
<1> QED
  BY <1>1 DEF IInv, OneListener

-----------------------------------------------------------------------------
(* The steps. *)

\* A step that leaves a server's queues alone, and its clients between their
\* connects there.
LEMMA PairedFrame ==
  ASSUME IInv, NEW s \in Servers, Paired(s),
         Ins(s)' = Ins(s), errQ'[s] = errQ[s], sslot'[s] = sslot[s],
         Listening(s)' => Listening(s),
         spc'[s] \in {"read", "compile"} => SamePeer(out'[s], err'[s]),
         \A c \in Clients : pc[c] = "openErr" => pc'[c] = "openErr",
         \A c \in Clients : pc'[c] = "openErr" => pc[c] = "openErr" /\ slot'[c] = slot[c]
  PROVE  Paired(s)'
BY DEF Paired, InStep, SamePeer

LEMMA OrphanSamePeer ==
  ASSUME TypeOK, NEW c \in Clients, NEW p, NEW q, SamePeer(p, q)
  PROVE  SamePeer(Orphan(c, p), Orphan(c, q))
BY OrphanIsOther DEF SamePeer

LEMMA DepartPaired ==
  ASSUME IInv, PairsInv, NEW c \in Clients, NEW r \in {NotFound, 0, 1}, Depart(c, r),
         pc[c] = "openErr" => \A s \in Servers : ~ListensErr(s, slot[c]),
         NEW s \in Servers
  PROVE  Paired(s)'
<1>1. TypeOK /\ TypeOK' /\ Paired(s)
  BY DepartType DEF IInv, PairsInv
<1>2. SamePeer(out[s], err[s]) => SamePeer(out'[s], err'[s])
  BY <1>1, OrphanSamePeer DEF Depart
<1>3. ASSUME Listening(s)' PROVE
        /\ InStep(Ins(s), errQ[s])'
        /\ (Len(Ins(s)) > Len(errQ[s]) =>
              Ins(s)[Len(Ins(s))] \in Clients /\ pc[Ins(s)[Len(Ins(s))]] = "openErr")'
        /\ \A d \in Clients : pc'[d] = "openErr" /\ sslot'[s] = slot'[d] =>
              (Len(Ins(s)) = Len(errQ[s]) + 1 /\ Ins(s)[Len(Ins(s))] = d)'
  <2>1. Listening(s)
    BY <1>3 DEF Depart, Listening, ListensIn
  <2>2. spc'[s] = spc[s] /\ sslot'[s] = sslot[s]
    BY DEF Depart
  <2>3. /\ Len(Ins(s)') = Len(Ins(s))
        /\ \A i \in DOMAIN Ins(s) : Ins(s)'[i] = Orphan(c, Ins(s)[i])
    <3>1. /\ DOMAIN inQ[s] = 1 .. Len(inQ[s]) /\ Len(inQ[s]) \in Nat
          /\ inQ'[s] = [i \in DOMAIN inQ[s] |-> Orphan(c, inQ[s][i])]
          /\ Len(inQ'[s]) = Len(inQ[s]) /\ out'[s] = Orphan(c, out[s])
      BY <1>1, LenProperties, OrphanQueue DEF Depart, TypeOK
    <3>2. CASE spc[s] # "acceptErr"
      <4>1. Ins(s) = inQ[s] /\ Ins(s)' = inQ'[s]
        BY <1>1, <2>2, <3>2, InsSeq, InsSeqNext
      <4> QED
        BY <3>1, <4>1
    <3>3. CASE spc[s] = "acceptErr"
      <4>1. /\ Len(Ins(s)) = Len(inQ[s]) + 1 /\ Ins(s)[1] = out[s]
            /\ DOMAIN Ins(s) = 1 .. Len(inQ[s]) + 1
            /\ \A i \in 1 .. Len(inQ[s]) : Ins(s)[i + 1] = inQ[s][i]
        BY <1>1, <3>3, InsSeq
      <4>2. /\ Len(Ins(s)') = Len(inQ'[s]) + 1 /\ Ins(s)'[1] = out'[s]
            /\ \A i \in 1 .. Len(inQ'[s]) : Ins(s)'[i + 1] = inQ'[s][i]
        BY <1>1, <2>2, <3>3, InsSeqNext
      <4>3. ASSUME NEW i \in DOMAIN Ins(s), i # 1
            PROVE  Ins(s)'[i] = Orphan(c, Ins(s)[i])
        <5>1. i - 1 \in 1 .. Len(inQ[s])
          BY <3>1, <4>1, <4>3
        <5>2. Ins(s)[(i - 1) + 1] = inQ[s][i - 1] /\ Ins(s)'[(i - 1) + 1] = inQ'[s][i - 1]
          BY <3>1, <4>1, <4>2, <5>1
        <5>3. (i - 1) + 1 = i
          BY <4>1, <3>1
        <5> QED
          BY <3>1, <5>1, <5>2, <5>3
      <4> QED
        BY <3>1, <4>1, <4>2, <4>3
    <3> QED
      BY <3>2, <3>3
  <2>4. /\ Len(errQ'[s]) = Len(errQ[s]) /\ DOMAIN errQ'[s] = DOMAIN errQ[s]
        /\ \A i \in DOMAIN errQ[s] : errQ'[s][i] = Orphan(c, errQ[s][i])
    BY <1>1, OrphanQueue DEF Depart, TypeOK
  <2>5. /\ DOMAIN Ins(s) = 1 .. Len(Ins(s)) /\ Len(Ins(s)) \in Nat
        /\ DOMAIN errQ[s] = 1 .. Len(errQ[s]) /\ Len(errQ[s]) \in Nat
    BY <1>1, InsSeq, ErrSeq
  <2>6. InStep(Ins(s), errQ[s])
    BY <1>1, <2>1 DEF Paired
  <2>7. InStep(Ins(s), errQ[s])'
    <3>1. Len(Ins(s)) - Len(errQ[s]) \in {0, 1}
          /\ \A i \in DOMAIN errQ[s] : SamePeer(Ins(s)[i], errQ[s][i])
      BY <2>6 DEF InStep
    <3>2. \A i \in DOMAIN errQ[s] : i \in DOMAIN Ins(s)
      <4>1. Len(errQ[s]) <= Len(Ins(s))
        BY <2>5, <3>1, LagIsOne
      <4> QED
        BY <2>5, <4>1
    <3>3. \A i \in DOMAIN errQ[s] : SamePeer(Ins(s)'[i], errQ'[s][i])
      BY <1>1, <2>3, <2>4, <3>1, <3>2, OrphanSamePeer
    <3>4. Len(Ins(s)') - Len(errQ'[s]) \in {0, 1}
      BY <2>3, <2>4, <3>1
    <3> QED
      BY <2>4, <3>3, <3>4 DEF InStep, SamePeer
  <2>8. ASSUME Len(Ins(s)) > Len(errQ[s])
        PROVE  /\ Ins(s)'[Len(Ins(s))] = Ins(s)[Len(Ins(s))]
               /\ Ins(s)[Len(Ins(s))] \in Clients \ {c}
               /\ pc'[Ins(s)[Len(Ins(s))]] = "openErr"
    <3> DEFINE n == Len(Ins(s))
               d == Ins(s)[n]
    <3>1. d \in Clients /\ pc[d] = "openErr"
      BY <1>1, <2>1, <2>8 DEF Paired
    <3>2. n \in DOMAIN Ins(s)
      BY <2>5, <2>8
    <3>3. slot[d] = sslot[s]
      BY <3>1, <3>2, InsOfSlot
    <3>4. ListensErr(s, slot[d])
      BY <2>1, <3>3 DEF Listening, ListensIn, ListensErr
    <3>5. d # c
      BY <3>1, <3>4
    <3>6. pc'[d] = pc[d] /\ Orphan(c, d) = d
      BY <1>1, <3>1, <3>5 DEF Depart, Orphan, TypeOK
    <3> QED
      BY <2>3, <3>1, <3>2, <3>5, <3>6
  <2>9. ASSUME NEW d \in Clients, pc'[d] = "openErr", sslot'[s] = slot'[d]
        PROVE  Len(Ins(s)') = Len(errQ'[s]) + 1 /\ Ins(s)'[Len(Ins(s)')] = d
    <3>1. d # c /\ pc[d] = "openErr" /\ slot[d] = sslot[s]
      BY <1>1, <2>2, <2>9 DEF Depart, TypeOK
    <3>2. Len(Ins(s)) = Len(errQ[s]) + 1 /\ Ins(s)[Len(Ins(s))] = d
      BY <1>1, <2>1, <3>1 DEF Paired
    <3> QED
      BY <2>3, <2>4, <2>5, <2>8, <3>2
  <2> QED
    BY <2>3, <2>4, <2>7, <2>8, <2>9
<1> QED
  BY <1>1, <1>2, <1>3 DEF Paired, Depart

LEMMA AppendIns ==
  ASSUME NEW p \in Seq(Ends), NEW e \in Seq(Ends), NEW c \in Ends,
         InStep(p, e), Len(p) = Len(e)
  PROVE  /\ InStep(Append(p, c), e)
         /\ Len(Append(p, c)) = Len(e) + 1 /\ Append(p, c)[Len(Append(p, c))] = c
<1>1. Len(e) \in Nat /\ DOMAIN e = 1 .. Len(e)
  BY LenProperties
<1>2. /\ Len(Append(p, c)) = Len(p) + 1 /\ Append(p, c)[Len(p) + 1] = c
      /\ \A i \in 1 .. Len(p) : Append(p, c)[i] = p[i]
  BY AppendProperties
<1> QED
  BY <1>1, <1>2 DEF InStep

LEMMA AppendErr ==
  ASSUME NEW p \in Seq(Ends), NEW e \in Seq(Ends), NEW c \in Ends,
         InStep(p, e), Len(p) = Len(e) + 1, p[Len(p)] = c
  PROVE  InStep(p, Append(e, c)) /\ Len(Append(e, c)) = Len(p)
<1>1. Len(e) \in Nat /\ DOMAIN e = 1 .. Len(e)
  BY LenProperties
<1>2. /\ Append(e, c) \in Seq(Ends)
      /\ Len(Append(e, c)) = Len(e) + 1 /\ Append(e, c)[Len(e) + 1] = c
      /\ \A i \in 1 .. Len(e) : Append(e, c)[i] = e[i]
  BY AppendProperties
<1>3. DOMAIN Append(e, c) = 1 .. Len(e) + 1
  BY <1>2, LenProperties
<1>4. \A i \in 1 .. Len(e) + 1 : SamePeer(p[i], Append(e, c)[i])
  BY <1>1, <1>2 DEF InStep, SamePeer
<1> QED
  BY <1>1, <1>2, <1>3, <1>4 DEF InStep

\* Taking the first of both leaves the rest in step.
LEMMA PairFirst ==
  ASSUME NEW p \in Seq(Ends), NEW q \in Seq(Ends), NEW e \in Seq(Ends), e # <<>>,
         InStep(p, e), Len(p) = Len(q) + 1, \A i \in 1 .. Len(q) : p[i + 1] = q[i]
  PROVE  /\ SamePeer(p[1], Head(e)) /\ InStep(q, Tail(e))
         /\ Len(q) - Len(Tail(e)) = Len(p) - Len(e)
         /\ Len(q) > Len(Tail(e)) => q[Len(q)] = p[Len(p)]
<1>1. /\ Len(q) \in Nat /\ Len(e) \in Nat \ {0} /\ DOMAIN e = 1 .. Len(e)
  BY LenProperties, EmptySeq
<1>2. /\ Tail(e) \in Seq(Ends) /\ Len(Tail(e)) = Len(e) - 1
      /\ \A i \in 1 .. Len(Tail(e)) : Tail(e)[i] = e[i + 1]
      /\ Head(e) = e[1]
  BY HeadTailProperties
<1>3. DOMAIN Tail(e) = 1 .. Len(e) - 1
  BY <1>2, LenProperties
<1>4. SamePeer(p[1], Head(e))
  <2>1. 1 \in DOMAIN e
    BY <1>1
  <2> QED
    BY <1>2, <2>1 DEF InStep
<1>5. Len(q) - Len(Tail(e)) \in {0, 1} /\ Len(q) - Len(Tail(e)) = Len(p) - Len(e)
  <2>1. Len(p) - Len(e) \in {0, 1}
    BY DEF InStep
  <2>2. Len(q) - (Len(e) - 1) \in {0, 1} /\ Len(q) - (Len(e) - 1) = Len(p) - Len(e)
    BY <1>1, <2>1, TailLag
  <2> QED
    BY <1>2, <2>2
<1>6. Len(e) - 1 <= Len(q)
  <2>1. Len(p) - Len(e) \in {0, 1}
    BY DEF InStep
  <2> QED
    BY <1>1, <2>1, TailLag
<1>7. \A i \in 1 .. Len(e) - 1 : SamePeer(q[i], Tail(e)[i])
  <2> TAKE i \in 1 .. Len(e) - 1
  <2>1. i \in 1 .. Len(q) /\ i + 1 \in DOMAIN e
    BY <1>1, <1>6
  <2>2. SamePeer(p[i + 1], e[i + 1])
    BY <2>1 DEF InStep
  <2> QED
    BY <1>2, <2>1, <2>2
<1>8. ASSUME Len(q) > Len(Tail(e)) PROVE q[Len(q)] = p[Len(p)]
  BY <1>1, <1>2, <1>8
<1> QED
  BY <1>3, <1>4, <1>5, <1>7, <1>8 DEF InStep

-----------------------------------------------------------------------------
LEMMA ClientPaired ==
  ASSUME "openErr" \notin KillAt, IInv, PairsInv, NEW c \in Clients,
         Invoke(c) \/ ClientStep(c) \/ ClientFault(c), NEW s \in Servers
  PROVE  Paired(s)'
<1>1. TypeOK /\ TypeOK' /\ Paired(s)
  BY ClientType DEF IInv, PairsInv
<1>2. CASE \/ Invoke(c) \/ ObtainLock(c) \/ LockBusyNext(c) \/ OpenRefused(c) \/ Send(c)
           \/ EndOfOutputLocal(c)
  <2>1. UNCHANGED serverVars
    BY <1>2 DEF Invoke, ObtainLock, LockBusyNext, OpenRefused, Send, EndOfOutputLocal
  <2>2. /\ \A d \in Clients : d # c => pc'[d] = pc[d] /\ slot'[d] = slot[d]
        /\ pc[c] # "openErr" /\ pc'[c] # "openErr"
    BY <1>1, <1>2 DEF Invoke, ObtainLock, LockBusyNext, OpenRefused, Send,
       EndOfOutputLocal, TypeOK
  <2>3. Ins(s)' = Ins(s) /\ Listening(s)' = Listening(s)
    BY <2>1 DEF serverVars, Ins, Listening, ListensIn
  <2> QED
    BY <1>1, <2>1, <2>2, <2>3, PairedFrame DEF serverVars, Paired
<1>3. CASE OpenInOut(c)
  <2>1. PICK t \in Servers : /\ ListensIn(t, slot[c])
                             /\ inQ' = [inQ EXCEPT ![t] = Append(@, c)]
    BY <1>3 DEF OpenInOut
  <2>2. /\ pc[c] \in {"open", "reopen"} /\ pc' = [pc EXCEPT ![c] = "openErr"]
        /\ UNCHANGED <<slot, spc, sslot, errQ, out, err>>
    BY <1>3 DEF OpenInOut
  <2>3. \A d \in Clients : pc[d] = "openErr" => slot[d] # slot[c]
    BY <2>2, OneHolder DEF Holding
  <2>4. CASE s # t
    <3>1. inQ'[s] = inQ[s]
      BY <1>1, <2>1, <2>4 DEF TypeOK
    <3>2. Ins(s)' = Ins(s) /\ Listening(s)' = Listening(s)
      BY <2>2, <3>1 DEF Ins, Listening, ListensIn
    <3>3. Listening(s) => sslot[s] # slot[c]
      <4>1. ListensErr(t, slot[c])
        BY <2>1 DEF ListensIn, ListensErr
      <4> QED
        BY <2>4, <4>1, ListeningIsUnique
    <3> QED
      BY <1>1, <2>2, <3>2, <3>3 DEF Paired, InStep, SamePeer, TypeOK
  <2>5. CASE s = t /\ Listening(s)
    <3>1. Len(Ins(s)) = Len(errQ[s]) /\ InStep(Ins(s), errQ[s])
      <4>1. /\ InStep(Ins(s), errQ[s])
            /\ Len(Ins(s)) > Len(errQ[s]) =>
                 Ins(s)[Len(Ins(s))] \in Clients /\ pc[Ins(s)[Len(Ins(s))]] = "openErr"
        BY <1>1, <2>5 DEF Paired
      <4>2. ~ Len(Ins(s)) > Len(errQ[s])
        <5> SUFFICES ASSUME Len(Ins(s)) > Len(errQ[s]) PROVE FALSE
          OBVIOUS
        <5>1. Len(Ins(s)) \in DOMAIN Ins(s)
          BY <1>1, InsSeq, ErrSeq
        <5>2. slot[Ins(s)[Len(Ins(s))]] = sslot[s]
          BY <4>1, <5>1, InsOfSlot
        <5> QED
          BY <2>1, <2>3, <2>5, <4>1, <5>2 DEF ListensIn
      <4>3. Len(errQ[s]) <= Len(Ins(s))
        BY <1>1, <4>1, InsSeq, ErrSeq, LagIsOne DEF InStep
      <4> QED
        BY <1>1, <4>1, <4>2, <4>3, InsSeq, ErrSeq
    <3>2. Ins(s)' = Append(Ins(s), c)
      <4>1. inQ[s] \in Seq(Ends) /\ inQ'[s] = Append(inQ[s], c) /\ c \in Ends /\ out[s] \in Ends
        BY <1>1, <2>1, <2>5, SeqMonotonic DEF TypeOK, Ends, Peers
      <4>2. CASE spc[s] # "acceptErr"
        BY <1>1, <2>2, <4>1, <4>2, InsSeq, InsSeqNext
      <4>3. CASE spc[s] = "acceptErr"
        <5> DEFINE h == <<out[s]>>
        <5>1. h \in Seq(Ends)
          BY <4>1
        <5>2. Ins(s) = h \o inQ[s] /\ Ins(s)' = h \o Append(inQ[s], c)
          BY <2>2, <4>1, <4>3 DEF Ins
        <5>3. Append(inQ[s], c) = inQ[s] \o <<c>> /\ <<c>> \in Seq(Ends)
          BY <4>1, AppendIsConcat
        <5>5. Append(Ins(s), c) = Ins(s) \o <<c>>
          BY <1>1, <4>1, InsSeq, AppendIsConcat
        <5> DEFINE g == <<c>>
                   q == inQ[s]
        <5>6. g \in Seq(Ends) /\ q \in Seq(Ends)
          BY <4>1, <5>3
        <5> HIDE DEF h, g, q
        <5>7. (h \o q) \o g = h \o (q \o g)
          BY <5>1, <5>6, ConcatAssociative
        <5>4. (h \o inQ[s]) \o <<c>> = h \o (inQ[s] \o <<c>>)
          BY <5>7 DEF g, q
        <5> QED
          BY <5>2, <5>3, <5>4, <5>5
      <4> QED
        BY <4>2, <4>3
    <3>3. /\ InStep(Append(Ins(s), c), errQ[s])
          /\ Len(Append(Ins(s), c)) = Len(errQ[s]) + 1
          /\ Append(Ins(s), c)[Len(Append(Ins(s), c))] = c
      <4>1. Ins(s) \in Seq(Ends) /\ errQ[s] \in Seq(Ends)
        BY <1>1, InsSeq, ErrSeq
      <4>2. c \in Ends
        BY DEF Ends, Peers
      <4>3. InStep(Ins(s), errQ[s]) /\ Len(Ins(s)) = Len(errQ[s])
        BY <3>1
      <4> QED
        BY <4>1, <4>2, <4>3, AppendIns
    <3>4. \A d \in Clients : pc'[d] = "openErr" /\ slot[d] = sslot[s] => d = c
      BY <1>1, <2>1, <2>2, <2>3, <2>5 DEF ListensIn, TypeOK
    <3>5. pc'[c] = "openErr"
      BY <1>1, <2>2 DEF TypeOK
    <3> QED
      BY <1>1, <2>2, <3>2, <3>3, <3>4, <3>5 DEF Paired, InStep, SamePeer
  <2>6. CASE ~Listening(s)
    BY <1>1, <2>2, <2>6 DEF Paired, Listening, ListensIn, SamePeer
  <2> QED
    BY <2>4, <2>5, <2>6
<1>4. CASE OpenError(c)
  <2>1. PICK t \in Servers : /\ ListensErr(t, slot[c])
                             /\ errQ' = [errQ EXCEPT ![t] = Append(@, c)]
    BY <1>4 DEF OpenError
  <2>2. /\ pc[c] = "openErr" /\ pc' = [pc EXCEPT ![c] = "send"]
        /\ UNCHANGED <<slot, spc, sslot, inQ, out, err>>
    BY <1>4 DEF OpenError
  <2>3. Ins(s)' = Ins(s) /\ Listening(s)' = Listening(s)
    BY <2>2 DEF Ins, Listening, ListensIn
  <2>4. CASE ~Listening(s)
    BY <1>1, <2>2, <2>3, <2>4 DEF Paired, SamePeer
  <2>5. CASE Listening(s) /\ s = t
    <3>1. /\ InStep(Ins(s), errQ[s]) /\ Len(Ins(s)) = Len(errQ[s]) + 1
          /\ Ins(s)[Len(Ins(s))] = c
      BY <1>1, <2>1, <2>2, <2>5 DEF Paired, ListensErr
    <3>2. errQ'[s] = Append(errQ[s], c)
      BY <1>1, <2>1, <2>5 DEF TypeOK
    <3>3. InStep(Ins(s), Append(errQ[s], c)) /\ Len(Append(errQ[s], c)) = Len(Ins(s))
      BY <1>1, <3>1, InsSeq, ErrSeq, AppendErr DEF Ends, Peers
    <3>4. \A d \in Clients : pc'[d] = "openErr" /\ slot[d] = sslot[s] => FALSE
      BY <1>1, <2>1, <2>2, <2>5, OneHolder DEF ListensErr, TypeOK, Holding
    <3>5. ~(Len(Ins(s)) > Len(Append(errQ[s], c)))
      BY <1>1, <3>3, InsSeq
    <3> QED
      BY <1>1, <2>2, <2>3, <3>2, <3>3, <3>4, <3>5 DEF Paired, InStep, SamePeer
  <2>6. CASE Listening(s) /\ s # t
    <3>1. errQ'[s] = errQ[s]
      BY <1>1, <2>1, <2>6 DEF TypeOK
    <3>2. sslot[s] # slot[c]
      BY <2>1, <2>6, ListeningIsUnique
    <3>3. Len(Ins(s)) > Len(errQ[s]) => Ins(s)[Len(Ins(s))] # c
      <4>1. Len(Ins(s)) > Len(errQ[s]) => Len(Ins(s)) \in DOMAIN Ins(s)
        BY <1>1, InsSeq, ErrSeq
      <4> QED
        BY <3>2, <4>1, InsOfSlot
    <3> QED
      BY <1>1, <2>2, <2>3, <3>1, <3>3 DEF Paired, InStep, SamePeer, TypeOK
  <2> QED
    BY <2>4, <2>5, <2>6
<1>5. CASE CreatePipeAndServer(c)
  <2>1. PICK t \in Servers : /\ spc[t] = "none"
                             /\ spc' = [spc EXCEPT ![t] = "acceptIn"]
                             /\ sslot' = [sslot EXCEPT ![t] = slot[c]]
    BY <1>5 DEF CreatePipeAndServer
  <2>2. /\ pc[c] = "create" /\ pc' = [pc EXCEPT ![c] = "reopen"]
        /\ UNCHANGED <<slot, inQ, errQ, out, err>>
    BY <1>5 DEF CreatePipeAndServer
  <2>3. CASE s # t
    <3>1. Ins(s)' = Ins(s) /\ Listening(s)' = Listening(s)
          /\ spc'[s] = spc[s] /\ sslot'[s] = sslot[s]
      BY <1>1, <2>1, <2>2, <2>3 DEF Ins, Listening, ListensIn, TypeOK
    <3>2. \A d \in Clients : pc'[d] = "openErr" <=> pc[d] = "openErr"
      BY <1>1, <2>2 DEF TypeOK
    <3> QED
      BY <1>1, <2>2, <3>1, <3>2, PairedFrame DEF Paired
  <2>4. CASE s = t
    <3>1. inQ[s] = <<>> /\ errQ[s] = <<>>
      BY <2>1, <2>4 DEF IInv, ClosedInv
    <3>2. spc'[s] = "acceptIn" /\ sslot'[s] = slot[c]
      BY <1>1, <2>1, <2>4 DEF TypeOK
    <3>3. Ins(s)' = <<>>
      BY <1>1, <2>2, <3>1, <3>2, InsSeqNext
    <3>4. \A d \in Clients : pc'[d] = "openErr" => slot[d] # slot[c]
      BY <1>1, <2>2, OneHolder DEF TypeOK, Holding
    <3>5. InStep(<<>>, <<>>) /\ ~(Len(<<>>) > Len(<<>>))
      BY DEF InStep
    <3> QED
      BY <2>2, <3>1, <3>2, <3>3, <3>4, <3>5 DEF Paired, InStep, SamePeer
  <2> QED
    BY <2>3, <2>4
<1>6. CASE \/ LockBusyLast(c) \/ LockUnexpected(c) \/ ReopenRefused(c) \/ OpenTimesOut(c)
           \/ OpenErrorRefused(c) \/ CreateFails(c) \/ SendFails(c) \/ CompileLocally(c)
           \/ Kill(c) \/ EndOfOutput(c)
  <2>1. PICK r \in {NotFound, 0, 1} : Depart(c, r)
    BY <1>1, <1>6 DEF LockBusyLast, LockUnexpected, ReopenRefused, OpenTimesOut,
       OpenErrorRefused, CreateFails, SendFails, CompileLocally, Truth, Kill, EndOfOutput,
       TypeOK
  <2>2. pc[c] = "openErr" => \A t \in Servers : ~ListensErr(t, slot[c])
    BY <1>6 DEF LockBusyLast, LockUnexpected, ReopenRefused, OpenTimesOut,
       OpenErrorRefused, CreateFails, SendFails, CompileLocally, Kill, EndOfOutput
  <2> QED
    BY <2>1, <2>2, DepartPaired
<1> QED
  BY <1>2, <1>3, <1>4, <1>5, <1>6 DEF ClientStep, ClientFault

LEMMA ServerPaired ==
  ASSUME IInv, PairsInv, NEW t \in Servers, ServerStep(t) \/ ServerFault(t),
         NEW s \in Servers
  PROVE  Paired(s)'
<1>1. TypeOK /\ TypeOK' /\ Paired(s)
  BY ServerType DEF IInv, PairsInv
<1>2. pc' = pc /\ slot' = slot
  BY DEF ServerStep, ServerFault, AcceptInOut, AcceptError, ReadCommand, WriteExitCode,
     Disconnect, CloseInOut, CloseError, CloseConnections, Crash, BrokenPipe, Die, clientVars
<1>3. CASE s # t
  <2>1. /\ spc'[s] = spc[s] /\ sslot'[s] = sslot[s] /\ inQ'[s] = inQ[s] /\ errQ'[s] = errQ[s]
        /\ out'[s] = out[s] /\ err'[s] = err[s]
    BY <1>1, <1>3 DEF ServerStep, ServerFault, AcceptInOut, AcceptError, ReadCommand,
       WriteExitCode, Disconnect, CloseInOut, CloseError, CloseConnections, Crash,
       BrokenPipe, Die, TypeOK
  <2>2. Ins(s)' = Ins(s) /\ Listening(s)' = Listening(s)
    BY <2>1 DEF Ins, Listening, ListensIn
  <2> QED
    BY <1>1, <1>2, <2>1, <2>2, PairedFrame DEF Paired
<1>4. CASE s = t /\ AcceptInOut(s)
  <2>1. /\ spc[s] = "acceptIn" /\ inQ[s] # <<>> /\ spc'[s] = "acceptErr"
        /\ out'[s] = Head(inQ[s]) /\ inQ'[s] = Tail(inQ[s])
        /\ UNCHANGED <<sslot, errQ, err>>
    BY <1>1, <1>4 DEF AcceptInOut, TypeOK
  <2>2. Ins(s)' = Ins(s)
    <3>1. inQ[s] \in Seq(Ends) /\ Ins(s) = inQ[s] /\ Ins(s)' \in Seq(Ends)
      BY <1>1, <2>1, InsSeq, InsSeqNext
    <3>2. /\ Len(Ins(s)') = Len(inQ'[s]) + 1 /\ Ins(s)'[1] = out'[s]
          /\ \A i \in 1 .. Len(inQ'[s]) : Ins(s)'[i + 1] = inQ'[s][i]
      BY <1>1, <2>1, InsSeqNext
    <3>3. /\ Head(inQ[s]) = inQ[s][1] /\ Len(inQ'[s]) = Len(inQ[s]) - 1
          /\ \A i \in 1 .. Len(inQ'[s]) : inQ'[s][i] = inQ[s][i + 1]
          /\ Len(inQ[s]) \in Nat \ {0}
      BY <2>1, <3>1, HeadTailProperties, EmptySeq
    <3>4. \A i \in 1 .. Len(Ins(s)') : Ins(s)'[i] = Ins(s)[i]
      <4> TAKE i \in 1 .. Len(Ins(s)')
      <4>1. CASE i = 1
        BY <2>1, <3>1, <3>2, <3>3, <4>1
      <4>2. CASE i # 1
        <5>1. i - 1 \in 1 .. Len(inQ'[s]) /\ (i - 1) + 1 = i
          BY <3>2, <3>3, <4>2
        <5>2. Ins(s)'[(i - 1) + 1] = inQ[s][(i - 1) + 1]
          BY <3>2, <3>3, <5>1
        <5> QED
          BY <3>1, <5>1, <5>2
      <4> QED
        BY <4>1, <4>2
    <3>5. Len(Ins(s)') = Len(Ins(s)) /\ Ins(s) \in Seq(Ends)
      BY <3>1, <3>2, <3>3
    <3> QED
      BY <3>1, <3>4, <3>5, SeqEqual
  <2> QED
    BY <1>1, <1>2, <2>1, <2>2, PairedFrame DEF Listening, ListensIn
<1>5. CASE s = t /\ AcceptError(s)
  <2>1. /\ spc[s] = "acceptErr" /\ errQ[s] # <<>> /\ spc'[s] = "read"
        /\ err'[s] = Head(errQ[s]) /\ errQ'[s] = Tail(errQ[s])
        /\ UNCHANGED <<sslot, inQ, out>>
    BY <1>1, <1>5 DEF AcceptError, TypeOK
  <2>2. Listening(s)
    BY <2>1 DEF Listening, ListensIn
  <2>3. /\ Ins(s) \in Seq(Ends) /\ Len(Ins(s)) = Len(inQ[s]) + 1 /\ Ins(s)[1] = out[s]
        /\ \A i \in 1 .. Len(inQ[s]) : Ins(s)[i + 1] = inQ[s][i]
        /\ Ins(s)' = inQ[s]
    BY <1>1, <2>1, InsSeq, InsSeqNext
  <2>4. inQ[s] \in Seq(Ends) /\ errQ[s] \in Seq(Ends)
    BY <1>1, <2>1, <2>3, InsSeqNext, ErrSeq
  <2>5. InStep(Ins(s), errQ[s])
    BY <1>1, <2>2 DEF Paired
  <2>6. /\ SamePeer(Ins(s)[1], Head(errQ[s])) /\ InStep(inQ[s], Tail(errQ[s]))
        /\ Len(inQ[s]) - Len(Tail(errQ[s])) = Len(Ins(s)) - Len(errQ[s])
        /\ Len(inQ[s]) > Len(Tail(errQ[s])) => inQ[s][Len(inQ[s])] = Ins(s)[Len(Ins(s))]
    BY <2>1, <2>3, <2>4, <2>5, PairFirst
  <2>7. /\ Len(inQ[s]) \in Nat /\ Len(Tail(errQ[s])) \in Nat
        /\ Len(Ins(s)) \in Nat /\ Len(errQ[s]) \in Nat
    BY <1>1, <2>1, <2>4, LenProperties, HeadTailProperties, InsSeq, ErrSeq
  <2>8. /\ Len(inQ[s]) > Len(Tail(errQ[s])) <=> Len(Ins(s)) > Len(errQ[s])
        /\ Len(Ins(s)) = Len(errQ[s]) + 1 => Len(inQ[s]) = Len(Tail(errQ[s])) + 1
    <3>1. Len(Ins(s)) - Len(errQ[s]) \in {0, 1}
      BY <2>5 DEF InStep
    <3>2. Len(Tail(errQ[s])) = Len(errQ[s]) - 1 /\ Len(errQ[s]) \in Nat \ {0}
      BY <2>1, <2>4, HeadTailProperties, EmptySeq
    <3> QED
      BY <2>3, <2>7, <3>1, <3>2, TailLag
  <2>9. SamePeer(out'[s], err'[s])
    BY <2>1, <2>3, <2>6
  <2>10. Len(Ins(s)) = Len(errQ[s]) + 1 => Len(inQ[s]) > Len(Tail(errQ[s]))
    BY <2>6, <2>7
  <2> QED
    BY <1>1, <1>2, <2>1, <2>2, <2>3, <2>6, <2>8, <2>9, <2>10 DEF Paired, InStep, SamePeer
<1>6. CASE s = t /\ (ReadCommand(s) \/ WriteExitCode(s) \/ Disconnect(s))
  <2>1. /\ spc[s] \in {"read", "compile", "disconnect"} /\ spc'[s] # "acceptErr"
        /\ spc'[s] = "compile" => spc[s] = "read" /\ out'[s] = out[s] /\ err'[s] = err[s]
        /\ spc'[s] # "read" /\ UNCHANGED <<sslot, inQ, errQ>>
    BY <1>1, <1>6 DEF ReadCommand, WriteExitCode, Disconnect, TypeOK
  <2>2. Ins(s)' = Ins(s)
    BY <1>1, <2>1, InsSeq, InsSeqNext
  <2> QED
    BY <1>1, <1>2, <2>1, <2>2, PairedFrame DEF Paired, Listening, ListensIn
<1>7. CASE s = t /\ (CloseInOut(s) \/ CloseError(s) \/ CloseConnections(s) \/ Crash(s)
                       \/ BrokenPipe(s))
  <2>1. spc'[s] \in {"none", "closeErr", "closeConn", "dieIn", "dieErr"}
    BY <1>1, <1>7 DEF CloseInOut, CloseError, CloseConnections, Crash, BrokenPipe,
       LeftToClose, TypeOK
  <2> QED
    BY <2>1 DEF Paired, Listening, ListensIn
<1> QED
  BY <1>3, <1>4, <1>5, <1>6, <1>7 DEF ServerStep, ServerFault

-----------------------------------------------------------------------------
\* The accept queues of every server keep in step in every reachable state.
LEMMA PairsInductive == ASSUME "openErr" \notin KillAt PROVE Spec => []PairsInv
<1>1. Init => PairsInv
  <2> SUFFICES ASSUME Init, NEW s \in Servers PROVE Paired(s)
    BY DEF PairsInv
  <2>1. spc[s] = "none"
    BY DEF Init
  <2> QED
    BY <2>1 DEF Paired, Listening, ListensIn
<1>2. IInv /\ PairsInv /\ [Next]_vars => PairsInv'
  <2> SUFFICES ASSUME IInv, PairsInv, [Next]_vars, NEW s \in Servers PROVE Paired(s)'
    BY DEF PairsInv
  <2>1. CASE UNCHANGED vars
    <3>1. Ins(s)' = Ins(s) /\ Listening(s)' = Listening(s)
      BY <2>1 DEF vars, Ins, Listening, ListensIn
    <3>2. SamePeer(out[s], err[s]) => SamePeer(out'[s], err'[s])
      BY <2>1 DEF vars
    <3> QED
      BY <2>1, <3>1, <3>2, PairedFrame DEF vars, PairsInv, Paired
  <2> QED
    BY <2>1, ClientPaired, ServerPaired DEF Next
<1> QED
  BY <1>1, <1>2, Inductive, PTL DEF Spec

\* Of every listening server the Error queue lags the InOut queue by at most the
\* one client between its two connects, and the two agree up to there, whatever
\* crashes and whoever is killed anywhere but between its connects.
THEOREM QueuesKeepStep == ASSUME "openErr" \notin KillAt PROVE Spec => []QueuesInStep
<1>1. PairsInv => QueuesInStep
  BY DEF PairsInv, Paired, QueuesInStep
<1> QED
  BY <1>1, PairsInductive, PTL

\* ... so the client that gets the diagnostics of a compilation is the one whose
\* command it is: Server::connect pairs the two accepts rightly.
THEOREM StreamsArePaired == ASSUME "openErr" \notin KillAt PROVE Spec => []StreamsOfOneClient
<1>1. PairsInv => StreamsOfOneClient
  BY DEF PairsInv, Paired, SamePeer, StreamsOfOneClient
<1> QED
  BY <1>1, PairsInductive, PTL
=============================================================================
