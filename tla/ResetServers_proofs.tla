------------------------- MODULE ResetServers_proofs -------------------------
(***************************************************************************)
(* Proofs about the output of servers and about the reset, for any number  *)
(* of clients and processes, any output and any size of a read.            *)
(*                                                                         *)
(* The argument: what a client has printed, what is under way and what is  *)
(* to be written are, one after the other, the text and the exit code      *)
(* (Flow, Copied).  A client that finishes has nothing under way, and no   *)
(* server writes for it any more (Connected), so either it has read all or *)
(* its server did not come to write the code.                              *)
(***************************************************************************)
EXTENDS ResetServers, SequenceTheorems, TLAPS

(* What a server is to write of the text itself.                           *)
Text(c, s) == IF c \in DoNotZap THEN <<>> ELSE Output[c][s]

(* How much of what is to be written the client has read.                  *)
Taken(c, s) == Len(ToWrite(c)[s]) - Len(todo[c][s]) - Len(sent[c][s])

(* What is still to be written is an end of the whole, and what is under   *)
(* way comes just before it.                                               *)
Flow ==
  \A c \in Clients : \A s \in Streams :
    /\ Taken(c, s) >= 0
    /\ \A i \in 1 .. Len(todo[c][s]) :
         todo[c][s][i] = ToWrite(c)[s][Taken(c, s) + Len(sent[c][s]) + i]
    /\ \A i \in 1 .. Len(sent[c][s]) : sent[c][s][i] = ToWrite(c)[s][Taken(c, s) + i]

(* A client has printed what it has read of the text, and has found the    *)
(* exit code once it has read all of the first stream.                     *)
Copied ==
  \A c \in Clients : client[c] # "end" =>
    /\ \A s \in Streams :
         /\ Len(printed[c][s]) = Least(Taken(c, s), Len(Text(c, s)))
         /\ \A i \in 1 .. Len(printed[c][s]) : printed[c][s][i] = Text(c, s)[i]
    /\ found[c] = IF todo[c]["out"] = <<>> /\ sent[c]["out"] = <<>>
                    THEN RetCode(c) ELSE NotFound

(* A server at work has a client that reads from it, a client one server;  *)
(* when that is gone, so are both sockets.                                 *)
Connected ==
  /\ \A p \in Pids :
       /\ proc[p] \in {"forked", "compile", "answered"} => user[p] \in Clients
       /\ proc[p] \in {"none", "accept", "zombie", "gone"} => user[p] = None
       /\ user[p] # None => client[user[p]] = "read" /\ ended[user[p]] = {}
  /\ \A p, q \in Pids : user[p] # None /\ user[p] = user[q] => p = q
  /\ \A c \in Clients :
       /\ client[c] = "start" => ended[c] = {} /\ todo[c] = ToWrite(c)
       /\ client[c] = "read" => c \notin Unsuited
       /\ \A s \in Streams \ open[c] : ended[c] # {} /\ sent[c][s] = <<>>
       /\ Answered(c) => todo[c]["err"] = <<>>

(* While a scan has killed no server, those that ran when it began and     *)
(* still exist are before it.                                              *)
Scanned ==
  /\ \A p \in before : proc[p] \notin {"none", "forked"}
  /\ scan = "scan" /\ ~ killedServer => \A p \in before \cap Named : p > last \/ p \in listed
  /\ status => scan = "end"

IInv ==
  /\ TypeOK /\ Flow /\ Copied /\ Connected /\ Scanned
  /\ ExitCodeTrue /\ TextTrue /\ ResetComplete

-----------------------------------------------------------------------------
LEMMA Concatenated ==
  \A t, u \in Seq(Nat) :
    /\ t \o u \in Seq(Nat) /\ Len(t \o u) = Len(t) + Len(u) /\ Len(t) \in Nat /\ Len(u) \in Nat
    /\ \A i \in 1 .. Len(t) : (t \o u)[i] = t[i]
    /\ \A i \in 1 .. Len(u) : (t \o u)[Len(t) + i] = u[i]
<1> SUFFICES ASSUME NEW t \in Seq(Nat), NEW u \in Seq(Nat)
             PROVE  /\ t \o u \in Seq(Nat) /\ Len(t \o u) = Len(t) + Len(u)
                    /\ Len(t) \in Nat /\ Len(u) \in Nat
                    /\ \A i \in 1 .. Len(t) : (t \o u)[i] = t[i]
                    /\ \A i \in 1 .. Len(u) : (t \o u)[Len(t) + i] = u[i]
  OBVIOUS
<1>1. Len(t) \in Nat /\ Len(u) \in Nat
  BY LenProperties
<1> QED
  BY <1>1, ConcatProperties

(* What a server is to write is the text and, on the first stream, the     *)
(* exit code.                                                              *)
LEMMA ToWriteIs ==
  ASSUME NEW c \in Clients, NEW s \in Streams
  PROVE  /\ Text(c, s) \in Seq(Nat) /\ ToWrite(c)[s] \in Seq(Nat)
         /\ Len(ToWrite(c)[s]) = Len(Text(c, s)) + (IF s = "out" THEN 1 ELSE 0)
         /\ \A i \in 1 .. Len(Text(c, s)) : ToWrite(c)[s][i] = Text(c, s)[i]
         /\ s = "out" => ToWrite(c)[s][Len(Text(c, s)) + 1] = RetCode(c)
         /\ c \notin Unsuited => \A i \in 1 .. Len(Text(c, s)) : Text(c, s)[i] \notin Codes
         /\ RetCode(c) \in Codes /\ (RetCode(c) = 2 <=> c \in DoNotZap)
         /\ c \notin DoNotZap => RetCode(c) = Outcome[c] /\ Text(c, s) = Output[c][s]
         /\ Output[c][s] \in Seq(Nat)
<1> DEFINE Code == IF s = "out" THEN <<RetCode(c)>> ELSE <<>>
<1>1. RetCode(c) \in Codes /\ (RetCode(c) = 2 <=> c \in DoNotZap)
      /\ (c \notin DoNotZap => RetCode(c) = Outcome[c])
  BY OutputAssumption DEF RetCode, Codes
<1>2. Output[c][s] \in Seq(Nat) /\ Text(c, s) \in Seq(Nat)
  BY OutputAssumption DEF Text
<1>3. Code \in Seq(Nat) /\ Len(Code) = (IF s = "out" THEN 1 ELSE 0)
      /\ (s = "out" => Code[1] = RetCode(c))
  BY <1>1 DEF Codes
<1>4. ToWrite(c)[s] = Text(c, s) \o Code
  BY DEF ToWrite, Text
<1>5. /\ ToWrite(c)[s] \in Seq(Nat) /\ Len(Text(c, s)) \in Nat
      /\ Len(ToWrite(c)[s]) = Len(Text(c, s)) + Len(Code)
      /\ \A i \in 1 .. Len(Text(c, s)) : ToWrite(c)[s][i] = Text(c, s)[i]
      /\ \A i \in 1 .. Len(Code) : ToWrite(c)[s][Len(Text(c, s)) + i] = Code[i]
  <2> HIDE DEF Code
  <2>1. ASSUME NEW t \in Seq(Nat), NEW u \in Seq(Nat), NEW w, w = t \o u
        PROVE  /\ w \in Seq(Nat) /\ Len(t) \in Nat /\ Len(w) = Len(t) + Len(u)
               /\ \A i \in 1 .. Len(t) : w[i] = t[i]
               /\ \A i \in 1 .. Len(u) : w[Len(t) + i] = u[i]
    BY <2>1, Concatenated, Zenon
  <2>2. Text(c, s) \in Seq(Nat)
    BY <1>2
  <2>3. Code \in Seq(Nat)
    BY <1>3
  <2>4. ToWrite(c)[s] = Text(c, s) \o Code
    BY <1>4
  <2>5. ASSUME NEW w, w = Text(c, s) \o Code
        PROVE  /\ w \in Seq(Nat) /\ Len(Text(c, s)) \in Nat
               /\ Len(w) = Len(Text(c, s)) + Len(Code)
               /\ \A i \in 1 .. Len(Text(c, s)) : w[i] = Text(c, s)[i]
               /\ \A i \in 1 .. Len(Code) : w[Len(Text(c, s)) + i] = Code[i]
    BY <2>2, <2>3, <2>5, <2>1
  <2> QED
    BY <2>4, <2>5
<1>6. c \notin Unsuited => \A i \in 1 .. Len(Text(c, s)) : Text(c, s)[i] \notin Codes
  <2>1. CASE c \in DoNotZap
    BY <2>1 DEF Text
  <2>2. CASE c \notin DoNotZap
    <3>1. Text(c, s) = Output[c][s] /\ DOMAIN Text(c, s) = 1 .. Len(Text(c, s))
      BY <1>2, <2>2, LenProperties DEF Text
    <3> QED
      BY <3>1, OutputAssumption
  <2> QED
    BY <2>1, <2>2
<1>7. /\ Len(ToWrite(c)[s]) = Len(Text(c, s)) + (IF s = "out" THEN 1 ELSE 0)
      /\ s = "out" => ToWrite(c)[s][Len(Text(c, s)) + 1] = RetCode(c)
  <2> HIDE DEF Code
  <2> QED
    BY <1>3, <1>5
<1> QED
  BY <1>1, <1>2, <1>5, <1>6, <1>7 DEF Text

LEMMA Tailed ==
  \A t \in Seq(Nat) : t # <<>> =>
    /\ Head(t) = t[1] /\ Head(t) \in Nat /\ Len(t) \in Nat \ {0}
    /\ Tail(t) \in Seq(Nat) /\ Len(Tail(t)) = Len(t) - 1
    /\ \A i \in 1 .. Len(t) - 1 : Tail(t)[i] = t[i + 1]
BY HeadTailProperties, EmptySeq

LEMMA Appended ==
  \A t \in Seq(Nat), x \in Nat :
    /\ Append(t, x) \in Seq(Nat) /\ Len(t) \in Nat /\ Len(Append(t, x)) = Len(t) + 1
    /\ \A i \in 1 .. Len(t) : Append(t, x)[i] = t[i]
    /\ Append(t, x)[Len(t) + 1] = x
BY AppendProperties, LenProperties

LEMMA Cut ==
  ASSUME NEW t \in Seq(Nat), NEW n \in 0 .. Len(t)
  PROVE  /\ SubSeq(t, 1, n) \in Seq(Nat) /\ Len(SubSeq(t, 1, n)) = n
         /\ \A i \in 1 .. n : SubSeq(t, 1, n)[i] = t[i]
         /\ SubSeq(t, n + 1, Len(t)) \in Seq(Nat) /\ Len(SubSeq(t, n + 1, Len(t))) = Len(t) - n
         /\ \A i \in 1 .. Len(t) - n : SubSeq(t, n + 1, Len(t))[i] = t[n + i]
<1>1. Len(t) \in Nat /\ \A i \in 1 .. Len(t) : t[i] \in Nat
  BY LenProperties, ElementOfSeq
<1>2. \A i \in 1 .. n : t[i] \in Nat
  BY <1>1
<1>3. /\ SubSeq(t, 1, n) \in Seq(Nat) /\ Len(SubSeq(t, 1, n)) = n
      /\ \A i \in 1 .. n : SubSeq(t, 1, n)[i] = t[i]
  BY <1>1, <1>2, SubSeqProperties
<1>4. \A i \in n + 1 .. Len(t) : t[i] \in Nat
  BY <1>1
<1>5. /\ SubSeq(t, n + 1, Len(t)) \in Seq(Nat) /\ Len(SubSeq(t, n + 1, Len(t))) = Len(t) - n
      /\ \A i \in 1 .. Len(t) - n : SubSeq(t, n + 1, Len(t))[i] = t[n + i]
  BY <1>1, <1>4, SubSeqProperties
<1> QED
  BY <1>3, <1>5

(* A chunk that ends in an exit code is printed but for its last byte.     *)
LEMMA ChunkIs ==
  ASSUME NEW t \in Seq(Nat), t # <<>>
  PROVE  /\ Last(t) = t[Len(t)] /\ Last(t) \in Nat /\ Len(t) \in Nat \ {0}
         /\ Stripped(t) \in Seq(Nat)
         /\ Len(Stripped(t)) = IF Last(t) \in Codes THEN Len(t) - 1 ELSE Len(t)
         /\ \A i \in 1 .. Len(Stripped(t)) : Stripped(t)[i] = t[i]
<1>1. Len(t) \in Nat \ {0}
  BY EmptySeq
<1>2. Last(t) = t[Len(t)] /\ Last(t) \in Nat
  BY <1>1, ElementOfSeq DEF Last
<1>3. CASE Last(t) \in Codes
  <2>1. Len(t) - 1 \in 0 .. Len(t)
    BY <1>1
  <2> QED
    BY <1>1, <1>2, <1>3, <2>1, Cut DEF Stripped
<1>4. CASE Last(t) \notin Codes
  BY <1>1, <1>2, <1>4 DEF Stripped
<1> QED
  BY <1>3, <1>4

(* What a read does, in terms of how much it reads.                        *)
ReadAs(c, s, n, chunk, rest) ==
  /\ chunk # <<>> /\ Len(chunk) = n /\ \A i \in 1 .. n : chunk[i] = sent[c][s][i]
  /\ Len(rest) = Len(sent[c][s]) - n
  /\ \A i \in 1 .. Len(rest) : rest[i] = sent[c][s][n + i]
  /\ sent' = [sent EXCEPT ![c][s] = rest]
  /\ found' = [found EXCEPT ![c] = FindExitCode(chunk, @)]
  /\ printed' = [printed EXCEPT ![c][s] = @ \o Stripped(chunk)]

LEMMA ReadIs ==
  ASSUME TypeOK, NEW c \in Clients, NEW s \in Streams, Read(c, s)
  PROVE  \E n \in 1 .. Len(sent[c][s]), chunk \in Seq(Nat), rest \in Seq(Nat) :
           ReadAs(c, s, n, chunk, rest)
<1> DEFINE t == sent[c][s]
           n == Least(BufferSize, Len(t))
<1>1. t \in Seq(Nat) /\ t # <<>>
  BY DEF TypeOK, ServerTypeOK, Read
<1>2. Len(t) \in Nat \ {0}
  BY <1>1, EmptySeq
<1>3. n \in 1 .. Len(t)
  BY <1>2, OutputAssumption DEF Least
<1>4. /\ SubSeq(t, 1, n) \in Seq(Nat) /\ Len(SubSeq(t, 1, n)) = n
      /\ \A i \in 1 .. n : SubSeq(t, 1, n)[i] = t[i]
      /\ SubSeq(t, n + 1, Len(t)) \in Seq(Nat) /\ Len(SubSeq(t, n + 1, Len(t))) = Len(t) - n
      /\ \A i \in 1 .. Len(t) - n : SubSeq(t, n + 1, Len(t))[i] = t[n + i]
  <2> HIDE DEF n
  <2>1. n \in 0 .. Len(t)
    BY <1>2, <1>3
  <2> QED
    BY <1>1, <2>1, Cut
<1>5. SubSeq(t, 1, n) # <<>>
  <2> HIDE DEF n
  <2> QED
    BY <1>3, <1>4, EmptySeq
<1>6. /\ sent' = [sent EXCEPT ![c][s] = SubSeq(@, n + 1, Len(@))]
      /\ found' = [found EXCEPT ![c] = FindExitCode(SubSeq(t, 1, n), @)]
      /\ printed' = [printed EXCEPT ![c][s] = @ \o Stripped(SubSeq(t, 1, n))]
  BY DEF Read
<1>7. sent' = [sent EXCEPT ![c][s] = SubSeq(t, n + 1, Len(t))]
  BY <1>6
<1> USE <1>3, <1>4
<1> WITNESS n \in 1 .. Len(t), SubSeq(t, 1, n) \in Seq(Nat), SubSeq(t, n + 1, Len(t)) \in Seq(Nat)
<1> QED
  <2> HIDE DEF n
  <2> QED
    BY <1>4, <1>5, <1>6, <1>7 DEF ReadAs

-----------------------------------------------------------------------------
(* Type correctness.                                                       *)
LEMMA Cc1MainType ==
  ASSUME TypeOK, NEW c \in Clients, Cc1Main(c)
  PROVE  /\ client' \in [Clients -> {"start", "read", "end"}]
         /\ code' \in [Clients -> Codes \cup {None}]
         /\ printed' \in [Clients -> [Streams -> Seq(Nat)]]
         /\ client'[c] = "end" /\ code'[c] = Outcome[c]
         /\ \A s \in Streams : printed'[c][s] = printed[c][s] \o Output[c][s]
         /\ \A d \in Clients \ {c} : /\ printed'[d] = printed[d]
                                     /\ client'[d] = client[d] /\ code'[d] = code[d]
<1>1. Outcome[c] \in Codes
  BY OutputAssumption DEF Codes
<1>2. /\ client' = [client EXCEPT ![c] = "end"] /\ code' = [code EXCEPT ![c] = Outcome[c]]
      /\ printed' = [printed EXCEPT ![c] = [s \in Streams |-> printed[c][s] \o Output[c][s]]]
  BY DEF Cc1Main
<1>3. \A s \in Streams : printed[c][s] \o Output[c][s] \in Seq(Nat)
  <2>1. \A s \in Streams : printed[c][s] \in Seq(Nat) /\ Output[c][s] \in Seq(Nat)
    BY ToWriteIs DEF TypeOK, ServerTypeOK
  <2> QED
    BY <2>1, Concatenated
<1>4. [s \in Streams |-> printed[c][s] \o Output[c][s]] \in [Streams -> Seq(Nat)]
  BY <1>3
<1>5. /\ client \in [Clients -> {"start", "read", "end"}]
      /\ code \in [Clients -> Codes \cup {None}]
      /\ printed \in [Clients -> [Streams -> Seq(Nat)]]
  BY DEF TypeOK, ServerTypeOK
<1> QED
  BY <1>1, <1>2, <1>4, <1>5

LEMMA WriteIs ==
  ASSUME TypeOK, NEW c \in Clients, NEW s \in Streams, Write(c, s), todo[c][s] # <<>>
  PROVE  /\ todo' \in [Clients -> [Streams -> Seq(Nat)]]
         /\ sent' \in [Clients -> [Streams -> Seq(Nat)]]
         /\ todo'[c][s] = Tail(todo[c][s]) /\ sent'[c][s] = Append(sent[c][s], todo[c][s][1])
         /\ \A d \in Clients, r \in Streams : d # c \/ r # s =>
              todo'[d][r] = todo[d][r] /\ sent'[d][r] = sent[d][r]
<1>1. /\ todo \in [Clients -> [Streams -> Seq(Nat)]]
      /\ sent \in [Clients -> [Streams -> Seq(Nat)]]
  BY DEF TypeOK, ServerTypeOK
<1>2. /\ Head(todo[c][s]) \in Nat /\ Head(todo[c][s]) = todo[c][s][1]
      /\ Tail(todo[c][s]) \in Seq(Nat)
  BY <1>1, Tailed
<1>3. Append(sent[c][s], Head(todo[c][s])) \in Seq(Nat)
  BY <1>1, <1>2, Appended
<1>4. /\ todo' = [todo EXCEPT ![c][s] = Tail(todo[c][s])]
      /\ sent' = [sent EXCEPT ![c][s] = Append(sent[c][s], Head(todo[c][s]))]
  BY DEF Write
<1> QED
  BY <1>1, <1>2, <1>3, <1>4

(* A server that writes has a client, and something to write.              *)
LEMMA Writers ==
  ASSUME TypeOK, Connected, NEW p \in Pids,
         NEW s \in Streams, PrintByte(p, s) \/ (s = "out" /\ WriteExitCode(p))
  PROVE  /\ user[p] \in Clients /\ todo[user[p]][s] # <<>> /\ Write(user[p], s)
         /\ user[p] # None => client[user[p]] = "read" /\ ended[user[p]] = {}
         /\ UNCHANGED <<client, open, found, printed, code, parent, user, ended>>
         /\ s = "out" => Len(todo[user[p]]["out"]) > 1 \/ todo[user[p]]["err"] = <<>>
<1>1. user[p] \in Clients
  BY DEF Connected, PrintByte, WriteExitCode
<1>2. Len(todo[user[p]][s]) \in Nat /\ Len(<<>>) = 0
  BY <1>1, LenProperties, EmptySeq DEF TypeOK, ServerTypeOK
<1>3. CASE PrintByte(p, s)
  <2>1. Len(todo[user[p]][s]) > 0 /\ (s = "out" => Len(todo[user[p]]["out"]) > 1)
    BY <1>2, <1>3 DEF PrintByte
  <2> QED
    BY <1>1, <1>2, <1>3, <2>1 DEF PrintByte, clients, servers, Connected
<1>4. CASE s = "out" /\ WriteExitCode(p)
  <2>1. Len(todo[user[p]][s]) > 0
    BY <1>2, <1>4 DEF WriteExitCode
  <2> QED
    BY <1>1, <1>2, <1>4, <2>1 DEF WriteExitCode, clients, Connected
<1> QED
  BY <1>3, <1>4

LEMMA TypeStep ==
  ASSUME TypeOK, Connected, [RNext]_allVars
  PROVE  TypeOK'
<1> USE DEF clients, servers, sockets, reset
<1>1. CASE UNCHANGED allVars
  BY <1>1 DEF allVars, vars, TypeOK, ServerTypeOK
<1>2. ASSUME NEW c \in Clients, UseClang(c) \/ Finish(c), UNCHANGED reset PROVE TypeOK'
  <2>1. CASE Cc1Main(c)
    <3>1. UNCHANGED <<open, found, servers, sockets>>
      BY <1>2 DEF UseClang, Finish
    <3> QED
      BY <1>2, <2>1, <3>1, Cc1MainType DEF TypeOK, ServerTypeOK
  <2>2. CASE ~ Cc1Main(c)
    <3>1. /\ client' = [client EXCEPT ![c] = "end"]
          /\ code' = [code EXCEPT ![c] = IF found[c] = NotFound THEN 1 ELSE found[c]]
          /\ UNCHANGED <<printed, open, found, servers, sockets>>
      BY <1>2, <2>2 DEF UseClang, Finish
    <3>2. (IF found[c] = NotFound THEN 1 ELSE found[c]) \in Codes
      BY DEF Codes, TypeOK, ServerTypeOK
    <3> QED
      BY <1>2, <3>1, <3>2 DEF TypeOK, ServerTypeOK
  <2> QED
    BY <2>1, <2>2
<1>3. ASSUME NEW c \in Clients, NEW s \in Streams, Read(c, s), UNCHANGED reset PROVE TypeOK'
  <2>1. PICK n \in 1 .. Len(sent[c][s]), chunk \in Seq(Nat), rest \in Seq(Nat) :
           ReadAs(c, s, n, chunk, rest)
    BY <1>3, ReadIs
  <2>2. FindExitCode(chunk, found[c]) \in Codes \cup {NotFound}
    BY DEF FindExitCode, TypeOK, ServerTypeOK
  <2>3. printed[c][s] \o Stripped(chunk) \in Seq(Nat)
    BY <2>1, ChunkIs, Concatenated DEF ReadAs, TypeOK, ServerTypeOK
  <2>4. sent' \in [Clients -> [Streams -> Seq(Nat)]]
    BY <2>1 DEF ReadAs, TypeOK, ServerTypeOK
  <2>5. printed' \in [Clients -> [Streams -> Seq(Nat)]]
    BY <2>1, <2>3 DEF ReadAs, TypeOK, ServerTypeOK
  <2>6. found' \in [Clients -> Codes \cup {NotFound}]
    BY <2>1, <2>2 DEF ReadAs, TypeOK, ServerTypeOK
  <2> QED
    BY <1>3, <2>4, <2>5, <2>6 DEF Read, TypeOK, ServerTypeOK
<1>4. ASSUME NEW c \in Clients, NEW s \in Streams, ReadEnd(c, s), UNCHANGED reset PROVE TypeOK'
  BY <1>4 DEF ReadEnd, TypeOK, ServerTypeOK
<1>5. ASSUME NEW c \in Clients, NEW p \in Pids, Connect(c, p) \/ StartServer(c, p), UNCHANGED reset
      PROVE  TypeOK'
  <2>1. /\ proc' = [proc EXCEPT ![p] = "compile"] \/ proc' = [proc EXCEPT ![p] = "forked"]
        /\ parent' = [parent EXCEPT ![p] = c] \/ parent' = parent
        /\ user' = [user EXCEPT ![p] = c]
        /\ client' = [client EXCEPT ![c] = "read"]
        /\ UNCHANGED <<open, found, printed, code, sockets>>
    BY <1>5 DEF Connect, StartServer
  <2>2. proc' \in [Pids -> Exists \cup {"none", "gone"}]
    BY <2>1 DEF Exists, Serving, TypeOK, ServerTypeOK
  <2>3. client' \in [Clients -> {"start", "read", "end"}]
    BY <2>1 DEF TypeOK, ServerTypeOK
  <2>4. user' \in [Pids -> Clients \cup {None}]
    BY <2>1 DEF TypeOK, ServerTypeOK
  <2>5. parent' \in [Pids -> Clients \cup {None}]
    BY <2>1 DEF TypeOK, ServerTypeOK
  <2> QED
    BY <1>5, <2>1, <2>2, <2>3, <2>4, <2>5 DEF TypeOK, ServerTypeOK
<1>6. ASSUME NEW p \in Pids, NEW s \in Streams, PrintByte(p, s) \/ (s = "out" /\ WriteExitCode(p)),
             UNCHANGED reset
      PROVE  TypeOK'
  <2>1. /\ todo' \in [Clients -> [Streams -> Seq(Nat)]]
        /\ sent' \in [Clients -> [Streams -> Seq(Nat)]]
    BY <1>6, Writers, WriteIs
  <2>2. UNCHANGED <<client, open, found, printed, code, parent, user, ended>>
    BY <1>6, Writers
  <2>3. proc' \in [Pids -> Exists \cup {"none", "gone"}]
    BY <1>6 DEF PrintByte, WriteExitCode, Exists, Serving, TypeOK, ServerTypeOK
  <2> QED
    BY <1>6, <2>1, <2>2, <2>3 DEF TypeOK, ServerTypeOK
<1>7. ASSUME NEW p \in Pids, Exec(p) \/ Leave(p) \/ Reap(p), UNCHANGED reset PROVE TypeOK'
  BY <1>7 DEF Exec, Leave, Reap, Exists, Serving, TypeOK, ServerTypeOK
<1>8. ASSUME NEW p \in Pids, Disconnect(p) \/ Die(p), UNCHANGED reset PROVE TypeOK'
  <2>1. /\ proc' = [proc EXCEPT ![p] = "accept"] \/ proc' = [proc EXCEPT ![p] = "zombie"]
        /\ ended' = ended \/ ended' = [ended EXCEPT ![user[p]] = Streams]
        /\ user' = [user EXCEPT ![p] = None]
        /\ UNCHANGED <<clients, parent, todo, sent>>
    BY <1>8 DEF Disconnect, Die
  <2>2. proc' \in [Pids -> Exists \cup {"none", "gone"}]
    BY <2>1 DEF Exists, Serving, TypeOK, ServerTypeOK
  <2>3. ended' \in [Clients -> SUBSET Streams]
    BY <2>1 DEF TypeOK, ServerTypeOK
  <2> QED
    BY <1>8, <2>1, <2>2, <2>3 DEF TypeOK, ServerTypeOK
<1>9. CASE ResetAll \/ ReadDir \/ Rescan \/ EndReset
  BY <1>9 DEF ResetAll, ReadDir, Rescan, EndReset, OpenDir, EndOfScan, Existing, Named, vars,
     TypeOK, ServerTypeOK
<1>10. ASSUME NEW p \in Pids, Examine(p) PROVE TypeOK'
  <2>1. proc' = [proc EXCEPT ![p] = "dying"] \/ proc' = proc
    BY <1>10 DEF Examine, TypeOK, ServerTypeOK
  <2>2. proc' \in [Pids -> Exists \cup {"none", "gone"}]
    BY <2>1 DEF Exists, TypeOK, ServerTypeOK
  <2>3. killedServer' \in BOOLEAN /\ scan' \in {"idle", "scan", "end"} /\ listed' \subseteq Pids
    BY <1>10 DEF Examine, TypeOK
  <2>4. UNCHANGED <<clients, parent, user, sockets, last, status, before>>
    BY <1>10 DEF Examine
  <2> QED
    BY <2>2, <2>3, <2>4 DEF TypeOK, ServerTypeOK
<1>11. CASE Next /\ UNCHANGED reset
  BY <1>2, <1>3, <1>4, <1>5, <1>6, <1>7, <1>8, <1>11, Zenon DEF Next, ClientStep, ServerStep, Streams
<1> QED
  BY <1>1, <1>9, <1>10, <1>11, Zenon DEF RNext, ScanStep

-----------------------------------------------------------------------------
(* What is written, under way and printed.                                 *)

(* Only reads and writes touch what is under way.                          *)
LEMMA FlowKept ==
  ASSUME Flow, UNCHANGED <<todo, sent>>
  PROVE  Flow'
<1>1. \A c, s : Taken(c, s)' = Taken(c, s)
  BY DEF Taken, ToWrite
<1> QED
  BY <1>1 DEF Flow, ToWrite

LEMMA Lengths ==
  ASSUME TypeOK, NEW d \in Clients, NEW r \in Streams
  PROVE  /\ Len(todo[d][r]) \in Nat /\ Len(sent[d][r]) \in Nat
         /\ Len(ToWrite(d)[r]) \in Nat /\ Taken(d, r) \in Int
         /\ Taken(d, r) + Len(sent[d][r]) + Len(todo[d][r]) = Len(ToWrite(d)[r])
<1>1. Len(todo[d][r]) \in Nat /\ Len(sent[d][r]) \in Nat
  BY LenProperties DEF TypeOK, ServerTypeOK
<1>2. Len(ToWrite(d)[r]) \in Nat
  BY ToWriteIs, LenProperties
<1> QED
  BY <1>1, <1>2 DEF Taken

LEMMA TakenNext ==
  ASSUME NEW d \in Clients, NEW r \in Streams
  PROVE  Taken(d, r)' = Len(ToWrite(d)[r]) - Len(todo'[d][r]) - Len(sent'[d][r])
BY DEF Taken, ToWrite

LEMMA WriteFlow ==
  ASSUME TypeOK, Flow, NEW c \in Clients, NEW s \in Streams,
         Write(c, s), todo[c][s] # <<>>
  PROVE  Flow' /\ \A d \in Clients, r \in Streams : Taken(d, r)' = Taken(d, r)
<1>1. /\ \A d \in Clients, r \in Streams : todo[d][r] \in Seq(Nat) /\ sent[d][r] \in Seq(Nat)
      /\ \A d \in Clients, r \in Streams : Len(ToWrite(d)[r]) \in Nat
  <2>1. \A d \in Clients, r \in Streams : todo[d][r] \in Seq(Nat) /\ sent[d][r] \in Seq(Nat)
    BY DEF TypeOK, ServerTypeOK
  <2>2. \A d \in Clients, r \in Streams : Len(ToWrite(d)[r]) \in Nat
    BY Lengths, Zenon
  <2> QED
    BY <2>1, <2>2
<1>2. /\ todo'[c][s] = Tail(todo[c][s]) /\ sent'[c][s] = Append(sent[c][s], todo[c][s][1])
      /\ \A d \in Clients, r \in Streams : d # c \/ r # s =>
           todo'[d][r] = todo[d][r] /\ sent'[d][r] = sent[d][r]
  BY WriteIs
<1>3. /\ Len(todo[c][s]) \in Nat \ {0} /\ todo[c][s][1] \in Nat
      /\ Len(todo'[c][s]) = Len(todo[c][s]) - 1
      /\ \A i \in 1 .. Len(todo[c][s]) - 1 : todo'[c][s][i] = todo[c][s][i + 1]
  BY <1>1, <1>2, Tailed
<1>4. /\ Len(sent[c][s]) \in Nat /\ Len(sent'[c][s]) = Len(sent[c][s]) + 1
      /\ \A i \in 1 .. Len(sent[c][s]) : sent'[c][s][i] = sent[c][s][i]
      /\ sent'[c][s][Len(sent[c][s]) + 1] = todo[c][s][1]
  BY <1>1, <1>2, <1>3, Appended
<1>5. \A d, r : ToWrite(d)[r]' = ToWrite(d)[r]
  BY DEF ToWrite
<1>6. ASSUME NEW d \in Clients, NEW r \in Streams PROVE Taken(d, r)' = Taken(d, r)
  <2>1. CASE d = c /\ r = s
    <3>1. Len(ToWrite(c)[s]) \in Nat
      BY <1>1
    <3>2. Taken(c, s)' = Len(ToWrite(c)[s]) - (Len(todo[c][s]) - 1) - (Len(sent[c][s]) + 1)
      BY <1>3, <1>4, TakenNext
    <3>3. Taken(c, s) = Len(ToWrite(c)[s]) - Len(todo[c][s]) - Len(sent[c][s])
      BY DEF Taken
    <3>4. Len(todo[c][s]) \in Nat /\ Len(sent[c][s]) \in Nat
      BY <1>3, <1>4
    <3>5. Taken(c, s)' = Taken(c, s)
      BY <3>1, <3>2, <3>3, <3>4
    <3> QED
      BY <2>1, <3>5
  <2>2. CASE d # c \/ r # s
    BY <1>2, <1>5, <2>2 DEF Taken
  <2> QED
    BY <2>1, <2>2
<1>7. ASSUME NEW d \in Clients, NEW r \in Streams
      PROVE  /\ Taken(d, r)' >= 0
             /\ \A i \in 1 .. Len(todo'[d][r]) :
                  todo'[d][r][i] = ToWrite(d)[r][Taken(d, r) + Len(sent'[d][r]) + i]
             /\ \A i \in 1 .. Len(sent'[d][r]) : sent'[d][r][i] = ToWrite(d)[r][Taken(d, r) + i]
  <2>1. /\ Taken(d, r) >= 0
        /\ \A i \in 1 .. Len(todo[d][r]) :
             todo[d][r][i] = ToWrite(d)[r][Taken(d, r) + Len(sent[d][r]) + i]
        /\ \A i \in 1 .. Len(sent[d][r]) : sent[d][r][i] = ToWrite(d)[r][Taken(d, r) + i]
    BY DEF Flow
  <2>2. CASE d = c /\ r = s
    <3>1. Taken(c, s) \in Int
      BY Lengths
    <3>2. todo[c][s][1] = ToWrite(c)[s][Taken(c, s) + Len(sent[c][s]) + 1]
      BY <1>3, <2>1, <2>2
    <3>3. ASSUME NEW i \in 1 .. Len(todo'[c][s])
          PROVE  todo'[c][s][i] = ToWrite(c)[s][Taken(c, s) + Len(sent'[c][s]) + i]
      <4>1. i + 1 \in 1 .. Len(todo[c][s]) /\ todo'[c][s][i] = todo[c][s][i + 1]
        BY <1>3
      <4>2. Taken(c, s) + Len(sent[c][s]) + (i + 1) = Taken(c, s) + Len(sent'[c][s]) + i
        BY <1>4, <3>1
      <4> QED
        BY <2>1, <2>2, <4>1, <4>2
    <3>4. ASSUME NEW i \in 1 .. Len(sent'[c][s])
          PROVE  sent'[c][s][i] = ToWrite(c)[s][Taken(c, s) + i]
      <4>1. i \in 1 .. Len(sent[c][s]) \/ i = Len(sent[c][s]) + 1
        BY <1>4
      <4>0. Len(sent[c][s]) \in Nat
        BY <1>4
      <4>2. Taken(c, s) + Len(sent[c][s]) + 1 = Taken(c, s) + (Len(sent[c][s]) + 1)
        BY <4>0, <3>1
      <4> QED
        BY <1>4, <2>1, <2>2, <3>2, <4>1, <4>2
    <3> QED
      BY <1>6, <2>1, <2>2, <3>3, <3>4
  <2>3. CASE d # c \/ r # s
    BY <1>2, <1>6, <2>1, <2>3
  <2> QED
    BY <2>2, <2>3
<1>8. Flow'
  BY <1>5, <1>6, <1>7 DEF Flow
<1> QED
  BY <1>6, <1>8

(* A read takes what comes next.                                           *)
LEMMA ReadFlow ==
  ASSUME TypeOK, Flow, NEW c \in Clients, NEW s \in Streams, Read(c, s),
         NEW n \in 1 .. Len(sent[c][s]), NEW chunk \in Seq(Nat), NEW rest \in Seq(Nat),
         ReadAs(c, s, n, chunk, rest)
  PROVE  /\ Flow'
         /\ Taken(c, s)' = Taken(c, s) + n
         /\ \A d \in Clients, r \in Streams : d # c \/ r # s =>
              Taken(d, r)' = Taken(d, r) /\ sent'[d][r] = sent[d][r]
         /\ \A i \in 1 .. n : chunk[i] = ToWrite(c)[s][Taken(c, s) + i]
         /\ Taken(c, s) + n <= Len(ToWrite(c)[s])
<1>1. \A d \in Clients, r \in Streams : /\ Len(todo[d][r]) \in Nat /\ Len(sent[d][r]) \in Nat
                                        /\ Len(ToWrite(d)[r]) \in Nat /\ Taken(d, r) \in Int
  BY Lengths
<1>2. /\ sent'[c][s] = rest /\ todo' = todo
      /\ \A d \in Clients, r \in Streams : d # c \/ r # s => sent'[d][r] = sent[d][r]
      /\ Len(rest) = Len(sent[c][s]) - n
      /\ \A i \in 1 .. Len(rest) : rest[i] = sent[c][s][n + i]
      /\ \A i \in 1 .. n : chunk[i] = sent[c][s][i]
  BY DEF ReadAs, Read, TypeOK, ServerTypeOK
<1>3. \A d, r : ToWrite(d)[r]' = ToWrite(d)[r]
  BY DEF ToWrite
<1>4. \A d \in Clients, r \in Streams :
        /\ Taken(d, r) >= 0
        /\ \A i \in 1 .. Len(todo[d][r]) :
             todo[d][r][i] = ToWrite(d)[r][Taken(d, r) + Len(sent[d][r]) + i]
        /\ \A i \in 1 .. Len(sent[d][r]) : sent[d][r][i] = ToWrite(d)[r][Taken(d, r) + i]
  BY DEF Flow
<1>5. /\ Taken(c, s)' = Taken(c, s) + n
      /\ \A d \in Clients, r \in Streams : d # c \/ r # s => Taken(d, r)' = Taken(d, r)
  <2>1. Taken(c, s)' = Len(ToWrite(c)[s]) - Len(todo[c][s]) - (Len(sent[c][s]) - n)
    BY <1>2, TakenNext
  <2>2. Len(ToWrite(c)[s]) \in Nat /\ Len(todo[c][s]) \in Nat /\ Len(sent[c][s]) \in Nat
    BY <1>1
  <2>5. Taken(c, s) = Len(ToWrite(c)[s]) - Len(todo[c][s]) - Len(sent[c][s])
    BY DEF Taken
  <2>3. Taken(c, s)' = Taken(c, s) + n
    BY <2>1, <2>2, <2>5
  <2>4. ASSUME NEW d \in Clients, NEW r \in Streams, d # c \/ r # s
        PROVE  Taken(d, r)' = Taken(d, r)
    BY <1>2, <2>4, TakenNext DEF Taken
  <2> QED
    BY <2>3, <2>4
<1>6. ASSUME NEW d \in Clients, NEW r \in Streams
      PROVE  /\ Taken(d, r)' >= 0
             /\ \A i \in 1 .. Len(todo'[d][r]) :
                  todo'[d][r][i] = ToWrite(d)[r][Taken(d, r)' + Len(sent'[d][r]) + i]
             /\ \A i \in 1 .. Len(sent'[d][r]) : sent'[d][r][i] = ToWrite(d)[r][Taken(d, r)' + i]
  <2>1. CASE d = c /\ r = s
    <3>1. Taken(c, s)' + Len(sent'[c][s]) = Taken(c, s) + Len(sent[c][s])
      BY <1>1, <1>2, <1>5
    <3>2. \A i \in 1 .. Len(todo'[c][s]) :
            todo'[c][s][i] = ToWrite(c)[s][Taken(c, s)' + Len(sent'[c][s]) + i]
      <4>1. todo'[c][s] = todo[c][s]
        BY <1>2
      <4>2. \A i \in 1 .. Len(todo[c][s]) :
              todo[c][s][i] = ToWrite(c)[s][Taken(c, s) + Len(sent[c][s]) + i]
        BY <1>4
      <4> QED
        BY <3>1, <4>1, <4>2
    <3>3. ASSUME NEW i \in 1 .. Len(sent'[c][s])
          PROVE  sent'[c][s][i] = ToWrite(c)[s][Taken(c, s)' + i]
      <4>1. n + i \in 1 .. Len(sent[c][s]) /\ Taken(c, s) + (n + i) = Taken(c, s)' + i
        <5> DEFINE a == Taken(c, s)
                   z == Taken(c, s)'
                   b == Len(sent[c][s])
                   e == Len(sent'[c][s])
        <5>1. /\ a \in Int /\ b \in Nat /\ n \in 1 .. b /\ i \in 1 .. e /\ e = b - n
              /\ z = a + n
          BY <1>1, <1>2, <1>5
        <5>2. n + i \in 1 .. b /\ a + (n + i) = z + i
          <6> HIDE DEF a, z, b, e
          <6> QED
            BY <5>1
        <5> QED
          BY <5>2
      <4> QED
        BY <1>2, <1>4, <4>1
    <3> QED
      BY <1>1, <1>4, <1>5, <2>1, <3>2, <3>3
  <2>2. CASE d # c \/ r # s
    <3>1. /\ Taken(d, r)' = Taken(d, r) /\ sent'[d][r] = sent[d][r]
          /\ todo'[d][r] = todo[d][r]
      BY <1>2, <1>5, <2>2, Zenon
    <3> QED
      <4>1. /\ Taken(d, r) >= 0
            /\ \A i \in 1 .. Len(todo[d][r]) :
                 todo[d][r][i] = ToWrite(d)[r][Taken(d, r) + Len(sent[d][r]) + i]
            /\ \A i \in 1 .. Len(sent[d][r]) : sent[d][r][i] = ToWrite(d)[r][Taken(d, r) + i]
        BY <1>4
      <4> QED
        BY <3>1, <4>1
  <2> QED
    BY <2>1, <2>2
<1>7. Flow'
  BY <1>3, <1>6 DEF Flow
<1>8. \A i \in 1 .. n : chunk[i] = ToWrite(c)[s][Taken(c, s) + i]
  BY <1>1, <1>2, <1>4
<1>9. Taken(c, s) + n <= Len(ToWrite(c)[s])
  <2>1. /\ Taken(c, s) + Len(sent[c][s]) + Len(todo[c][s]) = Len(ToWrite(c)[s])
        /\ Len(todo[c][s]) \in Nat /\ Len(sent[c][s]) \in Nat
        /\ Len(ToWrite(c)[s]) \in Nat /\ Taken(c, s) \in Int
    BY Lengths
  <2>2. n <= Len(sent[c][s]) /\ n \in Nat
    BY <1>1
  <2> DEFINE a == Taken(c, s)
             b == Len(sent[c][s])
             t == Len(todo[c][s])
             w == Len(ToWrite(c)[s])
  <2>3. a + b + t = w /\ t \in Nat /\ b \in Nat /\ w \in Nat /\ a \in Int /\ n <= b /\ n \in Nat
    BY <2>1, <2>2
  <2>4. a + n <= w
    <3> HIDE DEF a, b, t, w
    <3> QED
      BY <2>3
  <2> QED
    BY <2>4
<1> QED
  BY <1>2, <1>5, <1>7, <1>8, <1>9

(* The client has copied what it has read.                                 *)
LEMMA CopiedKept ==
  ASSUME Copied, UNCHANGED <<found, todo, sent>>,
         \A d \in Clients : client'[d] # "end" => client[d] # "end" /\ printed'[d] = printed[d]
  PROVE  Copied'
<1>1. \A c, s : Taken(c, s)' = Taken(c, s)
  BY DEF Taken, ToWrite
<1> QED
  BY <1>1 DEF Copied, Text, RetCode

LEMMA ReadCopied ==
  ASSUME TypeOK, Flow, Copied, Connected, NEW c \in Clients, NEW s \in Streams, Read(c, s)
  PROVE  Copied'
<1>1. PICK n \in 1 .. Len(sent[c][s]), chunk \in Seq(Nat), rest \in Seq(Nat) :
        ReadAs(c, s, n, chunk, rest)
  BY ReadIs
<1> DEFINE k == Taken(c, s)
           m == Len(Text(c, s))
           kept == Stripped(chunk)
           old == printed[c][s]
<1>2. c \notin Unsuited /\ client[c] # "end" /\ client' = client /\ todo' = todo
  BY DEF Read, Connected
<1>3. /\ Taken(c, s)' = k + n
      /\ \A d \in Clients, r \in Streams : d # c \/ r # s =>
           Taken(d, r)' = Taken(d, r) /\ sent'[d][r] = sent[d][r]
      /\ \A i \in 1 .. n : chunk[i] = ToWrite(c)[s][k + i]
      /\ k + n <= Len(ToWrite(c)[s])
  BY <1>1, ReadFlow
<1>4. /\ m \in Nat /\ Len(ToWrite(c)[s]) = m + (IF s = "out" THEN 1 ELSE 0)
      /\ \A i \in 1 .. m : ToWrite(c)[s][i] = Text(c, s)[i] /\ Text(c, s)[i] \notin Codes
      /\ s = "out" => ToWrite(c)[s][m + 1] = RetCode(c)
      /\ RetCode(c) \in Codes
  BY <1>2, ToWriteIs, LenProperties
<1>5. k \in Nat /\ n \in Nat \ {0} /\ n <= Len(sent[c][s])
  BY Lengths DEF Flow
<1>6. Len(old) = Least(k, m) /\ \A i \in 1 .. Len(old) : old[i] = Text(c, s)[i]
  BY <1>2 DEF Copied
<1>7. /\ found[c] = IF todo[c]["out"] = <<>> /\ sent[c]["out"] = <<>> THEN RetCode(c) ELSE NotFound
  BY <1>2 DEF Copied
<1>8. /\ printed'[c][s] = old \o kept
      /\ \A d \in Clients, r \in Streams : d # c \/ r # s => printed'[d][r] = printed[d][r]
      /\ found'[c] = IF Last(chunk) \in Codes THEN Last(chunk) ELSE found[c]
      /\ \A d \in Clients \ {c} : found'[d] = found[d]
      /\ sent'[c][s] = rest /\ Len(rest) = Len(sent[c][s]) - n
  BY <1>1 DEF ReadAs, FindExitCode, TypeOK, ServerTypeOK
<1>9. /\ Last(chunk) = chunk[n]
      /\ kept \in Seq(Nat) /\ Len(kept) = IF Last(chunk) \in Codes THEN n - 1 ELSE n
      /\ \A i \in 1 .. Len(kept) : kept[i] = chunk[i]
  BY <1>1, ChunkIs DEF ReadAs
<1>10. Last(chunk) = ToWrite(c)[s][k + n]
  BY <1>3, <1>5, <1>9
<1>11. old \in Seq(Nat)
  BY DEF TypeOK, ServerTypeOK
<1>12. /\ old \o kept \in Seq(Nat) /\ Len(old \o kept) = Len(old) + Len(kept)
       /\ \A i \in 1 .. Len(old) : (old \o kept)[i] = old[i]
       /\ \A i \in 1 .. Len(kept) : (old \o kept)[Len(old) + i] = kept[i]
  <2> HIDE DEF old, kept
  <2> QED
    BY <1>9, <1>11, Concatenated
<1> HIDE DEF k, m, old, kept
<1> DEFINE Goal == /\ Len(printed'[c][s]) = Least(Taken(c, s)', m)
                   /\ \A i \in 1 .. Len(printed'[c][s]) : printed'[c][s][i] = Text(c, s)[i]
                   /\ found'[c] = IF todo'[c]["out"] = <<>> /\ sent'[c]["out"] = <<>>
                                    THEN RetCode(c) ELSE NotFound
<1>13. ASSUME k + n <= m PROVE Goal
  <2>1. Last(chunk) \notin Codes
    <3>1. k + n \in 1 .. m
      BY <1>4, <1>5, <1>13
    <3> QED
      BY <1>4, <1>10, <3>1
  <2>2. Len(old) = k /\ Len(kept) = n /\ Least(k + n, m) = k + n
    BY <1>4, <1>5, <1>6, <1>9, <1>13, <2>1 DEF Least
  <2>3. Len(printed'[c][s]) = Least(Taken(c, s)', m)
    BY <1>3, <1>8, <1>12, <2>2
  <2>4. ASSUME NEW i \in 1 .. Len(printed'[c][s]) PROVE printed'[c][s][i] = Text(c, s)[i]
    <3>1. CASE i \in 1 .. k
      BY <1>6, <1>8, <1>12, <2>2, <3>1
    <3>2. CASE i \notin 1 .. k
      <4>1. i - k \in 1 .. n /\ k + (i - k) = i /\ i \in 1 .. m
        BY <1>4, <1>5, <1>8, <1>12, <1>13, <2>2, <3>2
      <4>2. printed'[c][s][i] = kept[i - k]
        BY <1>8, <1>12, <2>2, <4>1
      <4>3. kept[i - k] = ToWrite(c)[s][i]
        BY <1>3, <1>9, <2>2, <4>1
      <4> QED
        BY <1>4, <4>1, <4>2, <4>3
    <3> QED
      BY <3>1, <3>2
  <2>5. s = "out" => todo[c]["out"] # <<>> \/ sent'[c]["out"] # <<>>
    <3>1. Taken(c, s) + Len(sent[c][s]) + Len(todo[c][s]) = Len(ToWrite(c)[s])
      BY Lengths
    <3>2. Len(todo[c][s]) \in Nat /\ Len(sent[c][s]) \in Nat /\ Len(<<>>) = 0
      BY Lengths, EmptySeq
    <3>3. s = "out" => Len(todo[c][s]) # 0 \/ Len(sent[c][s]) - n # 0
      BY <1>4, <1>5, <1>13, <3>1, <3>2 DEF k
    <3> QED
      BY <1>8, <3>2, <3>3
  <2>6. sent[c][s] # <<>>
    BY DEF Read
  <2>7. found'[c] = IF todo'[c]["out"] = <<>> /\ sent'[c]["out"] = <<>> THEN RetCode(c) ELSE NotFound
    <3>1. CASE s = "out"
      BY <1>2, <1>7, <1>8, <2>1, <2>5, <2>6, <3>1
    <3>2. CASE s # "out"
      BY <1>2, <1>3, <1>7, <1>8, <2>1, <3>2 DEF Streams
    <3> QED
      BY <3>1, <3>2
  <2> QED
    BY <2>3, <2>4, <2>7
<1>14. ASSUME ~ (k + n <= m) PROVE Goal
  <2>1. s = "out" /\ k + n = m + 1 /\ k <= m
    BY <1>3, <1>4, <1>5, <1>14
  <2>2. Last(chunk) = RetCode(c) /\ Last(chunk) \in Codes
    BY <1>4, <1>10, <2>1
  <2>3. Len(old) = k /\ Len(kept) = n - 1 /\ Least(k + n, m) = m
    BY <1>4, <1>5, <1>6, <1>9, <2>1, <2>2 DEF Least
  <2>4. Len(printed'[c][s]) = Least(Taken(c, s)', m)
    <3>1. Len(printed'[c][s]) = k + (n - 1)
      BY <1>8, <1>12, <2>3
    <3>2. k + (n - 1) = m
      BY <1>4, <1>5, <2>1
    <3>3. Taken(c, s)' = k + n
      BY <1>3
    <3> QED
      BY <2>3, <3>1, <3>2, <3>3
  <2>5. ASSUME NEW i \in 1 .. Len(printed'[c][s]) PROVE printed'[c][s][i] = Text(c, s)[i]
    <3>1. CASE i \in 1 .. k
      BY <1>6, <1>8, <1>12, <2>3, <3>1
    <3>2. CASE i \notin 1 .. k
      <4>1. i - k \in 1 .. n - 1 /\ i - k \in 1 .. n /\ k + (i - k) = i /\ i \in 1 .. m
        BY <1>4, <1>5, <1>8, <1>12, <2>1, <2>3, <3>2
      <4>2. printed'[c][s][i] = kept[i - k]
        BY <1>8, <1>12, <2>3, <4>1
      <4>3. kept[i - k] = ToWrite(c)[s][i]
        BY <1>3, <1>9, <2>3, <4>1
      <4> QED
        BY <1>4, <4>1, <4>2, <4>3
    <3> QED
      BY <3>1, <3>2
  <2>6. todo[c]["out"] = <<>> /\ sent'[c]["out"] = <<>>
    <3>1. /\ k + Len(sent[c][s]) + Len(todo[c][s]) = m + 1
          /\ Len(todo[c][s]) \in Nat /\ Len(sent[c][s]) \in Nat
      BY <1>4, <2>1, Lengths DEF k
    <3>2. Len(todo[c][s]) = 0 /\ Len(rest) = 0
      <4>1. Len(rest) = Len(sent[c][s]) - n /\ n <= Len(sent[c][s])
        BY <1>5, <1>8
      <4>2. k + n = m + 1 /\ k \in Nat /\ n \in Nat /\ m \in Nat
        BY <1>4, <1>5, <2>1
      <4> DEFINE b == Len(sent[c][s])
                 t == Len(todo[c][s])
      <4>3. b \in Nat /\ t \in Nat /\ k + b + t = m + 1 /\ n <= b
        BY <3>1, <4>1
      <4>4. t = 0 /\ b - n = 0
        <5> HIDE DEF b, t
        <5> QED
          BY <4>2, <4>3
      <4> QED
        BY <4>1, <4>4
    <3>3. todo[c][s] \in Seq(Nat)
      BY DEF TypeOK, ServerTypeOK
    <3> QED
      BY <1>8, <2>1, <3>2, <3>3, EmptySeq
  <2>7. found'[c] = RetCode(c)
    BY <1>8, <2>2
  <2> QED
    BY <1>2, <2>4, <2>5, <2>6, <2>7
<1>15. Goal
  BY <1>13, <1>14
<1>16. ASSUME NEW d \in Clients, client'[d] # "end"
       PROVE  /\ \A r \in Streams :
                   /\ Len(printed'[d][r]) = Least(Taken(d, r)', Len(Text(d, r)))
                   /\ \A i \in 1 .. Len(printed'[d][r]) : printed'[d][r][i] = Text(d, r)[i]
              /\ found'[d] = IF todo'[d]["out"] = <<>> /\ sent'[d]["out"] = <<>>
                               THEN RetCode(d) ELSE NotFound
  <2>1. /\ \A r \in Streams :
             /\ Len(printed[d][r]) = Least(Taken(d, r), Len(Text(d, r)))
             /\ \A i \in 1 .. Len(printed[d][r]) : printed[d][r][i] = Text(d, r)[i]
        /\ found[d] = IF todo[d]["out"] = <<>> /\ sent[d]["out"] = <<>>
                        THEN RetCode(d) ELSE NotFound
    BY <1>2, <1>16 DEF Copied
  <2>2. ASSUME NEW r \in Streams
        PROVE  /\ Len(printed'[d][r]) = Least(Taken(d, r)', Len(Text(d, r)))
               /\ \A i \in 1 .. Len(printed'[d][r]) : printed'[d][r][i] = Text(d, r)[i]
    <3>1. CASE d = c /\ r = s
      <4>1. /\ Len(printed'[c][s]) = Least(Taken(c, s)', Len(Text(c, s)))
            /\ \A i \in 1 .. Len(printed'[c][s]) : printed'[c][s][i] = Text(c, s)[i]
        BY <1>15 DEF m
      <4>2. Taken(d, r)' = Taken(c, s)'
        BY <3>1, TakenNext
      <4>3. Text(d, r) = Text(c, s) /\ printed'[d][r] = printed'[c][s]
        BY <3>1
      <4> QED
        BY <4>1, <4>2, <4>3, Zenon DEF Taken
    <3>2. CASE d # c \/ r # s
      <4>1. Taken(d, r)' = Taken(d, r)
        BY <1>3, <3>2, Zenon
      <4>2. printed'[d][r] = printed[d][r]
        BY <1>8, <3>2, Zenon
      <4> QED
        BY <2>1, <4>1, <4>2, Zenon
    <3> QED
      BY <3>1, <3>2
  <2>3. found'[d] = IF todo'[d]["out"] = <<>> /\ sent'[d]["out"] = <<>>
                      THEN RetCode(d) ELSE NotFound
    <3>1. CASE d = c
      BY <1>15, <3>1
    <3>2. CASE d # c
      BY <1>2, <1>3, <1>8, <2>1, <3>2 DEF Streams
    <3> QED
      BY <3>1, <3>2
  <2> QED
    BY <2>2, <2>3
<1>17. \A d, r : Text(d, r)' = Text(d, r) /\ RetCode(d)' = RetCode(d)
  BY DEF Text, RetCode
<1> QED
  BY <1>16, <1>17 DEF Copied

LEMMA WriteCopied ==
  ASSUME TypeOK, Flow, Copied, NEW c \in Clients, NEW s \in Streams,
         Write(c, s), todo[c][s] # <<>>, UNCHANGED <<client, printed, found>>
  PROVE  Copied'
<1>1. \A d \in Clients, r \in Streams : Taken(d, r)' = Taken(d, r)
  BY WriteFlow
<1>2. /\ sent'[c][s] = Append(sent[c][s], todo[c][s][1])
      /\ \A d \in Clients, r \in Streams : d # c \/ r # s =>
           todo'[d][r] = todo[d][r] /\ sent'[d][r] = sent[d][r]
  BY WriteIs
<1>3. sent'[c][s] # <<>>
  <2>1. sent[c][s] \in Seq(Nat) /\ todo[c][s] \in Seq(Nat)
    BY DEF TypeOK, ServerTypeOK
  <2>2. todo[c][s][1] \in Nat
    BY <2>1, Tailed
  <2>3. Len(sent'[c][s]) = Len(sent[c][s]) + 1 /\ Len(sent[c][s]) \in Nat
    BY <1>2, <2>1, <2>2, Appended
  <2> QED
    BY <2>3, EmptySeq
<1>4. ASSUME NEW d \in Clients, client[d] # "end"
      PROVE  found[d] = IF todo'[d]["out"] = <<>> /\ sent'[d]["out"] = <<>>
                          THEN RetCode(d) ELSE NotFound
  <2>1. found[d] = IF todo[d]["out"] = <<>> /\ sent[d]["out"] = <<>> THEN RetCode(d) ELSE NotFound
    BY <1>4 DEF Copied
  <2>2. CASE d = c /\ s = "out"
    BY <1>3, <2>1, <2>2
  <2>3. CASE d # c \/ s # "out"
    BY <1>2, <2>1, <2>3 DEF Streams
  <2> QED
    BY <2>2, <2>3
<1>5. \A d, r : Text(d, r)' = Text(d, r) /\ RetCode(d)' = RetCode(d)
  BY DEF Text, RetCode
<1> QED
  BY <1>1, <1>4, <1>5 DEF Copied

-----------------------------------------------------------------------------
(* Who is connected to whom.                                               *)
LEMMA ConnectedStep ==
  ASSUME TypeOK, Connected, [RNext]_allVars
  PROVE  Connected'
<1> USE DEF clients, servers, sockets, reset
<1>1. /\ client \in [Clients -> {"start", "read", "end"}] /\ open \in [Clients -> SUBSET Streams]
      /\ proc \in [Pids -> Exists \cup {"none", "gone"}]
      /\ user \in [Pids -> Clients \cup {None}] /\ ended \in [Clients -> SUBSET Streams]
      /\ sent \in [Clients -> [Streams -> Seq(Nat)]] /\ None \notin Clients
  BY OutputAssumption DEF TypeOK, ServerTypeOK
<1>2. \A c : ToWrite(c)' = ToWrite(c)
  BY DEF ToWrite
<1>3. CASE UNCHANGED allVars
  BY <1>2, <1>3 DEF allVars, vars, Connected, Answered
<1>4. ASSUME NEW c \in Clients, UseClang(c) \/ Finish(c) PROVE Connected'
  <2>1. client' = [client EXCEPT ![c] = "end"] /\ UNCHANGED <<open, servers, sockets>>
    BY <1>4 DEF UseClang, Finish, Cc1Main
  <2>2. \A p \in Pids : user[p] # c
    BY <1>1, <1>4 DEF UseClang, Finish, Connected, Streams
  <2> QED
    BY <1>1, <1>2, <2>1, <2>2 DEF Connected, Answered
<1>5. ASSUME NEW c \in Clients, NEW s \in Streams, Read(c, s) PROVE Connected'
  <2>1. UNCHANGED <<client, open, servers, todo, ended>> /\ s \in open[c]
    BY <1>5 DEF Read
  <2>2. \A d \in Clients, r \in Streams : d # c \/ r # s => sent'[d][r] = sent[d][r]
    BY <1>1, <1>5 DEF Read
  <2>3. \A d \in Clients : \A r \in Streams \ open[d] : ended[d] # {} /\ sent'[d][r] = <<>>
    <3>1. \A d \in Clients : \A r \in Streams \ open[d] : ended[d] # {} /\ sent[d][r] = <<>>
      BY DEF Connected
    <3> QED
      BY <2>1, <2>2, <3>1, Zenon
  <2> QED
    BY <1>2, <2>1, <2>3 DEF Connected, Answered
<1>6. ASSUME NEW c \in Clients, NEW s \in Streams, ReadEnd(c, s) PROVE Connected'
  BY <1>1, <1>2, <1>6 DEF ReadEnd, Connected, Answered
<1>7. ASSUME NEW c \in Clients, NEW p \in Pids, Connect(c, p) \/ StartServer(c, p)
      PROVE  Connected'
  <2>1. /\ client[c] = "start" /\ c \notin Unsuited /\ client' = [client EXCEPT ![c] = "read"]
        /\ user' = [user EXCEPT ![p] = c]
        /\ proc' = [proc EXCEPT ![p] = "compile"] \/ proc' = [proc EXCEPT ![p] = "forked"]
        /\ UNCHANGED <<open, sockets>>
    BY <1>7 DEF Connect, StartServer
  <2>2. \A q \in Pids : user[q] # c
    BY <1>1, <2>1 DEF Connected
  <2> QED
    BY <1>1, <1>2, <2>1, <2>2 DEF Connected, Answered
<1>8. ASSUME NEW p \in Pids, NEW s \in Streams, PrintByte(p, s) \/ (s = "out" /\ WriteExitCode(p))
      PROVE  Connected'
  <2> DEFINE c == user[p]
  <2>1. /\ c \in Clients /\ todo[c][s] # <<>> /\ Write(c, s) /\ ended[c] = {}
        /\ UNCHANGED <<client, open, user, ended>> /\ client[c] = "read"
        /\ s = "out" => Len(todo[c]["out"]) > 1 \/ todo[c]["err"] = <<>>
    BY <1>1, <1>8, Writers
  <2>2. /\ todo'[c][s] = Tail(todo[c][s])
        /\ \A d \in Clients, r \in Streams : d # c \/ r # s =>
             todo'[d][r] = todo[d][r] /\ sent'[d][r] = sent[d][r]
    BY <2>1, WriteIs
  <2>3. open[c] = Streams
    BY <1>1, <2>1 DEF Connected
  <2>4. ASSUME Answered(c)' PROVE todo'[c]["err"] = <<>>
    <3>1. CASE s = "out"
      <4>1. todo[c][s] \in Seq(Nat) /\ Len(todo[c][s]) \in Nat /\ todo'[c][s] = <<>>
        BY <2>1, <2>4, <3>1, LenProperties DEF TypeOK, ServerTypeOK, Answered
      <4>2. Len(Tail(todo[c][s])) = Len(todo[c][s]) - 1 /\ Len(<<>>) = 0
        BY <2>1, <4>1, Tailed, EmptySeq
      <4>3. ~ (Len(todo[c]["out"]) > 1)
        <5> DEFINE l == Len(todo[c]["out"])
        <5>1. l \in Nat /\ l - 1 = 0
          BY <2>2, <3>1, <4>1, <4>2
        <5>2. ~ (l > 1)
          <6> HIDE DEF l
          <6> QED
            BY <5>1
        <5> QED
          BY <5>2
      <4> QED
        BY <2>1, <2>2, <3>1, <4>3 DEF Streams
    <3>2. CASE s = "err"
      <4>1. todo[c]["out"] = <<>>
        BY <2>1, <2>2, <2>4, <3>2 DEF Answered, Streams
      <4> QED
        BY <2>1, <3>2, <4>1 DEF Connected, Answered
    <3> QED
      BY <3>1, <3>2 DEF Streams
  <2>5. proc' = proc \/ proc' = [proc EXCEPT ![p] = "answered"]
    BY <1>8 DEF PrintByte, WriteExitCode
  <2>6. proc[p] = "compile"
    BY <1>8 DEF PrintByte, WriteExitCode
  <2>7. \A d \in Clients : d # c => todo'[d] = todo[d] /\ sent'[d] = sent[d]
    BY <2>1 DEF Write, TypeOK, ServerTypeOK
  <2>8. /\ \A q \in Pids : /\ proc'[q] \in {"forked", "compile", "answered"} => user[q] \in Clients
                           /\ proc'[q] \in {"none", "accept", "zombie", "gone"} => user[q] = None
    BY <1>1, <2>1, <2>5, <2>6 DEF Connected
  <2>9. ASSUME NEW d \in Clients
        PROVE  /\ client[d] = "start" => ended[d] = {} /\ todo'[d] = ToWrite(d)
               /\ client[d] = "read" => d \notin Unsuited
               /\ \A r \in Streams \ open[d] : ended[d] # {} /\ sent'[d][r] = <<>>
               /\ todo'[d]["out"] = <<>> => todo'[d]["err"] = <<>>
    <3>1. CASE d = c
      BY <2>1, <2>3, <2>4, <3>1 DEF Connected, Answered
    <3>2. CASE d # c
      BY <2>7, <3>2 DEF Connected, Answered
    <3> QED
      BY <3>1, <3>2
  <2>10. UNCHANGED <<client, open, user, ended>>
    BY <2>1
  <2>11. /\ \A q \in Pids : user[q] # None => client[user[q]] = "read" /\ ended[user[q]] = {}
         /\ \A q, r \in Pids : user[q] # None /\ user[q] = user[r] => q = r
    BY DEF Connected
  <2> HIDE DEF c
  <2> QED
    BY <1>2, <2>8, <2>9, <2>10, <2>11 DEF Connected, Answered
<1>9. ASSUME NEW p \in Pids, Exec(p) \/ Leave(p) \/ Reap(p) PROVE Connected'
  <2>1. UNCHANGED <<clients, user, sockets>>
    BY <1>9 DEF Exec, Leave, Reap
  <2>2. \/ proc[p] = "forked" /\ proc' = [proc EXCEPT ![p] = "compile"]
        \/ proc' = [proc EXCEPT ![p] = "dying"]
        \/ proc[p] = "zombie" /\ proc' = [proc EXCEPT ![p] = "gone"]
    BY <1>9 DEF Exec, Leave, Reap
  <2> QED
    BY <1>1, <1>2, <2>1, <2>2 DEF Connected, Answered
<1>10. ASSUME NEW p \in Pids, Disconnect(p) \/ Die(p) PROVE Connected'
  <2>1. /\ user' = [user EXCEPT ![p] = None] /\ UNCHANGED <<clients, todo, sent>>
        /\ proc' = [proc EXCEPT ![p] = "accept"] \/ proc' = [proc EXCEPT ![p] = "zombie"]
        /\ user[p] # None => ended' = [ended EXCEPT ![user[p]] = Streams]
        /\ user[p] = None => ended' = ended
    BY <1>1, <1>10 DEF Disconnect, Die, Connected
  <2>2. \A d \in Clients : d # user[p] => ended'[d] = ended[d]
    BY <1>1, <2>1
  <2>3. user[p] # None => client[user[p]] = "read" /\ ended'[user[p]] = Streams /\ Streams # {}
    BY <1>1, <2>1 DEF Connected, Streams
  <2>4. \A q \in Pids \ {p} : user'[q] = user[q] /\ (user[q] # None => user[q] # user[p])
    BY <1>1, <2>1 DEF Connected
  <2>5. \A q \in Pids : /\ proc'[q] \in {"forked", "compile", "answered"} => user'[q] \in Clients
                        /\ proc'[q] \in {"none", "accept", "zombie", "gone"} => user'[q] = None
    BY <1>1, <2>1 DEF Connected
  <2>6. \A q \in Pids : user'[q] # None => client'[user'[q]] = "read" /\ ended'[user'[q]] = {}
    BY <1>1, <2>1, <2>2, <2>4 DEF Connected
  <2>7. \A q, r \in Pids : user'[q] # None /\ user'[q] = user'[r] => q = r
    BY <1>1, <2>1 DEF Connected
  <2>8. ASSUME NEW d \in Clients
        PROVE  /\ client'[d] = "start" => ended'[d] = {} /\ todo'[d] = ToWrite(d)
               /\ client'[d] = "read" => d \notin Unsuited
               /\ \A r \in Streams \ open'[d] : ended'[d] # {} /\ sent'[d][r] = <<>>
               /\ todo'[d]["out"] = <<>> => todo'[d]["err"] = <<>>
    <3>1. CASE d = user[p]
      BY <1>1, <2>1, <2>3, <3>1 DEF Connected, Answered
    <3>2. CASE d # user[p]
      BY <2>1, <2>2, <3>2 DEF Connected, Answered
    <3> QED
      BY <3>1, <3>2
  <2> QED
    BY <1>2, <2>5, <2>6, <2>7, <2>8 DEF Connected, Answered
<1>11. CASE ResetAll \/ ReadDir \/ Rescan \/ EndReset
  <2>1. UNCHANGED vars
    BY <1>11 DEF ResetAll, ReadDir, Rescan, EndReset, OpenDir
  <2> QED
    BY <1>2, <2>1 DEF vars, Connected, Answered
<1>12. ASSUME NEW p \in Pids, Examine(p) PROVE Connected'
  <2>1. UNCHANGED <<clients, user, sockets>>
    BY <1>12 DEF Examine
  <2>2. proc' = proc \/ proc' = [proc EXCEPT ![p] = "dying"]
    BY <1>1, <1>12 DEF Examine
  <2> QED
    BY <1>1, <1>2, <2>1, <2>2 DEF Connected, Answered
<1>13. CASE Next /\ UNCHANGED reset
  BY <1>4, <1>5, <1>6, <1>7, <1>8, <1>9, <1>10, <1>13, Zenon DEF Next, ClientStep, ServerStep, Streams
<1> QED
  BY <1>3, <1>11, <1>12, <1>13, Zenon DEF RNext, ScanStep

-----------------------------------------------------------------------------
(* What is read and printed, whatever step is taken.                       *)
LEMMA OutputStep ==
  ASSUME TypeOK, Flow, Copied, Connected, [RNext]_allVars
  PROVE  Flow' /\ Copied'
<1> USE DEF clients, servers, sockets, reset
<1>1. ASSUME UNCHANGED <<client, printed, found, todo, sent>> PROVE Flow' /\ Copied'
  BY <1>1, FlowKept, CopiedKept
<1>2. ASSUME NEW c \in Clients, UseClang(c) \/ Finish(c) PROVE Flow' /\ Copied'
  <2>1. UNCHANGED <<found, todo, sent>>
    BY <1>2 DEF UseClang, Finish
  <2>2. /\ client'[c] = "end"
        /\ \A d \in Clients \ {c} : client'[d] = client[d] /\ printed'[d] = printed[d]
    <3>1. CASE Cc1Main(c)
      BY <3>1, Cc1MainType
    <3>2. CASE ~ Cc1Main(c)
      <4>1. client' = [client EXCEPT ![c] = "end"] /\ printed' = printed
        BY <1>2, <3>2 DEF UseClang, Finish
      <4> QED
        BY <4>1 DEF TypeOK, ServerTypeOK
    <3> QED
      BY <3>1, <3>2
  <2>3. \A d \in Clients : client'[d] # "end" => client[d] # "end" /\ printed'[d] = printed[d]
    BY <2>2
  <2> QED
    BY <2>1, <2>3, FlowKept, CopiedKept
<1>3. ASSUME NEW c \in Clients, NEW s \in Streams, Read(c, s) PROVE Flow' /\ Copied'
  <2>1. PICK n \in 1 .. Len(sent[c][s]), chunk \in Seq(Nat), rest \in Seq(Nat) :
           ReadAs(c, s, n, chunk, rest)
    BY <1>3, ReadIs
  <2> QED
    BY <1>3, <2>1, ReadFlow, ReadCopied
<1>4. ASSUME NEW p \in Pids, NEW s \in Streams, PrintByte(p, s) \/ (s = "out" /\ WriteExitCode(p))
      PROVE  Flow' /\ Copied'
  BY <1>4, Writers, WriteFlow, WriteCopied
<1>5. ASSUME NEW c \in Clients, NEW s \in Streams, NEW p \in Pids,
             ReadEnd(c, s) \/ Exec(p) \/ Leave(p) \/ Reap(p) \/ Disconnect(p) \/ Die(p)
      PROVE  Flow' /\ Copied'
  BY <1>1, <1>5 DEF ReadEnd, Exec, Leave, Reap, Disconnect, Die
<1>6. ASSUME NEW c \in Clients, NEW p \in Pids, Connect(c, p) \/ StartServer(c, p)
      PROVE  Flow' /\ Copied'
  <2>1. /\ UNCHANGED <<found, todo, sent, printed>> /\ client[c] = "start"
        /\ client' = [client EXCEPT ![c] = "read"]
    BY <1>6 DEF Connect, StartServer
  <2>2. \A d \in Clients : client'[d] # "end" => client[d] # "end" /\ printed'[d] = printed[d]
    BY <2>1 DEF TypeOK, ServerTypeOK
  <2> QED
    BY <2>1, <2>2, FlowKept, CopiedKept
<1>7. ASSUME NEW p \in Pids, Examine(p) PROVE Flow' /\ Copied'
  BY <1>1, <1>7 DEF Examine
<1>8. CASE ResetAll \/ ReadDir \/ Rescan \/ EndReset \/ UNCHANGED allVars
  BY <1>1, <1>8 DEF ResetAll, ReadDir, Rescan, EndReset, OpenDir, allVars, vars
<1>9. CASE Next /\ UNCHANGED reset
  <2>1. ASSUME NEW p \in Pids, ServerStep(p) PROVE Flow' /\ Copied'
    <3>1. CASE \E s \in Streams : PrintByte(p, s) \/ (s = "out" /\ WriteExitCode(p))
      BY <1>4, <3>1
    <3>2. CASE ~ (\E s \in Streams : PrintByte(p, s) \/ (s = "out" /\ WriteExitCode(p)))
      <4>1. Exec(p) \/ Leave(p) \/ Reap(p) \/ Disconnect(p) \/ Die(p)
        BY <2>1, <3>2 DEF ServerStep, Streams
      <4> QED
        BY <1>1, <4>1 DEF Exec, Leave, Reap, Disconnect, Die
    <3> QED
      BY <3>1, <3>2
  <2>2. ASSUME NEW c \in Clients, NEW s \in Streams, ReadEnd(c, s) PROVE Flow' /\ Copied'
    BY <1>1, <2>2 DEF ReadEnd
  <2> QED
    BY <1>2, <1>3, <1>6, <1>9, <2>1, <2>2, Zenon DEF Next, ClientStep
<1> QED
  BY <1>7, <1>8, <1>9, Zenon DEF RNext, ScanStep

(* What has been printed up to some byte is a prefix, and all of it is all *)
LEMMA PrintedIs ==
  ASSUME NEW t \in Seq(Nat), NEW u \in Seq(Nat), NEW k \in Int,
         Len(t) = Least(k, Len(u)), \A i \in 1 .. Len(t) : t[i] = u[i]
  PROVE  IsPrefix(t, u) /\ (k >= Len(u) => t = u) /\ (k = 0 => t = <<>>)
<1>1. Len(t) \in Nat /\ Len(u) \in Nat /\ Len(t) <= Len(u)
  <2>1. Len(t) \in Nat /\ Len(u) \in Nat
    BY LenProperties
  <2> QED
    BY <2>1 DEF Least
<1>2. /\ SubSeq(u, 1, Len(t)) \in Seq(Nat) /\ Len(SubSeq(u, 1, Len(t))) = Len(t)
      /\ \A i \in 1 .. Len(t) : SubSeq(u, 1, Len(t))[i] = u[i]
  <2>1. Len(t) \in 0 .. Len(u)
    BY <1>1
  <2> QED
    BY <2>1, Cut
<1>3. t = SubSeq(u, 1, Len(t))
  <2> DEFINE w == SubSeq(u, 1, Len(t))
  <2>1. w \in Seq(Nat) /\ Len(w) = Len(t) /\ \A i \in 1 .. Len(t) : t[i] = w[i]
    BY <1>2
  <2> HIDE DEF w
  <2>2. t = w
    BY <2>1, SeqEqual
  <2> QED
    BY <2>2 DEF w
<1>4. ASSUME k >= Len(u) PROVE t = u
  <2>1. Len(t) = Len(u)
    BY <1>1, <1>4 DEF Least
  <2> QED
    BY <2>1, SeqEqual
<1>5. ASSUME k = 0 PROVE t = <<>>
  <2>1. Len(t) = 0
    BY <1>1, <1>5 DEF Least
  <2> QED
    BY <2>1, EmptySeq
<1> QED
  BY <1>1, <1>3, <1>4, <1>5 DEF IsPrefix

(* A client that has ended changes no more, and only two steps end one.    *)
LEMMA ClientSteps ==
  ASSUME TypeOK, Connected, [RNext]_allVars, NEW d \in Clients
  PROVE  /\ client[d] = "end" => /\ client'[d] = "end" /\ code'[d] = code[d]
                                 /\ printed'[d] = printed[d] /\ todo'[d] = todo[d]
         /\ client[d] # "end" /\ client'[d] = "end" => UseClang(d) \/ Finish(d)
<1> USE DEF clients, servers, sockets, reset
<1> DEFINE Goal == /\ client[d] = "end" => /\ client'[d] = "end" /\ code'[d] = code[d]
                                           /\ printed'[d] = printed[d] /\ todo'[d] = todo[d]
                   /\ client[d] # "end" /\ client'[d] = "end" => UseClang(d) \/ Finish(d)
<1>1. ASSUME UNCHANGED <<client, code, printed, todo>> PROVE Goal
  BY <1>1
<1>2. ASSUME NEW c \in Clients, UseClang(c) \/ Finish(c) PROVE Goal
  <2>1. client[c] # "end" /\ todo' = todo
    BY <1>2 DEF UseClang, Finish
  <2>2. \A e \in Clients \ {c} : /\ client'[e] = client[e] /\ code'[e] = code[e]
                                 /\ printed'[e] = printed[e]
    <3>1. CASE Cc1Main(c)
      BY <3>1, Cc1MainType
    <3>2. CASE ~ Cc1Main(c)
      <4>1. /\ client' = [client EXCEPT ![c] = "end"] /\ printed' = printed
            /\ code' = [code EXCEPT ![c] = IF found[c] = NotFound THEN 1 ELSE found[c]]
        BY <1>2, <3>2 DEF UseClang, Finish
      <4> QED
        BY <4>1 DEF TypeOK, ServerTypeOK
    <3> QED
      BY <3>1, <3>2
  <2> QED
    BY <1>2, <2>1, <2>2
<1>3. ASSUME NEW c \in Clients, NEW s \in Streams, Read(c, s) PROVE Goal
  <2>1. client[c] = "read" /\ UNCHANGED <<client, code, todo>>
    BY <1>3 DEF Read
  <2>2. \A e \in Clients \ {c} : printed'[e] = printed[e]
    BY <1>3 DEF Read, TypeOK, ServerTypeOK
  <2> QED
    BY <2>1, <2>2
<1>4. ASSUME NEW p \in Pids, NEW s \in Streams, PrintByte(p, s) \/ (s = "out" /\ WriteExitCode(p))
      PROVE  Goal
  <2>1. /\ user[p] \in Clients /\ client[user[p]] = "read" /\ Write(user[p], s)
        /\ UNCHANGED <<client, code, printed>>
    BY <1>4, Writers, OutputAssumption
  <2>2. \A e \in Clients \ {user[p]} : todo'[e] = todo[e]
    BY <2>1 DEF Write, TypeOK, ServerTypeOK
  <2> QED
    BY <2>1, <2>2
<1>5. ASSUME NEW c \in Clients, NEW p \in Pids, Connect(c, p) \/ StartServer(c, p) PROVE Goal
  <2>1. /\ UNCHANGED <<code, todo, printed>> /\ client[c] = "start"
        /\ client' = [client EXCEPT ![c] = "read"]
    BY <1>5 DEF Connect, StartServer
  <2> QED
    BY <2>1 DEF TypeOK, ServerTypeOK
<1>6. ASSUME NEW p \in Pids, Examine(p) PROVE Goal
  BY <1>1, <1>6 DEF Examine
<1>7. ASSUME ResetAll \/ ReadDir \/ Rescan \/ EndReset \/ UNCHANGED allVars PROVE Goal
  BY <1>1, <1>7 DEF ResetAll, ReadDir, Rescan, EndReset, OpenDir, allVars, vars
<1>8. ASSUME NEW p \in Pids, ServerStep(p) PROVE Goal
  <2>1. CASE \E s \in Streams : PrintByte(p, s) \/ (s = "out" /\ WriteExitCode(p))
    BY <1>4, <2>1, Zenon
  <2>2. CASE ~ (\E s \in Streams : PrintByte(p, s) \/ (s = "out" /\ WriteExitCode(p)))
    <3>1. Exec(p) \/ Leave(p) \/ Reap(p) \/ Disconnect(p) \/ Die(p)
      BY <1>8, <2>2 DEF ServerStep, Streams
    <3> QED
      BY <1>1, <3>1 DEF Exec, Leave, Reap, Disconnect, Die
  <2> QED
    BY <2>1, <2>2
<1>9. ASSUME NEW c \in Clients, NEW s \in Streams, ReadEnd(c, s) PROVE Goal
  BY <1>1, <1>9 DEF ReadEnd
<1>10. ASSUME NEW c \in Clients, ClientStep(c) PROVE Goal
  BY <1>2, <1>3, <1>9, <1>10 DEF ClientStep
<1> HIDE DEF Goal
<1>11. ASSUME Next PROVE Goal
  <2>1. CASE \E c \in Clients : ClientStep(c) \/ \E p \in Pids : Connect(c, p) \/ StartServer(c, p)
    BY <1>5, <1>10, <2>1
  <2>2. CASE \E p \in Pids : ServerStep(p)
    BY <1>8, <2>2
  <2> QED
    BY <1>11, <2>1, <2>2 DEF Next
<1>12. Goal
  <2>1. CASE RNext
    BY <1>6, <1>7, <1>11, <2>1 DEF RNext, ScanStep
  <2> QED
    BY <1>7, <2>1
<1> QED
  BY <1>12 DEF Goal

(* What a client has printed is a prefix of what the compiler prints.      *)
LEMMA PrefixIs ==
  ASSUME NEW d \in Clients, NEW s \in Streams, NEW t \in Seq(Nat), NEW k \in Int,
         Len(t) = Least(k, Len(Text(d, s))), \A i \in 1 .. Len(t) : t[i] = Text(d, s)[i]
  PROVE  /\ IsPrefix(t, Output[d][s])
         /\ k >= Len(Text(d, s)) => t = Text(d, s)
         /\ k = 0 => t = <<>>
<1>1. Text(d, s) \in Seq(Nat) /\ Output[d][s] \in Seq(Nat)
  BY ToWriteIs
<1>2. /\ IsPrefix(t, Text(d, s))
      /\ k >= Len(Text(d, s)) => t = Text(d, s)
      /\ k = 0 => t = <<>>
  BY <1>1, PrintedIs
<1>3. CASE d \in DoNotZap
  <2>1. t = <<>>
    <3>1. Len(t) \in Nat /\ Len(t) <= 0
      BY <1>2, <1>3, LenProperties, EmptySeq DEF Text, IsPrefix
    <3>2. Len(t) = 0
      BY <3>1
    <3> QED
      BY <3>2, EmptySeq
  <2>2. Len(Output[d][s]) \in Nat
    BY <1>1, LenProperties
  <2>3. 0 \in 0 .. Len(Output[d][s])
    BY <2>2
  <2>4. Len(SubSeq(Output[d][s], 1, 0)) = 0 /\ SubSeq(Output[d][s], 1, 0) \in Seq(Nat)
    BY <1>1, <2>3, Cut
  <2>5. SubSeq(Output[d][s], 1, 0) = <<>> /\ Len(<<>>) = 0
    BY <2>4, EmptySeq
  <2> QED
    BY <1>2, <2>1, <2>2, <2>5 DEF IsPrefix
<1>4. CASE d \notin DoNotZap
  BY <1>2, <1>4 DEF Text
<1> QED
  BY <1>2, <1>3, <1>4

(* All of it once all is written and nothing is under way.                 *)
LEMMA PrintedSoFar ==
  ASSUME TypeOK, Copied, NEW d \in Clients, NEW s \in Streams, client[d] # "end"
  PROVE  /\ IsPrefix(printed[d][s], Output[d][s])
         /\ todo[d][s] = <<>> /\ sent[d][s] = <<>> => printed[d][s] = Text(d, s)
         /\ Taken(d, s) = 0 => printed[d][s] = <<>>
<1>1. printed[d][s] \in Seq(Nat)
  BY DEF TypeOK, ServerTypeOK
<1>2. /\ Text(d, s) \in Seq(Nat)
      /\ Len(ToWrite(d)[s]) = Len(Text(d, s)) + (IF s = "out" THEN 1 ELSE 0)
  BY ToWriteIs
<1>3. /\ Len(printed[d][s]) = Least(Taken(d, s), Len(Text(d, s)))
      /\ \A i \in 1 .. Len(printed[d][s]) : printed[d][s][i] = Text(d, s)[i]
  BY DEF Copied
<1>4. /\ Taken(d, s) \in Int
      /\ Taken(d, s) + Len(sent[d][s]) + Len(todo[d][s]) = Len(ToWrite(d)[s])
  BY Lengths
<1>5. todo[d][s] = <<>> /\ sent[d][s] = <<>> => Taken(d, s) >= Len(Text(d, s))
  <2>1. Len(<<>>) = 0 /\ Len(Text(d, s)) \in Nat
    BY <1>2, LenProperties, EmptySeq
  <2> QED
    BY <1>2, <1>4, <2>1
<1> QED
  BY <1>1, <1>3, <1>4, <1>5, PrefixIs

LEMMA PrintedNext ==
  ASSUME TypeOK', Copied', NEW d \in Clients, NEW s \in Streams, client'[d] # "end"
  PROVE  IsPrefix(printed'[d][s], Output[d][s])
<1>1. /\ printed'[d][s] \in Seq(Nat) /\ todo'[d][s] \in Seq(Nat) /\ sent'[d][s] \in Seq(Nat)
  BY DEF TypeOK, ServerTypeOK
<1>2. Taken(d, s)' \in Int
  <2>1. Len(todo'[d][s]) \in Nat /\ Len(sent'[d][s]) \in Nat /\ Len(ToWrite(d)[s]) \in Nat
    BY <1>1, ToWriteIs, LenProperties
  <2>2. Taken(d, s)' = Len(ToWrite(d)[s]) - Len(todo'[d][s]) - Len(sent'[d][s])
    BY TakenNext
  <2> DEFINE w == Len(ToWrite(d)[s])
             a == Len(todo'[d][s])
             b == Len(sent'[d][s])
  <2>3. w - a - b \in Int
    <3>1. w \in Nat /\ a \in Nat /\ b \in Nat
      BY <2>1
    <3> HIDE DEF w, a, b
    <3> QED
      BY <3>1
  <2> QED
    BY <2>2, <2>3
<1>3. /\ Len(printed'[d][s]) = Least(Taken(d, s)', Len(Text(d, s)))
      /\ \A i \in 1 .. Len(printed'[d][s]) : printed'[d][s][i] = Text(d, s)[i]
  BY DEF Copied, Text
<1> QED
  BY <1>1, <1>2, <1>3, PrefixIs

(* How a client ends, for each of the two steps that end one.              *)
LEMMA UseClangEnds ==
  ASSUME TypeOK, Flow, Copied, Connected, NEW d \in Clients, UseClang(d)
  PROVE  code'[d] = Outcome[d] /\ \A s \in Streams : printed'[d][s] = Output[d][s]
<1>1. Cc1Main(d) /\ client[d] = "start"
  BY DEF UseClang
<1>2. todo[d] = ToWrite(d)
  BY <1>1 DEF Connected
<1>3. ASSUME NEW s \in Streams PROVE printed'[d][s] = Output[d][s]
  <2>1. Taken(d, s) = 0
    <3>1. /\ Len(sent[d][s]) \in Nat /\ Len(ToWrite(d)[s]) \in Nat /\ Taken(d, s) \in Int
          /\ Taken(d, s) + Len(sent[d][s]) + Len(todo[d][s]) = Len(ToWrite(d)[s])
      BY Lengths
    <3>2. Taken(d, s) >= 0
      BY DEF Flow
    <3> DEFINE k == Taken(d, s)
               b == Len(sent[d][s])
               w == Len(ToWrite(d)[s])
    <3>3. b \in Nat /\ w \in Nat /\ k \in Int /\ k >= 0 /\ k + b + w = w
      BY <1>2, <3>1, <3>2
    <3>4. k = 0
      <4> HIDE DEF k, b, w
      <4> QED
        BY <3>3
    <3> QED
      BY <3>4
  <2>2. printed[d][s] = <<>>
    BY <1>1, <2>1, PrintedSoFar
  <2>3. printed'[d][s] = printed[d][s] \o Output[d][s] /\ Output[d][s] \in Seq(Nat)
    BY <1>1, Cc1MainType, ToWriteIs
  <2> QED
    BY <2>2, <2>3, ConcatEmptySeq
<1> QED
  BY <1>1, <1>3, Cc1MainType

LEMMA FinishEnds ==
  ASSUME TypeOK, Flow, Copied, Connected, NEW d \in Clients, Finish(d)
  PROVE  /\ todo' = todo /\ d \notin Unsuited
         /\ Answered(d) => /\ code'[d] = Outcome[d]
                           /\ \A s \in Streams : printed'[d][s] = Output[d][s]
         /\ ~ Answered(d) => /\ code'[d] = 1
                             /\ \A s \in Streams : IsPrefix(printed'[d][s], Output[d][s])
<1>1. /\ client[d] = "read" /\ d \notin Unsuited /\ todo' = todo
      /\ \A s \in Streams : sent[d][s] = <<>>
      /\ Answered(d) => todo[d]["err"] = <<>>
  BY DEF Finish, Connected, sockets
<1>2. found[d] = IF Answered(d) THEN RetCode(d) ELSE NotFound
  BY <1>1 DEF Copied, Answered, Streams
<1>3. /\ RetCode(d) \in Codes /\ (RetCode(d) = 2 <=> d \in DoNotZap)
      /\ \A s \in Streams : d \notin DoNotZap => RetCode(d) = Outcome[d] /\ Text(d, s) = Output[d][s]
      /\ \A s \in Streams : Output[d][s] \in Seq(Nat)
  BY ToWriteIs DEF Streams
<1>4. NotFound \notin Codes
  BY DEF NotFound, Codes
<1>5. found[d] # 2 => /\ printed' = printed
                      /\ code'[d] = IF found[d] = NotFound THEN 1 ELSE found[d]
  BY DEF Finish, TypeOK, ServerTypeOK
<1>6. ASSUME Answered(d)
      PROVE  code'[d] = Outcome[d] /\ \A s \in Streams : printed'[d][s] = Output[d][s]
  <2>1. ASSUME NEW s \in Streams PROVE printed[d][s] = Text(d, s)
    <3>1. todo[d][s] = <<>> /\ sent[d][s] = <<>>
      BY <1>1, <1>6 DEF Answered, Streams
    <3> QED
      BY <1>1, <3>1, PrintedSoFar
  <2>2. CASE d \in DoNotZap
    <3>1. Cc1Main(d)
      BY <1>2, <1>3, <1>6, <2>2 DEF Finish
    <3>2. ASSUME NEW s \in Streams PROVE printed'[d][s] = Output[d][s]
      <4>1. printed[d][s] = <<>>
        BY <2>1, <2>2 DEF Text
      <4>2. printed'[d][s] = printed[d][s] \o Output[d][s]
        BY <3>1, Cc1MainType
      <4> QED
        BY <1>3, <4>1, <4>2, ConcatEmptySeq
    <3> QED
      BY <3>1, <3>2, Cc1MainType
  <2>3. CASE d \notin DoNotZap
    <3>1. found[d] # 2 /\ found[d] # NotFound /\ found[d] = Outcome[d]
      <4>1. Outcome[d] \in {0, 1}
        BY OutputAssumption
      <4>2. found[d] = RetCode(d) /\ "out" \in Streams
        BY <1>2, <1>6 DEF Streams
      <4> QED
        BY <1>3, <1>4, <2>3, <4>1, <4>2
    <3> QED
      BY <1>3, <1>5, <2>1, <2>3, <3>1
  <2> QED
    BY <2>2, <2>3
<1>7. ASSUME ~ Answered(d)
      PROVE  code'[d] = 1 /\ \A s \in Streams : IsPrefix(printed'[d][s], Output[d][s])
  <2>1. found[d] = NotFound /\ found[d] # 2
    BY <1>2, <1>7 DEF NotFound
  <2>2. \A s \in Streams : IsPrefix(printed[d][s], Output[d][s])
    BY <1>1, PrintedSoFar
  <2> QED
    BY <1>5, <2>1, <2>2
<1> QED
  BY <1>1, <1>6, <1>7

LEMMA WholeIsPrefix ==
  ASSUME NEW d \in Clients, NEW s \in Streams
  PROVE  IsPrefix(Output[d][s], Output[d][s])
<1>1. Output[d][s] \in Seq(Nat) /\ Len(Output[d][s]) \in Nat
  BY ToWriteIs, LenProperties
<1>2. Len(Output[d][s]) = Least(Len(Output[d][s]), Len(Output[d][s]))
  BY DEF Least
<1> QED
  BY <1>1, <1>2, PrintedIs

LEMMA EndsWell ==
  ASSUME TypeOK, Flow, Copied, Connected, ExitCodeTrue, TextTrue, [RNext]_allVars,
         TypeOK', Copied'
  PROVE  ExitCodeTrue' /\ TextTrue'
<1> DEFINE Good(d) ==
      /\ client'[d] = "end" => code'[d] = Outcome[d] \/ (code'[d] = 1 /\ todo'[d]["out"] # <<>>)
      /\ \A s \in Streams :
           /\ IsPrefix(printed'[d][s], Output[d][s])
           /\ client'[d] = "end" =>
                \/ printed'[d][s] = Output[d][s]
                \/ d \notin Unsuited /\ todo'[d]["out"] # <<>>
<1>1. ASSUME NEW d \in Clients, client[d] = "end" PROVE Good(d)
  <2>1. /\ client'[d] = "end" /\ code'[d] = code[d]
        /\ printed'[d] = printed[d] /\ todo'[d] = todo[d]
    BY <1>1, ClientSteps
  <2> QED
    BY <1>1, <2>1 DEF ExitCodeTrue, TextTrue, Answered
<1>2. ASSUME NEW d \in Clients, client[d] # "end", client'[d] = "end" PROVE Good(d)
  <2>1. CASE UseClang(d)
    <3>1. code'[d] = Outcome[d] /\ \A s \in Streams : printed'[d][s] = Output[d][s]
      BY <2>1, UseClangEnds
    <3> QED
      BY <3>1, WholeIsPrefix
  <2>2. CASE Finish(d)
    <3>1. /\ todo' = todo /\ d \notin Unsuited
          /\ Answered(d) => /\ code'[d] = Outcome[d]
                            /\ \A s \in Streams : printed'[d][s] = Output[d][s]
          /\ ~ Answered(d) => /\ code'[d] = 1
                              /\ \A s \in Streams : IsPrefix(printed'[d][s], Output[d][s])
      BY <2>2, FinishEnds
    <3> QED
      BY <3>1, WholeIsPrefix DEF Answered
  <2> QED
    BY <1>2, <2>1, <2>2, ClientSteps
<1>3. ASSUME NEW d \in Clients, client'[d] # "end" PROVE Good(d)
  <2>1. ASSUME NEW s \in Streams PROVE IsPrefix(printed'[d][s], Output[d][s])
    BY <1>3, PrintedNext
  <2> QED
    BY <1>3, <2>1
<1>4. \A d \in Clients : Good(d)
  BY <1>1, <1>2, <1>3
<1>5. \A t, u : IsPrefix(t, u)' = IsPrefix(t, u)
  BY DEF IsPrefix
<1> QED
  BY <1>4 DEF ExitCodeTrue, TextTrue, Answered, IsPrefix

-----------------------------------------------------------------------------
(* The scans.                                                              *)

(* A server that runs stays known, and no process becomes one that has     *)
(* begun before.                                                           *)
LEMMA ProcStep ==
  ASSUME TypeOK, [RNext]_allVars, NEW q \in Pids, proc[q] \notin {"none", "forked"}
  PROVE  proc'[q] \notin {"none", "forked"} /\ (q \in Named' => q \in Named)
<1> USE DEF clients, servers, sockets, reset, Serving
<1> DEFINE Goal == /\ proc'[q] \notin {"none", "forked"}
                   /\ proc'[q] \in Serving \cup {"dying", "zombie"} =>
                        proc[q] \in Serving \cup {"dying", "zombie"}
<1>1. proc \in [Pids -> Exists \cup {"none", "gone"}]
  BY DEF TypeOK, ServerTypeOK
<1>2. ASSUME proc' = proc PROVE Goal
  BY <1>2
<1>3. ASSUME NEW c \in Clients, ClientStep(c) PROVE Goal
  BY <1>2, <1>3 DEF ClientStep, UseClang, Finish, Read, ReadEnd
<1>4. ASSUME NEW c \in Clients, NEW p \in Pids, Connect(c, p) \/ StartServer(c, p) PROVE Goal
  BY <1>1, <1>4 DEF Connect, StartServer
<1>5. ASSUME NEW p \in Pids, ServerStep(p) PROVE Goal
  <2>1. CASE Exec(p) \/ WriteExitCode(p) \/ Disconnect(p) \/ Leave(p)
    BY <1>1, <2>1 DEF Exec, WriteExitCode, Disconnect, Leave
  <2>2. CASE Die(p) \/ Reap(p)
    BY <1>1, <2>2 DEF Die, Reap
  <2>3. CASE \E s \in Streams : PrintByte(p, s)
    BY <1>2, <2>3 DEF PrintByte
  <2> QED
    BY <1>5, <2>1, <2>2, <2>3 DEF ServerStep
<1>6. ASSUME NEW p \in Pids, Examine(p) PROVE Goal
  BY <1>1, <1>6 DEF Examine
<1>7. ASSUME ResetAll \/ ReadDir \/ Rescan \/ EndReset \/ UNCHANGED allVars PROVE Goal
  BY <1>2, <1>7 DEF ResetAll, ReadDir, Rescan, EndReset, OpenDir, allVars, vars
<1> HIDE DEF Goal
<1>8. ASSUME Next PROVE Goal
  BY <1>3, <1>4, <1>5, <1>8 DEF Next
<1>9. Goal
  <2>1. CASE RNext
    BY <1>6, <1>7, <1>8, <2>1 DEF RNext, ScanStep
  <2> QED
    BY <1>7, <2>1
<1> QED
  BY <1>9 DEF Goal, Named

LEMMA ScannedStep ==
  ASSUME TypeOK, Scanned, ResetComplete, [RNext]_allVars
  PROVE  Scanned' /\ ResetComplete'
<1> USE DEF reset
<1>1. /\ Pids \subseteq Nat /\ last \in Nat \cup {-1} /\ listed \subseteq Pids
      /\ before \subseteq Pids /\ Named \subseteq Existing /\ Existing \subseteq Pids
      /\ \A p \in Named : proc[p] \notin {"none", "forked"}
  BY OutputAssumption DEF TypeOK, Named, Existing, Exists, Serving
<1>2. \A q \in before : proc'[q] \notin {"none", "forked"} /\ (q \in Named' => q \in Named)
  BY <1>1, ProcStep DEF Scanned
<1>3. ASSUME UNCHANGED reset PROVE Scanned' /\ ResetComplete'
  BY <1>2, <1>3 DEF Scanned, ResetComplete
<1>4. ASSUME OpenDir, ~ status PROVE Scanned' /\ ResetComplete'
  <2>1. /\ proc' = proc /\ before' = Named /\ last' = -1 /\ status' = FALSE
    BY <1>4 DEF OpenDir, vars, servers, TypeOK
  <2>2. \A p \in Named : p > -1
    BY <1>1
  <2> QED
    BY <1>1, <2>1, <2>2 DEF Scanned, ResetComplete
<1>5. CASE ResetAll \/ Rescan
  BY <1>4, <1>5 DEF ResetAll, Rescan, EndOfScan, Scanned
<1>6. CASE ReadDir
  <2>1. PICK m \in Existing : /\ m > last /\ last' = m
                              /\ listed' = {p \in Existing : last < p /\ p <= m}
    BY <1>6 DEF ReadDir
  <2>2. /\ UNCHANGED <<vars, scan, killedServer, status, before>> /\ listed = {}
        /\ scan = "scan"
    BY <1>6 DEF ReadDir
  <2>3. Named' = Named
    BY <2>2 DEF vars, servers, Named
  <2>4. scan = "scan" /\ ~ killedServer => \A p \in before \cap Named : p > last' \/ p \in listed'
    BY <1>1, <2>1, <2>2 DEF Scanned
  <2> QED
    BY <1>2, <2>2, <2>3, <2>4 DEF Scanned, ResetComplete
<1>7. ASSUME NEW p \in Pids, Examine(p) PROVE Scanned' /\ ResetComplete'
  <2>1. /\ UNCHANGED <<last, status, before>> /\ listed' = listed \ {p} /\ scan = "scan"
        /\ p \in Existing => killedServer' = (killedServer \/ p \in Named) /\ scan' = scan
        /\ p \notin Existing => scan' = "end"
    BY <1>7 DEF Examine
  <2>2. scan' = "scan" /\ ~ killedServer' =>
          \A q \in before \cap Named : q > last \/ q \in listed'
    BY <2>1 DEF Scanned
  <2>3. ~ status
    BY <2>1 DEF Scanned
  <2> QED
    BY <1>2, <2>1, <2>2, <2>3 DEF Scanned, ResetComplete
<1>8. CASE EndReset
  <2>1. /\ scan = "scan" /\ scan' = "end" /\ UNCHANGED <<vars, before>> /\ listed = {}
        /\ ~ killedServer /\ \A p \in Existing : p <= last
    BY <1>8 DEF EndReset, EndOfScan
  <2>2. Named' = Named
    BY <2>1 DEF vars, servers, Named
  <2>3. before \cap Named = {}
    BY <1>1, <2>1 DEF Scanned
  <2> QED
    BY <1>2, <2>1, <2>2, <2>3 DEF Scanned, ResetComplete
<1>9. CASE UNCHANGED allVars
  BY <1>3, <1>9 DEF allVars
<1>10. CASE Next /\ UNCHANGED reset
  BY <1>3, <1>10
<1> QED
  BY <1>5, <1>6, <1>7, <1>8, <1>9, <1>10 DEF RNext, ScanStep

-----------------------------------------------------------------------------
LEMMA InitIInv == RInit => IInv
<1> SUFFICES ASSUME RInit PROVE IInv
  OBVIOUS
<1> USE DEF RInit, Init
<1>1. \A c \in Clients, s \in Streams : ToWrite(c)[s] \in Seq(Nat) /\ <<>> \in Seq(Nat)
  BY ToWriteIs, EmptySeq
<1>2. TypeOK
  <2>1. ServerTypeOK
    <3>1. \A c \in Clients : ToWrite(c) \in [Streams -> Seq(Nat)]
      BY <1>1 DEF ToWrite
    <3>2. todo \in [Clients -> [Streams -> Seq(Nat)]]
      BY <3>1
    <3>3. /\ sent \in [Clients -> [Streams -> Seq(Nat)]]
          /\ printed \in [Clients -> [Streams -> Seq(Nat)]]
      BY EmptySeq
    <3> QED
      BY <3>2, <3>3 DEF ServerTypeOK
  <2> QED
    BY <2>1 DEF TypeOK
<1>3. \A c \in Clients, s \in Streams : todo[c][s] = ToWrite(c)[s] /\ sent[c][s] = <<>>
  OBVIOUS
<1>4. ASSUME NEW c \in Clients, NEW s \in Streams
      PROVE  /\ Taken(c, s) = 0 /\ Len(sent[c][s]) = 0 /\ Len(printed[c][s]) = 0
             /\ Len(Text(c, s)) \in Nat /\ (s = "out" => todo[c][s] # <<>>)
  <2>1. /\ Len(<<>>) = 0 /\ Len(ToWrite(c)[s]) \in Nat /\ Len(Text(c, s)) \in Nat
        /\ Len(ToWrite(c)[s]) = Len(Text(c, s)) + (IF s = "out" THEN 1 ELSE 0)
    BY ToWriteIs, LenProperties, EmptySeq
  <2>2. Taken(c, s) = Len(ToWrite(c)[s]) - Len(ToWrite(c)[s]) - Len(<<>>)
    BY <1>3 DEF Taken
  <2>3. s = "out" => ToWrite(c)[s] # <<>>
    BY <2>1
  <2> DEFINE w == Len(ToWrite(c)[s])
  <2>4. w - w - 0 = 0
    <3>1. w \in Nat
      BY <2>1
    <3> HIDE DEF w
    <3> QED
      BY <3>1
  <2>5. Taken(c, s) = 0
    BY <2>1, <2>2, <2>4
  <2>6. todo[c][s] = ToWrite(c)[s] /\ sent[c][s] = <<>> /\ printed[c][s] = <<>>
    BY <1>3
  <2> HIDE DEF RInit, Init
  <2> QED
    BY <2>1, <2>3, <2>5, <2>6
<1>5. Flow
  <2>1. ASSUME NEW c \in Clients, NEW s \in Streams, NEW i \in 1 .. Len(todo[c][s])
        PROVE  todo[c][s][i] = ToWrite(c)[s][Taken(c, s) + Len(sent[c][s]) + i]
    BY <1>3, <1>4
  <2> QED
    BY <1>4, <2>1 DEF Flow
<1>6. Copied
  BY <1>4 DEF Copied, Least, Streams
<1>7. Connected
  BY <1>4, <1>3 DEF Connected, Answered, Streams
<1>8. Scanned /\ ResetComplete
  BY DEF Scanned, ResetComplete
<1>9. ExitCodeTrue /\ TextTrue
  BY <1>2, <1>6, PrintedSoFar DEF ExitCodeTrue, TextTrue
<1> QED
  BY <1>2, <1>5, <1>6, <1>7, <1>8, <1>9 DEF IInv

LEMMA StepIInv == IInv /\ [RNext]_allVars => IInv'
<1> SUFFICES ASSUME IInv, [RNext]_allVars PROVE IInv'
  OBVIOUS
<1>1. /\ TypeOK /\ Flow /\ Copied /\ Connected /\ Scanned
      /\ ExitCodeTrue /\ TextTrue /\ ResetComplete
  BY DEF IInv
<1>2. TypeOK' /\ Connected'
  BY <1>1, TypeStep, ConnectedStep, Zenon
<1>3. Flow' /\ Copied'
  BY <1>1, OutputStep, Zenon
<1>4. Scanned' /\ ResetComplete'
  BY <1>1, ScannedStep, Zenon
<1>5. ExitCodeTrue' /\ TextTrue'
  BY <1>1, <1>2, <1>3, EndsWell, Zenon
<1> QED
  BY <1>2, <1>3, <1>4, <1>5, Zenon DEF IInv

LEMMA Invariant == RSpec => []IInv
BY InitIInv, StepIInv, PTL DEF RSpec

(* Every state is of its types.                                            *)
THEOREM TypeCorrect == RSpec => []TypeOK
BY Invariant, PTL DEF IInv

(* The exit code of a command is that of its compiler, or 1 when no server *)
(* came to tell: findExitCode takes no byte of the text for it.            *)
THEOREM ExitCodesTrue == RSpec => []ExitCodeTrue
BY Invariant, PTL DEF IInv

(* A caller reads a prefix of what the compiler prints, and all of it when *)
(* the server came to write the exit code.                                 *)
THEOREM TextsTrue == RSpec => []TextTrue
BY Invariant, PTL DEF IInv

(* A reset that reports success left none of the servers that ran when its *)
(* last scan began.                                                        *)
THEOREM ResetIsComplete == RSpec => []ResetComplete
BY Invariant, PTL DEF IInv

=============================================================================
