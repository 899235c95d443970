---------------------------- MODULE ResetServers ----------------------------
(***************************************************************************)
(* zapcc -reset-server without a server id: terminateAllServers kills the  *)
(* processes named zapccs that it finds in /proc, and scans once more      *)
(* until a scan finds none, while other clients go on to start servers and *)
(* to compile.  Of the other processes only those matter that end while a  *)
(* scan is under way, and servers are among them.                          *)
(***************************************************************************)
EXTENDS ServerOutput

VARIABLES
  scan,          \* "idle", "scan", "end"
  listed,        \* the entries readdir has fetched and not yet returned
  last,          \* the last it fetched
  killedServer,  \* KilledServer
  status,        \* Status: all servers were terminated
  before         \* servers that ran when the latest scan began

reset == <<scan, listed, last, killedServer, status, before>>
allVars == <<vars, reset>>

(* A process is in /proc until it is reaped; one that was forked has still *)
(* the name of the client.                                                 *)
Existing == {p \in Pids : proc[p] \in Exists}
Named == {p \in Pids : proc[p] \in Serving \cup {"dying", "zombie"}}

RInit ==
  /\ Init
  /\ scan = "idle" /\ listed = {} /\ last = -1
  /\ killedServer = FALSE /\ status = FALSE /\ before = {}

\* Mutant: a scan remembers what the one before it killed.
OpenDirAgain ==
  /\ scan' = "scan" /\ listed' = {} /\ last' = -1
  /\ before' = Named
  /\ UNCHANGED <<vars, killedServer, status>>

OpenDir ==
  /\ scan' = "scan" /\ listed' = {} /\ last' = -1
  /\ killedServer' = FALSE
  /\ before' = Named
  /\ UNCHANGED <<vars, status>>

ResetAll == scan = "idle" /\ OpenDir

(* readdir fetches the next entries, as many as its buffer takes.          *)
ReadDir ==
  /\ scan = "scan" /\ listed = {}
  /\ \E m \in Existing :
       /\ m > last /\ last' = m
       /\ listed' = {p \in Existing : last < p /\ p <= m}
  /\ UNCHANGED <<vars, scan, killedServer, status, before>>

(* An entry whose status file is gone ends the reset at once; a process    *)
(* named zapccs is killed, of which a zombie does not take note.           *)
Examine(p) ==
  /\ scan = "scan" /\ p \in listed /\ \A q \in listed : p <= q
  /\ listed' = listed \ {p}
  /\ IF p \in Existing
       THEN /\ killedServer' = (killedServer \/ p \in Named)
            /\ proc' = [proc EXCEPT ![p] = IF @ \in Serving THEN "dying" ELSE @]
            /\ UNCHANGED scan
       ELSE /\ scan' = "end"
            /\ UNCHANGED <<killedServer, proc>>
  /\ UNCHANGED <<clients, parent, user, sockets, last, status, before>>

EndOfScan == scan = "scan" /\ listed = {} /\ \A p \in Existing : p <= last

Rescan == EndOfScan /\ killedServer /\ OpenDir

\* Mutant: one scan has to do.
EndAfterScan ==
  /\ EndOfScan
  /\ scan' = "end" /\ status' = TRUE
  /\ UNCHANGED <<vars, listed, last, killedServer, before>>

EndReset ==
  /\ EndOfScan /\ ~ killedServer
  /\ scan' = "end" /\ status' = TRUE
  /\ UNCHANGED <<vars, listed, last, killedServer, before>>

ScanStep == ReadDir \/ Rescan \/ EndReset \/ \E p \in Pids : Examine(p)

RNext ==
  \/ Next /\ UNCHANGED reset
  \/ ResetAll \/ ScanStep

RSpec == RInit /\ [][RNext]_allVars /\ Fairness /\ WF_allVars(ScanStep)
-----------------------------------------------------------------------------
TypeOK ==
  /\ ServerTypeOK
  /\ scan \in {"idle", "scan", "end"}
  /\ listed \subseteq Pids /\ last \in Pids \cup {-1}
  /\ killedServer \in BOOLEAN /\ status \in BOOLEAN
  /\ before \subseteq Pids

(* A reset that found no error left none of the servers that ran when any  *)
(* of its scans began, not even as a process that still holds its ports.   *)
ResetComplete == status => before \cap Named = {}

(* A reset comes to its end, for every server it kills makes its client    *)
(* end, and no client starts a second one.                                 *)
ResetEnds == (scan = "scan") ~> (scan = "end")
=============================================================================
