------------------------------ MODULE PipeClient ------------------------------
(***************************************************************************)
(* The sample client (named_pipe_client.cpp) at the multithreaded server,  *)
(* among other clients: it opens an instance, waiting for a free one if    *)
(* need be, writes its messages one after the other and then reads until a *)
(* read fails.  What follows its read loop (lines 121-128) is never run:   *)
(* the loop is only left with fSuccess FALSE.                              *)
(***************************************************************************)
EXTENDS ThreadedServer

CONSTANT Messages  \* the messages it sends (5)

ASSUME ClientAssumption == Messages \in Nat \ {0}

VARIABLES
  at,   \* the instance the client has opened, 0 for none
  cpc,  \* where it is; "failed": an error ended it, "killed": its user did
  got   \* replies it has read

clientVars == <<at, cpc, got>>
allVars == <<vars, clientVars>>

ClientTypeOK ==
  /\ TypeOK
  /\ at \in {0} \union Instances
  /\ cpc \in {"open", "busy", "mode", "write", "read", "failed", "killed"}
  /\ got \in 0..Messages

ClientInit == Init /\ at = 0 /\ cpc = "open" /\ got = 0

Goes(from, to) == cpc = from /\ cpc' = to

Listening == {i \in Instances : inst[i].conn = "listening" /\ i <= MaxClients}
Exists    == \E i \in Instances : inst[i].conn \notin {"none", "closed"}

(* CreateFile takes an instance that listens; with none it fails, with     *)
(* ERROR_PIPE_BUSY as long as there is an instance at all.                 *)
CreateFile ==
  \/ \E i \in Listening :
       /\ Goes("open", "mode")
       /\ ClientOpens(i)
       /\ at' = i
       /\ UNCHANGED got
  \/ /\ Listening = {}
     /\ Goes("open", IF Exists THEN "busy" ELSE "failed")
     /\ UNCHANGED <<vars, at, got>>

(* WaitNamedPipe returns when an instance listens, which another client    *)
(* may take first, or times out.                                           *)
WaitNamedPipe ==
  /\ \/ Listening # {} /\ Goes("busy", "open")
     \/ Goes("busy", "failed")
  /\ UNCHANGED <<vars, at, got>>

(* SetNamedPipeHandleState                                                 *)
SetMode ==
  /\ cpc = "mode"
  /\ Goes("mode", IF inst[at].conn = "connected" THEN "write" ELSE "failed")
  /\ UNCHANGED <<vars, at, got>>

(* Mutant: i <= 5.                                                         *)
WriteOneMore ==
  /\ \/ /\ Goes("write", IF inst[at].asked = Messages THEN "read" ELSE "write")
        /\ ClientWrites(at, "fits")
     \/ /\ Goes("write", "failed")
        /\ inst[at].conn # "connected"
        /\ UNCHANGED vars
  /\ UNCHANGED <<at, got>>

(* The loop that sends: a message that fits the server's buffer each time. *)
Write ==
  /\ \/ /\ Goes("write", IF inst[at].asked + 1 = Messages THEN "read" ELSE "write")
        /\ ClientWrites(at, "fits")
     \/ /\ Goes("write", "failed")
        /\ inst[at].conn # "connected"
        /\ UNCHANGED vars
  /\ UNCHANGED <<at, got>>

(* The loop that reads: it is only left when a read fails, which returns   *)
(* from the function and so ends the process.                              *)
Read ==
  /\ \/ /\ Goes("read", "read")
        /\ ClientReads(at)
        /\ got' = got + 1
     \/ /\ Goes("read", "failed")
        /\ inst[at].outbox = 0 /\ inst[at].conn # "connected"
        /\ UNCHANGED <<vars, got>>
  /\ UNCHANGED at

(* The user ends the client, whose handle the system then closes.          *)
Kill ==
  /\ cpc \notin {"failed", "killed"}
  /\ cpc' = "killed"
  /\ IF at # 0 /\ inst[at].conn = "connected" THEN ClientCloses(at) ELSE UNCHANGED vars
  /\ UNCHANGED <<at, got>>

-----------------------------------------------------------------------------
ClientRuns == CreateFile \/ WaitNamedPipe \/ SetMode \/ Write \/ Read

OtherClient == \E i \in Instances \ {at} : Client(i)

ClientNext ==
  \/ (ServerStep \/ OtherClient) /\ UNCHANGED clientVars
  \/ ClientRuns
  \/ Kill

Spec == ClientInit /\ [][ClientNext]_allVars

(* Both programs keep running; users and other clients do as they like.    *)
FairSpec ==
  /\ Spec
  /\ Fairness /\ WF_allVars(ClientRuns)

-----------------------------------------------------------------------------
(* The client writes all its messages before it reads a reply, while the   *)
(* server wants every reply read: they do not wait for each other as long  *)
(* as the messages are at most what both directions and the server's       *)
(* thread hold, and each message gets its reply as long as the server      *)
(* process lasts, whatever the other clients do.                           *)
AllAnswered ==
  Messages <= 2 * Quota + 1 =>
    (cpc = "write" ~>
      \/ got = Messages
      \/ pc = "stopped" \/ cpc = "killed"
      \/ at # 0 /\ thread[at] = "failed")

(* "repeat loop if ERROR_MORE_DATA" (named_pipe_client.cpp:114): with a    *)
(* whole reply read the loop ends, and the client with it.                 *)
WholeReplyEndsLoop == (cpc = "read" /\ got > 0) ~> cpc # "read"
=============================================================================
