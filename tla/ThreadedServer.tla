---------------------------- MODULE ThreadedServer ----------------------------
(***************************************************************************)
(* The multithreaded named-pipe server (named_pipe_server.cpp): the main   *)
(* loop creates an instance of the pipe, waits for its client and hands    *)
(* the instance to a thread of its own, InstanceThread, which answers that *)
(* client by blocking reads and writes.  Clients open, ask, read their     *)
(* answers and close at any moment.                                        *)
(***************************************************************************)
EXTENDS Integers, Sequences

CONSTANTS
  MaxClients,  \* bound on the clients that come
  Quota,       \* messages an instance holds in each direction
  MaxRequests  \* bound on the requests one client writes

ASSUME ThreadedAssumption ==
  /\ MaxClients \in Nat /\ MaxRequests \in Nat
  /\ Quota \in Nat \ {0}

(* The n-th instance is created when the one before it has had its client. *)
Instances == 1..(MaxClients + 1)

(* A request fits the buffer, or it is empty or longer than the buffer,    *)
(* which the code treats alike.                                            *)
Requests == {"fits", "misfit"}

VARIABLES
  pc,      \* the main thread
  hPipe,   \* the instance created last, 0 before the first
  thread,  \* the thread of each instance
  inst     \* the instances

vars == <<pc, hPipe, thread, inst>>

(* inbox: requests not read; outbox: replies not read; asked, answered:    *)
(* requests and replies so far.                                            *)
InstanceType ==
  [conn : {"none", "listening", "connected", "orphaned", "disconnected", "closed"},
   inbox : Seq(Requests), outbox : 0..Quota, asked : Nat, answered : Nat]

TypeOK ==
  /\ pc \in {"create", "connect", "waiting", "spawn", "stopped"}
  /\ hPipe \in {0} \union Instances
  /\ thread \in [Instances -> {"none", "start", "read", "write", "flush",
                               "disconnect", "close", "exited", "failed"}]
  /\ inst \in [Instances -> InstanceType]

Init ==
  /\ pc = "create"
  /\ hPipe = 0
  /\ thread = [i \in Instances |-> "none"]
  /\ inst = [i \in Instances |->
               [conn |-> "none", inbox |-> <<>>, outbox |-> 0,
                asked |-> 0, answered |-> 0]]

Update(i, k)           == inst' = [inst EXCEPT ![i] = k]
MainGoes(from, to)     == pc = from /\ pc' = to
ThreadGoes(i, from, to) == thread[i] = from /\ thread' = [thread EXCEPT ![i] = to]

-----------------------------------------------------------------------------
(* Clients                                                                 *)

ClientOpens(i) ==
  /\ inst[i].conn = "listening"
  /\ i <= MaxClients
  /\ Update(i, [inst[i] EXCEPT !.conn = "connected"])
  /\ UNCHANGED <<pc, hPipe, thread>>

(* A write blocks when the pipe is full.                                   *)
ClientWrites(i, r) ==
  LET k == inst[i] IN
  /\ k.conn = "connected"
  /\ Len(k.inbox) < Quota
  /\ Update(i, [k EXCEPT !.inbox = Append(@, r), !.asked = @ + 1])
  /\ UNCHANGED <<pc, hPipe, thread>>

ClientReads(i) ==
  /\ inst[i].outbox > 0
  /\ Update(i, [inst[i] EXCEPT !.outbox = @ - 1])
  /\ UNCHANGED <<pc, hPipe, thread>>

ClientCloses(i) ==
  /\ inst[i].conn = "connected"
  /\ Update(i, [inst[i] EXCEPT !.conn = "orphaned", !.outbox = 0])
  /\ UNCHANGED <<pc, hPipe, thread>>

-----------------------------------------------------------------------------
(* The main thread, StartNamedPipeServer                                   *)

CreateNamedPipe ==
  /\ MainGoes("create", "connect")
  /\ hPipe' = hPipe + 1
  /\ Update(hPipe + 1, [inst[hPipe + 1] EXCEPT !.conn = "listening"])
  /\ UNCHANGED thread

(* No instance or no thread can be created: StartNamedPipeServer returns,  *)
(* the process ends with all its threads, and the system closes the pipes. *)
Stop ==
  /\ pc \in {"create", "spawn"}
  /\ pc' = "stopped"
  /\ inst' = [i \in Instances |->
                [inst[i] EXCEPT !.conn = IF @ = "none" THEN @ ELSE "closed",
                                !.inbox = <<>>]]
  /\ UNCHANGED <<hPipe, thread>>

(* Mutant: CloseHandle is left out.                                        *)
ConnectNamedPipeLeaks ==
  LET conn == inst[hPipe].conn IN
  /\ \/ MainGoes("connect", "waiting") /\ conn = "listening"
     \/ MainGoes("connect", "spawn")   /\ conn = "connected"
     \/ MainGoes("connect", "create")  /\ conn = "orphaned"
  /\ UNCHANGED <<hPipe, thread, inst>>

(* Mutant: zero is a failure, also with ERROR_PIPE_CONNECTED.              *)
ConnectNamedPipeDropsEarlyClient ==
  LET conn == inst[hPipe].conn IN
  /\ \/ /\ MainGoes("connect", "waiting")
        /\ conn = "listening"
        /\ UNCHANGED inst
     \/ /\ MainGoes("connect", "create")
        /\ conn \in {"connected", "orphaned"}
        /\ Update(hPipe, [inst[hPipe] EXCEPT !.conn = "closed", !.inbox = <<>>])
  /\ UNCHANGED <<hPipe, thread>>

(* ConnectNamedPipe waits for the client; one that is there already is     *)
(* ERROR_PIPE_CONNECTED; for one that has gone again (ERROR_NO_DATA) the   *)
(* pipe is closed.                                                         *)
ConnectNamedPipe ==
  LET conn == inst[hPipe].conn IN
  /\ \/ /\ MainGoes("connect", "waiting")
        /\ conn = "listening"
        /\ UNCHANGED inst
     \/ /\ MainGoes("connect", "spawn")
        /\ conn = "connected"
        /\ UNCHANGED inst
     \/ /\ MainGoes("connect", "create")
        /\ conn = "orphaned"
        /\ Update(hPipe, [inst[hPipe] EXCEPT !.conn = "closed", !.inbox = <<>>])
  /\ UNCHANGED <<hPipe, thread>>

(* ... a client that came while it waited has connected it, gone or not.   *)
Connected ==
  /\ MainGoes("waiting", "spawn")
  /\ inst[hPipe].conn # "listening"
  /\ UNCHANGED <<hPipe, thread, inst>>

(* Mutant: the main loop serves the client itself.                         *)
CreateThreadAndJoin ==
  /\ pc = "spawn"
  /\ \/ ThreadGoes(hPipe, "none", "start") /\ UNCHANGED pc
     \/ thread[hPipe] = "exited" /\ pc' = "create" /\ UNCHANGED thread
  /\ UNCHANGED <<hPipe, inst>>

CreateThread ==
  /\ MainGoes("spawn", "create")
  /\ ThreadGoes(hPipe, "none", "start")
  /\ UNCHANGED <<hPipe, inst>>

-----------------------------------------------------------------------------
(* InstanceThread; it runs as long as the process does.                    *)

(* Without memory for its buffers the thread returns and leaves the pipe   *)
(* as it is.                                                               *)
Start(i) ==
  /\ ThreadGoes(i, "start", "read") \/ ThreadGoes(i, "start", "failed")
  /\ UNCHANGED inst

(* ReadFile waits for a request; nothing read, a request longer than the   *)
(* buffer or a client that has gone end the loop.                          *)
ReadFile(i) ==
  \/ /\ inst[i].inbox # <<>>
     /\ ThreadGoes(i, "read", IF Head(inst[i].inbox) = "fits" THEN "write" ELSE "flush")
     /\ Update(i, [inst[i] EXCEPT !.inbox = Tail(@)])
  \/ /\ inst[i].inbox = <<>> /\ inst[i].conn = "orphaned"
     /\ ThreadGoes(i, "read", "flush")
     /\ UNCHANGED inst

(* Mutant: the write does not wait for room.                               *)
WriteFileOverruns(i) ==
  /\ inst[i].conn = "connected"
  /\ ThreadGoes(i, "write", "read")
  /\ Update(i, [inst[i] EXCEPT !.outbox = @ + 1, !.answered = @ + 1])

(* GetAnswerToRequest and WriteFile, which waits for room.                 *)
WriteFile(i) ==
  \/ /\ inst[i].conn = "connected" /\ inst[i].outbox < Quota
     /\ ThreadGoes(i, "write", "read")
     /\ Update(i, [inst[i] EXCEPT !.outbox = @ + 1, !.answered = @ + 1])
  \/ /\ inst[i].conn # "connected"
     /\ ThreadGoes(i, "write", "flush")
     /\ UNCHANGED inst

(* Mutant: the buffers are not flushed.                                    *)
FlushFileBuffersNot(i) == ThreadGoes(i, "flush", "disconnect") /\ UNCHANGED inst

(* FlushFileBuffers waits until the client has read all, or has gone.      *)
FlushFileBuffers(i) ==
  /\ inst[i].conn = "connected" => inst[i].outbox = 0
  /\ ThreadGoes(i, "flush", "disconnect")
  /\ UNCHANGED inst

DisconnectAndClose(i) ==
  \/ /\ ThreadGoes(i, "disconnect", "close")
     /\ Update(i, [inst[i] EXCEPT !.conn = "disconnected", !.inbox = <<>>, !.outbox = 0])
  \/ /\ ThreadGoes(i, "close", "exited")
     /\ Update(i, [inst[i] EXCEPT !.conn = "closed"])

-----------------------------------------------------------------------------
MainThread ==
  \/ CreateNamedPipe
  \/ ConnectNamedPipe
  \/ Connected
  \/ CreateThread

InstanceThread(i) ==
  /\ pc # "stopped"
  /\ Start(i) \/ ReadFile(i) \/ WriteFile(i) \/ FlushFileBuffers(i) \/ DisconnectAndClose(i)
  /\ UNCHANGED <<pc, hPipe>>

ServerStep == MainThread \/ Stop \/ \E i \in Instances : InstanceThread(i)

Client(i) ==
  \/ ClientOpens(i)
  \/ inst[i].asked < MaxRequests /\ \E r \in Requests : ClientWrites(i, r)
  \/ ClientReads(i)
  \/ ClientCloses(i)

(* The system keeps running the threads and need not fail them.            *)
Fairness == WF_vars(MainThread) /\ \A i \in Instances : WF_vars(InstanceThread(i))

-----------------------------------------------------------------------------
(* Every open instance belongs to the main loop or to one running thread,  *)
(* and a closed one to nobody: it is closed, once, whichever of the two    *)
(* saw its client go.  (A thread without memory leaves its instance open.) *)
OneOwner ==
  pc # "stopped" =>
    \A i \in Instances :
      LET main  == i = hPipe /\ pc \in {"connect", "waiting", "spawn"}
          owned == thread[i] \notin {"none", "exited", "failed"} IN
      /\ ~(main /\ owned)
      /\ main \/ owned \/ thread[i] = "failed" <=> inst[i].conn \notin {"none", "closed"}

(* "Flush the pipe to allow the client to read the pipe's contents before  *)
(* disconnecting." (named_pipe_server.cpp:198-199): no reply is lost to a  *)
(* client that stays to read it.                                           *)
RepliesFlushed ==
  [][\A i \in Instances :
       inst[i].conn = "connected" /\ inst'[i].conn = "disconnected" => inst[i].outbox = 0]_vars

(* An instance as a Session.  Asked improperly: the request is in the pipe *)
(* or its thread has left the loop for it.                                 *)
Link(i) ==
  CASE inst[i].conn = "connected" -> "open"
    [] inst[i].conn = "orphaned"  -> "left"
    [] OTHER -> "free"

Improper(i) ==
  /\ inst[i].conn = "connected"
  /\ \/ \E n \in 1..Len(inst[i].inbox) : inst[i].inbox[n] # "fits"
     \/ thread[i] \in {"flush", "disconnect"}

S(i) == INSTANCE Session WITH
  link <- Link(i), asked <- inst[i].asked, answered <- inst[i].answered,
  improper <- Improper(i)

(* As long as the process runs every instance serves a session: no reply   *)
(* comes without a request and no client is hung up on that has not left   *)
(* or asked improperly.                                                    *)
Sessions ==
  /\ \A i \in Instances : S(i)!Init
  /\ [][pc' # "stopped" =>
          \A i \in Instances : S(i)!Next \/ UNCHANGED S(i)!vars]_vars

(* "When the client connects, a thread is created to handle communications *)
(* with that client, and this loop is free to wait for the next client     *)
(* connect request." (named_pipe_server.cpp:40-43): a next instance        *)
(* listens, however long the clients before it stay, or leave.             *)
ListensForNext ==
  \A i \in 1..MaxClients :
    (hPipe = i /\ inst[i].conn # "listening") ~> (hPipe = i + 1 \/ pc = "stopped")
=============================================================================
