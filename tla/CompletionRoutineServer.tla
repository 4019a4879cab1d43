------------------------ MODULE CompletionRoutineServer -----------------------
(***************************************************************************)
(* The completion-routine server (named_pipe_completion_routine.cpp): one  *)
(* thread that waits alertably for the connect of the newest pipe instance *)
(* and, meanwhile, runs the read and write completion routines of all the  *)
(* instances before it.  An instance serves one client; its PIPEINST, the  *)
(* OVERLAPPED of its operations included, is allocated when the client has *)
(* connected and freed in DisconnectAndClose.                              *)
(***************************************************************************)
EXTENDS Integers, Sequences, FiniteSets

CONSTANTS
  MaxClients,   \* bound on the clients that come
  MaxFailures,  \* bound on the CreateNamedPipe calls that fail
  Quota,        \* replies an instance holds that its client has not read
  MaxRequests   \* bound on the requests one client writes

ASSUME RoutineAssumption ==
  /\ MaxClients \in Nat /\ Quota \in Nat \ {0}
  /\ MaxFailures \in Nat /\ MaxRequests \in Nat

(* The n-th instance is created when the one before it has its client.     *)
Instances == 1..(MaxClients + 1)

(* A request fills the buffer in part, is empty, or is longer than it.     *)
Requests == {"fits", "empty", "long"}
Results  == {"ok", "zero", "failed"}

VARIABLES
  pc,          \* the server's thread
  hPipe,       \* the instance created last, 0 for INVALID_HANDLE_VALUE
  fPendingIO,  \* what CreateAndConnectInstance returned
  event,       \* hConnectEvent is signaled
  connect,     \* the overlapped connect on oConnect
  inst,        \* the instances
  apcs,        \* completions queued to the thread
  created,     \* instances created so far
  failures     \* CreateNamedPipe calls that have failed so far

vars == <<pc, hPipe, fPendingIO, event, connect, inst, apcs, created, failures>>

(* conn: the connection; op: the read or write in flight; inbox: requests  *)
(* not read; outbox: replies not read; asked, answered: requests and       *)
(* replies so far; storage: the instance's PIPEINST.                       *)
InstanceType ==
  [conn : {"none", "listening", "connected", "orphaned", "closed"},
   op : {"none", "read", "write"}, inbox : Seq(Requests), outbox : 0..Quota,
   asked : Nat, answered : Nat, storage : {"none", "allocated", "freed"}]

TypeOK ==
  /\ pc \in {"create", "connect", "wait", "routines", "stopped"}
  /\ hPipe \in {0} \union Instances
  /\ fPendingIO \in BOOLEAN
  /\ event \in BOOLEAN
  /\ connect \in {"none", "pending", "ok", "failed"}
  /\ inst \in [Instances -> InstanceType]
  /\ apcs \in Seq([i : Instances, op : {"read", "write"}, result : Results])
  /\ created \in {0} \union Instances
  /\ failures \in 0..MaxFailures

Init ==
  /\ pc = "create"
  /\ hPipe = 0
  /\ fPendingIO = FALSE
  /\ event = TRUE
  /\ connect = "none"
  /\ inst = [i \in Instances |->
               [conn |-> "none", op |-> "none", inbox |-> <<>>, outbox |-> 0,
                asked |-> 0, answered |-> 0, storage |-> "none"]]
  /\ apcs = <<>>
  /\ created = 0
  /\ failures = 0

-----------------------------------------------------------------------------
(* The operating system: an instance k after a call on it, and the         *)
(* completions the call or the client's move queues.                       *)

ResultOf(r) == [fits |-> "ok", empty |-> "zero", long |-> "failed"][r]

Queue(i, op, result) == apcs' = Append(apcs, [i |-> i, op |-> op, result |-> result])

Update(i, k) == inst' = [inst EXCEPT ![i] = k]

(* ReadFileEx on a connected instance, or on what a client left behind.    *)
CanRead(k) == k.conn = "connected" \/ (k.conn = "orphaned" /\ k.inbox # <<>>)

ReadFileEx(i, k, queue) ==
  \/ /\ k.inbox # <<>>
     /\ Update(i, [k EXCEPT !.inbox = Tail(@), !.op = "none"])
     /\ apcs' = Append(queue, [i |-> i, op |-> "read", result |-> ResultOf(Head(k.inbox))])
  \/ /\ k.inbox = <<>>
     /\ Update(i, [k EXCEPT !.op = "read"])
     /\ apcs' = queue

WriteFileEx(i, k, queue) ==
  \/ /\ k.outbox < Quota
     /\ Update(i, [k EXCEPT !.outbox = @ + 1, !.answered = @ + 1])
     /\ apcs' = Append(queue, [i |-> i, op |-> "write", result |-> "ok"])
  \/ /\ k.outbox = Quota
     /\ Update(i, [k EXCEPT !.op = "write"])
     /\ apcs' = queue

-----------------------------------------------------------------------------
(* Clients                                                                 *)

ClientOpens(i) ==
  /\ inst[i].conn = "listening"
  /\ i <= MaxClients
  /\ Update(i, [inst[i] EXCEPT !.conn = "connected"])
  /\ IF connect = "pending" /\ hPipe = i
     THEN connect' = "ok" /\ event' = TRUE
     ELSE UNCHANGED <<connect, event>>
  /\ UNCHANGED <<pc, hPipe, fPendingIO, apcs, created, failures>>

ClientWrites(i, r) ==
  LET k == [inst[i] EXCEPT !.asked = @ + 1] IN
  /\ inst[i].conn = "connected"
  /\ inst[i].asked < MaxRequests
  /\ \/ /\ k.op = "read"
        /\ Update(i, [k EXCEPT !.op = "none"])
        /\ Queue(i, "read", ResultOf(r))
     \/ /\ k.op # "read"
        /\ Update(i, [k EXCEPT !.inbox = Append(@, r)])
        /\ UNCHANGED apcs
  /\ UNCHANGED <<pc, hPipe, fPendingIO, event, connect, created, failures>>

(* Room for a reply completes the write that waits for it.                 *)
ClientReads(i) ==
  LET k == inst[i] IN
  /\ k.outbox > 0
  /\ \/ /\ k.op = "write"
        /\ Update(i, [k EXCEPT !.op = "none", !.answered = @ + 1])
        /\ Queue(i, "write", "ok")
     \/ /\ k.op # "write"
        /\ Update(i, [k EXCEPT !.outbox = @ - 1])
        /\ UNCHANGED apcs
  /\ UNCHANGED <<pc, hPipe, fPendingIO, event, connect, created, failures>>

ClientCloses(i) ==
  LET k == [inst[i] EXCEPT !.conn = "orphaned", !.outbox = 0, !.op = "none"] IN
  /\ inst[i].conn = "connected"
  /\ Update(i, k)
  /\ \/ inst[i].op # "none" /\ Queue(i, inst[i].op, "failed")
     \/ inst[i].op = "none" /\ UNCHANGED apcs
  /\ UNCHANGED <<pc, hPipe, fPendingIO, event, connect, created, failures>>

-----------------------------------------------------------------------------
(* The server                                                              *)

(* DisconnectAndClose: the storage is released, whatever "queue" holds.    *)
DisconnectAndClose(i, k, queue) ==
  /\ Update(i, [k EXCEPT !.conn = "closed", !.op = "none", !.inbox = <<>>,
                         !.outbox = 0, !.storage = "freed"])
  /\ apcs' = queue

(* Mutant: the storage is released although a read has been started.       *)
CompletedWriteRoutineReleases(i, k, result, queue) ==
  LET fRead == result = "ok" /\ CanRead(k) IN
  \/ fRead /\ ReadFileEx(i, [k EXCEPT !.storage = "freed"], queue)
  \/ ~fRead /\ DisconnectAndClose(i, k, queue)

(* Mutant: no further request is read.                                     *)
CompletedWriteRoutineReadsNot(i, k, result, queue) ==
  \/ result = "ok" /\ Update(i, k) /\ apcs' = queue
  \/ result # "ok" /\ DisconnectAndClose(i, k, queue)

(* Mutant: the client is given up when it has not asked again yet.         *)
CompletedWriteRoutineGivesUp(i, k, result, queue) ==
  LET fRead == result = "ok" /\ k.inbox # <<>> IN
  \/ fRead /\ ReadFileEx(i, k, queue)
  \/ ~fRead /\ DisconnectAndClose(i, k, queue)

(* CompletedWriteRoutine: read the next request, or give the client up.    *)
CompletedWriteRoutine(i, k, result, queue) ==
  LET fRead == result = "ok" /\ CanRead(k) IN
  \/ fRead /\ ReadFileEx(i, k, queue)
  \/ ~fRead /\ DisconnectAndClose(i, k, queue)

(* Mutant: the next request is read in place of answering this one.        *)
CompletedReadRoutineAnswersNot(i, k, result, queue) ==
  LET fRead == result = "ok" /\ CanRead(k) IN
  \/ fRead /\ ReadFileEx(i, k, queue)
  \/ ~fRead /\ DisconnectAndClose(i, k, queue)

(* CompletedReadRoutine: answer the request, or give the client up.        *)
CompletedReadRoutine(i, k, result, queue) ==
  LET fWrite == result = "ok" /\ k.conn = "connected" IN
  \/ fWrite /\ WriteFileEx(i, k, queue)
  \/ ~fWrite /\ DisconnectAndClose(i, k, queue)

(* CreateAndConnectInstance, first call: the new instance listens at once. *)
CreateInstance ==
  /\ pc = "create"
  /\ pc' = "connect"
  /\ created' = created + 1
  /\ hPipe' = created + 1
  /\ inst' = [inst EXCEPT ![created + 1].conn = "listening"]
  /\ UNCHANGED <<fPendingIO, event, connect, apcs, failures>>

(* ... or could not be created: 0 is returned and the event stays as it    *)
(* is, signaled.                                                           *)
CreateFails ==
  /\ pc = "create"
  /\ failures < MaxFailures
  /\ pc' = "wait"
  /\ failures' = failures + 1
  /\ hPipe' = 0
  /\ fPendingIO' = FALSE
  /\ UNCHANGED <<event, connect, inst, apcs, created>>

(* Mutant: every failure of the call is taken for ERROR_PIPE_CONNECTED.    *)
ConnectToNewClientNeverPending ==
  /\ pc = "connect"
  /\ pc' = "wait"
  /\ fPendingIO' = FALSE
  /\ connect' = "failed"
  /\ event' = TRUE
  /\ UNCHANGED <<hPipe, inst, apcs, created, failures>>

(* Mutant: ERROR_IO_PENDING falls through to the next case of the switch.  *)
ConnectToNewClientFallsThrough ==
  /\ pc = "connect"
  /\ pc' = "wait"
  /\ fPendingIO' = (inst[hPipe].conn = "listening")
  /\ connect' = IF inst[hPipe].conn = "listening" THEN "pending" ELSE "failed"
  /\ event' = (inst[hPipe].conn \in {"listening", "connected"})
  /\ UNCHANGED <<hPipe, inst, apcs, created, failures>>

(* ConnectToNewClient.  The call resets the event; a client that is        *)
(* already there signals it again, one that has gone does not.             *)
ConnectToNewClient ==
  /\ pc = "connect"
  /\ pc' = "wait"
  /\ fPendingIO' = (inst[hPipe].conn = "listening")
  /\ connect' = IF inst[hPipe].conn = "listening" THEN "pending" ELSE "failed"
  /\ event' = (inst[hPipe].conn = "connected")
  /\ UNCHANGED <<hPipe, inst, apcs, created, failures>>

(* case 0: allocate the storage, start the first read (it fails on an      *)
(* invalid handle, and all is released), go on to the next instance.  A    *)
(* connect that failed ends the server.                                    *)
Accept ==
  /\ pc = "wait"
  /\ event
  /\ \/ /\ fPendingIO /\ connect # "ok"
        /\ pc' = "stopped"
        /\ UNCHANGED <<inst, apcs>>
     \/ /\ ~(fPendingIO /\ connect # "ok")
        /\ pc' = "create"
        /\ \/ /\ hPipe = 0
              /\ UNCHANGED <<inst, apcs>>
           \/ /\ hPipe # 0
              /\ CompletedWriteRoutine(hPipe, [inst[hPipe] EXCEPT !.storage = "allocated"],
                                       "ok", apcs)
  /\ UNCHANGED <<hPipe, fPendingIO, event, connect, created, failures>>

(* The alertable wait runs every queued routine before it returns.         *)
RunRoutine ==
  /\ pc \in {"wait", "routines"}
  /\ apcs # <<>>
  /\ pc' = "routines"
  /\ LET c == Head(apcs) IN
       \/ c.op = "read"  /\ CompletedReadRoutine(c.i, inst[c.i], c.result, Tail(apcs))
       \/ c.op = "write" /\ CompletedWriteRoutine(c.i, inst[c.i], c.result, Tail(apcs))
  /\ UNCHANGED <<hPipe, fPendingIO, event, connect, created, failures>>

WaitIoCompletion ==
  /\ pc = "routines"
  /\ apcs = <<>>
  /\ pc' = "wait"
  /\ UNCHANGED <<hPipe, fPendingIO, event, connect, inst, apcs, created, failures>>

-----------------------------------------------------------------------------
ServerStep ==
  \/ CreateInstance
  \/ CreateFails
  \/ ConnectToNewClient
  \/ Accept
  \/ RunRoutine
  \/ WaitIoCompletion

ClientStep ==
  \E i \in Instances :
    \/ ClientOpens(i)
    \/ \E r \in Requests : ClientWrites(i, r)
    \/ ClientReads(i)
    \/ ClientCloses(i)

Next == ServerStep \/ ClientStep

Spec == Init /\ [][Next]_vars

(* The server's thread keeps running; clients do what they like.           *)
FairSpec == Spec /\ WF_vars(ServerStep)

-----------------------------------------------------------------------------
(* The completions of operation op with this result queued for i.          *)
QueuedFor(i, ops, results) ==
  Cardinality({n \in 1..Len(apcs) :
                 apcs[n].i = i /\ apcs[n].op \in ops /\ apcs[n].result \in results})

Outstanding(i) ==
  QueuedFor(i, {"read", "write"}, Results) + IF inst[i].op = "none" THEN 0 ELSE 1

(* The OVERLAPPED of an instance and its buffers serve one operation at a  *)
(* time, which is in flight or waits to be reported, and are not released  *)
(* before the last one has been (GlobalFree at line 222).                  *)
StorageHeld ==
  \A i \in Instances :
    /\ Outstanding(i) <= 1
    /\ Outstanding(i) = 1 => inst[i].storage = "allocated"

(* As long as a client stays and asks properly, each of its requests is in *)
(* the pipe, in hand (read and waiting to be answered, or its answer       *)
(* waiting for room) or answered, exactly once.                            *)
OneReplyEach ==
  \A i \in Instances :
    LET k == inst[i] IN
    k.conn = "connected" /\ QueuedFor(i, {"read"}, {"zero", "failed"}) = 0 =>
      k.asked = Len(k.inbox) + k.answered + QueuedFor(i, {"read"}, {"ok"})
                  + IF k.op = "write" THEN 1 ELSE 0

(* Every request is read and answered, however many clients come and go    *)
(* meanwhile, unless its client leaves, is disconnected for an improper    *)
(* request or lets replies pile up.                                        *)
EveryRequestAnswered ==
  \A i \in Instances :
    (inst[i].conn = "connected" /\ inst[i].inbox # <<>>) ~>
      \/ inst[i].inbox = <<>> /\ inst[i].answered = inst[i].asked
      \/ inst[i].conn # "connected"
      \/ inst[i].outbox = Quota

(* An instance as a Session.  Asked improperly: the request is in the pipe *)
(* or its completion is queued.                                            *)
Link(i) ==
  CASE inst[i].conn = "connected" -> "open"
    [] inst[i].conn = "orphaned"  -> "left"
    [] OTHER -> "free"

Improper(i) ==
  /\ inst[i].conn = "connected"
  /\ \/ \E n \in 1..Len(inst[i].inbox) : inst[i].inbox[n] # "fits"
     \/ QueuedFor(i, {"read"}, {"zero", "failed"}) > 0

S(i) == INSTANCE Session WITH
  link <- Link(i), asked <- inst[i].asked, answered <- inst[i].answered,
  improper <- Improper(i)

(* Every instance serves a session: however the routines of the instances  *)
(* interleave, no reply comes without a request and no client is hung up   *)
(* on that has not left or asked improperly.                               *)
Sessions ==
  /\ \A i \in Instances : S(i)!Init
  /\ [][\A i \in Instances : S(i)!Next \/ UNCHANGED S(i)!vars]_vars

(* No client, however fast it comes and goes, ends the server: a connect   *)
(* it waits for never fails (the return 0 at line 87).  When the newest    *)
(* instance has its client, the server goes on to another one, even if the *)
(* client leaves again: unless it was gone before its connect was asked    *)
(* for, see FalseMeansConnected.                                           *)
ListensForNext ==
  /\ [](pc # "stopped")
  /\ \A i \in Instances :
       (pc \in {"wait", "routines"} /\ hPipe = i /\ inst[i].conn = "connected") ~>
         created > i

(* "It returns TRUE if the connect operation is pending, and FALSE if the  *)
(* connection has been completed."                                         *)
(* (named_pipe_completion_routine.cpp:227-228)                             *)
FalseMeansConnected ==
  [][pc = "connect" /\ pc' # pc => fPendingIO' \/ inst'[hPipe].conn = "connected"]_vars
=============================================================================
