--------------------------- MODULE OverlappedServer ---------------------------
(***************************************************************************)
(* The overlapped named-pipe server (named_pipe_server_overlapped.cpp):    *)
(* one thread that drives N instances of a pipe as state machines,         *)
(* connecting -> reading -> writing -> reading, and waits for the event of *)
(* any of them, with clients that open, ask, read their answers and close  *)
(* at any moment.                                                          *)
(***************************************************************************)
EXTENDS Integers, Sequences

CONSTANTS
  N,            \* INSTANCES
  Quota,        \* replies an instance holds that its client has not read
  MaxSessions,  \* bound on the clients that come
  MaxRequests   \* bound on the requests a client writes before it has all
                \* its answers

ASSUME ServerAssumption ==
  /\ N \in Nat \ {0} /\ Quota \in Nat \ {0}
  /\ MaxSessions \in Nat /\ MaxRequests \in Nat

Instances == 1..N

(* A request fills the buffer in part, is empty, or is longer than it.     *)
Requests == {"fits", "empty", "long"}

VARIABLES
  pc,        \* the server's thread
  cur,       \* i, the instance it works on
  Pipe,      \* dwState and fPendingIO of each PIPEINST
  inst,      \* the operating system's side of each instance
  sessions   \* clients that have come so far

vars == <<pc, cur, Pipe, inst, sessions>>

Statuses == {"pending", "ok", "zero", "failed"}

(* conn: the connection; event: hEvents[i] is signaled; op: the operation  *)
(* in flight on oOverlap and status its result; inbox: requests not read;  *)
(* outbox: replies not read, each as the session its request came from;    *)
(* chRequest: the session of the request in the buffer; asked, answered:   *)
(* requests and replies of the current session, counted from a moment when *)
(* the two were equal.                                                     *)
InstanceType ==
  [conn : {"none", "listening", "connected", "orphaned", "disconnected"},
   event : BOOLEAN, op : {"none", "connect", "read", "write"}, status : Statuses,
   session : Nat, inbox : Seq(Requests), outbox : Seq(Nat), chRequest : Nat,
   asked : Nat, answered : Nat]

TypeOK ==
  /\ pc \in {"create", "connect", "wait", "next", "stopped"}
  /\ cur \in Instances
  /\ Pipe \in [Instances ->
                [dwState : {"CONNECTING", "READING", "WRITING"}, fPendingIO : BOOLEAN]]
  /\ inst \in [Instances -> InstanceType]
  /\ sessions \in 0..MaxSessions

(* Pipe is a zeroed global; the events do not exist yet.                   *)
Init ==
  /\ pc = "create"
  /\ cur = 1
  /\ Pipe = [i \in Instances |-> [dwState |-> "CONNECTING", fPendingIO |-> FALSE]]
  /\ inst = [i \in Instances |->
               [conn |-> "none", event |-> FALSE, op |-> "none", status |-> "ok",
                session |-> 0, inbox |-> <<>>, outbox |-> <<>>, chRequest |-> 0,
                asked |-> 0, answered |-> 0]]
  /\ sessions = 0

-----------------------------------------------------------------------------
(* The operating system: what a call makes of an instance k.  Starting an  *)
(* operation resets the event, finishing it signals the event and a call   *)
(* that fails at once leaves the event reset.                              *)

Begun(k, op)  == [k EXCEPT !.op = op, !.status = "pending", !.event = FALSE]
Done(k, st)   == [k EXCEPT !.op = "none", !.status = st, !.event = TRUE]
Refused(k)    == [k EXCEPT !.op = "none", !.status = "failed", !.event = FALSE]

(* ERROR_PIPE_CONNECTED and, for a client that has gone, ERROR_NO_DATA are *)
(* failures of the call.                                                   *)
ConnectNamedPipe(k) ==
  IF k.conn \in {"listening", "disconnected"}
  THEN Begun([k EXCEPT !.conn = "listening"], "connect")
  ELSE Refused(k)

DisconnectNamedPipe(k) ==
  [k EXCEPT !.conn = "disconnected", !.inbox = <<>>, !.outbox = <<>>]

(* A read that finds the request r: only bytes that were read reach the    *)
(* buffer.                                                                 *)
Filled(k, r) ==
  CASE r = "fits"  -> Done([k EXCEPT !.chRequest = k.session], "ok")
    [] r = "empty" -> Done(k, "zero")
    [] r = "long"  -> Done([k EXCEPT !.chRequest = k.session], "failed")

ReadFile(k) ==
  IF k.inbox # <<>> THEN Filled([k EXCEPT !.inbox = Tail(@)], Head(k.inbox))
  ELSE IF k.conn = "connected" THEN Begun(k, "read")
  ELSE Refused(k)

Replied(k) ==
  Done([k EXCEPT !.outbox = Append(@, k.chRequest), !.answered = @ + 1], "ok")

WriteFile(k) ==
  IF k.conn # "connected" THEN Refused(k)
  ELSE IF Len(k.outbox) < Quota THEN Replied(k)
  ELSE Begun(k, "write")

-----------------------------------------------------------------------------
(* Clients                                                                 *)

Client(i, k) ==
  /\ inst' = [inst EXCEPT ![i] = k]
  /\ UNCHANGED <<pc, cur, Pipe>>

ClientOpens(i) ==
  LET k == [inst[i] EXCEPT !.conn = "connected", !.session = sessions + 1,
                           !.asked = 0, !.answered = 0] IN
  /\ inst[i].conn = "listening"
  /\ sessions < MaxSessions
  /\ sessions' = sessions + 1
  /\ Client(i, IF k.op = "connect" THEN Done(k, "ok") ELSE k)

ClientWrites(i, r) ==
  LET k == [inst[i] EXCEPT !.asked = @ + 1] IN
  /\ inst[i].conn = "connected"
  /\ inst[i].asked < MaxRequests
  /\ Client(i, IF k.op = "read" THEN Filled(k, r)
               ELSE [k EXCEPT !.inbox = Append(@, r)])
  /\ UNCHANGED sessions

(* Room for a reply completes the write that waits for it.                 *)
ClientReads(i) ==
  LET k == [inst[i] EXCEPT !.outbox = Tail(@)] IN
  /\ inst[i].outbox # <<>>
  /\ Client(i, IF k.op = "write" THEN Replied(k) ELSE k)
  /\ UNCHANGED sessions

(* With all its answers a client goes on as if it had just come: it may    *)
(* keep the server busy for ever.                                          *)
ClientGoesOn(i) ==
  /\ inst[i].conn = "connected"
  /\ inst[i].asked > 0 /\ inst[i].answered = inst[i].asked
  /\ inst[i].outbox = <<>>
  /\ Client(i, [inst[i] EXCEPT !.asked = 0, !.answered = 0])
  /\ UNCHANGED sessions

ClientCloses(i) ==
  LET k == [inst[i] EXCEPT !.conn = "orphaned", !.outbox = <<>>] IN
  /\ inst[i].conn = "connected"
  /\ Client(i, IF k.op # "none" THEN Done(k, "failed") ELSE k)
  /\ UNCHANGED sessions

-----------------------------------------------------------------------------
(* The server                                                              *)

(* Mutant: no SetEvent for a client that is already connected.             *)
ConnectToNewClientUnsignaled(i, k) ==
  /\ inst' = [inst EXCEPT ![i] = ConnectNamedPipe(k)]
  /\ Pipe' = [Pipe EXCEPT ![i] =
                [dwState |-> IF k.conn = "disconnected" THEN "CONNECTING" ELSE "READING",
                 fPendingIO |-> k.conn = "disconnected"]]

(* ConnectToNewClient and the state the callers derive from its result.  A *)
(* client that is already there is signaled by hand; any other failure     *)
(* returns 0 as well.                                                      *)
ConnectToNewClient(i, k) ==
  LET c == ConnectNamedPipe(k)
      fPendingIO == c.op = "connect" IN
  /\ inst' = [inst EXCEPT ![i] =
                IF k.conn = "connected" THEN [c EXCEPT !.event = TRUE] ELSE c]
  /\ Pipe' = [Pipe EXCEPT ![i] =
                [dwState |-> IF fPendingIO THEN "CONNECTING" ELSE "READING",
                 fPendingIO |-> fPendingIO]]

DisconnectAndReconnect(i, k) == ConnectToNewClient(i, DisconnectNamedPipe(k))

(* The initial loop: create an instance, which listens at once ...         *)
CreateInstance ==
  /\ pc = "create"
  /\ pc' = "connect"
  /\ inst' = [inst EXCEPT ![cur].conn = "listening", ![cur].event = TRUE]
  /\ UNCHANGED <<cur, Pipe, sessions>>

(* Mutant: i <= INSTANCES.                                                 *)
ConnectInstanceTooFar ==
  /\ pc = "connect"
  /\ pc' = "create"
  /\ cur' = cur + 1
  /\ ConnectToNewClient(cur, inst[cur])
  /\ UNCHANGED sessions

(* ... and start its connect.                                              *)
ConnectInstance ==
  /\ pc = "connect"
  /\ ConnectToNewClient(cur, inst[cur])
  /\ IF cur < N THEN pc' = "create" /\ cur' = cur + 1
                ELSE pc' = "wait" /\ UNCHANGED cur
  /\ UNCHANGED sessions

(* WaitForMultipleObjects returns the lowest instance that is signaled.    *)
Signaled(i) == inst[i].event /\ \A j \in 1..(i - 1) : ~inst[j].event

Advance(i, dwState) ==
  /\ pc' = "next"
  /\ Pipe' = [Pipe EXCEPT ![i].dwState = dwState]
  /\ UNCHANGED inst

(* Mutant: the client that failed is not disconnected.                     *)
ReconnectNot(i, k) ==
  /\ pc' = "wait"
  /\ inst' = [inst EXCEPT ![i] = k]
  /\ UNCHANGED Pipe

Reconnect(i, k) ==
  /\ pc' = "wait"
  /\ DisconnectAndReconnect(i, k)

(* Mutant: cbRet is not looked at.                                         *)
ReadResultOfAnyLength(i) ==
  \/ inst[i].status \in {"ok", "zero"} /\ Advance(i, "WRITING")
  \/ inst[i].status \notin {"ok", "zero"} /\ Reconnect(i, inst[i])

(* The result of a pending read; status is "pending" when GetOverlapped-   *)
(* Result is asked too early.                                              *)
ReadResult(i) ==
  \/ inst[i].status = "ok" /\ Advance(i, "WRITING")
  \/ inst[i].status # "ok" /\ Reconnect(i, inst[i])

WriteResult(i) ==
  \/ inst[i].status = "ok" /\ Advance(i, "READING")
  \/ inst[i].status # "ok" /\ Reconnect(i, inst[i])

(* A connect that failed ends the server.                                  *)
ConnectResult(i) ==
  \/ inst[i].status = "ok" /\ Advance(i, "READING")
  \/ inst[i].status # "ok" /\ pc' = "stopped" /\ UNCHANGED <<Pipe, inst>>

(* The first half of an iteration: the result of what was pending.         *)
Wait(i) ==
  /\ pc = "wait"
  /\ Signaled(i)
  /\ cur' = i
  /\ \/ ~Pipe[i].fPendingIO /\ Advance(i, Pipe[i].dwState)
     \/ Pipe[i].fPendingIO /\ Pipe[i].dwState = "CONNECTING" /\ ConnectResult(i)
     \/ Pipe[i].fPendingIO /\ Pipe[i].dwState = "READING" /\ ReadResult(i)
     \/ Pipe[i].fPendingIO /\ Pipe[i].dwState = "WRITING" /\ WriteResult(i)
  /\ UNCHANGED sessions

(* Mutant: a call that is still in flight is taken for a failed one.       *)
IssuedNeverPending(i, k, next) ==
  \/ /\ k.status = "ok"
     /\ pc' = "wait"
     /\ inst' = [inst EXCEPT ![i] = k]
     /\ Pipe' = [Pipe EXCEPT ![i] = [dwState |-> next, fPendingIO |-> FALSE]]
  \/ k.status # "ok" /\ Reconnect(i, k)

(* What a call has made of the instance: k.  Finished at once with a       *)
(* result, in flight, or failed.                                           *)
Issued(i, k, next) ==
  \/ /\ k.status = "ok"
     /\ pc' = "wait"
     /\ inst' = [inst EXCEPT ![i] = k]
     /\ Pipe' = [Pipe EXCEPT ![i] = [dwState |-> next, fPendingIO |-> FALSE]]
  \/ /\ k.status = "pending"
     /\ pc' = "wait"
     /\ inst' = [inst EXCEPT ![i] = k]
     /\ Pipe' = [Pipe EXCEPT ![i].fPendingIO = TRUE]
  \/ /\ k.status \in {"zero", "failed"}
     /\ Reconnect(i, k)

(* Mutant: a read that finishes at once is taken for a pending one.        *)
NextReadAlwaysPending(i) ==
  /\ pc = "next" /\ i = cur /\ Pipe[i].dwState = "READING"
  /\ pc' = "wait"
  /\ inst' = [inst EXCEPT ![i] = ReadFile(inst[i])]
  /\ Pipe' = [Pipe EXCEPT ![i] = [dwState |-> "WRITING", fPendingIO |-> TRUE]]
  /\ UNCHANGED <<cur, sessions>>

(* The second half: the next operation.                                    *)
NextRead(i) ==
  /\ pc = "next" /\ i = cur /\ Pipe[i].dwState = "READING"
  /\ Issued(i, ReadFile(inst[i]), "WRITING")
  /\ UNCHANGED <<cur, sessions>>

(* GetAnswerToRequest answers what is in the buffer.                       *)
NextWrite(i) ==
  /\ pc = "next" /\ i = cur /\ Pipe[i].dwState = "WRITING"
  /\ Issued(i, WriteFile(inst[i]), "READING")
  /\ UNCHANGED <<cur, sessions>>

-----------------------------------------------------------------------------
ServerStep ==
  \/ CreateInstance
  \/ ConnectInstance
  \/ \E i \in Instances : Wait(i) \/ NextRead(i) \/ NextWrite(i)

ClientStep ==
  \E i \in Instances :
    \/ ClientOpens(i)
    \/ \E r \in Requests : ClientWrites(i, r)
    \/ ClientReads(i)
    \/ ClientGoesOn(i)
    \/ ClientCloses(i)

Next == ServerStep \/ ClientStep

Spec == Init /\ [][Next]_vars

(* The server's thread keeps running; clients do what they like.           *)
FairSpec == Spec /\ WF_vars(ServerStep)

-----------------------------------------------------------------------------
(* The thread is at the top of the loop with regard to instance i.         *)
AtRest(i) == ~(pc = "next" /\ cur = i)

(* An event is signaled only when what it stands for is over, so the       *)
(* server never takes ERROR_IO_INCOMPLETE for a result; whatever is in     *)
(* flight is what dwState says it is; and no client, however fast it comes *)
(* and goes, fails a connect that was waited for, which would end the      *)
(* server (the return 0 at line 131).                                      *)
EventMeansDone ==
  /\ pc # "stopped"
  /\ \A i \in Instances :
       LET k == inst[i] IN
       /\ k.event => k.op = "none" /\ k.status # "pending"
       /\ k.op # "none" =>
            /\ Pipe[i].fPendingIO
            /\ k.op = [CONNECTING |-> "connect", READING |-> "read",
                       WRITING |-> "write"][Pipe[i].dwState]

(* One request of instance i is read and not answered yet: its read has    *)
(* finished unseen, or it is the writing state's.                          *)
InHand(i) ==
  LET seen == Pipe[i].fPendingIO /\ inst[i].status = "ok" /\ AtRest(i) IN
  \/ Pipe[i].dwState = "READING" /\ seen
  \/ Pipe[i].dwState = "WRITING" /\ ~seen

(* As long as a client stays and asks properly, each of its requests is in *)
(* the pipe, in hand or answered, exactly once; and no client gets the     *)
(* answer to the request of another, although the buffers of an instance   *)
(* are never cleared between clients.                                      *)
OneReplyEach ==
  \A i \in Instances :
    LET k == inst[i] IN
    /\ k.conn = "connected" /\ k.status \in {"ok", "pending"} =>
         k.asked = Len(k.inbox) + k.answered + IF InHand(i) THEN 1 ELSE 0
    /\ \A n \in 1..Len(k.outbox) : k.outbox[n] = k.session

(* WaitForMultipleObjects (lines 99-103) takes the lowest event that is    *)
(* signaled, so instances before i that always have one keep i waiting.    *)
Starved(i) == []<><<\E j \in 1..(i - 1) : Wait(j)>>_vars

(* Every request is read and answered, unless its client leaves, is        *)
(* disconnected for an improper request or lets replies pile up, or lower  *)
(* instances are served for ever.  Instance 1 is owed it without           *)
(* condition, and the traffic of higher instances holds up nobody.         *)
EveryRequestAnswered ==
  \A i \in Instances :
    \/ Starved(i)
    \/ (pc \in {"wait", "next"} /\ inst[i].conn = "connected" /\ inst[i].inbox # <<>>) ~>
         \/ inst[i].inbox = <<>> /\ inst[i].answered = inst[i].asked
         \/ inst[i].conn # "connected"
         \/ Len(inst[i].outbox) = Quota

(* An instance that has been connected in the loop listens again after its *)
(* client has gone, unless lower instances are served for ever.            *)
Lost(i) == Pipe[i].dwState = "READING" /\ ~Pipe[i].fPendingIO /\ ~inst[i].event /\ AtRest(i)

ListensAgain ==
  \A i \in Instances :
    \/ Starved(i)
    \/ (pc \in {"wait", "next"} /\ inst[i].conn = "orphaned" /\ ~Lost(i)) ~>
         inst[i].conn = "listening"

(* An instance as a Session.  Asked improperly: the request is in the pipe *)
(* or its read has finished without success.                               *)
Link(i) ==
  CASE inst[i].conn = "connected" -> "open"
    [] inst[i].conn = "orphaned"  -> "left"
    [] OTHER -> "free"

Improper(i) ==
  /\ inst[i].conn = "connected"
  /\ \/ \E n \in 1..Len(inst[i].inbox) : inst[i].inbox[n] # "fits"
     \/ /\ Pipe[i].fPendingIO /\ Pipe[i].dwState = "READING"
        /\ inst[i].status \in {"zero", "failed"}

S(i) == INSTANCE Session WITH
  link <- Link(i), asked <- inst[i].asked, answered <- inst[i].answered,
  improper <- Improper(i)

(* Every instance serves sessions: through operations that finish at once  *)
(* or later, and the reconnects they lead to, no reply comes without a     *)
(* request and no client is hung up on that has not left or asked          *)
(* improperly.                                                             *)
Sessions ==
  /\ \A i \in Instances : S(i)!Init
  /\ [][\A i \in Instances : S(i)!Next \/ UNCHANGED S(i)!vars]_vars
=============================================================================
