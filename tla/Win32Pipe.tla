------------------------------ MODULE Win32Pipe ------------------------------
(***************************************************************************)
(* The operating system's side of one named pipe instance, as the code     *)
(* in src/ uses it: CreateNamedPipeW with one instance and a quota,        *)
(* CreateFile, ConnectNamedPipe, DisconnectNamedPipe, CloseHandle,         *)
(* ReadFileEx with a completion routine, WriteFile and the manual-reset    *)
(* event of the channel's OVERLAPPED.  None of this is code of the         *)
(* repository; it is the environment the channel modules run in.           *)
(*                                                                         *)
(* A message is the number its sender gave it: the n-th message an end     *)
(* wrote is n.  Its content and length matter only through the constant    *)
(* MessageSize, the length of every message an end writes (the driver      *)
(* sends one and the same string, TestBoost.cpp:137-140).                  *)
(***************************************************************************)
EXTENDS Integers, Sequences

CONSTANTS
  Capacity,     \* messages the pipe holds towards one end (buf_size)
  ReadBufSize,  \* kReadBufSize, the length ReadFileEx is given
  MessageSize   \* MessageSize[e]: length of the messages end e writes

Server == "server"
Client == "client"
Ends == {Server, Client}
Peer(e) == IF e = Server THEN Client ELSE Server

ASSUME PipeAssumption ==
  /\ Capacity \in Nat \ {0}
  /\ ReadBufSize \in Nat \ {0}
  /\ MessageSize \in [Ends -> Nat]

NoError      == "NO_ERROR"
Broken       == "ERROR_BROKEN_PIPE"
NotConnected == "ERROR_PIPE_NOT_CONNECTED"
NoData       == "ERROR_NO_DATA"
MoreData     == "ERROR_MORE_DATA"
BadHandle    == "ERROR_INVALID_HANDLE"
ErrorCodes   == {Broken, NotConnected, NoData, MoreData, BadHandle}

VARIABLES
  pend,        \* state of each end of the pipe instance
  inbox,       \* messages in the pipe that end e has not read
  reading,     \* end e has a ReadFileEx in flight
  apcs,        \* completions queued to end e's I/O thread
  connecting,  \* the server's overlapped ConnectNamedPipe
  event        \* the manual-reset event of each end is signaled

pipeVars == <<pend, inbox, reading, apcs, connecting, event>>

(* A completion routine's arguments; msg is 0 when nothing was read.       *)
Completions == [err : {NoError} \cup ErrorCodes, msg : Nat]

PipeTypeOK ==
  /\ pend \in [Ends -> {"absent", "listening", "attached", "detached", "closed"}]
  /\ inbox \in [Ends -> Seq(Nat)]
  /\ reading \in [Ends -> BOOLEAN]
  /\ apcs \in [Ends -> Seq(Completions)]
  /\ connecting \in {"idle", "pending", "ok", "failed"}
  /\ event \in [Ends -> BOOLEAN]

(* io_event_ is created signaled (threaded_message_channel_win.cpp:26).    *)
PipeInit ==
  /\ pend = [e \in Ends |-> "absent"]
  /\ inbox = [e \in Ends |-> <<>>]
  /\ reading = [e \in Ends |-> FALSE]
  /\ apcs = [e \in Ends |-> <<>>]
  /\ connecting = "idle"
  /\ event = [e \in Ends |-> TRUE]

IsOpen(e) == pend[e] \notin {"absent", "closed"}

-----------------------------------------------------------------------------
(* The event object                                                        *)

SetEvent(e)   == event' = [event EXCEPT ![e] = TRUE]
ResetEvent(e) == event' = [event EXCEPT ![e] = FALSE]

-----------------------------------------------------------------------------
(* Creating, opening and connecting                                        *)

(* A new instance listens: a client can open it before ConnectNamedPipe.   *)
CreateNamedPipe ==
  /\ pend' = [pend EXCEPT ![Server] = "listening"]
  /\ UNCHANGED <<inbox, reading, apcs, connecting, event>>

(* Opening a listening instance connects it, which completes a pending     *)
(* ConnectNamedPipe and signals its event.                                 *)
CreateFile ==
  /\ pend[Server] = "listening"
  /\ pend' = [e \in Ends |-> "attached"]
  /\ \/ /\ connecting = "pending"
        /\ connecting' = "ok"
        /\ SetEvent(Server)
     \/ /\ connecting # "pending"
        /\ UNCHANGED <<connecting, event>>
  /\ UNCHANGED <<inbox, reading, apcs>>

(* What GetLastError says after an overlapped ConnectNamedPipe.            *)
ConnectStatus ==
  IF ~IsOpen(Server) THEN BadHandle
  ELSE IF pend[Server] # "attached" THEN "ERROR_IO_PENDING"
  ELSE IF pend[Client] = "attached" THEN "ERROR_PIPE_CONNECTED"
  ELSE NoData

(* The call makes the event nonsignaled before it starts; a disconnected   *)
(* instance listens again.                                                 *)
ConnectNamedPipe ==
  /\ event' = [event EXCEPT ![Server] = @ /\ ~IsOpen(Server)]
  /\ \/ /\ ConnectStatus = "ERROR_IO_PENDING"
        /\ pend' = [pend EXCEPT ![Server] = "listening"]
        /\ connecting' = "pending"
     \/ /\ ConnectStatus # "ERROR_IO_PENDING"
        /\ UNCHANGED <<pend, connecting>>
  /\ UNCHANGED <<inbox, reading, apcs>>

-----------------------------------------------------------------------------
(* Reading and writing                                                     *)

(* A message longer than the buffer completes the read with MORE_DATA.     *)
Completion(e, m) ==
  [err |-> IF MessageSize[Peer(e)] > ReadBufSize THEN MoreData ELSE NoError,
   msg |-> m]

ReadStatus(e) ==
  IF ~IsOpen(e) THEN BadHandle
  ELSE IF pend[e] # "attached" THEN NotConnected
  ELSE IF pend[Peer(e)] # "attached" /\ inbox[e] = <<>> THEN Broken
  ELSE NoError

(* A read that starts: it completes at once when a message is waiting.     *)
(* "queued" are the completions the thread has not run yet.                *)
ReadFileEx(e, queued) ==
  /\ ReadStatus(e) = NoError
  /\ \/ /\ inbox[e] # <<>>
        /\ apcs' = [apcs EXCEPT ![e] =
                      Append(queued, Completion(e, Head(inbox[e])))]
        /\ inbox' = [inbox EXCEPT ![e] = Tail(@)]
        /\ UNCHANGED reading
     \/ /\ inbox[e] = <<>>
        /\ apcs' = [apcs EXCEPT ![e] = queued]
        /\ reading' = [reading EXCEPT ![e] = TRUE]
        /\ UNCHANGED inbox
  /\ UNCHANGED <<pend, connecting, event>>

WriteStatus(e) ==
  IF ~IsOpen(e) THEN BadHandle
  ELSE IF pend[e] # "attached" THEN NotConnected
  ELSE IF pend[Peer(e)] # "attached" THEN NoData
  ELSE NoError

(* A write goes to the reader that waits for it, else into the pipe; with  *)
(* no reader and a full pipe it blocks (the action is disabled).           *)
WriteFile(e, m) ==
  LET p == Peer(e) IN
  /\ WriteStatus(e) = NoError
  /\ \/ /\ reading[p]
        /\ apcs' = [apcs EXCEPT ![p] = Append(@, Completion(p, m))]
        /\ reading' = [reading EXCEPT ![p] = FALSE]
        /\ UNCHANGED inbox
     \/ /\ ~reading[p]
        /\ Len(inbox[p]) < Capacity
        /\ inbox' = [inbox EXCEPT ![p] = Append(@, m)]
        /\ UNCHANGED <<reading, apcs>>
  /\ UNCHANGED <<pend, connecting, event>>

-----------------------------------------------------------------------------
(* Disconnecting and closing complete whatever is in flight                *)

FailReads(code) ==
  /\ apcs' = [e \in Ends |-> IF reading[e]
                             THEN Append(apcs[e], [err |-> code, msg |-> 0])
                             ELSE apcs[e]]
  /\ reading' = [e \in Ends |-> FALSE]

FailConnect ==
  \/ /\ connecting = "pending"
     /\ connecting' = "failed"
     /\ SetEvent(Server)
  \/ /\ connecting # "pending"
     /\ UNCHANGED <<connecting, event>>

(* The server drops its client: unread data of both directions is lost.    *)
DisconnectNamedPipe ==
  /\ pend' = [e \in Ends |->
                IF e = Server \/ pend[e] = "attached" THEN "detached" ELSE pend[e]]
  /\ inbox' = [e \in Ends |-> <<>>]
  /\ FailReads(NotConnected)
  /\ FailConnect

(* Closing the open handle of an end; what it wrote stays readable.        *)
CloseHandle(e) ==
  /\ pend' = [pend EXCEPT ![e] = "closed"]
  /\ inbox' = [inbox EXCEPT ![e] = <<>>]
  /\ FailReads(Broken)
  /\ \/ /\ e = Server
        /\ FailConnect
     \/ /\ e # Server
        /\ UNCHANGED <<connecting, event>>
=============================================================================
