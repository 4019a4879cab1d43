---------------------------- MODULE CompletionServer --------------------------
(***************************************************************************)
(* The one-client server of named_pipe_completion_server.cpp: the main     *)
(* thread creates the pipe, starts the I/O thread and waits for its event; *)
(* the I/O thread connects, reads with a completion routine that always    *)
(* reads again, and shares connect_status with the main thread.  Both      *)
(* events reset themselves when a wait takes them.                         *)
(***************************************************************************)
EXTENDS Integers, Sequences

CONSTANT MaxMessages  \* bound on the messages the client writes

ASSUME MessagesAssumption == MaxMessages \in Nat

(* A message fits in read_buf or is longer than it.                        *)
Messages == {"fits", "long"}
Results  == {"ok", "failed"}

VARIABLES
  mainPc,          \* where the main thread is
  ioPc,            \* where the I/O thread is
  connect_status,  \* shared by the two
  hPipeEvents,     \* is signaled
  hConnectEvent,   \* is signaled
  conn,            \* the pipe
  connect,         \* the overlapped connect, on oConnect
  reading,         \* a ReadFileEx is in flight, on oConnect
  apcs,            \* results of reads queued to the I/O thread
  inbox,           \* messages in the pipe
  written,         \* messages the client has written
  closes           \* CloseHandle calls on hPipe

vars == <<mainPc, ioPc, connect_status, hPipeEvents, hConnectEvent, conn,
          connect, reading, apcs, inbox, written, closes>>

pipe == <<conn, connect, reading, apcs, inbox, written, closes>>

TypeOK ==
  /\ mainPc \in {"create", "wait", "event", "join", "exited"}
  /\ ioPc \in {"none", "connect", "connected", "wait", "read", "tell",
               "routines", "completion", "failed", "exited"}
  /\ connect_status \in {"kConnecting", "kConnected", "kError"}
  /\ hPipeEvents \in BOOLEAN
  /\ hConnectEvent \in BOOLEAN
  /\ conn \in {"none", "listening", "connected", "orphaned", "closed"}
  /\ connect \in {"none", "pending", "ok", "failed", "immediate"}
  /\ reading \in BOOLEAN
  /\ apcs \in Seq(Results)
  /\ inbox \in Seq(Messages)
  /\ written \in 0..MaxMessages
  /\ closes \in 0..1

Init ==
  /\ mainPc = "create"
  /\ ioPc = "none"
  /\ connect_status = "kConnecting"
  /\ hPipeEvents = FALSE
  /\ hConnectEvent = FALSE
  /\ conn = "none"
  /\ connect = "none"
  /\ reading = FALSE
  /\ apcs = <<>>
  /\ inbox = <<>>
  /\ written = 0
  /\ closes = 0

IoGoes(from, to) == ioPc = from /\ ioPc' = to

-----------------------------------------------------------------------------
(* The client                                                              *)

Result(m) == IF m = "fits" THEN "ok" ELSE "failed"

ClientOpens ==
  /\ conn = "listening"
  /\ conn' = "connected"
  /\ IF connect = "pending" THEN connect' = "ok" /\ hConnectEvent' = TRUE
                            ELSE UNCHANGED <<connect, hConnectEvent>>
  /\ UNCHANGED <<mainPc, ioPc, connect_status, hPipeEvents, reading, apcs,
                 inbox, written, closes>>

ClientWrites(m) ==
  /\ conn = "connected"
  /\ written < MaxMessages
  /\ written' = written + 1
  /\ reading' = FALSE
  /\ IF reading THEN apcs' = Append(apcs, Result(m)) /\ UNCHANGED inbox
                ELSE inbox' = Append(inbox, m) /\ UNCHANGED apcs
  /\ UNCHANGED <<mainPc, ioPc, connect_status, hPipeEvents, hConnectEvent,
                 conn, connect, closes>>

ClientCloses ==
  /\ conn = "connected"
  /\ conn' = "orphaned"
  /\ reading' = FALSE
  /\ apcs' = IF reading THEN Append(apcs, "failed") ELSE apcs
  /\ UNCHANGED <<mainPc, ioPc, connect_status, hPipeEvents, hConnectEvent,
                 connect, inbox, written, closes>>

(* The system gives up a connect that is pending.                          *)
ConnectFails ==
  /\ connect = "pending"
  /\ connect' = "failed"
  /\ hConnectEvent' = TRUE
  /\ UNCHANGED <<mainPc, ioPc, connect_status, hPipeEvents, conn, reading, apcs,
                 inbox, written, closes>>

-----------------------------------------------------------------------------
(* The main thread                                                         *)

(* CreateAndConnectInstance.  Its result is ignored: when there is no pipe *)
(* there is no I/O thread, and the main thread waits all the same.         *)
CreateAndConnectInstance ==
  /\ mainPc = "create"
  /\ mainPc' = "wait"
  /\ \/ conn' = "listening" /\ ioPc' = "connect"
     \/ UNCHANGED <<conn, ioPc>>
  /\ UNCHANGED <<connect_status, hPipeEvents, hConnectEvent, connect, reading,
                 apcs, inbox, written, closes>>

MainWaits ==
  /\ mainPc = "wait"
  /\ hPipeEvents
  /\ mainPc' = "event"
  /\ hPipeEvents' = FALSE
  /\ UNCHANGED <<ioPc, connect_status, hConnectEvent, pipe>>

(* The status is looked at after the wait, whatever it is by then.         *)
MainReadsStatus ==
  /\ mainPc = "event"
  /\ mainPc' = IF connect_status = "kError" THEN "join" ELSE "wait"
  /\ UNCHANGED <<ioPc, connect_status, hPipeEvents, hConnectEvent, pipe>>

MainJoins ==
  /\ mainPc = "join"
  /\ ioPc = "exited"
  /\ mainPc' = "exited"
  /\ UNCHANGED <<ioPc, connect_status, hPipeEvents, hConnectEvent, pipe>>

-----------------------------------------------------------------------------
(* The I/O thread                                                          *)

(* Mutant: a first read is started together with the connect.              *)
ConnectNamedPipeReads ==
  /\ IoGoes("connect", "wait")
  /\ conn = "listening"
  /\ connect' = "pending"
  /\ reading' = TRUE
  /\ UNCHANGED <<mainPc, connect_status, hPipeEvents, hConnectEvent, conn,
                 apcs, inbox, written, closes>>

(* CreateEvent fails: the thread ends with kError and tells nobody.        *)
CreateEventFails ==
  /\ IoGoes("connect", "exited")
  /\ connect_status' = "kError"
  /\ UNCHANGED <<mainPc, hPipeEvents, hConnectEvent, pipe>>

(* ConnectToNewClient up to its loop.  A connect that succeeds at once ends *)
(* the thread, with neither status nor event.  A client that is already    *)
(* there is only reported: no read is started.  One that has gone is not   *)
(* noticed.                                                                *)
ConnectNamedPipe ==
  /\ \/ /\ conn = "listening"
        /\ IoGoes("connect", "wait")
        /\ connect' = "pending"
        /\ UNCHANGED connect_status
     \/ /\ conn = "connected"
        /\ IoGoes("connect", "exited")
        /\ connect' = "immediate"
        /\ UNCHANGED connect_status
     \/ /\ conn = "connected"
        /\ IoGoes("connect", "connected")
        /\ connect' = "failed"
        /\ connect_status' = "kConnected"
     \/ /\ conn = "orphaned"
        /\ IoGoes("connect", "wait")
        /\ connect' = "failed"
        /\ UNCHANGED connect_status
  /\ UNCHANGED <<mainPc, hPipeEvents, hConnectEvent, conn, reading, apcs,
                 inbox, written, closes>>

SignalConnected ==
  /\ IoGoes("connected", "wait")
  /\ hPipeEvents' = TRUE
  /\ UNCHANGED <<mainPc, connect_status, hConnectEvent, pipe>>

(* DisconnectAndClose completes no read: none is in flight when it runs.   *)
DisconnectAndClose ==
  /\ conn' = "closed"
  /\ closes' = closes + 1
  /\ inbox' = <<>>
  /\ UNCHANGED <<connect, reading, written>>

(* ReadFileEx on a pipe that can be read finishes at once when there is a  *)
(* message.                                                                *)
CanRead == conn = "connected" \/ (conn = "orphaned" /\ inbox # <<>>)

ReadFileEx(queued) ==
  /\ IF inbox = <<>>
     THEN apcs' = queued /\ inbox' = inbox /\ reading' = TRUE
     ELSE /\ apcs' = Append(queued, Result(Head(inbox)))
          /\ inbox' = Tail(inbox)
          /\ UNCHANGED reading
  /\ UNCHANGED <<connect_status, conn, connect, written, closes>>

(* Mutants: a read on the closed handle, whose failure closes it again; no *)
(* further read.                                                           *)
ReadCompleteRoutineGoesOn(result, queued) ==
  \/ result = "ok" /\ CanRead /\ ReadFileEx(queued)
  \/ /\ ~(result = "ok" /\ CanRead)
     /\ connect_status' = "kError"
     /\ apcs' = queued
     /\ conn' = "closed"
     /\ closes' = closes + 2
     /\ inbox' = <<>>
     /\ UNCHANGED <<connect, reading, written>>
ReadCompleteRoutineReadsNot(result, queued) ==
  /\ apcs' = queued
  /\ UNCHANGED <<connect_status, conn, connect, reading, inbox, written, closes>>

(* ReadCompleteRoutine: read again, or give the connection up.             *)
ReadCompleteRoutine(result, queued) ==
  \/ result = "ok" /\ CanRead /\ ReadFileEx(queued)
  \/ /\ ~(result = "ok" /\ CanRead)
     /\ connect_status' = "kError"
     /\ apcs' = queued
     /\ DisconnectAndClose

(* WAIT_OBJECT_0 while connecting: GetOverlappedResult.                    *)
WaitObject ==
  /\ hConnectEvent
  /\ hConnectEvent' = FALSE
  /\ connect_status = "kConnecting"
  /\ \/ /\ connect = "ok"
        /\ IoGoes("wait", "read")
        /\ connect_status' = "kConnected"
        /\ UNCHANGED hPipeEvents
     \/ /\ connect = "failed"
        /\ IoGoes("wait", "failed")
        /\ hPipeEvents' = TRUE
        /\ UNCHANGED connect_status
  /\ UNCHANGED <<mainPc, pipe>>

(* The main thread has been told of a failed connect before the status     *)
(* says so: it may have looked already.                                    *)
ConnectError ==
  /\ IoGoes("failed", "exited")
  /\ connect_status' = "kError"
  /\ UNCHANGED <<mainPc, hPipeEvents, hConnectEvent, pipe>>

(* The default branch: the wait itself fails.  The thread ends with kError *)
(* and tells nobody; the pipe stays open, and the system cancels what the  *)
(* thread has in flight.                                                   *)
WaitFails ==
  /\ IoGoes("wait", "exited")
  /\ connect_status' = "kError"
  /\ connect' = IF connect = "pending" THEN "failed" ELSE connect
  /\ reading' = FALSE
  /\ apcs' = <<>>
  /\ UNCHANGED <<mainPc, hPipeEvents, hConnectEvent, conn, inbox, written, closes>>

(* Once connected the first read is started, here and not by a completion, *)
(* and the main thread is told.                                            *)
FirstRead ==
  /\ \/ /\ IoGoes("read", "tell")
        /\ ReadCompleteRoutine("ok", apcs)
        /\ UNCHANGED hPipeEvents
     \/ /\ IoGoes("tell", "completion")
        /\ hPipeEvents' = TRUE
        /\ UNCHANGED <<connect_status, pipe>>
  /\ UNCHANGED <<mainPc, hConnectEvent>>

RunRoutine ==
  /\ ioPc \in {"wait", "routines"}
  /\ ioPc' = "routines"
  /\ apcs # <<>>
  /\ ReadCompleteRoutine(Head(apcs), Tail(apcs))
  /\ UNCHANGED <<mainPc, hPipeEvents, hConnectEvent>>

WaitIoCompletion ==
  /\ IoGoes("routines", "completion")
  /\ apcs = <<>>
  /\ UNCHANGED <<mainPc, connect_status, hPipeEvents, hConnectEvent, pipe>>

(* Mutant: no SetEvent.                                                    *)
HandleCompletionSilently ==
  /\ IoGoes("completion", IF connect_status = "kError" THEN "exited" ELSE "wait")
  /\ UNCHANGED <<mainPc, connect_status, hPipeEvents, hConnectEvent, pipe>>

(* case WAIT_IO_COMPLETION, which case WAIT_OBJECT_0 falls through to: an  *)
(* error wakes the main thread and ends this one.                          *)
HandleCompletion ==
  /\ IoGoes("completion", IF connect_status = "kError" THEN "exited" ELSE "wait")
  /\ hPipeEvents' = (hPipeEvents \/ connect_status = "kError")
  /\ UNCHANGED <<mainPc, connect_status, hConnectEvent, pipe>>

-----------------------------------------------------------------------------
MainThread == MainWaits \/ MainReadsStatus \/ MainJoins

IoThread ==
  \/ ConnectNamedPipe
  \/ SignalConnected
  \/ WaitObject
  \/ ConnectError
  \/ FirstRead
  \/ RunRoutine
  \/ WaitIoCompletion
  \/ HandleCompletion

(* What may go wrong, and is never promised to.                            *)
Failure == CreateEventFails \/ WaitFails \/ ConnectFails

ClientStep == ClientOpens \/ ClientCloses \/ \E m \in Messages : ClientWrites(m)

Next == CreateAndConnectInstance \/ MainThread \/ IoThread \/ Failure \/ ClientStep

Spec == Init /\ [][Next]_vars

(* Both threads keep running; the client does what it likes.               *)
FairSpec == Spec /\ WF_vars(MainThread) /\ WF_vars(IoThread)

-----------------------------------------------------------------------------
(* oConnect serves the connect and then every read: one at a time, in      *)
(* flight or waiting to be reported.  When the pipe is closed none is, and *)
(* no later step overwrites the kError of the failure that closed it.      *)
OneOperation ==
  LET outstanding == Len(apcs) + (IF reading THEN 1 ELSE 0)
                       + (IF connect = "pending" THEN 1 ELSE 0) IN
  /\ outstanding <= 1
  /\ closes > 0 => outstanding = 0 /\ connect_status = "kError" /\ closes = 1

(* The event of a failed read cannot be lost to the event of the connect,  *)
(* nor the main thread have looked at connect_status too early: when the   *)
(* I/O thread has ended after closing the pipe, the main thread has been   *)
(* woken or will be.  Not so for the exits of the I/O thread that leave    *)
(* the pipe open (lines 86-90, 96-98, 120-125, 144-148): see Abandoned.    *)
NoLostWakeup ==
  ioPc = "exited" /\ closes > 0 /\ mainPc \in {"wait", "event"} =>
    connect_status = "kError" /\ (hPipeEvents \/ mainPc = "event")

(* The I/O thread has ended and left the pipe open.  Three of its exits    *)
(* tell the main thread nothing and the fourth may tell it too early, so   *)
(* that it waits for ever.                                                 *)
Abandoned == ioPc = "exited" /\ closes = 0

(* A server that was waiting when its client came takes every message out  *)
(* of the pipe and ends after the client has left, through the completion  *)
(* that failed, the status and the join - unless a wait of its I/O thread  *)
(* fails meanwhile.                                                        *)
ClientServedToEnd ==
  /\ (connect = "ok" /\ inbox # <<>>) ~> (inbox = <<>> \/ Abandoned)
  /\ (connect = "ok" /\ conn = "orphaned") ~> (mainPc = "exited" \/ Abandoned)
=============================================================================
