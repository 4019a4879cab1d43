---------------------------- MODULE MessageChannel ----------------------------
(***************************************************************************)
(* ThreadedMessageChannelWin (threaded_message_channel_win.h/.cpp) and the *)
(* NamedPipeWin it owns (named_pipe_win.h/.cpp): two processes, the server *)
(* and the client of one pipe, each with                                   *)
(*   - a main thread that creates the pipe and the channel, starts the     *)
(*     I/O thread, sends messages and destroys the channel (mainPc), and   *)
(*   - an I/O thread that connects, waits in an alertable wait, runs the   *)
(*     read completions and calls the delegate (ioPc).                     *)
(* The two threads of an end share state_, message_, the pipe handle, the  *)
(* event and quit_io_thread_; nothing but quit_io_thread_ is synchronised, *)
(* so every access to a shared variable the other thread can observe is a  *)
(* step of its own.                                                        *)
(***************************************************************************)
EXTENDS Win32Pipe

CONSTANTS
  MaxSend,    \* MaxSend[e]: bound on the messages end e writes
  Destroyers  \* ends whose program destroys its channel; the driver keeps it
              \* for ever when sleep_after_tests < 0 (TestBoost.cpp:159-165)

ASSUME ProgramAssumption ==
  /\ MaxSend \in [Ends -> Nat]
  /\ Destroyers \subseteq Ends

VARIABLES
  state,      \* state_; an error code stands for StateError with that code
  handle,     \* pipe_ holds a handle (NamedPipeWin::IsValid)
  message,    \* message_: what was read and not yet handed out
  quit,       \* quit_io_thread_
  mainPc,     \* where the main thread is
  ioPc,       \* where the I/O thread is
  ioRet,      \* what ReadComplete returns to: the wait loop or the APC
  sent,       \* history: messages SendMessageOver reported as sent
  delivered,  \* history: messages handed to Delegate::OnMessage, in order
  told,       \* history: OnConnectStatus and OnError calls, in order
  closes      \* history: CloseHandle calls on the end's pipe handle

chanVars == <<state, handle, message, quit, mainPc, ioPc, ioRet,
              sent, delivered, told, closes>>
vars == <<pipeVars, chanVars>>

Destructor == {"disconnect", "close", "forget", "quit", "wake", "join"}
MainPcs == {"create", "mode", "idle", "write", "destroyed", "gone"} \cup Destructor
IoPcs == {"none", "start", "clientUp", "connect", "read", "wait", "accept",
          "apc", "handle", "notify", "disconnect", "close", "forget", "exited"}
Notices == {"pending", "connected", "disconnected", "error"}

IsInError(e) == state[e] \in ErrorCodes

ChannelTypeOK ==
  /\ state \in [Ends -> {"Init", "ConnectPending", "Connected"} \cup ErrorCodes]
  /\ handle \in [Ends -> BOOLEAN]
  /\ message \in [Ends -> Seq(Nat)]
  /\ quit \in [Ends -> BOOLEAN]
  /\ mainPc \in [Ends -> MainPcs]
  /\ ioPc \in [Ends -> IoPcs]
  /\ ioRet \in [Ends -> {"wait", "apc"}]
  /\ sent \in [Ends -> Nat]
  /\ delivered \in [Ends -> Seq(Nat)]
  /\ told \in [Ends -> Seq(Notices)]
  /\ closes \in [Ends -> Nat]

TypeOK == PipeTypeOK /\ ChannelTypeOK

Init ==
  /\ PipeInit
  /\ state = [e \in Ends |-> "Init"]
  /\ handle = [e \in Ends |-> FALSE]
  /\ message = [e \in Ends |-> <<>>]
  /\ quit = [e \in Ends |-> FALSE]
  /\ mainPc = [e \in Ends |-> "create"]
  /\ ioPc = [e \in Ends |-> "none"]
  /\ ioRet = [e \in Ends |-> "wait"]
  /\ sent = [e \in Ends |-> 0]
  /\ delivered = [e \in Ends |-> <<>>]
  /\ told = [e \in Ends |-> <<>>]
  /\ closes = [e \in Ends |-> 0]

MainGoes(e, from, to) == mainPc[e] = from /\ mainPc' = [mainPc EXCEPT ![e] = to]
IoGoes(e, from, to)   == ioPc[e] = from /\ ioPc' = [ioPc EXCEPT ![e] = to]
SetState(e, s)        == state' = [state EXCEPT ![e] = s]
Tell(e, notice)       == told' = [told EXCEPT ![e] = Append(@, notice)]

history == <<sent, delivered, told, closes>>

-----------------------------------------------------------------------------
(* NamedPipeWin, in steps another thread can come between; both threads of *)
(* an end run DisconnectAndClose.                                          *)

(* IsServer asks the kernel, so it has no answer for a stale handle.       *)
IsServerHasValue(e) == handle[e] /\ IsOpen(e)

(* The server half of DisconnectAndClose; an invalid pipe returns early.   *)
DisconnectPipe(e) ==
  \/ /\ IsServerHasValue(e) /\ e = Server
     /\ DisconnectNamedPipe
  \/ /\ ~(IsServerHasValue(e) /\ e = Server)
     /\ UNCHANGED pipeVars

AfterDisconnect(e, done) == IF handle[e] THEN "close" ELSE done

(* pipe_.reset(): CloseHandle on the handle the pointer still holds.       *)
ResetPipe(e) ==
  /\ closes' = [closes EXCEPT ![e] = @ + IF handle[e] THEN 1 ELSE 0]
  /\ \/ /\ handle[e] /\ IsOpen(e)
        /\ CloseHandle(e)
     \/ /\ ~(handle[e] /\ IsOpen(e))
        /\ UNCHANGED pipeVars

(* Mutant: the pointer is left dangling.                                   *)
ForgetHandleNot(e) == UNCHANGED handle

(* ... and then the pointer is cleared.                                    *)
ForgetHandle(e) == handle' = [handle EXCEPT ![e] = FALSE]

-----------------------------------------------------------------------------
(* The main thread                                                         *)

(* NamedPipeWin::CreateServerPipe and the channel's constructor.           *)
CreateServerPipe ==
  /\ MainGoes(Server, "create", "idle")
  /\ CreateNamedPipe
  /\ handle' = [handle EXCEPT ![Server] = TRUE]
  /\ UNCHANGED <<state, message, quit, ioPc, ioRet, history>>

(* NamedPipeWin::CreateClientPipe: CreateFile finds a listening instance.  *)
CreateClientPipe ==
  /\ MainGoes(Client, "create", "mode")
  /\ CreateFile
  /\ UNCHANGED <<state, handle, message, quit, ioPc, ioRet, history>>

(* SetNamedPipeHandleState; when it fails the handle goes out of scope.    *)
SetReadMode ==
  /\ \/ /\ MainGoes(Client, "mode", "idle")
        /\ pend[Client] = "attached"
        /\ handle' = [handle EXCEPT ![Client] = TRUE]
        /\ UNCHANGED pipeVars
     \/ /\ MainGoes(Client, "mode", "gone")
        /\ pend[Client] # "attached"
        /\ CloseHandle(Client)
        /\ UNCHANGED handle
  /\ UNCHANGED <<state, message, quit, ioPc, ioRet, history>>

(* No pipe could be created or opened: no channel is built.                *)
CreateFails(e) ==
  /\ e = Client => pend[Server] # "listening"
  /\ MainGoes(e, "create", "gone")
  /\ UNCHANGED <<pipeVars, state, handle, message, quit, ioPc, ioRet, history>>

(* Mutant: no joinable() test.                                             *)
ConnectOnIOThreadAgain(e) ==
  /\ mainPc[e] = "idle"
  /\ SetState(e, "Init")
  /\ ioPc' = [ioPc EXCEPT ![e] = "start"]
  /\ UNCHANGED <<pipeVars, handle, message, quit, mainPc, ioRet, history>>

(* Refused (returns false, nothing changes) once there is an I/O thread,   *)
(* running or finished: only the destructor joins it.                      *)
ConnectOnIOThread(e) ==
  /\ mainPc[e] = "idle"
  /\ ioPc[e] = "none"
  /\ SetState(e, "Init")
  /\ ioPc' = [ioPc EXCEPT ![e] = "start"]
  /\ UNCHANGED <<pipeVars, handle, message, quit, mainPc, ioRet, history>>

(* SendMessageOver, up to the test of state_; in any other state it        *)
(* returns false and changes nothing.                                      *)
BeginSend(e) ==
  /\ sent[e] < MaxSend[e]
  /\ state[e] = "Connected"
  /\ MainGoes(e, "idle", "write")
  /\ UNCHANGED <<pipeVars, state, handle, message, quit, ioPc, ioRet, history>>

(* Mutant: GetLastError() is asked when printing has already reset it.     *)
WriteErrorLost(e) ==
  /\ MainGoes(e, "write", "idle")
  /\ WriteStatus(e) # NoError
  /\ SetState(e, NoError)
  /\ UNCHANGED <<pipeVars, handle, message, quit, ioPc, ioRet, history>>

(* ... and the blocking WriteFile, which runs on what state_ was then.     *)
Write(e) ==
  /\ MainGoes(e, "write", "idle")
  /\ \/ /\ WriteFile(e, sent[e] + 1)
        /\ sent' = [sent EXCEPT ![e] = @ + 1]
        /\ UNCHANGED state
     \/ /\ WriteStatus(e) # NoError
        /\ SetState(e, WriteStatus(e))
        /\ UNCHANGED <<pipeVars, sent>>
  /\ UNCHANGED <<handle, message, quit, ioPc, ioRet, delivered, told, closes>>

(* ~ThreadedMessageChannelWin, step by step: message_.clear() first.       *)
Destroy(e) ==
  /\ e \in Destroyers
  /\ MainGoes(e, "idle", "disconnect")
  /\ message' = [message EXCEPT ![e] = <<>>]
  /\ UNCHANGED <<pipeVars, state, handle, quit, ioPc, ioRet, history>>

DestroyDisconnect(e) ==
  /\ MainGoes(e, "disconnect", AfterDisconnect(e, "quit"))
  /\ DisconnectPipe(e)
  /\ UNCHANGED <<state, handle, message, quit, ioPc, ioRet, history>>

DestroyClose(e) ==
  /\ \/ /\ MainGoes(e, "close", "forget")
        /\ ResetPipe(e)
        /\ UNCHANGED handle
     \/ /\ MainGoes(e, "forget", "quit")
        /\ ForgetHandle(e)
        /\ UNCHANGED <<pipeVars, closes>>
  /\ UNCHANGED <<state, message, quit, ioPc, ioRet, sent, delivered, told>>

(* Mutant: no SetEvent.                                                    *)
DestroyQuitSilently(e) ==
  /\ \/ /\ MainGoes(e, "quit", "wake")
        /\ quit' = [quit EXCEPT ![e] = TRUE]
     \/ /\ MainGoes(e, "wake", "join")
        /\ UNCHANGED quit
  /\ UNCHANGED <<pipeVars, state, handle, message, ioPc, ioRet, history>>

DestroyQuit(e) ==
  /\ \/ /\ MainGoes(e, "quit", "wake")
        /\ quit' = [quit EXCEPT ![e] = TRUE]
        /\ UNCHANGED pipeVars
     \/ /\ MainGoes(e, "wake", "join")
        /\ SetEvent(e)
        /\ UNCHANGED <<pend, inbox, reading, apcs, connecting, quit>>
  /\ UNCHANGED <<state, handle, message, ioPc, ioRet, history>>

(* Mutant: detach() for join().                                            *)
DestroyDetach(e) ==
  /\ MainGoes(e, "join", "destroyed")
  /\ UNCHANGED <<pipeVars, state, handle, message, quit, ioPc, ioRet, history>>

DestroyJoin(e) ==
  /\ ioPc[e] \in {"none", "exited"}
  /\ MainGoes(e, "join", "destroyed")
  /\ UNCHANGED <<pipeVars, state, handle, message, quit, ioPc, ioRet, history>>

-----------------------------------------------------------------------------
(* The I/O thread                                                          *)

(* ConnectInternal: ask the pipe which end it is.                          *)
ConnectInternal(e) ==
  /\ \/ /\ ~IsServerHasValue(e)
        /\ IoGoes(e, "start", "exited")
     \/ /\ IsServerHasValue(e)
        /\ IoGoes(e, "start", IF e = Server THEN "connect" ELSE "clientUp")
  /\ UNCHANGED <<pipeVars, state, handle, message, quit, mainPc, ioRet, history>>

(* Mutant: no ResetEvent.                                                  *)
ClientConnectedKeepsEvent(e) ==
  /\ IoGoes(e, "clientUp", "read")
  /\ SetState(e, "Connected")
  /\ UNCHANGED <<pipeVars, handle, message, quit, mainPc, ioRet, history>>

(* ... the client is connected as it is.                                   *)
ClientConnected(e) ==
  /\ IoGoes(e, "clientUp", "read")
  /\ SetState(e, "Connected")
  /\ ResetEvent(e)
  /\ UNCHANGED <<pend, inbox, reading, apcs, connecting, handle, message, quit,
                 mainPc, ioRet, history>>

(* ConnectToClient.  A failed connect leaves state_ as it was and ends the *)
(* thread.                                                                 *)
ConnectToClient(e) ==
  /\ ConnectNamedPipe
  /\ \/ /\ ConnectStatus = "ERROR_IO_PENDING"
        /\ IoGoes(e, "connect", "wait")
        /\ SetState(e, "ConnectPending")
        /\ Tell(e, "pending")
     \/ /\ ConnectStatus = "ERROR_PIPE_CONNECTED"
        /\ IoGoes(e, "connect", "read")
        /\ SetState(e, "Connected")
        /\ Tell(e, "connected")
     \/ /\ ConnectStatus \in ErrorCodes
        /\ IoGoes(e, "connect", "exited")
        /\ Tell(e, "error")
        /\ UNCHANGED state
  /\ UNCHANGED <<handle, message, quit, mainPc, ioRet, sent, delivered, closes>>

(* Mutant: ERROR_MORE_DATA is taken for success.                           *)
ReadErrorIgnoresMoreData(e, c) ==
  IF c.err \notin {NoError, MoreData} THEN c.err ELSE ReadStatus(e)

(* What a read failed with: the error the completion came with or, when    *)
(* there is none, that of the ReadFileEx that follows it.                  *)
ReadError(e, c) == IF c.err # NoError THEN c.err ELSE ReadStatus(e)

(* Mutant: message_.assign for message_.append.                            *)
ReceivedAssigned(e, c) == IF c.msg > 0 THEN <<c.msg>> ELSE message[e]

(* message_ after the bytes read, if any, are appended.                    *)
Received(e, c) ==
  IF c.msg > 0 /\ MessageSize[Peer(e)] > 0
  THEN Append(message[e], c.msg) ELSE message[e]

(* ReadComplete with the completion c, while the completions "queued" wait *)
(* for the thread, called from "ret".  A failure sets state_, clears       *)
(* message_ (DisconnectAndClose) and goes on to close; otherwise what was  *)
(* read is kept and the next read is issued.                               *)
ReadComplete(e, c, queued, ret) ==
  /\ \/ /\ ReadError(e, c) # NoError
        /\ SetState(e, ReadError(e, c))
        /\ message' = [message EXCEPT ![e] = <<>>]
        /\ apcs' = [apcs EXCEPT ![e] = queued]
        /\ ioPc' = [ioPc EXCEPT ![e] = "disconnect"]
        /\ ioRet' = [ioRet EXCEPT ![e] = ret]
        /\ UNCHANGED <<pend, inbox, reading, connecting, event>>
     \/ /\ ReadError(e, c) = NoError
        /\ ReadFileEx(e, queued)
        /\ message' = [message EXCEPT ![e] = Received(e, c)]
        /\ ioPc' = [ioPc EXCEPT ![e] = ret]
        /\ UNCHANGED <<state, ioRet>>
  /\ UNCHANGED <<handle, quit, mainPc, history>>

(* ReadComplete(0, 0): the first read of a connection.                     *)
FirstRead(e) ==
  /\ ioPc[e] = "read"
  /\ ReadComplete(e, [err |-> NoError, msg |-> 0], apcs[e], "wait")

(* NamedPipeWin::DisconnectAndClose on this thread, then back to "ioRet".  *)
IoDisconnect(e) ==
  /\ IoGoes(e, "disconnect", AfterDisconnect(e, ioRet[e]))
  /\ DisconnectPipe(e)
  /\ ioRet' = [ioRet EXCEPT ![e] = IF handle[e] THEN @ ELSE "wait"]
  /\ UNCHANGED <<state, handle, message, quit, mainPc, history>>

IoClose(e) ==
  /\ \/ /\ IoGoes(e, "close", "forget")
        /\ ResetPipe(e)
        /\ UNCHANGED <<handle, ioRet>>
     \/ /\ IoGoes(e, "forget", ioRet[e])
        /\ ForgetHandle(e)
        /\ ioRet' = [ioRet EXCEPT ![e] = "wait"]
        /\ UNCHANGED <<pipeVars, closes>>
  /\ UNCHANGED <<state, message, quit, mainPc, sent, delivered, told>>

(* DoWait: the event is signaled.  In any state but ConnectPending and     *)
(* without quit_io_thread_ the loop goes round with the event still set.   *)
WaitObject(e) ==
  /\ event[e]
  /\ \/ /\ quit[e]
        /\ IoGoes(e, "wait", "exited")
     \/ /\ ~quit[e]
        /\ IoGoes(e, "wait", IF state[e] = "ConnectPending" THEN "accept" ELSE "wait")
  /\ UNCHANGED <<pipeVars, state, handle, message, quit, mainPc, ioRet, history>>

(* Mutants: state_ and the event are left as they are; no read follows.    *)
AcceptConnectionKeepsPending(e) ==
  /\ connecting = "ok"
  /\ IoGoes(e, "accept", "read")
  /\ UNCHANGED <<pipeVars, state, handle, message, quit, mainPc, ioRet, history>>
AcceptConnectionWithoutRead(e) ==
  /\ connecting = "ok"
  /\ IoGoes(e, "accept", "wait")
  /\ SetState(e, "Connected")
  /\ ResetEvent(e)
  /\ UNCHANGED <<pend, inbox, reading, apcs, connecting, handle, message, quit,
                 mainPc, ioRet, history>>

(* AcceptConnection: the result of the pending connect, then, when it      *)
(* succeeded, the event is reset and the first read follows.               *)
AcceptConnection(e) ==
  /\ \/ /\ connecting = "ok"
        /\ IoGoes(e, "accept", "read")
        /\ SetState(e, "Connected")
        /\ ResetEvent(e)
        /\ UNCHANGED told
     \/ /\ connecting # "ok"
        /\ IoGoes(e, "accept", "exited")
        /\ SetState(e, NotConnected)
        /\ Tell(e, "error")
        /\ UNCHANGED event
  /\ UNCHANGED <<pend, inbox, reading, apcs, connecting, handle, message, quit,
                 mainPc, ioRet, sent, delivered, closes>>

(* The alertable wait runs the queued completions one after the other      *)
(* before it returns: DoReadCompleteRoutine.                               *)
DoReadCompleteRoutine(e) ==
  /\ ioPc[e] \in {"wait", "apc"}
  /\ apcs[e] # <<>>
  /\ ReadComplete(e, Head(apcs[e]), Tail(apcs[e]), "apc")

(* DoWait: WAIT_IO_COMPLETION.                                             *)
WaitIoCompletion(e) ==
  /\ apcs[e] = <<>>
  /\ IoGoes(e, "apc", "handle")
  /\ UNCHANGED <<pipeVars, state, handle, message, quit, mainPc, ioRet, history>>

(* The notification an error code gets.                                    *)
Notice(code) ==
  IF code \in {Broken, NotConnected} THEN "disconnected" ELSE "error"

(* Mutants: no return after reporting; a failure that is not reported.     *)
HandleIOCompletionGoesOn(e) ==
  /\ IoGoes(e, "handle", "notify")
  /\ told' = IF IsInError(e)
             THEN [told EXCEPT ![e] = Append(@, Notice(state[e]))] ELSE told
  /\ UNCHANGED <<pipeVars, state, handle, message, quit, mainPc, ioRet,
                 sent, delivered, closes>>
HandleIOCompletionSwallows(e) ==
  /\ IoGoes(e, "handle", IF IsInError(e) THEN "wait" ELSE "notify")
  /\ UNCHANGED <<pipeVars, state, handle, message, quit, mainPc, ioRet, history>>

(* HandleIOCompletion: report an error, or go on to NotifyMessage.         *)
HandleIOCompletion(e) ==
  /\ \/ /\ IsInError(e)
        /\ IoGoes(e, "handle", "wait")
        /\ Tell(e, Notice(state[e]))
     \/ /\ ~IsInError(e)
        /\ IoGoes(e, "handle", "notify")
        /\ UNCHANGED told
  /\ UNCHANGED <<pipeVars, state, handle, message, quit, mainPc, ioRet,
                 sent, delivered, closes>>

(* Mutant: OnMessage gets a copy and message_ is kept.                     *)
NotifyMessageKeepsCopy(e) ==
  /\ IoGoes(e, "notify", "wait")
  /\ delivered' = [delivered EXCEPT ![e] = @ \o message[e]]
  /\ UNCHANGED <<pipeVars, state, handle, message, quit, mainPc, ioRet, sent, told, closes>>

(* NotifyMessage: everything read so far goes out in one OnMessage.        *)
NotifyMessage(e) ==
  /\ IoGoes(e, "notify", "wait")
  /\ delivered' = [delivered EXCEPT ![e] = @ \o message[e]]
  /\ message' = [message EXCEPT ![e] = <<>>]
  /\ UNCHANGED <<pipeVars, state, handle, quit, mainPc, ioRet, sent, told, closes>>

-----------------------------------------------------------------------------
Creation ==
  \/ CreateServerPipe
  \/ CreateClientPipe
  \/ \E e \in Ends : CreateFails(e)

(* What the program decides to do, and the steps that are then bound to    *)
(* follow because the code runs on.                                        *)
MainChoice(e) ==
  \/ ConnectOnIOThread(e)
  \/ BeginSend(e)
  \/ Destroy(e)

MainRuns(e) ==
  \/ e = Client /\ SetReadMode
  \/ Write(e)
  \/ DestroyDisconnect(e)
  \/ DestroyClose(e)
  \/ DestroyQuit(e)
  \/ DestroyJoin(e)

IoThread(e) ==
  \/ ConnectInternal(e)
  \/ ClientConnected(e)
  \/ e = Server /\ ConnectToClient(e)
  \/ FirstRead(e)
  \/ IoDisconnect(e)
  \/ IoClose(e)
  \/ WaitObject(e)
  \/ AcceptConnection(e)
  \/ DoReadCompleteRoutine(e)
  \/ WaitIoCompletion(e)
  \/ HandleIOCompletion(e)
  \/ NotifyMessage(e)

Next ==
  \/ Creation
  \/ \E e \in Ends : MainChoice(e) \/ MainRuns(e) \/ IoThread(e)

Spec == Init /\ [][Next]_vars

(* The operating system keeps running both threads.  Creating the pipes,   *)
(* starting the I/O thread, sending and destroying are the user's choice   *)
(* and get no fairness.                                                    *)
Fairness == \A e \in Ends : WF_vars(MainRuns(e)) /\ WF_vars(IoThread(e))

FairSpec == Spec /\ Fairness
=============================================================================
