--------------------------- MODULE ChannelProperties --------------------------
(***************************************************************************)
(* What ThreadedMessageChannelWin promises its user, and what the comments *)
(* in its source say of it.                                                *)
(***************************************************************************)
EXTENDS MessageChannel

(* The destructor of end e has begun or is over.                           *)
Destroying(e) == mainPc[e] \in Destructor \cup {"destroyed"}

Numbers(seq, n) == seq = [i \in 1..n |-> i]

(* Messages reach OnMessage in the order they were sent, none twice and    *)
(* none that was not sent; and until the receiver's own destructor clears  *)
(* message_, none is skipped, whatever error has struck.                   *)
InOrder ==
  \A e \in Ends :
    /\ \A i, j \in 1..Len(delivered[e]) :
         i < j => delivered[e][i] < delivered[e][j]
    /\ \A i \in 1..Len(delivered[e]) : delivered[e][i] <= sent[Peer(e)]
    /\ ~Destroying(e) => Numbers(delivered[e], Len(delivered[e]))

(* The message that has arrived with a completion the I/O thread has not   *)
(* run yet, if there is one: a failed read brings none.  There is never    *)
(* more than one completion, see OneReadOutstanding.                       *)
MessageOf(queued) ==
  IF queued = <<>> \/ Head(queued).msg = 0 THEN <<>> ELSE <<Head(queued).msg>>

Arriving(e) == MessageOf(apcs[e])

ReadFailed(e) == \E i \in 1..Len(apcs[e]) : apcs[e][i].err # NoError

(* The abstract channel (MessageStream) in which end r receives.           *)
StreamPhase(r) ==
  CASE mainPc[r] \in {"destroyed", "gone"} -> "gone"
    [] mainPc[r] \in Destructor -> "dying"
    [] OTHER -> IF pend[r] \in {"detached", "closed"} \/ IsInError(r) \/ ReadFailed(r)
                THEN "cut" ELSE "up"

InTransit(r) == message[r] \o Arriving(r) \o inbox[r]

Stream(r) == INSTANCE MessageStream WITH
  sent <- sent[Peer(r)], queue <- InTransit(r),
  delivered <- delivered[r], phase <- StreamPhase(r)

(* For messages that fit the read buffer, each direction of the channel    *)
(* implements a message stream: the I/O thread, the destructors of both    *)
(* ends, the errors and the disconnects together never lose, double or     *)
(* reorder more than the stream allows at that phase.                      *)
Streams ==
  /\ \A r \in Ends : Stream(r)!Init
  /\ [][\A r \in Ends : Stream(r)!Next \/ UNCHANGED Stream(r)!vars]_vars

(* read_buf_ and context_ serve one read: at most one ReadFileEx is in     *)
(* flight or waits for its routine, and none is when the first read of a   *)
(* connection is about to be issued.                                       *)
OneReadOutstanding ==
  \A e \in Ends :
    LET outstanding == Len(apcs[e]) + IF reading[e] THEN 1 ELSE 0 IN
    /\ outstanding <= 1
    /\ ioPc[e] \in {"start", "clientUp", "connect", "accept", "read"} => outstanding = 0

(* When the destructor returns, the I/O thread has ended, so no callback   *)
(* can follow, and the kernel holds no pointer into the freed object: no   *)
(* read into read_buf_ and no connect on io_overlapped_ is in flight.      *)
NothingUsedAfterFree ==
  \A e \in Ends :
    mainPc[e] = "destroyed" =>
      /\ ioPc[e] \in {"none", "exited"}
      /\ ~reading[e]
      /\ e = Server => connecting # "pending"

(* The manual-reset event is created signaled and DoWait never resets it:  *)
(* a wait that finds it signaled has a connect to accept or a thread to    *)
(* end, else the I/O thread would spin.                                    *)
NoBusyLoop ==
  \A e \in Ends :
    ioPc[e] = "wait" /\ event[e] => quit[e] \/ state[e] = "ConnectPending"

(* A pipe handle is closed twice only when both threads of an end are      *)
(* inside pipe_.reset() at once.                                           *)
SecondCloseIsARace ==
  [][\A e \in Ends :
       closes'[e] > closes[e] /\ closes[e] > 0 =>
         {mainPc[e], mainPc'[e]} \cup {ioPc[e], ioPc'[e]} = {"close", "forget"}]_vars

(* A channel that is in error stays in error until it is destroyed.        *)
ErrorIsFinal == [][\A e \in Ends : IsInError(e) => IsInError(e)']_vars

(* Once a delegate has heard kDisconnected or OnError it gets no message   *)
(* and no good news any more: it can only hear of failure again.           *)
HeardOfFailure(e) ==
  \E i \in 1..Len(told[e]) : told[e][i] \in {"disconnected", "error"}

NothingAfterFailure ==
  [][\A e \in Ends : HeardOfFailure(e) =>
       /\ delivered'[e] = delivered[e]
       /\ \A i \in Len(told[e]) + 1 .. Len(told'[e]) :
            told'[e][i] \in {"disconnected", "error"}]_vars

(* A message the read buffer cannot take, or an empty one, is never handed *)
(* out, not even in part.                                                  *)
NoMisfitDelivered ==
  \A e \in Ends :
    MessageSize[Peer(e)] \notin 1..ReadBufSize => delivered[e] = <<>>

-----------------------------------------------------------------------------
(* Inductive strengthenings                                                *)

(* state_ follows the I/O thread until it has connected, so neither thread *)
(* can take a channel out of StateError.                                   *)
StateFollowsThread(e) ==
  /\ ioPc[e] \in {"none", "start", "clientUp", "connect"} => state[e] = "Init"
  /\ ioPc[e] = "accept" => state[e] = "ConnectPending"
  /\ mainPc[e] = "write" => state[e] = "Connected" \/ IsInError(e)

(* A channel's handle is in pipe_ or closed; past pipe_.reset() it is      *)
(* closed, and nothing is in flight on a closed handle.                    *)
HandleAccounted(e) ==
  /\ mainPc[e] = "create" => pend[e] = "absent"
  /\ mainPc[e] = "mode" => pend[e] # "absent"
  /\ mainPc[e] \in {"idle", "write", "destroyed"} \cup Destructor =>
       pend[e] # "absent" /\ (handle[e] \/ pend[e] = "closed")
  /\ mainPc[e] \in {"forget", "quit", "wake", "join", "destroyed"} => pend[e] = "closed"
  /\ ioPc[e] = "forget" => pend[e] = "closed"
  /\ ioPc[e] # "none" => mainPc[e] \notin {"create", "mode", "gone"}
  /\ mainPc[e] = "destroyed" => ioPc[e] \in {"none", "exited"}
  /\ pend[e] = "closed" => ~reading[e] /\ (e = Server => connecting # "pending")

-----------------------------------------------------------------------------
(* Liveness, under FairSpec                                                *)

(* What has been sent to an end whose I/O thread has been started is       *)
(* handed out, all of it and in order, unless the receiver's channel fails *)
(* or is destroyed.                                                        *)
EventuallyDelivered ==
  \A e \in Ends :
    (Len(delivered[e]) < sent[Peer(e)] /\ ioPc[e] # "none") ~>
      \/ Numbers(delivered[e], sent[Peer(e)])
      \/ IsInError(e) \/ HeardOfFailure(e) \/ Destroying(e)

(* A read that completes with an error, or cannot be started by the        *)
(* routine of the one before it, is reported to the delegate.              *)
ReadFailureReported ==
  \A e \in Ends :
    \/ ReadFailed(e)
    \/ ioPc[e] = "disconnect" /\ ioRet[e] = "apc"
    ~> HeardOfFailure(e) \/ Destroying(e)

(* No event reset of the I/O thread is ahead: it has ended or was never    *)
(* started, it has connected for good, or its connect has failed.          *)
Settled(e) ==
  \/ ioPc[e] \in {"none", "exited"}
  \/ ioPc[e] \notin {"clientUp", "accept"} /\ (state[e] = "Connected" \/ IsInError(e))
  \/ state[e] = "ConnectPending" /\ connecting = "failed"

(* A destructor that begins when the I/O thread cannot reset the event     *)
(* under it returns.                                                       *)
DestructorReturns ==
  \A e \in Ends :
    (mainPc[e] = "disconnect" /\ Settled(e)) ~> mainPc[e] = "destroyed"

-----------------------------------------------------------------------------
(* What comments in the source say and the code does not do                *)

(* "All error condition updates happen on IO thread."                      *)
(* (threaded_message_channel_win.h:43): no step of the main thread puts    *)
(* the channel in error.                                                   *)
ErrorUpdatesOnIOThread ==
  [][\A e \in Ends : ~IsInError(e) /\ IsInError(e)' => ioPc'[e] # ioPc[e]]_vars

(* "This should cause the IO Thread loop to break" (the destructor,        *)
(* threaded_message_channel_win.cpp:37): once it runs, DoWait returns.     *)
DestructorBreaksLoop ==
  \A e \in Ends :
    (mainPc[e] \in Destructor /\ ioPc[e] # "none") ~> ioPc[e] = "exited"

(* "If IO failed, we would have set the error."                            *)
(* (threaded_message_channel_win.cpp:149): an error the delegate heard of  *)
(* is one IsInError knows.                                                 *)
ReportedErrorIsRecorded ==
  \A e \in Ends :
    (~Destroying(e) /\ \E i \in 1..Len(told[e]) : told[e][i] = "error")
      => IsInError(e)
=============================================================================
