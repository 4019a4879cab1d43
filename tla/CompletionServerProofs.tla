------------------------- MODULE CompletionServerProofs -----------------------
(***************************************************************************)
(* Theorems about CompletionServer, for every number of messages and every *)
(* interleaving of the main thread, the I/O thread and the client.         *)
(***************************************************************************)
EXTENDS CompletionServer, SequenceFacts

(* What oConnect is used for at the moment.                                *)
Unread   == ~reading /\ apcs = <<>>
OneRead  == Len(apcs) <= 1 /\ (reading => apcs = <<>>)

(* The connect comes first: no read is started before it has ended, which  *)
(* its event tells once, to the one wait that starts the first read.  A    *)
(* connect that did not succeed later starts none.                         *)
ConnectFirst ==
  /\ mainPc = "create" => ioPc = "none"
  /\ ioPc \in {"none", "connect"} => connect = "none" /\ connect_status = "kConnecting"
  /\ connect # "ok" =>
       /\ Unread
       /\ ioPc \in {"none", "connect", "connected", "wait", "failed", "exited"}
  /\ connect = "pending" => ioPc = "wait" /\ connect_status = "kConnecting"
  /\ ioPc = "connected" => connect = "failed" /\ connect_status = "kConnected"
  /\ ioPc = "failed" => connect = "failed"
  /\ connect = "ok" => ioPc \notin {"none", "connect", "connected", "failed"}
  /\ connect = "ok" /\ connect_status = "kConnecting" => hConnectEvent
  /\ hConnectEvent => \/ ioPc = "exited"
                      \/ ioPc = "wait" /\ connect_status = "kConnecting" /\ Unread
  /\ ioPc = "read" => connect_status = "kConnected" /\ Unread

(* The pipe is closed by a step that writes kError, when the last read has *)
(* been reported.  With kError and an open pipe the I/O thread has ended.  *)
ClosedWithError ==
  /\ closes = 1 <=> conn = "closed"
  /\ closes = 1 => connect_status = "kError"
  /\ connect_status = "kError" => Unread /\ ioPc \in {"tell", "routines", "completion", "exited"}
  /\ connect_status = "kError" /\ closes = 0 => ioPc = "exited"

(* The main thread ends for an error only.                                 *)
EndedByError == mainPc \in {"join", "exited"} => connect_status = "kError"

Inv == TypeOK /\ OneRead /\ ConnectFirst /\ ClosedWithError /\ EndedByError /\ NoLostWakeup

-----------------------------------------------------------------------------
LEMMA ResultType == \A m \in Messages : Result(m) \in Results
  BY DEF Messages, Results, Result

(* A completion routine that runs when nothing else is outstanding either  *)
(* starts one read, or closes the pipe and leaves nothing outstanding.     *)
LEMMA RoutineSteps ==
  ASSUME TypeOK, ~reading, closes = 0,
         NEW result \in Results, ReadCompleteRoutine(result, <<>>)
  PROVE  /\ \/ /\ OneRead' /\ closes' = 0
               /\ UNCHANGED <<conn, connect_status>>
            \/ /\ Unread' /\ closes' = 1
               /\ conn' = "closed" /\ connect_status' = "kError"
         /\ apcs' \in Seq(Results) /\ inbox' \in Seq(Messages) /\ reading' \in BOOLEAN
         /\ UNCHANGED <<connect, written>>
  <1>1. CASE result = "ok" /\ CanRead /\ ReadFileEx(<<>>)
    <2>1. CASE inbox = <<>>
      BY <1>1, <2>1, EmptySeq, SeqFacts DEF ReadFileEx, TypeOK, OneRead
    <2>2. CASE inbox # <<>>
      <3>1. /\ Result(Head(inbox)) \in Results
            /\ Tail(inbox) \in Seq(Messages)
        BY <2>2, SeqFacts, ResultType DEF TypeOK
      <3>2. /\ Append(<<>>, Result(Head(inbox))) \in Seq(Results)
            /\ Len(Append(<<>>, Result(Head(inbox)))) = 1
        BY <3>1, SeqFacts, EmptySeq
      <3>3. UNCHANGED <<reading, conn, connect_status, connect, written, closes>>
        BY <1>1, <2>2 DEF ReadFileEx
      <3>4. apcs' \in Seq(Results) /\ Len(apcs') = 1 /\ inbox' \in Seq(Messages)
        BY <1>1, <2>2, <3>1, <3>2 DEF ReadFileEx
      <3> QED
        BY <3>3, <3>4 DEF OneRead, TypeOK
    <2> QED
      BY <2>1, <2>2
  <1>2. CASE connect_status' = "kError" /\ apcs' = <<>> /\ DisconnectAndClose
    BY <1>2, EmptySeq DEF DisconnectAndClose, Unread, TypeOK
  <1> QED
    BY <1>1, <1>2 DEF ReadCompleteRoutine

-----------------------------------------------------------------------------
(* The invariant                                                           *)

Flags == hPipeEvents \in BOOLEAN /\ hConnectEvent \in BOOLEAN /\ reading \in BOOLEAN

LEMMA FlagsKept == Flags /\ [Next]_vars => Flags'
  <1> USE DEF Flags
  <1>1. Flags /\ ClientStep => Flags'
    BY Zenon DEF ClientStep, ClientOpens, ClientWrites, ClientCloses
  <1>2. Flags /\ (CreateAndConnectInstance \/ MainThread) => Flags'
    BY Zenon DEF CreateAndConnectInstance, MainThread, MainWaits, MainReadsStatus, MainJoins, pipe
  <1>3. ASSUME Flags, NEW result, NEW queued, ReadCompleteRoutine(result, queued)
        PROVE  reading' \in BOOLEAN
    BY <1>3, Zenon DEF ReadCompleteRoutine, ReadFileEx, DisconnectAndClose
  <1>4. Flags /\ IoThread => Flags'
    BY <1>3, Zenon DEF IoThread, ConnectNamedPipe, SignalConnected, WaitObject, ConnectError,
         FirstRead, RunRoutine, WaitIoCompletion, HandleCompletion, pipe
  <1>5. Flags /\ Failure => Flags'
    BY Zenon DEF Failure, CreateEventFails, WaitFails, ConnectFails, pipe
  <1> QED
    BY <1>1, <1>2, <1>4, <1>5 DEF Next, vars

LEMMA InitInv == Init => Inv
  <1>1. <<>> \in Seq(Results) /\ <<>> \in Seq(Messages) /\ Len(<<>>) = 0
    BY EmptySeq
  <1>2. Init => TypeOK
    <2>1. Init => Flags
      BY Zenon DEF Init, Flags
    <2> QED
      BY <1>1, <2>1, MessagesAssumption DEF Init, TypeOK, Flags
  <1>3. Init => OneRead
    BY <1>1 DEF Init, OneRead
  <1>4. Init => ConnectFirst
    BY DEF Init, ConnectFirst, Unread
  <1>5. Init => ClosedWithError /\ EndedByError /\ NoLostWakeup
    BY DEF Init, ClosedWithError, EndedByError, NoLostWakeup
  <1> QED
    BY <1>2, <1>3, <1>4, <1>5 DEF Inv

(* A client that comes while the server waits ends the connect and sets    *)
(* its event; what it does later completes a read that is in flight.       *)
LEMMA ClientInv == Inv /\ ClientStep => Inv'
  <1> SUFFICES ASSUME Inv, ClientStep, Flags'
               PROVE  Inv'
    BY FlagsKept DEF Inv, TypeOK, Flags, Next
  <1> USE MessagesAssumption
          DEF Inv, TypeOK, OneRead, Unread, ConnectFirst, ClosedWithError, EndedByError,
              NoLostWakeup, Flags
  <1>1. CASE ClientOpens
    BY <1>1 DEF ClientOpens
  <1>2. ASSUME NEW m \in Messages, ClientWrites(m)
        PROVE  Inv'
    <2>1. /\ Append(inbox, m) \in Seq(Messages)
          /\ Append(apcs, Result(m)) \in Seq(Results)
          /\ Append(apcs, Result(m)) # <<>>
          /\ Len(Append(apcs, Result(m))) = Len(apcs) + 1
          /\ Len(apcs) = 0 <=> apcs = <<>>
      BY SeqFacts, ResultType
    <2> QED
      BY <1>2, <2>1, SMTT(30) DEF ClientWrites
  <1>3. CASE ClientCloses
    <2>1. "failed" \in Results
      BY DEF Results
    <2>2. /\ Append(apcs, "failed") \in Seq(Results)
          /\ Append(apcs, "failed") # <<>>
          /\ Len(Append(apcs, "failed")) = Len(apcs) + 1
          /\ Len(apcs) = 0 <=> apcs = <<>>
      BY <2>1, SeqFacts
    <2> QED
      BY <1>3, <2>2 DEF ClientCloses
  <1> QED
    BY <1>1, <1>2, <1>3 DEF ClientStep

LEMMA MainInv == Inv /\ (CreateAndConnectInstance \/ MainThread) => Inv'
  <1> SUFFICES ASSUME Inv, CreateAndConnectInstance \/ MainThread, Flags'
               PROVE  Inv'
    BY FlagsKept DEF Inv, TypeOK, Flags, Next
  <1> USE DEF Inv, TypeOK, OneRead, Unread, ConnectFirst, ClosedWithError, EndedByError,
              NoLostWakeup, Flags
  <1>1. CASE CreateAndConnectInstance
    BY <1>1 DEF CreateAndConnectInstance
  <1>2. CASE MainWaits
    BY <1>2 DEF MainWaits, pipe
  <1>3. CASE MainReadsStatus
    BY <1>3 DEF MainReadsStatus, pipe
  <1>4. CASE MainJoins
    BY <1>4 DEF MainJoins, pipe
  <1> QED
    BY <1>1, <1>2, <1>3, <1>4 DEF MainThread

(* A read is started by the wait that takes the event of the connect and   *)
(* by the routine of the read before it; each finds nothing outstanding.   *)
LEMMA IoInv == Inv /\ IoThread => Inv'
  <1> SUFFICES ASSUME Inv, IoThread, Flags'
               PROVE  Inv'
    BY FlagsKept DEF Inv, TypeOK, Flags, Next
  <1> USE DEF Inv, TypeOK, OneRead, Unread, ConnectFirst, ClosedWithError, EndedByError,
              NoLostWakeup, IoGoes, Flags
  <1>1. CASE ConnectNamedPipe
    BY <1>1 DEF ConnectNamedPipe
  <1>2. CASE SignalConnected
    BY <1>2 DEF SignalConnected, pipe
  <1>3. CASE WaitObject
    BY <1>3 DEF WaitObject, pipe
  <1>4. CASE ConnectError
    BY <1>4 DEF ConnectError, pipe
  <1>5. CASE FirstRead
    <2>1. CASE IoGoes("read", "tell") /\ ReadCompleteRoutine("ok", apcs) /\ UNCHANGED hPipeEvents
      <3>1. "ok" \in Results /\ apcs = <<>> /\ ~reading /\ closes = 0
        BY <2>1 DEF Results
      <3>2. /\ \/ /\ OneRead' /\ closes' = 0
                  /\ UNCHANGED <<conn, connect_status>>
               \/ /\ Unread' /\ closes' = 1
                  /\ conn' = "closed" /\ connect_status' = "kError"
            /\ apcs' \in Seq(Results) /\ inbox' \in Seq(Messages) /\ reading' \in BOOLEAN
            /\ UNCHANGED <<connect, written>>
        BY <2>1, <3>1, RoutineSteps
      <3> QED
        BY <1>5, <2>1, <3>1, <3>2 DEF FirstRead
    <2>2. CASE IoGoes("tell", "completion") /\ hPipeEvents' = TRUE /\ UNCHANGED <<connect_status, pipe>>
      BY <1>5, <2>2 DEF FirstRead, pipe
    <2> QED
      BY <1>5, <2>1, <2>2 DEF FirstRead
  <1>6. CASE RunRoutine
    <2>1. Head(apcs) \in Results /\ Tail(apcs) = <<>> /\ ~reading /\ closes = 0
      <3>1. apcs # <<>> /\ apcs \in Seq(Results) /\ Len(apcs) <= 1
        BY <1>6 DEF RunRoutine
      <3>2. ~reading /\ closes = 0
        BY <3>1
      <3> QED
        BY <3>1, <3>2, LastOne
    <2>2. /\ \/ /\ OneRead' /\ closes' = 0
                /\ UNCHANGED <<conn, connect_status>>
             \/ /\ Unread' /\ closes' = 1
                /\ conn' = "closed" /\ connect_status' = "kError"
          /\ apcs' \in Seq(Results) /\ inbox' \in Seq(Messages) /\ reading' \in BOOLEAN
          /\ UNCHANGED <<connect, written>>
      BY <1>6, <2>1, RoutineSteps DEF RunRoutine
    <2> QED
      BY <1>6, <2>1, <2>2 DEF RunRoutine
  <1>7. CASE WaitIoCompletion
    BY <1>7 DEF WaitIoCompletion, pipe
  <1>8. CASE HandleCompletion
    BY <1>8 DEF HandleCompletion, pipe
  <1> QED
    BY <1>1, <1>2, <1>3, <1>4, <1>5, <1>6, <1>7, <1>8 DEF IoThread

(* A failure ends the I/O thread or the connect; nothing is outstanding on *)
(* oConnect afterwards.                                                    *)
LEMMA FailureInv == Inv /\ Failure => Inv'
  <1> SUFFICES ASSUME Inv, Failure, Flags'
               PROVE  Inv'
    BY FlagsKept DEF Inv, TypeOK, Flags, Next
  <1> USE DEF Inv, TypeOK, OneRead, Unread, ConnectFirst, ClosedWithError, EndedByError,
              NoLostWakeup, IoGoes, Flags
  <1>1. CASE CreateEventFails
    BY <1>1 DEF CreateEventFails, pipe
  <1>2. CASE WaitFails
    BY <1>2, EmptySeq DEF WaitFails
  <1>3. CASE ConnectFails
    BY <1>3 DEF ConnectFails
  <1> QED
    BY <1>1, <1>2, <1>3 DEF Failure

LEMMA Invariant == Spec => []Inv
  <1>1. Inv /\ UNCHANGED vars => Inv'
    BY DEF vars, Inv, TypeOK, OneRead, Unread, ConnectFirst, ClosedWithError, EndedByError,
           NoLostWakeup
  <1>2. Inv /\ [Next]_vars => Inv'
    BY <1>1, ClientInv, MainInv, IoInv, FailureInv DEF Next
  <1> QED
    BY <1>2, InitInv, PTL DEF Spec

-----------------------------------------------------------------------------
(* The variables of the server keep their types.                           *)
THEOREM TypeCorrect == Spec => []TypeOK
  <1>1. Inv => TypeOK
    BY DEF Inv
  <1> QED
    BY <1>1, Invariant, PTL

(* oConnect never serves two operations at a time, although it is shared   *)
(* by the connect, by the first read that ConnectToNewClient starts itself *)
(* and by those its completion routine starts; none is outstanding on the  *)
(* closed handle, which is closed once, for an error that stays recorded.  *)
THEOREM OneOperationAtATime == Spec => []OneOperation
  <1>1. Inv => OneOperation
    <2> SUFFICES ASSUME Inv
                 PROVE  OneOperation
      OBVIOUS
    <2>1. Len(apcs) \in Nat /\ (Len(apcs) = 0 <=> apcs = <<>>)
      BY SeqFacts DEF Inv, TypeOK
    <2>2. /\ Len(apcs) <= 1 /\ (reading => Len(apcs) = 0)
          /\ connect = "pending" \/ conn = "closed" => ~reading /\ Len(apcs) = 0
          /\ connect = "pending" => conn # "closed"
          /\ closes > 0 => closes = 1 /\ conn = "closed" /\ connect_status = "kError"
      BY <2>1 DEF Inv, TypeOK, OneRead, Unread, ConnectFirst, ClosedWithError
    <2>3. CASE reading
      BY <2>1, <2>2, <2>3 DEF OneOperation
    <2>4. CASE ~reading
      BY <2>1, <2>2, <2>4 DEF OneOperation
    <2> QED
      BY <2>3, <2>4
  <1> QED
    BY <1>1, Invariant, PTL

(* The SetEvent for a failed read is not lost to the one of the connect,   *)
(* whose wait may look at connect_status before or after the error is      *)
(* written: when the I/O thread has closed the pipe and ended, a main      *)
(* thread that still waits is woken.  The exits that leave the pipe open   *)
(* do lose it, and the theorem does not speak of them.                     *)
THEOREM WakeupKept == Spec => []NoLostWakeup
  <1>1. Inv => NoLostWakeup
    BY DEF Inv
  <1> QED
    BY <1>1, Invariant, PTL
=============================================================================
