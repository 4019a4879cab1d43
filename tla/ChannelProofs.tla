---------------------------- MODULE ChannelProofs -----------------------------
(***************************************************************************)
(* Theorems about MessageChannel, for every capacity, buffer and message   *)
(* size, every number of messages and every choice of who destroys what:   *)
(* its types, its error state, its destructor, and what its reads, its     *)
(* event and its handle go through.                                        *)
(***************************************************************************)
EXTENDS ChannelProperties, SequenceFacts

-----------------------------------------------------------------------------
(* What the pipe's operations preserve                                     *)

LEMMA EndsFacts ==
  /\ Server \in Ends /\ Client \in Ends /\ Server # Client
  /\ \A e \in Ends : Peer(e) \in Ends
  BY DEF Server, Client, Ends, Peer

LEMMA StatusType ==
  ASSUME NEW e \in Ends
  PROVE  /\ ReadStatus(e) \in {NoError} \cup ErrorCodes
         /\ WriteStatus(e) \in {NoError} \cup ErrorCodes
  BY DEF ReadStatus, WriteStatus, ErrorCodes, NoError, Broken, NotConnected,
         NoData, BadHandle, IsOpen

LEMMA CompletionType ==
  ASSUME NEW e \in Ends, NEW m \in Nat
  PROVE  Completion(e, m) \in Completions
  BY DEF Completion, Completions, ErrorCodes, MoreData, NoError

LEMMA FailReadsType ==
  ASSUME PipeTypeOK, NEW code \in ErrorCodes, FailReads(code)
  PROVE  /\ apcs' \in [Ends -> Seq(Completions)]
         /\ reading' \in [Ends -> BOOLEAN]
  <1>1. [err |-> code, msg |-> 0] \in Completions
    BY DEF Completions
  <1>2. \A e \in Ends : Append(apcs[e], [err |-> code, msg |-> 0]) \in Seq(Completions)
    BY <1>1, AppendProperties DEF PipeTypeOK
  <1> QED
    BY <1>2 DEF FailReads, PipeTypeOK

LEMMA FailConnectType ==
  ASSUME PipeTypeOK, FailConnect
  PROVE  /\ connecting' \in {"idle", "pending", "ok", "failed"}
         /\ event' \in [Ends -> BOOLEAN]
  BY EndsFacts DEF FailConnect, SetEvent, PipeTypeOK

LEMMA CreateType ==
  ASSUME PipeTypeOK, CreateNamedPipe \/ CreateFile \/ ConnectNamedPipe
  PROVE  PipeTypeOK'
  BY EndsFacts DEF CreateNamedPipe, CreateFile, ConnectNamedPipe, SetEvent, PipeTypeOK, IsOpen

LEMMA ReadFileExType ==
  ASSUME PipeTypeOK, NEW e \in Ends, NEW queued \in Seq(Completions),
         ReadFileEx(e, queued)
  PROVE  PipeTypeOK'
  <1>1. inbox[e] # <<>> =>
          /\ Tail(inbox[e]) \in Seq(Nat)
          /\ Append(queued, Completion(e, Head(inbox[e]))) \in Seq(Completions)
    BY CompletionType, HeadTailProperties, AppendProperties DEF PipeTypeOK
  <1>2. apcs' \in [Ends -> Seq(Completions)]
    BY <1>1 DEF ReadFileEx, PipeTypeOK
  <1>3. inbox' \in [Ends -> Seq(Nat)]
    BY <1>1 DEF ReadFileEx, PipeTypeOK
  <1>4. reading' \in [Ends -> BOOLEAN]
    BY DEF ReadFileEx, PipeTypeOK
  <1> QED
    BY <1>2, <1>3, <1>4 DEF ReadFileEx, PipeTypeOK

LEMMA WriteFileType ==
  ASSUME PipeTypeOK, NEW e \in Ends, NEW m \in Nat, WriteFile(e, m)
  PROVE  PipeTypeOK'
  <1>1. /\ Append(apcs[Peer(e)], Completion(Peer(e), m)) \in Seq(Completions)
        /\ Append(inbox[Peer(e)], m) \in Seq(Nat)
    BY EndsFacts, CompletionType, AppendProperties DEF PipeTypeOK
  <1>2. apcs' \in [Ends -> Seq(Completions)]
    BY <1>1, EndsFacts DEF WriteFile, PipeTypeOK
  <1>3. inbox' \in [Ends -> Seq(Nat)]
    BY <1>1, EndsFacts DEF WriteFile, PipeTypeOK
  <1>4. reading' \in [Ends -> BOOLEAN]
    BY EndsFacts DEF WriteFile, PipeTypeOK
  <1> QED
    BY <1>2, <1>3, <1>4 DEF WriteFile, PipeTypeOK

LEMMA CloseType ==
  ASSUME PipeTypeOK, NEW e \in Ends, DisconnectNamedPipe \/ CloseHandle(e)
  PROVE  PipeTypeOK'
  <1>1. CASE DisconnectNamedPipe
    <2>1. NotConnected \in ErrorCodes
      BY DEF ErrorCodes
    <2> QED
      BY <1>1, <2>1, FailReadsType, FailConnectType DEF DisconnectNamedPipe, PipeTypeOK
  <1>2. CASE CloseHandle(e)
    <2>1. Broken \in ErrorCodes
      BY DEF ErrorCodes
    <2> QED
      BY <1>2, <2>1, FailReadsType, FailConnectType DEF CloseHandle, PipeTypeOK
  <1> QED
    BY <1>1, <1>2

-----------------------------------------------------------------------------
(* Type correctness                                                        *)

LEMMA DisconnectType ==
  ASSUME PipeTypeOK, NEW e \in Ends,
         DisconnectPipe(e) \/ ResetPipe(e) \/ UNCHANGED pipeVars
  PROVE  PipeTypeOK'
  <1>1. CASE UNCHANGED pipeVars
    BY <1>1 DEF PipeTypeOK, pipeVars
  <1> QED
    BY <1>1, CloseType DEF DisconnectPipe, ResetPipe

LEMMA ResetType ==
  ASSUME TypeOK, NEW e \in Ends,
         \/ ResetPipe(e) /\ UNCHANGED handle
         \/ ForgetHandle(e) /\ UNCHANGED <<pipeVars, closes>>
  PROVE  PipeTypeOK' /\ handle' \in [Ends -> BOOLEAN] /\ closes' \in [Ends -> Nat]
  <1>1. CASE ResetPipe(e) /\ UNCHANGED handle
    <2>1. closes[e] + (IF handle[e] THEN 1 ELSE 0) \in Nat
      BY DEF TypeOK, ChannelTypeOK
    <2> QED
      BY <1>1, <2>1, DisconnectType DEF ResetPipe, TypeOK, ChannelTypeOK
  <1>2. CASE ForgetHandle(e) /\ UNCHANGED <<pipeVars, closes>>
    BY <1>2, DisconnectType DEF ForgetHandle, TypeOK, ChannelTypeOK
  <1> QED
    BY <1>1, <1>2

LEMMA TellType ==
  ASSUME ChannelTypeOK, NEW e \in Ends, NEW notice \in Notices
  PROVE  [told EXCEPT ![e] = Append(@, notice)] \in [Ends -> Seq(Notices)]
  <1>1. Append(told[e], notice) \in Seq(Notices)
    BY AppendProperties DEF ChannelTypeOK
  <1> QED
    BY <1>1 DEF ChannelTypeOK

(* What the steps that assign state_ from a result make of it.             *)
LEMMA WriteState ==
  ASSUME NEW e \in Ends, Write(e)
  PROVE  \/ state' = state
         \/ /\ state' = [state EXCEPT ![e] = WriteStatus(e)]
            /\ WriteStatus(e) \in ErrorCodes
  BY StatusType DEF Write, SetState

LEMMA ReadCompleteState ==
  ASSUME NEW e \in Ends, NEW c \in Completions, NEW queued, NEW ret,
         ReadComplete(e, c, queued, ret)
  PROVE  \/ /\ state' = state
            /\ message' = [message EXCEPT ![e] = Received(e, c)]
            /\ ioPc' = [ioPc EXCEPT ![e] = ret]
            /\ UNCHANGED ioRet
         \/ /\ state' = [state EXCEPT ![e] = ReadError(e, c)]
            /\ ReadError(e, c) \in ErrorCodes
            /\ message' = [message EXCEPT ![e] = <<>>]
            /\ ioPc' = [ioPc EXCEPT ![e] = "disconnect"]
            /\ ioRet' = [ioRet EXCEPT ![e] = ret]
  <1>1. ReadError(e, c) # NoError => ReadError(e, c) \in ErrorCodes
    BY StatusType DEF ReadError, Completions
  <1>2. CASE ReadError(e, c) = NoError
    BY <1>2 DEF ReadComplete
  <1>3. CASE ReadError(e, c) # NoError
    BY <1>1, <1>3 DEF ReadComplete, SetState
  <1> QED
    BY <1>2, <1>3

LEMMA ConnectState ==
  ASSUME NEW e \in Ends, ConnectToClient(e)
  PROVE  \E s \in {"Init", "ConnectPending", "Connected"},
            pc \in {"wait", "read", "exited"}, notice \in Notices :
           /\ state' = [state EXCEPT ![e] = s] \/ state' = state
           /\ ioPc[e] = "connect" /\ ioPc' = [ioPc EXCEPT ![e] = pc]
           /\ told' = [told EXCEPT ![e] = Append(@, notice)]
           /\ UNCHANGED mainPc
  BY DEF ConnectToClient, IoGoes, SetState, Tell, Notices

LEMMA ReadCompleteType ==
  ASSUME TypeOK, NEW e \in Ends, NEW c \in Completions,
         NEW queued \in Seq(Completions), NEW ret \in {"wait", "apc"},
         ReadComplete(e, c, queued, ret)
  PROVE  TypeOK'
  <1>2. Received(e, c) \in Seq(Nat)
    BY AppendProperties DEF Received, Completions, TypeOK, ChannelTypeOK
  <1>3. <<>> \in Seq(Nat)
    OBVIOUS
  <1>4. PipeTypeOK'
    <2>1. CASE ReadError(e, c) # NoError
      BY <2>1 DEF ReadComplete, TypeOK, PipeTypeOK
    <2>2. CASE ReadError(e, c) = NoError
      BY <2>2, ReadFileExType DEF ReadComplete, TypeOK
    <2> QED
      BY <2>1, <2>2
  <1>5. ChannelTypeOK'
    <2>1. CASE /\ state' = state
               /\ message' = [message EXCEPT ![e] = Received(e, c)]
               /\ ioPc' = [ioPc EXCEPT ![e] = ret]
               /\ UNCHANGED ioRet
      <3>1. message' \in [Ends -> Seq(Nat)]
        BY <1>2, <2>1 DEF TypeOK, ChannelTypeOK
      <3>2. ioPc' \in [Ends -> IoPcs]
        BY <2>1 DEF IoPcs, TypeOK, ChannelTypeOK
      <3>3. UNCHANGED <<handle, quit, mainPc, history>>
        BY DEF ReadComplete
      <3> QED
        BY <2>1, <3>1, <3>2, <3>3 DEF history, TypeOK, ChannelTypeOK
    <2>2. CASE /\ state' = [state EXCEPT ![e] = ReadError(e, c)]
               /\ ReadError(e, c) \in ErrorCodes
               /\ message' = [message EXCEPT ![e] = <<>>]
               /\ ioPc' = [ioPc EXCEPT ![e] = "disconnect"]
               /\ ioRet' = [ioRet EXCEPT ![e] = ret]
      <3>1. state' \in [Ends -> {"Init", "ConnectPending", "Connected"} \cup ErrorCodes]
        BY <2>2 DEF TypeOK, ChannelTypeOK
      <3>2. message' \in [Ends -> Seq(Nat)]
        BY <1>3, <2>2 DEF TypeOK, ChannelTypeOK
      <3>3. ioPc' \in [Ends -> IoPcs]
        BY <2>2 DEF IoPcs, TypeOK, ChannelTypeOK
      <3>4. ioRet' \in [Ends -> {"wait", "apc"}]
        BY <2>2 DEF TypeOK, ChannelTypeOK
      <3>5. UNCHANGED <<handle, quit, mainPc, history>>
        BY DEF ReadComplete
      <3> QED
        BY <3>1, <3>2, <3>3, <3>4, <3>5 DEF history, TypeOK, ChannelTypeOK
    <2> QED
      BY <2>1, <2>2, ReadCompleteState
  <1> QED
    BY <1>4, <1>5 DEF TypeOK

LEMMA MainType ==
  ASSUME TypeOK, NEW e \in Ends, MainChoice(e) \/ MainRuns(e)
  PROVE  TypeOK'
  <1> USE DEF TypeOK, MainPcs, Destructor, MainGoes, history
  <1>1. CASE ConnectOnIOThread(e)
    BY <1>1 DEF ConnectOnIOThread, SetState, ChannelTypeOK, PipeTypeOK, IoPcs, pipeVars
  <1>2. CASE BeginSend(e)
    BY <1>2 DEF BeginSend, ChannelTypeOK, PipeTypeOK, pipeVars
  <1>3. CASE Destroy(e)
    <2>1. <<>> \in Seq(Nat)
      OBVIOUS
    <2> QED
      BY <1>3, <2>1 DEF Destroy, ChannelTypeOK, PipeTypeOK, pipeVars
  <1>4. CASE e = Client /\ SetReadMode
    <2>1. PipeTypeOK'
      BY <1>4, EndsFacts, CloseType DEF SetReadMode, PipeTypeOK, pipeVars
    <2> QED
      BY <1>4, <2>1, EndsFacts DEF SetReadMode, ChannelTypeOK
  <1>5. CASE Write(e)
    <2>1. sent[e] + 1 \in Nat
      BY DEF ChannelTypeOK
    <2>2. PipeTypeOK'
      <3>1. CASE WriteFile(e, sent[e] + 1)
        BY <2>1, <3>1, WriteFileType
      <3>2. CASE UNCHANGED pipeVars
        BY <3>2 DEF PipeTypeOK, pipeVars
      <3> QED
        BY <1>5, <3>1, <3>2 DEF Write
    <2>3. state' \in [Ends -> {"Init", "ConnectPending", "Connected"} \cup ErrorCodes]
      <3>1. \/ state' = state
            \/ /\ state' = [state EXCEPT ![e] = WriteStatus(e)]
               /\ WriteStatus(e) \in ErrorCodes
        BY <1>5, WriteState
      <3> QED
        BY <3>1 DEF ChannelTypeOK
    <2>4. sent' \in [Ends -> Nat]
      BY <1>5, <2>1 DEF Write, ChannelTypeOK
    <2>5. mainPc' \in [Ends -> MainPcs]
      BY <1>5 DEF Write, ChannelTypeOK
    <2> QED
      BY <1>5, <2>2, <2>3, <2>4, <2>5 DEF Write, ChannelTypeOK
  <1>6. CASE DestroyDisconnect(e)
    BY <1>6, DisconnectType DEF DestroyDisconnect, AfterDisconnect, ChannelTypeOK
  <1>7. CASE DestroyClose(e)
    <2>1. PipeTypeOK' /\ handle' \in [Ends -> BOOLEAN] /\ closes' \in [Ends -> Nat]
      BY <1>7, ResetType DEF DestroyClose
    <2> QED
      BY <1>7, <2>1 DEF DestroyClose, ChannelTypeOK
  <1>8. CASE DestroyQuit(e)
    BY <1>8 DEF DestroyQuit, SetEvent, ChannelTypeOK, PipeTypeOK, pipeVars
  <1>9. CASE DestroyJoin(e)
    BY <1>9 DEF DestroyJoin, ChannelTypeOK, PipeTypeOK, pipeVars
  <1> QED
    BY <1>1, <1>2, <1>3, <1>4, <1>5, <1>6, <1>7, <1>8, <1>9 DEF MainChoice, MainRuns

LEMMA IoType ==
  ASSUME TypeOK, NEW e \in Ends, IoThread(e)
  PROVE  TypeOK'
  <1> USE DEF TypeOK, IoPcs, IoGoes, history
  <1>1. CASE ConnectInternal(e)
    BY <1>1 DEF ConnectInternal, ChannelTypeOK, PipeTypeOK, pipeVars
  <1>2. CASE ClientConnected(e)
    BY <1>2 DEF ClientConnected, SetState, ResetEvent, ChannelTypeOK, PipeTypeOK
  <1>3. CASE ConnectToClient(e)
    <2>1. PICK s \in {"Init", "ConnectPending", "Connected"},
               pc \in {"wait", "read", "exited"}, notice \in Notices :
              /\ state' = [state EXCEPT ![e] = s] \/ state' = state
              /\ ioPc[e] = "connect" /\ ioPc' = [ioPc EXCEPT ![e] = pc]
              /\ told' = [told EXCEPT ![e] = Append(@, notice)]
              /\ UNCHANGED mainPc
      BY <1>3, ConnectState
    <2>2. told' \in [Ends -> Seq(Notices)]
      <3>1. [told EXCEPT ![e] = Append(@, notice)] \in [Ends -> Seq(Notices)]
        BY TellType
      <3> QED
        BY <2>1, <3>1
    <2>3. PipeTypeOK'
      BY <1>3, CreateType DEF ConnectToClient
    <2>4. /\ state' \in [Ends -> {"Init", "ConnectPending", "Connected"} \cup ErrorCodes]
          /\ ioPc' \in [Ends -> IoPcs]
      BY <2>1 DEF ChannelTypeOK
    <2> QED
      BY <1>3, <2>2, <2>3, <2>4 DEF ConnectToClient, ChannelTypeOK
  <1>4. CASE FirstRead(e)
    <2>1. [err |-> NoError, msg |-> 0] \in Completions /\ apcs[e] \in Seq(Completions)
      BY DEF Completions, PipeTypeOK
    <2> QED
      BY <1>4, <2>1, ReadCompleteType DEF FirstRead
  <1>5. CASE IoDisconnect(e)
    BY <1>5, DisconnectType DEF IoDisconnect, AfterDisconnect, ChannelTypeOK
  <1>6. CASE IoClose(e)
    <2>1. PipeTypeOK' /\ handle' \in [Ends -> BOOLEAN] /\ closes' \in [Ends -> Nat]
      BY <1>6, ResetType DEF IoClose
    <2> QED
      BY <1>6, <2>1 DEF IoClose, ChannelTypeOK
  <1>7. CASE WaitObject(e)
    BY <1>7 DEF WaitObject, ChannelTypeOK, PipeTypeOK, pipeVars
  <1>8. CASE AcceptConnection(e)
    <2>1. told' \in [Ends -> Seq(Notices)]
      <3>1. [told EXCEPT ![e] = Append(@, "error")] \in [Ends -> Seq(Notices)]
        BY TellType DEF Notices
      <3> QED
        BY <1>8, <3>1 DEF AcceptConnection, Tell, ChannelTypeOK
    <2> QED
      BY <1>8, <2>1
      DEF AcceptConnection, SetState, ResetEvent, ErrorCodes, ChannelTypeOK, PipeTypeOK
  <1>9. CASE DoReadCompleteRoutine(e)
    <2>1. apcs[e] # <<>> => Head(apcs[e]) \in Completions /\ Tail(apcs[e]) \in Seq(Completions)
      BY HeadTailProperties DEF PipeTypeOK
    <2> QED
      BY <1>9, <2>1, ReadCompleteType DEF DoReadCompleteRoutine
  <1>10. CASE WaitIoCompletion(e)
    BY <1>10 DEF WaitIoCompletion, ChannelTypeOK, PipeTypeOK, pipeVars
  <1>11. CASE HandleIOCompletion(e)
    <2>1. told' \in [Ends -> Seq(Notices)]
      <3>1. Notice(state[e]) \in Notices
        BY DEF Notice, Notices
      <3>2. [told EXCEPT ![e] = Append(@, Notice(state[e]))] \in [Ends -> Seq(Notices)]
        BY <3>1, TellType
      <3>3. told' = told \/ told' = [told EXCEPT ![e] = Append(@, Notice(state[e]))]
        BY <1>11 DEF HandleIOCompletion, Tell
      <3> QED
        BY <3>2, <3>3 DEF ChannelTypeOK
    <2> QED
      BY <1>11, <2>1 DEF HandleIOCompletion, ChannelTypeOK, PipeTypeOK, pipeVars
  <1>12. CASE NotifyMessage(e)
    <2>1. delivered[e] \o message[e] \in Seq(Nat) /\ <<>> \in Seq(Nat)
      BY ConcatProperties DEF ChannelTypeOK
    <2> QED
      BY <1>12, <2>1 DEF NotifyMessage, ChannelTypeOK, PipeTypeOK, pipeVars
  <1> QED
    BY <1>1, <1>2, <1>3, <1>4, <1>5, <1>6, <1>7, <1>8, <1>9, <1>10, <1>11, <1>12
    DEF IoThread

LEMMA CreationType ==
  ASSUME TypeOK, Creation
  PROVE  TypeOK'
  <1> USE EndsFacts DEF TypeOK, MainPcs, MainGoes, history
  <1>1. CASE CreateServerPipe
    BY <1>1, CreateType DEF CreateServerPipe, ChannelTypeOK
  <1>2. CASE CreateClientPipe
    BY <1>2, CreateType DEF CreateClientPipe, ChannelTypeOK
  <1>3. CASE \E e \in Ends : CreateFails(e)
    <2>1. PICK e \in Ends : CreateFails(e)
      BY <1>3
    <2>2. PipeTypeOK'
      BY <2>1 DEF CreateFails, PipeTypeOK, pipeVars
    <2> QED
      BY <2>1, <2>2 DEF CreateFails, ChannelTypeOK
  <1> QED
    BY <1>1, <1>2, <1>3 DEF Creation

(* Every variable of the channel and of the pipe keeps its type: state_    *)
(* never holds an error with the code NO_ERROR, and what is queued to the  *)
(* I/O thread is always a completion.                                      *)
THEOREM TypeCorrect == Spec => []TypeOK
  <1>1. Init => TypeOK
    <2>1. /\ \A S : <<>> \in Seq(S)
      OBVIOUS
    <2> QED
      BY <2>1 DEF Init, PipeInit, TypeOK, PipeTypeOK, ChannelTypeOK, MainPcs, IoPcs
  <1>2. TypeOK /\ [Next]_vars => TypeOK'
    <2>1. CASE UNCHANGED vars
      BY <2>1 DEF vars, pipeVars, chanVars, TypeOK, PipeTypeOK, ChannelTypeOK
    <2> QED
      BY <2>1, CreationType, MainType, IoType DEF Next
  <1> QED
    BY <1>1, <1>2, PTL DEF Spec

-----------------------------------------------------------------------------
(* Errors are final                                                        *)

LEMMA NotInError == "Init" \notin ErrorCodes /\ "ConnectPending" \notin ErrorCodes
                      /\ "Connected" \notin ErrorCodes /\ NoError \notin ErrorCodes
  BY DEF ErrorCodes, NoError, Broken, NotConnected, NoData, MoreData, BadHandle

(* The steps of both threads of an end: only the thread that is at the     *)
(* step's program counter moves, and state_ goes where the code puts it.   *)
LEMMA StateStep ==
  ASSUME TypeOK, \A e \in Ends : StateFollowsThread(e), Next
  PROVE  /\ \A e \in Ends : StateFollowsThread(e)'
         /\ \A e \in Ends : IsInError(e) => IsInError(e)'
  <1> USE NotInError DEF StateFollowsThread, IsInError, TypeOK, ChannelTypeOK
  <1>1. CASE Creation
    <2>1. CASE CreateServerPipe
      BY <1>1, <2>1 DEF CreateServerPipe, MainGoes
    <2>2. CASE CreateClientPipe
      BY <2>2 DEF CreateClientPipe, MainGoes
    <2>3. CASE \E e \in Ends : CreateFails(e)
      BY <2>3 DEF CreateFails, MainGoes
    <2> QED
      BY <1>1, <2>1, <2>2, <2>3 DEF Creation
  <1>2. ASSUME NEW e \in Ends, MainChoice(e) \/ MainRuns(e)
        PROVE  /\ \A f \in Ends : StateFollowsThread(f)'
               /\ \A f \in Ends : IsInError(f) => IsInError(f)'
    <2>1. CASE ConnectOnIOThread(e)
      BY <2>1 DEF ConnectOnIOThread, SetState
    <2>2. CASE BeginSend(e)
      BY <2>2 DEF BeginSend, MainGoes
    <2>3. CASE Destroy(e)
      BY <2>3 DEF Destroy, MainGoes
    <2>4. CASE e = Client /\ SetReadMode
      BY <2>4 DEF SetReadMode, MainGoes
    <2>5. CASE Write(e)
      <3>1. \/ state' = state
            \/ /\ state' = [state EXCEPT ![e] = WriteStatus(e)]
               /\ WriteStatus(e) \in ErrorCodes
        BY <2>5, WriteState
      <3>2. /\ mainPc[e] = "write" /\ mainPc' = [mainPc EXCEPT ![e] = "idle"]
            /\ UNCHANGED ioPc
            /\ state[e] = "Connected" \/ state[e] \in ErrorCodes
        BY <2>5 DEF Write, MainGoes
      <3>3. StateFollowsThread(e)' /\ (IsInError(e) => IsInError(e)')
        BY <3>1, <3>2
      <3>4. ASSUME NEW f \in Ends, f # e
            PROVE  StateFollowsThread(f)' /\ (IsInError(f) => IsInError(f)')
        BY <3>1, <3>2, <3>4
      <3> QED
        BY <3>3, <3>4
    <2>6. CASE DestroyDisconnect(e)
      BY <2>6 DEF DestroyDisconnect, MainGoes, AfterDisconnect
    <2>7. CASE DestroyClose(e)
      BY <2>7 DEF DestroyClose, MainGoes
    <2>8. CASE DestroyQuit(e)
      BY <2>8 DEF DestroyQuit, MainGoes
    <2>9. CASE DestroyJoin(e)
      BY <2>9 DEF DestroyJoin, MainGoes
    <2> QED
      BY <1>2, <2>1, <2>2, <2>3, <2>4, <2>5, <2>6, <2>7, <2>8, <2>9
      DEF MainChoice, MainRuns
  <1>3. ASSUME NEW e \in Ends, IoThread(e)
        PROVE  /\ \A f \in Ends : StateFollowsThread(f)'
               /\ \A f \in Ends : IsInError(f) => IsInError(f)'
    <2>1. CASE ConnectInternal(e)
      BY <2>1 DEF ConnectInternal, IoGoes
    <2>2. CASE ClientConnected(e)
      BY <2>2 DEF ClientConnected, IoGoes, SetState
    <2>3. CASE ConnectToClient(e)
      <3>1. PICK s \in {"Init", "ConnectPending", "Connected"},
                 pc \in {"wait", "read", "exited"} :
              /\ state' = [state EXCEPT ![e] = s] \/ state' = state
              /\ ioPc[e] = "connect" /\ ioPc' = [ioPc EXCEPT ![e] = pc]
              /\ UNCHANGED mainPc
        BY <2>3, ConnectState
      <3>2. state[e] = "Init" /\ mainPc[e] # "write"
        BY <3>1
      <3>3. StateFollowsThread(e)' /\ (IsInError(e) => IsInError(e)')
        BY <3>1, <3>2
      <3>4. ASSUME NEW f \in Ends, f # e
            PROVE  StateFollowsThread(f)' /\ (IsInError(f) => IsInError(f)')
        BY <3>1, <3>4
      <3> QED
        BY <3>3, <3>4
    <2>4. ASSUME NEW c \in Completions, NEW queued, NEW ret \in {"wait", "apc"},
                 ReadComplete(e, c, queued, ret),
                 ioPc[e] \in {"read", "wait", "apc"}
          PROVE  /\ \A f \in Ends : StateFollowsThread(f)'
                 /\ \A f \in Ends : IsInError(f) => IsInError(f)'
      <3>1. /\ \/ state' = state
               \/ /\ state' = [state EXCEPT ![e] = ReadError(e, c)]
                  /\ ReadError(e, c) \in ErrorCodes
            /\ \E pc \in {"wait", "apc", "disconnect"} : ioPc' = [ioPc EXCEPT ![e] = pc]
        BY <2>4, ReadCompleteState
      <3>2. UNCHANGED mainPc
        BY <2>4 DEF ReadComplete
      <3>3. StateFollowsThread(e)' /\ (IsInError(e) => IsInError(e)')
        BY <2>4, <3>1, <3>2
      <3>4. ASSUME NEW f \in Ends, f # e
            PROVE  StateFollowsThread(f)' /\ (IsInError(f) => IsInError(f)')
        BY <3>1, <3>2, <3>4
      <3> QED
        BY <3>3, <3>4
    <2>5. CASE FirstRead(e)
      <3>1. [err |-> NoError, msg |-> 0] \in Completions
        BY DEF Completions
      <3> QED
        BY <2>4, <2>5, <3>1 DEF FirstRead
    <2>6. CASE IoDisconnect(e)
      BY <2>6 DEF IoDisconnect, IoGoes, AfterDisconnect
    <2>7. CASE IoClose(e)
      BY <2>7 DEF IoClose, IoGoes
    <2>8. CASE WaitObject(e)
      BY <2>8 DEF WaitObject, IoGoes
    <2>9. CASE AcceptConnection(e)
      <3>1. NotConnected \in ErrorCodes
        BY DEF ErrorCodes
      <3>2. PICK s \in {"Connected", NotConnected}, pc \in {"read", "exited"} :
              /\ state' = [state EXCEPT ![e] = s]
              /\ ioPc[e] = "accept" /\ ioPc' = [ioPc EXCEPT ![e] = pc]
              /\ UNCHANGED mainPc
        BY <2>9 DEF AcceptConnection, IoGoes, SetState
      <3>3. StateFollowsThread(e)' /\ (IsInError(e) => IsInError(e)')
        BY <3>1, <3>2
      <3>4. ASSUME NEW f \in Ends, f # e
            PROVE  StateFollowsThread(f)' /\ (IsInError(f) => IsInError(f)')
        BY <3>2, <3>4
      <3> QED
        BY <3>3, <3>4
    <2>10. CASE DoReadCompleteRoutine(e)
      <3>1. Head(apcs[e]) \in Completions
        BY <2>10, HeadTailProperties DEF DoReadCompleteRoutine, PipeTypeOK
      <3> QED
        BY <2>4, <2>10, <3>1 DEF DoReadCompleteRoutine
    <2>11. CASE WaitIoCompletion(e)
      BY <2>11 DEF WaitIoCompletion, IoGoes
    <2>12. CASE HandleIOCompletion(e)
      BY <2>12 DEF HandleIOCompletion, IoGoes
    <2>13. CASE NotifyMessage(e)
      BY <2>13 DEF NotifyMessage, IoGoes
    <2> QED
      BY <1>3, <2>1, <2>2, <2>3, <2>5, <2>6, <2>7, <2>8, <2>9, <2>10, <2>11,
         <2>12, <2>13 DEF IoThread
  <1> QED
    BY <1>1, <1>2, <1>3 DEF Next

LEMMA StateInvariant == Spec => [](\A e \in Ends : StateFollowsThread(e))
  <1>1. Init => \A e \in Ends : StateFollowsThread(e)
    BY DEF Init, StateFollowsThread
  <1>2. TypeOK /\ (\A e \in Ends : StateFollowsThread(e)) /\ [Next]_vars
          => (\A e \in Ends : StateFollowsThread(e))'
    <2>1. CASE UNCHANGED vars
      BY <2>1 DEF vars, chanVars, StateFollowsThread, IsInError
    <2> QED
      BY <2>1, StateStep
  <1> QED
    BY <1>1, <1>2, TypeCorrect, PTL DEF Spec

(* No step of either thread, of either end, takes a channel out of         *)
(* StateError: IsInError never goes back to false before the destructor    *)
(* has returned, although the two threads write state_ unsynchronised.     *)
THEOREM ErrorsAreFinal == Spec => ErrorIsFinal
  <1>1. TypeOK /\ (\A e \in Ends : StateFollowsThread(e)) /\ [Next]_vars
          => [\A e \in Ends : IsInError(e) => IsInError(e)']_vars
    BY StateStep
  <1> QED
    BY <1>1, TypeCorrect, StateInvariant, PTL DEF Spec, ErrorIsFinal

-----------------------------------------------------------------------------
(* Nothing is used after the destructor has returned                       *)

(* What every step does to the ends of the pipe: a closed handle stays     *)
(* closed, with nothing in flight, and no end appears or vanishes.         *)
EndsKept ==
  \A f \in Ends :
    /\ pend[f] = "closed" => pend'[f] = "closed"
    /\ pend[f] = "absent" <=> pend'[f] = "absent"
    /\ pend'[f] = "closed" => ~reading'[f] /\ (f = Server => connecting' # "pending")

LEMMA PipeKeepsEnds ==
  ASSUME TypeOK, \A f \in Ends : HandleAccounted(f), NEW e \in Ends,
         \/ ConnectNamedPipe
         \/ \E queued : ReadFileEx(e, queued)
         \/ \E m : WriteFile(e, m)
         \/ IsOpen(Server) /\ DisconnectNamedPipe
         \/ pend[e] # "absent" /\ CloseHandle(e)
         \/ UNCHANGED <<pend, reading, connecting>>
  PROVE  EndsKept
  <1> USE EndsFacts DEF TypeOK, PipeTypeOK, HandleAccounted, EndsKept
  <1>1. CASE ConnectNamedPipe
    BY <1>1 DEF ConnectNamedPipe, ConnectStatus, IsOpen, BadHandle
  <1>2. CASE \E queued : ReadFileEx(e, queued)
    BY <1>2 DEF ReadFileEx, ReadStatus, IsOpen, BadHandle, NoError
  <1>3. CASE \E m : WriteFile(e, m)
    BY <1>3 DEF WriteFile
  <1>4. CASE IsOpen(Server) /\ DisconnectNamedPipe
    BY <1>4 DEF DisconnectNamedPipe, FailReads, FailConnect, IsOpen
  <1>5. CASE pend[e] # "absent" /\ CloseHandle(e)
    BY <1>5 DEF CloseHandle, FailReads, FailConnect, IsOpen
  <1>6. CASE UNCHANGED <<pend, reading, connecting>>
    BY <1>6
  <1> QED
    BY <1>1, <1>2, <1>3, <1>4, <1>5, <1>6

(* The threads of an end, and a handle that is given up only once closed.  *)
LEMMA HandleMain ==
  ASSUME TypeOK, \A f \in Ends : HandleAccounted(f), NEW e \in Ends,
         MainChoice(e) \/ MainRuns(e)
  PROVE  \A f \in Ends : HandleAccounted(f)'
  <1> USE DEF HandleAccounted, EndsKept, TypeOK, ChannelTypeOK, Destructor, MainGoes
  <1>1. CASE ConnectOnIOThread(e)
    BY <1>1, PipeKeepsEnds DEF ConnectOnIOThread, pipeVars
  <1>2. CASE BeginSend(e)
    BY <1>2, PipeKeepsEnds DEF BeginSend, pipeVars
  <1>3. CASE Destroy(e)
    BY <1>3, PipeKeepsEnds DEF Destroy, pipeVars
  <1>4. CASE e = Client /\ SetReadMode
    <2>1. EndsKept
      BY <1>4, PipeKeepsEnds DEF SetReadMode, pipeVars
    <2>2. handle' \in {handle, [handle EXCEPT ![e] = TRUE]}
      BY <1>4 DEF SetReadMode
    <2>3. \E pc \in {"idle", "gone"} :
            /\ mainPc[e] = "mode" /\ mainPc' = [mainPc EXCEPT ![e] = pc]
            /\ pc = "idle" => handle'[e]
      BY <1>4 DEF SetReadMode
    <2>4. ioPc[e] = "none" /\ UNCHANGED ioPc
      BY <1>4, <2>3 DEF SetReadMode
    <2> QED
      <3>1. HandleAccounted(e)'
        BY <2>1, <2>2, <2>3, <2>4
      <3>2. ASSUME NEW f \in Ends, f # e PROVE HandleAccounted(f)'
        BY <2>1, <2>2, <2>3, <2>4, <3>2
      <3> QED
        BY <3>1, <3>2
  <1>5. CASE Write(e)
    <2>1. EndsKept
      BY <1>5, PipeKeepsEnds DEF Write, pipeVars
    <2> QED
      BY <1>5, <2>1 DEF Write
  <1>6. CASE DestroyDisconnect(e)
    <2>1. EndsKept
      BY <1>6, PipeKeepsEnds DEF DestroyDisconnect, DisconnectPipe, IsServerHasValue, pipeVars
    <2> QED
      BY <1>6, <2>1 DEF DestroyDisconnect, AfterDisconnect
  <1>7. CASE DestroyClose(e)
    <2>1. EndsKept
      BY <1>7, PipeKeepsEnds DEF DestroyClose, ResetPipe, pipeVars
    <2>2. mainPc[e] = "close" => pend'[e] = "closed"
      BY <1>7, <2>1 DEF DestroyClose, ResetPipe, CloseHandle, IsOpen, PipeTypeOK
    <2>3. /\ pend'[e] = "closed"
          /\ \E pc \in {"forget", "quit"} : mainPc' = [mainPc EXCEPT ![e] = pc]
          /\ handle' \in {handle, [handle EXCEPT ![e] = FALSE]}
          /\ UNCHANGED ioPc
          /\ mainPc[e] \in {"close", "forget"}
      BY <1>7, <2>1, <2>2 DEF DestroyClose, ForgetHandle
    <2>4. HandleAccounted(e)'
      BY <2>1, <2>3
    <2>5. ASSUME NEW f \in Ends, f # e PROVE HandleAccounted(f)'
      BY <2>1, <2>3, <2>5
    <2> QED
      BY <2>4, <2>5
  <1>8. CASE DestroyQuit(e)
    <2>1. EndsKept
      BY <1>8, PipeKeepsEnds DEF DestroyQuit, pipeVars
    <2>2. /\ \/ mainPc[e] = "quit" /\ mainPc' = [mainPc EXCEPT ![e] = "wake"]
             \/ mainPc[e] = "wake" /\ mainPc' = [mainPc EXCEPT ![e] = "join"]
          /\ UNCHANGED <<ioPc, handle>>
      BY <1>8 DEF DestroyQuit
    <2>3. HandleAccounted(e)'
      BY <2>1, <2>2
    <2>4. ASSUME NEW f \in Ends, f # e PROVE HandleAccounted(f)'
      BY <2>1, <2>2, <2>4
    <2> QED
      BY <2>3, <2>4
  <1>9. CASE DestroyJoin(e)
    BY <1>9, PipeKeepsEnds DEF DestroyJoin, pipeVars
  <1> QED
    BY <1>1, <1>2, <1>3, <1>4, <1>5, <1>6, <1>7, <1>8, <1>9 DEF MainChoice, MainRuns

LEMMA HandleIo ==
  ASSUME TypeOK, \A f \in Ends : HandleAccounted(f), NEW e \in Ends, IoThread(e)
  PROVE  \A f \in Ends : HandleAccounted(f)'
  <1> USE DEF HandleAccounted, EndsKept, TypeOK, ChannelTypeOK
  <1>1. CASE IoDisconnect(e)
    <2>1. EndsKept
      BY <1>1, PipeKeepsEnds DEF IoDisconnect, DisconnectPipe, IsServerHasValue, pipeVars
    <2> QED
      BY <1>1, <2>1 DEF IoDisconnect, IoGoes, AfterDisconnect
  <1>2. CASE IoClose(e)
    <2>1. EndsKept
      BY <1>2, PipeKeepsEnds DEF IoClose, ResetPipe, IsOpen, pipeVars
    <2>2. pend[e] # "absent" /\ (handle[e] \/ pend[e] = "closed")
      <3>1. mainPc[e] \in {"idle", "write", "destroyed"} \cup Destructor
        BY <1>2 DEF IoClose, IoGoes, MainPcs
      <3> QED
        BY <3>1
    <2>3. /\ pend'[e] = "closed"
          /\ \E pc \in IoPcs \ {"none"} : ioPc' = [ioPc EXCEPT ![e] = pc]
          /\ handle' \in {handle, [handle EXCEPT ![e] = FALSE]}
          /\ UNCHANGED mainPc
          /\ ioPc[e] \in {"close", "forget"}
      <3>1. pend'[e] = "closed"
        BY <1>2, <2>1, <2>2 DEF IoClose, IoGoes, ResetPipe, CloseHandle, IsOpen, PipeTypeOK
      <3> QED
        BY <1>2, <3>1 DEF IoClose, IoGoes, ForgetHandle, IoPcs
    <2>4. HandleAccounted(e)'
      BY <2>1, <2>3
    <2>5. ASSUME NEW f \in Ends, f # e PROVE HandleAccounted(f)'
      BY <2>1, <2>3, <2>5
    <2> QED
      BY <2>4, <2>5
  <1>3. ASSUME EndsKept, UNCHANGED <<mainPc, handle>>,
               \E pc \in IoPcs \ {"none", "forget"} : ioPc' = [ioPc EXCEPT ![e] = pc],
               ioPc[e] \notin {"none", "exited"}
        PROVE  \A f \in Ends : HandleAccounted(f)'
    <2>1. HandleAccounted(e)'
      BY <1>3
    <2>2. ASSUME NEW f \in Ends, f # e PROVE HandleAccounted(f)'
      BY <1>3, <2>2
    <2> QED
      BY <2>1, <2>2
  <1>4. CASE ConnectInternal(e) \/ ClientConnected(e) \/ ConnectToClient(e)
             \/ WaitObject(e) \/ AcceptConnection(e) \/ WaitIoCompletion(e)
             \/ HandleIOCompletion(e) \/ NotifyMessage(e)
    <2>1. EndsKept
      BY <1>4, PipeKeepsEnds
      DEF ConnectInternal, ClientConnected, ConnectToClient, WaitObject,
          AcceptConnection, WaitIoCompletion, HandleIOCompletion, NotifyMessage, pipeVars
    <2>2. /\ UNCHANGED <<mainPc, handle>>
          /\ \E pc \in IoPcs \ {"none", "forget"} : ioPc' = [ioPc EXCEPT ![e] = pc]
          /\ ioPc[e] \notin {"none", "exited"}
      BY <1>4
      DEF ConnectInternal, ClientConnected, ConnectToClient, WaitObject, IoPcs, IoGoes,
          AcceptConnection, WaitIoCompletion, HandleIOCompletion, NotifyMessage
    <2> QED
      BY <1>3, <2>1, <2>2
  <1>5. CASE FirstRead(e) \/ DoReadCompleteRoutine(e)
    <2>1. PICK c, queued, ret : /\ ReadComplete(e, c, queued, ret)
                               /\ ret \in {"wait", "apc"}
                               /\ ioPc[e] \in {"read", "wait", "apc"}
      BY <1>5 DEF FirstRead, DoReadCompleteRoutine
    <2>2. EndsKept
      BY <2>1, PipeKeepsEnds DEF ReadComplete
    <2>3. /\ UNCHANGED <<mainPc, handle>>
          /\ \E pc \in IoPcs \ {"none", "forget"} : ioPc' = [ioPc EXCEPT ![e] = pc]
      BY <2>1 DEF ReadComplete, IoPcs
    <2> QED
      BY <1>3, <2>1, <2>2, <2>3
  <1> QED
    BY <1>1, <1>2, <1>4, <1>5 DEF IoThread

LEMMA HandleCreation ==
  ASSUME TypeOK, \A f \in Ends : HandleAccounted(f), Creation
  PROVE  \A f \in Ends : HandleAccounted(f)'
  <1> USE EndsFacts DEF HandleAccounted, TypeOK, PipeTypeOK, ChannelTypeOK, Destructor, MainGoes
  <1>1. CASE CreateServerPipe
    <2>1. /\ mainPc[Server] = "create" /\ mainPc' = [mainPc EXCEPT ![Server] = "idle"]
          /\ pend' = [pend EXCEPT ![Server] = "listening"]
          /\ handle' = [handle EXCEPT ![Server] = TRUE]
          /\ UNCHANGED <<ioPc, reading, connecting>>
      BY <1>1 DEF CreateServerPipe, CreateNamedPipe
    <2>2. HandleAccounted(Server)'
      BY <2>1
    <2>3. ASSUME NEW f \in Ends, f # Server PROVE HandleAccounted(f)'
      BY <2>1, <2>3
    <2> QED
      BY <2>2, <2>3
  <1>2. CASE CreateClientPipe
    BY <1>2 DEF CreateClientPipe, CreateFile, Ends
  <1>3. CASE \E e \in Ends : CreateFails(e)
    BY <1>3 DEF CreateFails, pipeVars
  <1> QED
    BY <1>1, <1>2, <1>3 DEF Creation

LEMMA HandleInvariant == Spec => [](\A e \in Ends : HandleAccounted(e))
  <1>1. Init => \A e \in Ends : HandleAccounted(e)
    BY DEF Init, PipeInit, HandleAccounted, Destructor
  <1>2. TypeOK /\ (\A e \in Ends : HandleAccounted(e)) /\ [Next]_vars
          => (\A e \in Ends : HandleAccounted(e))'
    <2>1. CASE UNCHANGED vars
      BY <2>1 DEF vars, pipeVars, chanVars, HandleAccounted
    <2> QED
      BY <2>1, HandleCreation, HandleMain, HandleIo DEF Next
  <1> QED
    BY <1>1, <1>2, TypeCorrect, PTL DEF Spec

(* When the destructor has returned, no thread is left to call the         *)
(* delegate and the kernel has neither a read into read_buf_ nor a connect *)
(* on io_overlapped_ in flight.                                            *)
THEOREM SafeDestruction == Spec => []NothingUsedAfterFree
  <1>1. (\A e \in Ends : HandleAccounted(e)) => NothingUsedAfterFree
    BY DEF HandleAccounted, NothingUsedAfterFree
  <1> QED
    BY <1>1, HandleInvariant, PTL

-----------------------------------------------------------------------------
(* Inductive strengthenings                                                *)

(* No read is in flight or waits for its routine.                          *)
NoRead(e) == apcs[e] = <<>> /\ ~reading[e]

(* One read at a time, of an end that has nothing to read; none before     *)
(* the connection is up and none after a read has failed.                  *)
ReadsInTurn(e) ==
  /\ Len(apcs[e]) <= 1
  /\ reading[e] => apcs[e] = <<>> /\ inbox[e] = <<>>
  /\ \/ ioPc[e] \in {"none", "start", "clientUp", "connect", "accept", "read",
                     "disconnect", "close", "forget"}
     \/ state[e] = "ConnectPending"
     => NoRead(e)
  /\ state[e] = "ConnectPending" => ioPc[e] \in {"wait", "accept", "exited"}

(* Once it has connected, nothing but the destructor signals an end's      *)
(* event, and that after quit_io_thread_.                                  *)
EventQuiet(e) ==
  /\ event[e] => \/ ioPc[e] \in {"none", "start", "clientUp", "connect", "exited"}
                 \/ state[e] = "ConnectPending"
                 \/ mainPc[e] \in {"join", "destroyed"}
  /\ mainPc[e] \in {"wake", "join", "destroyed"} => quit[e]

(* Only the server connects; while it does, its event means quit.          *)
OnlyServerConnects ==
  /\ ioPc[Client] # "connect" /\ state[Client] # "ConnectPending"
  /\ connecting = "pending" =>
       /\ state[Server] = "ConnectPending" /\ ioPc[Server] # "accept"
       /\ event[Server] => quit[Server]

(* A handle that has been closed and is still held is being forgotten.     *)
ClosesCounted(e) ==
  closes[e] > 0 =>
    /\ mainPc[e] \notin {"create", "mode"}
    /\ handle[e] => mainPc[e] = "forget" \/ ioPc[e] = "forget"

(* An I/O thread that has told of a failure has ended, or is in error and  *)
(* past the connection.                                                    *)
PastGoodNews(e) ==
  \/ ioPc[e] = "exited"
  \/ IsInError(e) /\ ioPc[e] \in {"wait", "apc", "handle", "disconnect", "close", "forget"}

FailureLasts(e) == HeardOfFailure(e) => PastGoodNews(e)

-----------------------------------------------------------------------------
(* One read at a time                                                      *)

(* What a pipe operation that starts no read does to the reads.            *)
ReadsKept(f) ==
  /\ Len(apcs'[f]) <= 1
  /\ reading'[f] => apcs'[f] = <<>> /\ inbox'[f] = <<>>
  /\ NoRead(f) => NoRead(f)'

LEMMA OneMore ==
  ASSUME NEW T, NEW x \in T
  PROVE  /\ Append(<<>>, x) = <<x>> /\ <<x>> \in Seq(T)
         /\ Len(<<x>>) = 1 /\ <<x>> # <<>> /\ Head(<<x>>) = x
  OBVIOUS

LEMMA PipeKeepsReads ==
  ASSUME TypeOK, \A f \in Ends : ReadsInTurn(f), NEW e \in Ends,
         \/ CreateNamedPipe \/ CreateFile \/ ConnectNamedPipe
         \/ \E m \in Nat : WriteFile(e, m)
         \/ DisconnectNamedPipe \/ CloseHandle(e)
         \/ UNCHANGED <<inbox, reading, apcs>>
  PROVE  \A f \in Ends : ReadsKept(f)
  <1> USE DEF ReadsInTurn, ReadsKept, NoRead, TypeOK, PipeTypeOK
  <1>1. CASE CreateNamedPipe \/ CreateFile \/ ConnectNamedPipe
             \/ UNCHANGED <<inbox, reading, apcs>>
    BY <1>1 DEF CreateNamedPipe, CreateFile, ConnectNamedPipe
  <1>2. CASE \E m \in Nat : WriteFile(e, m)
    <2>1. PICK m \in Nat : WriteFile(e, m)
      BY <1>2
    <2> DEFINE p == Peer(e)
               c == Completion(p, m)
    <2>2. p \in Ends /\ c \in Completions
      BY <2>1, EndsFacts, CompletionType
    <2>3. /\ Append(<<>>, c) = <<c>> /\ Len(<<c>>) = 1
      BY <2>2, OneMore
    <2> HIDE DEF p, c
    <2>4. CASE /\ reading[p]
               /\ apcs' = [apcs EXCEPT ![p] = Append(@, c)]
               /\ reading' = [reading EXCEPT ![p] = FALSE]
               /\ UNCHANGED inbox
      BY <2>2, <2>3, <2>4
    <2>5. CASE /\ ~reading[p]
               /\ inbox' = [inbox EXCEPT ![p] = Append(@, m)]
               /\ UNCHANGED <<reading, apcs>>
      BY <2>2, <2>5
    <2> QED
      BY <2>1, <2>4, <2>5 DEF WriteFile, p, c
  <1>3. ASSUME NEW code \in ErrorCodes, FailReads(code)
        PROVE  \A f \in Ends : /\ Len(apcs'[f]) <= 1 /\ ~reading'[f]
                               /\ NoRead(f) => NoRead(f)'
    <2>1. [err |-> code, msg |-> 0] \in Completions
      BY DEF Completions
    <2>2. /\ Append(<<>>, [err |-> code, msg |-> 0]) = <<[err |-> code, msg |-> 0]>>
          /\ Len(<<[err |-> code, msg |-> 0]>>) = 1
      BY <2>1, OneMore
    <2> QED
      BY <1>3, <2>2 DEF FailReads
  <1>4. CASE DisconnectNamedPipe
    BY <1>3, <1>4 DEF DisconnectNamedPipe, ErrorCodes
  <1>5. CASE CloseHandle(e)
    BY <1>3, <1>5 DEF CloseHandle, ErrorCodes
  <1> QED
    BY <1>1, <1>2, <1>4, <1>5

(* ReadComplete's way out, by success or by failure.                       *)
ReadEnds(e, ret) ==
  \/ ioPc' = [ioPc EXCEPT ![e] = ret] /\ UNCHANGED state
  \/ /\ ioPc' = [ioPc EXCEPT ![e] = "disconnect"] /\ NoRead(e)'
     /\ \E s \in ErrorCodes : state' = [state EXCEPT ![e] = s]

(* The read that a thread starts when nothing of its own is outstanding.   *)
LEMMA ReadStarts ==
  ASSUME TypeOK, \A f \in Ends : ReadsInTurn(f), NEW e \in Ends, ~reading[e],
         NEW c \in Completions, NEW ret, ReadComplete(e, c, <<>>, ret)
  PROVE  /\ ReadEnds(e, ret)
         /\ \A f \in Ends : /\ Len(apcs'[f]) <= 1
                            /\ reading'[f] => apcs'[f] = <<>> /\ inbox'[f] = <<>>
                            /\ f # e => (NoRead(f) => NoRead(f)')
  <1> USE DEF ReadsInTurn, NoRead, TypeOK, PipeTypeOK, ReadEnds
  <1>1. CASE ReadError(e, c) # NoError
    <2>1. ReadError(e, c) \in ErrorCodes
      BY <1>1, StatusType DEF ReadError, Completions
    <2> QED
      BY <1>1, <2>1 DEF ReadComplete, SetState
  <1>2. CASE ReadError(e, c) = NoError
    <2> DEFINE d == Completion(e, Head(inbox[e]))
    <2>1. inbox[e] # <<>> => Append(<<>>, d) = <<d>> /\ Len(<<d>>) = 1
      BY HeadTailProperties, CompletionType, OneMore
    <2>2. UNCHANGED state /\ ioPc' = [ioPc EXCEPT ![e] = ret] /\ ReadFileEx(e, <<>>)
      BY <1>2 DEF ReadComplete
    <2> HIDE DEF d
    <2>3. CASE /\ inbox[e] # <<>>
               /\ apcs' = [apcs EXCEPT ![e] = Append(<<>>, d)]
               /\ inbox' = [inbox EXCEPT ![e] = Tail(@)]
               /\ UNCHANGED reading
      BY <2>1, <2>2, <2>3
    <2>4. CASE /\ inbox[e] = <<>>
               /\ apcs' = [apcs EXCEPT ![e] = <<>>]
               /\ reading' = [reading EXCEPT ![e] = TRUE]
               /\ UNCHANGED inbox
      BY <2>2, <2>4
    <2> QED
      BY <2>2, <2>3, <2>4 DEF ReadFileEx, d
  <1> QED
    BY <1>1, <1>2

LEMMA ReadsMain ==
  ASSUME TypeOK, \A f \in Ends : ReadsInTurn(f) /\ StateFollowsThread(f),
         NEW e \in Ends, MainChoice(e) \/ MainRuns(e)
  PROVE  \A f \in Ends : ReadsInTurn(f)'
  <1> USE DEF TypeOK, ChannelTypeOK
  <1>1. \A f \in Ends : ReadsKept(f)
    <2>1. CASE ConnectOnIOThread(e) \/ BeginSend(e) \/ Destroy(e) \/ DestroyJoin(e)
               \/ DestroyQuit(e)
      BY <2>1, PipeKeepsReads
      DEF ConnectOnIOThread, BeginSend, Destroy, DestroyJoin, DestroyQuit, pipeVars
    <2>2. CASE e = Client /\ SetReadMode
      BY <2>2, PipeKeepsReads DEF SetReadMode, pipeVars
    <2>3. CASE Write(e)
      BY <2>3, PipeKeepsReads DEF Write, pipeVars
    <2>4. CASE DestroyDisconnect(e)
      BY <2>4, PipeKeepsReads DEF DestroyDisconnect, DisconnectPipe, pipeVars
    <2>5. CASE DestroyClose(e)
      BY <2>5, PipeKeepsReads DEF DestroyClose, ResetPipe, pipeVars
    <2> QED
      BY <2>1, <2>2, <2>3, <2>4, <2>5 DEF MainChoice, MainRuns
  <1> DEFINE Starts == /\ ioPc[e] = "none" /\ ioPc' = [ioPc EXCEPT ![e] = "start"]
                      /\ state' = [state EXCEPT ![e] = "Init"]
             Fails  == /\ UNCHANGED ioPc /\ state[e] # "ConnectPending"
                       /\ \E s \in ErrorCodes : state' = [state EXCEPT ![e] = s]
  <1>2. UNCHANGED <<ioPc, state>> \/ Starts \/ Fails
    <2>1. CASE ConnectOnIOThread(e)
      BY <2>1 DEF ConnectOnIOThread, SetState
    <2>2. CASE Write(e)
      BY <2>2, WriteState, NotInError
      DEF Write, MainGoes, StateFollowsThread, IsInError
    <2>3. CASE BeginSend(e) \/ Destroy(e) \/ DestroyJoin(e)
               \/ DestroyQuit(e) \/ DestroyDisconnect(e) \/ DestroyClose(e)
               \/ (e = Client /\ SetReadMode)
      BY <2>3
      DEF BeginSend, Destroy, DestroyJoin, DestroyQuit, DestroyDisconnect,
          DestroyClose, SetReadMode
    <2> HIDE DEF Starts, Fails
    <2> QED
      BY <2>1, <2>2, <2>3 DEF MainChoice, MainRuns
  <1> QED
    BY <1>1, <1>2, NotInError DEF ReadsKept, ReadsInTurn, NoRead

LEMMA ReadsIo ==
  ASSUME TypeOK, \A f \in Ends : ReadsInTurn(f) /\ StateFollowsThread(f),
         NEW e \in Ends, IoThread(e)
  PROVE  \A f \in Ends : ReadsInTurn(f)'
  <1> USE DEF TypeOK, ChannelTypeOK, IoGoes
  <1>1. CASE FirstRead(e) \/ DoReadCompleteRoutine(e)
    <2>1. PICK c \in Completions, ret \in {"wait", "apc"} :
             /\ ReadComplete(e, c, <<>>, ret)
             /\ ioPc[e] \in {"read", "wait", "apc"} /\ ~reading[e]
             /\ ioPc[e] = "wait" => apcs[e] # <<>>
      <3>1. CASE FirstRead(e)
        <4>1. [err |-> NoError, msg |-> 0] \in Completions
          BY DEF Completions
        <4>2. apcs[e] = <<>> /\ ~reading[e]
          BY <3>1 DEF FirstRead, ReadsInTurn, NoRead
        <4> QED
          BY <3>1, <4>1, <4>2 DEF FirstRead
      <3>2. CASE DoReadCompleteRoutine(e)
        <4>1. apcs[e] # <<>> /\ Len(apcs[e]) <= 1 /\ apcs[e] \in Seq(Completions)
          BY <3>2 DEF DoReadCompleteRoutine, ReadsInTurn, PipeTypeOK
        <4>2. Head(apcs[e]) \in Completions /\ Tail(apcs[e]) = <<>> /\ ~reading[e]
          BY <4>1, LastOne DEF ReadsInTurn
        <4> QED
          BY <3>2, <4>1, <4>2 DEF DoReadCompleteRoutine
      <3> QED
        BY <1>1, <3>1, <3>2
    <2>2. state[e] # "ConnectPending"
      BY <2>1 DEF ReadsInTurn, NoRead
    <2>3. /\ ReadEnds(e, ret)
          /\ \A f \in Ends : /\ Len(apcs'[f]) <= 1
                             /\ reading'[f] => apcs'[f] = <<>> /\ inbox'[f] = <<>>
                             /\ f # e => (NoRead(f) => NoRead(f)')
      <3> HIDE DEF TypeOK
      <3>1. \A f \in Ends : ReadsInTurn(f)
        OBVIOUS
      <3>2. ReadComplete(e, c, <<>>, ret) /\ ~reading[e]
        BY <2>1
      <3> QED
        BY <3>1, <3>2, ReadStarts
    <2>4. ReadsInTurn(e)'
      BY <2>1, <2>2, <2>3, NotInError DEF ReadEnds, ReadsInTurn, NoRead
    <2>5. ASSUME NEW f \in Ends, f # e PROVE ReadsInTurn(f)'
      <3>1. state'[f] = state[f] /\ ioPc'[f] = ioPc[f]
        BY <2>3, <2>5 DEF ReadEnds
      <3> QED
        BY <2>3, <2>5, <3>1 DEF ReadsInTurn, NoRead
    <2> QED
      BY <2>4, <2>5
  <1>2. CASE ~(FirstRead(e) \/ DoReadCompleteRoutine(e))
    <2>1. \A f \in Ends : ReadsKept(f)
      <3>1. CASE ConnectInternal(e) \/ ClientConnected(e) \/ WaitObject(e)
                 \/ AcceptConnection(e) \/ WaitIoCompletion(e)
                 \/ HandleIOCompletion(e) \/ NotifyMessage(e)
        BY <3>1, PipeKeepsReads
        DEF ConnectInternal, ClientConnected, WaitObject, AcceptConnection,
            WaitIoCompletion, HandleIOCompletion, NotifyMessage, pipeVars
      <3>2. CASE ConnectToClient(e)
        BY <3>2, PipeKeepsReads DEF ConnectToClient
      <3>3. CASE IoDisconnect(e)
        BY <3>3, PipeKeepsReads DEF IoDisconnect, DisconnectPipe, pipeVars
      <3>4. CASE IoClose(e)
        BY <3>4, PipeKeepsReads DEF IoClose, ResetPipe, pipeVars
      <3> QED
        BY <1>2, <3>1, <3>2, <3>3, <3>4 DEF IoThread
    <2>2. ASSUME NEW pc, NEW s,
                 ioPc' = [ioPc EXCEPT ![e] = pc],
                 state' = state \/ state' = [state EXCEPT ![e] = s],
                 \/ pc \in {"none", "start", "clientUp", "connect", "accept", "read",
                            "disconnect", "close", "forget"}
                 \/ state'[e] = "ConnectPending"
                 => NoRead(e),
                 state'[e] = "ConnectPending" => pc \in {"wait", "accept", "exited"}
          PROVE  \A f \in Ends : ReadsInTurn(f)'
      <3>1. ReadsInTurn(e)'
        BY <2>1, <2>2 DEF ReadsKept, ReadsInTurn, NoRead
      <3>2. ASSUME NEW f \in Ends, f # e PROVE ReadsInTurn(f)'
        BY <2>1, <2>2, <3>2 DEF ReadsKept, ReadsInTurn, NoRead
      <3> QED
        BY <3>1, <3>2
    <2>3. CASE ConnectInternal(e)
      BY <2>2, <2>3 DEF ConnectInternal, ReadsInTurn, StateFollowsThread
    <2>4. CASE ClientConnected(e)
      BY <2>2, <2>4 DEF ClientConnected, SetState, ReadsInTurn
    <2>5. CASE ConnectToClient(e)
      <3>1. CASE IoGoes(e, "connect", "wait") /\ SetState(e, "ConnectPending")
        BY <2>2, <3>1 DEF SetState, ReadsInTurn
      <3>2. CASE IoGoes(e, "connect", "read") /\ SetState(e, "Connected")
        BY <2>2, <3>2 DEF SetState, ReadsInTurn
      <3>3. CASE IoGoes(e, "connect", "exited") /\ UNCHANGED state
        BY <2>2, <3>3 DEF ReadsInTurn, StateFollowsThread
      <3> QED
        BY <2>5, <3>1, <3>2, <3>3 DEF ConnectToClient
    <2>6. CASE IoDisconnect(e)
      BY <2>2, <2>6 DEF IoDisconnect, AfterDisconnect, ReadsInTurn
    <2>7. CASE IoClose(e)
      BY <2>2, <2>7 DEF IoClose, ReadsInTurn
    <2>8. CASE WaitObject(e)
      BY <2>2, <2>8 DEF WaitObject, ReadsInTurn
    <2>9. CASE AcceptConnection(e)
      BY <2>2, <2>9, NotInError DEF AcceptConnection, SetState, ReadsInTurn, ErrorCodes
    <2>10. CASE WaitIoCompletion(e)
      BY <2>2, <2>10 DEF WaitIoCompletion, ReadsInTurn
    <2>11. CASE HandleIOCompletion(e)
      BY <2>2, <2>11 DEF HandleIOCompletion, ReadsInTurn
    <2>12. CASE NotifyMessage(e)
      BY <2>2, <2>12 DEF NotifyMessage, ReadsInTurn
    <2> QED
      BY <1>2, <2>3, <2>4, <2>5, <2>6, <2>7, <2>8, <2>9, <2>10, <2>11, <2>12 DEF IoThread
  <1> QED
    BY <1>1, <1>2

LEMMA ReadsCreation ==
  ASSUME TypeOK, \A f \in Ends : ReadsInTurn(f), Creation
  PROVE  \A f \in Ends : ReadsInTurn(f)'
  <1>1. \A f \in Ends : ReadsKept(f)
    BY EndsFacts, PipeKeepsReads
    DEF Creation, CreateServerPipe, CreateClientPipe, CreateFails, pipeVars
  <1>2. UNCHANGED <<ioPc, state>>
    BY DEF Creation, CreateServerPipe, CreateClientPipe, CreateFails
  <1> QED
    BY <1>1, <1>2 DEF ReadsKept, ReadsInTurn, NoRead

LEMMA ReadsInvariant == Spec => [](\A e \in Ends : ReadsInTurn(e))
  <1>1. Init => \A e \in Ends : ReadsInTurn(e)
    BY DEF Init, PipeInit, ReadsInTurn, NoRead
  <1>2. TypeOK /\ (\A e \in Ends : ReadsInTurn(e)) /\ (\A e \in Ends : StateFollowsThread(e))
          /\ [Next]_vars => (\A e \in Ends : ReadsInTurn(e))'
    <2>1. CASE UNCHANGED vars
      BY <2>1 DEF vars, pipeVars, chanVars, ReadsInTurn, NoRead
    <2> QED
      BY <2>1, ReadsCreation, ReadsMain, ReadsIo DEF Next
  <1> QED
    BY <1>1, <1>2, TypeCorrect, StateInvariant, PTL DEF Spec

(* read_buf_ and context_ serve one read at a time: whatever the two       *)
(* threads of both ends do, a second ReadFileEx is never issued while one  *)
(* is in flight or waits for its routine, and none is outstanding when the *)
(* first read of a connection is about to be issued.                       *)
THEOREM ReadsTakeTurns == Spec => []OneReadOutstanding
  <1>1. TypeOK /\ (\A e \in Ends : ReadsInTurn(e)) => OneReadOutstanding
    <2> SUFFICES ASSUME TypeOK, \A e \in Ends : ReadsInTurn(e), NEW e \in Ends
                 PROVE  LET outstanding == Len(apcs[e]) + IF reading[e] THEN 1 ELSE 0 IN
                        /\ outstanding <= 1
                        /\ ioPc[e] \in {"start", "clientUp", "connect", "accept", "read"}
                             => outstanding = 0
      BY DEF OneReadOutstanding
    <2>1. Len(apcs[e]) \in Nat /\ (apcs[e] = <<>> => Len(apcs[e]) = 0)
      BY LenProperties DEF TypeOK, PipeTypeOK
    <2>2. CASE reading[e]
      BY <2>1, <2>2 DEF ReadsInTurn, NoRead
    <2>3. CASE ~reading[e]
      BY <2>1, <2>3 DEF ReadsInTurn, NoRead
    <2> QED
      BY <2>2, <2>3
  <1> QED
    BY <1>1, ReadsInvariant, TypeCorrect, PTL

-----------------------------------------------------------------------------
(* The event                                                               *)

(* Nothing but the end of a pending connect touches connect and event.     *)
EventsAside ==
  \/ UNCHANGED <<connecting, event>>
  \/ /\ connecting = "pending" /\ connecting' # "pending"
     /\ event' = [event EXCEPT ![Server] = TRUE]

LEMMA PipeKeepsEvents ==
  ASSUME NEW e \in Ends,
         \/ CreateNamedPipe \/ CreateFile
         \/ \E queued : ReadFileEx(e, queued)
         \/ \E m : WriteFile(e, m)
         \/ DisconnectNamedPipe \/ CloseHandle(e) \/ UNCHANGED pipeVars
  PROVE  EventsAside
  BY DEF EventsAside, CreateNamedPipe, CreateFile, ReadFileEx, WriteFile, SetEvent,
         DisconnectNamedPipe, CloseHandle, FailConnect, pipeVars

EventInv == OnlyServerConnects /\ \A e \in Ends : EventQuiet(e)

LEMMA EventMain ==
  ASSUME TypeOK, EventInv, \A f \in Ends : StateFollowsThread(f),
         NEW e \in Ends, MainChoice(e) \/ MainRuns(e)
  PROVE  EventInv'
  <1> USE EndsFacts, NotInError
      DEF TypeOK, PipeTypeOK, ChannelTypeOK, EventInv, OnlyServerConnects, EventQuiet, MainGoes
  <1>1. ASSUME EventsAside, UNCHANGED <<ioPc, state, quit>>,
               NEW pc, mainPc' = [mainPc EXCEPT ![e] = pc],
               pc \notin {"wake", "join", "destroyed"} \/ mainPc[e] = "join",
               mainPc[e] # "join" \/ pc = "destroyed",
               mainPc[e] # "destroyed"
        PROVE  EventInv'
    BY <1>1 DEF EventsAside
  <1>2. CASE ConnectOnIOThread(e)
    <2>1. EventsAside
      BY <1>2, PipeKeepsEvents DEF ConnectOnIOThread
    <2>2. /\ mainPc[e] = "idle" /\ ioPc[e] = "none" /\ state[e] = "Init"
          /\ UNCHANGED <<connecting, event, quit, mainPc, state>>
          /\ ioPc' = [ioPc EXCEPT ![e] = "start"]
      BY <1>2 DEF ConnectOnIOThread, SetState, StateFollowsThread, pipeVars
    <2> QED
      BY <2>2
  <1>3. CASE BeginSend(e)
    BY <1>1, <1>3, PipeKeepsEvents DEF BeginSend
  <1>4. CASE Destroy(e)
    BY <1>1, <1>4, PipeKeepsEvents DEF Destroy
  <1>5. CASE e = Client /\ SetReadMode
    <2>1. EventsAside
      BY <1>5, PipeKeepsEvents DEF SetReadMode
    <2> QED
      BY <1>1, <1>5, <2>1 DEF SetReadMode
  <1>6. CASE Write(e)
    <2>1. EventsAside
      BY <1>6, PipeKeepsEvents DEF Write
    <2>2. UNCHANGED state \/ (state[e] # "ConnectPending" /\ \E s \in ErrorCodes : state' = [state EXCEPT ![e] = s])
      BY <1>6, WriteState DEF Write, StateFollowsThread, IsInError
    <2>3. UNCHANGED <<ioPc, quit>> /\ mainPc[e] = "write" /\ mainPc' = [mainPc EXCEPT ![e] = "idle"]
      BY <1>6 DEF Write
    <2>4. CASE UNCHANGED state
      BY <1>1, <2>1, <2>3, <2>4
    <2>5. CASE state[e] # "ConnectPending" /\ \E s \in ErrorCodes : state' = [state EXCEPT ![e] = s]
      <3>1. UNCHANGED <<connecting, event>>
        BY <1>6, <2>5 DEF Write, WriteFile, pipeVars
      <3>2. PICK s \in ErrorCodes : state' = [state EXCEPT ![e] = s]
        BY <2>5
      <3>3. EventQuiet(e)'
        BY <2>3, <2>5, <3>1, <3>2
      <3>4. ASSUME NEW f \in Ends, f # e PROVE EventQuiet(f)'
        BY <2>3, <3>1, <3>2, <3>4
      <3>5. OnlyServerConnects'
        BY <2>3, <2>5, <3>1, <3>2
      <3> QED
        BY <3>3, <3>4, <3>5
    <2> QED
      BY <2>2, <2>4, <2>5
  <1>7. CASE DestroyDisconnect(e)
    <2>1. EventsAside
      BY <1>7, PipeKeepsEvents DEF DestroyDisconnect, DisconnectPipe
    <2> QED
      BY <1>1, <1>7, <2>1 DEF DestroyDisconnect, AfterDisconnect
  <1>8. CASE DestroyClose(e)
    <2>1. EventsAside
      BY <1>8, PipeKeepsEvents DEF DestroyClose, ResetPipe, pipeVars
    <2> QED
      BY <1>1, <1>8, <2>1 DEF DestroyClose
  <1>9. CASE DestroyQuit(e)
    <2>1. CASE /\ mainPc[e] = "quit" /\ mainPc' = [mainPc EXCEPT ![e] = "wake"]
               /\ quit' = [quit EXCEPT ![e] = TRUE]
               /\ UNCHANGED <<connecting, event>>
      BY <1>9, <2>1 DEF DestroyQuit
    <2>2. CASE /\ mainPc[e] = "wake" /\ mainPc' = [mainPc EXCEPT ![e] = "join"]
               /\ event' = [event EXCEPT ![e] = TRUE]
               /\ UNCHANGED <<connecting, quit>>
      BY <1>9, <2>2 DEF DestroyQuit
    <2> QED
      BY <1>9, <2>1, <2>2 DEF DestroyQuit, SetEvent, pipeVars
  <1>10. CASE DestroyJoin(e)
    BY <1>1, <1>10, PipeKeepsEvents DEF DestroyJoin
  <1> QED
    BY <1>2, <1>3, <1>4, <1>5, <1>6, <1>7, <1>8, <1>9, <1>10 DEF MainChoice, MainRuns

LEMMA EventIo ==
  ASSUME TypeOK, EventInv, \A f \in Ends : StateFollowsThread(f) /\ ReadsInTurn(f),
         NEW e \in Ends, IoThread(e)
  PROVE  EventInv'
  <1> USE EndsFacts, NotInError
      DEF TypeOK, PipeTypeOK, ChannelTypeOK, EventInv, OnlyServerConnects, EventQuiet, IoGoes
  <1>1. ASSUME EventsAside, UNCHANGED <<mainPc, quit>>,
               NEW pc, ioPc' = [ioPc EXCEPT ![e] = pc],
               ioPc[e] \notin {"none", "start", "clientUp", "connect", "exited", "accept"},
               pc \notin {"none", "start", "clientUp", "connect", "accept"},
               \/ UNCHANGED state
               \/ /\ state[e] # "ConnectPending"
                  /\ \E s \in ErrorCodes : state' = [state EXCEPT ![e] = s]
        PROVE  EventInv'
    <2>1. /\ state'[e] = "ConnectPending" <=> state[e] = "ConnectPending"
          /\ \A f \in Ends : f # e => state'[f] = state[f]
      <3>1. CASE UNCHANGED state
        BY <3>1
      <3>2. CASE /\ state[e] # "ConnectPending"
                 /\ \E s \in ErrorCodes : state' = [state EXCEPT ![e] = s]
        <4>1. PICK s \in ErrorCodes : state' = [state EXCEPT ![e] = s]
          BY <3>2
        <4> QED
          BY <3>2, <4>1
      <3> QED
        BY <1>1, <3>1, <3>2
    <2>2. /\ ioPc'[e] = pc
          /\ \A f \in Ends : f # e => ioPc'[f] = ioPc[f]
      BY <1>1
    <2>3. \A f \in Ends : event'[f] => event[f] \/ state[f] = "ConnectPending"
      <3>1. CASE UNCHANGED <<connecting, event>>
        BY <3>1
      <3>2. CASE /\ connecting = "pending"
                 /\ event' = [event EXCEPT ![Server] = TRUE]
        BY <3>2
      <3> QED
        BY <1>1, <3>1, <3>2 DEF EventsAside
    <2>4. ASSUME NEW f \in Ends PROVE EventQuiet(f)'
      <3>1. CASE f = e
        BY <1>1, <2>1, <2>2, <2>3, <3>1
      <3>2. CASE f # e
        BY <1>1, <2>1, <2>2, <2>3, <3>2
      <3> QED
        BY <3>1, <3>2
    <2>5. OnlyServerConnects'
      BY <1>1, <2>1, <2>2 DEF EventsAside
    <2> QED
      BY <2>4, <2>5
  <1>2. CASE ConnectInternal(e)
    <2>1. /\ UNCHANGED <<connecting, event, quit, mainPc, state>>
          /\ ioPc[e] = "start" /\ state[e] = "Init"
          /\ \E pc \in {"exited", "connect", "clientUp"} :
               ioPc' = [ioPc EXCEPT ![e] = pc] /\ (pc = "connect" => e = Server)
      BY <1>2 DEF ConnectInternal, StateFollowsThread, pipeVars
    <2> QED
      BY <2>1, ZenonT(30)
  <1>3. CASE ClientConnected(e)
    <2>1. state[e] = "Init"
      BY <1>3 DEF ClientConnected, StateFollowsThread
    <2> QED
      BY <1>3, <2>1 DEF ClientConnected, SetState, ResetEvent
  <1>4. CASE e = Server /\ ConnectToClient(e)
    <2>1. state[e] = "Init" /\ connecting # "pending" /\ ioPc[e] = "connect" /\ UNCHANGED <<mainPc, quit>>
      BY <1>4 DEF ConnectToClient, StateFollowsThread
    <2>2. CASE /\ ConnectStatus = "ERROR_IO_PENDING"
               /\ IoGoes(e, "connect", "wait")
               /\ SetState(e, "ConnectPending")
      <3>1. event' = [event EXCEPT ![Server] = FALSE]
        BY <1>4, <2>2 DEF ConnectToClient, ConnectNamedPipe, ConnectStatus, BadHandle
      <3> QED
        BY <1>4, <2>1, <2>2, <3>1 DEF SetState
    <2>3. CASE /\ ConnectStatus = "ERROR_PIPE_CONNECTED"
               /\ IoGoes(e, "connect", "read")
               /\ SetState(e, "Connected")
      <3>1. event' = [event EXCEPT ![Server] = FALSE] /\ UNCHANGED connecting
        BY <1>4, <2>3 DEF ConnectToClient, ConnectNamedPipe, ConnectStatus, BadHandle
      <3> QED
        BY <1>4, <2>1, <2>3, <3>1 DEF SetState
    <2>4. CASE /\ ConnectStatus \in ErrorCodes
               /\ IoGoes(e, "connect", "exited")
               /\ UNCHANGED state
      <3>1. UNCHANGED connecting
        BY <1>4, <2>4 DEF ConnectToClient, ConnectNamedPipe, ConnectStatus, ErrorCodes,
             Broken, NotConnected, NoData, MoreData, BadHandle
      <3>2. \A f \in Ends : f # Server => event'[f] = event[f]
        BY <1>4 DEF ConnectToClient, ConnectNamedPipe
      <3> QED
        BY <1>4, <2>1, <2>4, <3>1, <3>2
    <2> QED
      BY <1>4, <2>2, <2>3, <2>4 DEF ConnectToClient
  <1>5. ASSUME NEW c, NEW queued, NEW ret \in {"wait", "apc"}, c \in Completions,
               ReadComplete(e, c, queued, ret), ioPc[e] \in {"read", "wait", "apc"},
               state[e] # "ConnectPending"
        PROVE  EventInv'
    <2>1. EventsAside
      BY <1>5, PipeKeepsEvents DEF ReadComplete, EventsAside
    <2>2. \/ state' = state
          \/ \E s \in ErrorCodes : state' = [state EXCEPT ![e] = s]
      BY <1>5, ReadCompleteState
    <2>3. \E pc \in {"wait", "apc", "disconnect"} : ioPc' = [ioPc EXCEPT ![e] = pc]
      BY <1>5, ReadCompleteState
    <2>4. UNCHANGED <<mainPc, quit>>
      BY <1>5 DEF ReadComplete
    <2> QED
      BY <1>1, <1>5, <2>1, <2>2, <2>3, <2>4
  <1>6. CASE FirstRead(e)
    <2>1. [err |-> NoError, msg |-> 0] \in Completions
      BY DEF Completions
    <2> QED
      BY <1>5, <1>6, <2>1 DEF FirstRead, ReadsInTurn
  <1>7. CASE IoDisconnect(e)
    <2>1. EventsAside
      BY <1>7, PipeKeepsEvents DEF IoDisconnect, DisconnectPipe
    <2> QED
      BY <1>1, <1>7, <2>1 DEF IoDisconnect, AfterDisconnect
  <1>8. CASE IoClose(e)
    <2>1. EventsAside
      BY <1>8, PipeKeepsEvents DEF IoClose, ResetPipe
    <2> QED
      BY <1>1, <1>8, <2>1 DEF IoClose
  <1>9. CASE WaitObject(e)
    <2>1. EventsAside /\ UNCHANGED <<mainPc, quit, state, connecting, event>> /\ event[e] /\ ioPc[e] = "wait"
      BY <1>9, PipeKeepsEvents DEF WaitObject, pipeVars
    <2>2. CASE ioPc' = [ioPc EXCEPT ![e] = "exited"]
      BY <1>1, <2>1, <2>2
    <2>3. CASE ioPc' = [ioPc EXCEPT ![e] = "wait"]
      BY <1>1, <2>1, <2>3
    <2>4. CASE ioPc' = [ioPc EXCEPT ![e] = "accept"] /\ state[e] = "ConnectPending" /\ ~quit[e]
      BY <2>1, <2>4
    <2> QED
      BY <1>9, <2>2, <2>3, <2>4 DEF WaitObject
  <1>10. CASE AcceptConnection(e)
    <2>1. /\ state[e] = "ConnectPending" /\ ioPc[e] = "accept"
          /\ UNCHANGED <<mainPc, quit, connecting>>
      BY <1>10 DEF AcceptConnection, StateFollowsThread
    <2>2. e = Server /\ connecting # "pending"
      BY <2>1 DEF Ends
    <2>3. CASE IoGoes(e, "accept", "read") /\ SetState(e, "Connected") /\ ResetEvent(e)
      BY <2>1, <2>2, <2>3 DEF SetState, ResetEvent
    <2>4. CASE IoGoes(e, "accept", "exited") /\ SetState(e, NotConnected) /\ UNCHANGED event
      BY <2>1, <2>2, <2>4 DEF SetState, ErrorCodes
    <2> QED
      BY <1>10, <2>3, <2>4 DEF AcceptConnection
  <1>11. CASE DoReadCompleteRoutine(e)
    <2>1. Head(apcs[e]) \in Completions
      BY <1>11, HeadTailProperties DEF DoReadCompleteRoutine
    <2>2. state[e] # "ConnectPending"
      BY <1>11 DEF DoReadCompleteRoutine, ReadsInTurn, NoRead
    <2> QED
      BY <1>5, <1>11, <2>1, <2>2 DEF DoReadCompleteRoutine
  <1>12. CASE WaitIoCompletion(e)
    BY <1>1, <1>12, PipeKeepsEvents DEF WaitIoCompletion
  <1>13. CASE HandleIOCompletion(e)
    BY <1>1, <1>13, PipeKeepsEvents DEF HandleIOCompletion
  <1>14. CASE NotifyMessage(e)
    BY <1>1, <1>14, PipeKeepsEvents DEF NotifyMessage
  <1> QED
    BY <1>2, <1>3, <1>4, <1>6, <1>7, <1>8, <1>9, <1>10, <1>11, <1>12, <1>13, <1>14
    DEF IoThread

LEMMA EventCreation ==
  ASSUME TypeOK, EventInv, Creation
  PROVE  EventInv'
  <1> USE EndsFacts
  <1>1. EventsAside
    BY PipeKeepsEvents DEF Creation, CreateServerPipe, CreateClientPipe, CreateFails
  <1>2. UNCHANGED <<ioPc, state, quit>>
    BY DEF Creation, CreateServerPipe, CreateClientPipe, CreateFails
  <1>3. \E f \in Ends, pc \in {"idle", "mode", "gone"} :
           mainPc[f] = "create" /\ mainPc' = [mainPc EXCEPT ![f] = pc]
    BY DEF Creation, CreateServerPipe, CreateClientPipe, CreateFails, MainGoes
  <1> QED
    BY <1>1, <1>2, <1>3, ZenonT(30)
    DEF EventsAside, TypeOK, PipeTypeOK, ChannelTypeOK, EventInv, OnlyServerConnects, EventQuiet

LEMMA EventInvariant == Spec => []EventInv
  <1>1. Init => EventInv
    BY EndsFacts DEF Init, PipeInit, EventInv, OnlyServerConnects, EventQuiet
  <1>2. TypeOK /\ EventInv /\ (\A e \in Ends : ReadsInTurn(e))
          /\ (\A e \in Ends : StateFollowsThread(e)) /\ [Next]_vars => EventInv'
    <2>1. CASE UNCHANGED vars
      BY <2>1 DEF vars, pipeVars, chanVars, EventInv, OnlyServerConnects, EventQuiet
    <2> QED
      BY <2>1, EventCreation, EventMain, EventIo DEF Next
  <1> QED
    BY <1>1, <1>2, TypeCorrect, StateInvariant, ReadsInvariant, PTL DEF Spec

(* The manual-reset event of a connected channel stays nonsignaled until   *)
(* the destructor has set quit_io_thread_: DoWait's loop never finds it    *)
(* signaled with nothing to do, in any order of the threads' steps.        *)
THEOREM EventIsQuiet == Spec => []NoBusyLoop
  <1>1. EventInv => NoBusyLoop
    BY DEF EventInv, EventQuiet, NoBusyLoop
  <1> QED
    BY <1>1, EventInvariant, PTL

-----------------------------------------------------------------------------
(* Closing a handle twice                                                  *)

(* What every step does to the handle of end e and the count of its        *)
(* closings: a second one finds the other thread past its own.             *)
LEMMA ClosesStep ==
  ASSUME TypeOK, \A f \in Ends : ClosesCounted(f) /\ HandleAccounted(f), Next
  PROVE  /\ \A f \in Ends : ClosesCounted(f)'
         /\ \A f \in Ends :
              closes'[f] > closes[f] /\ closes[f] > 0 =>
                {mainPc[f], mainPc'[f]} \cup {ioPc[f], ioPc'[f]} = {"close", "forget"}
  <1> DEFINE Raced(f) == closes'[f] > closes[f] /\ closes[f] > 0 =>
               {mainPc[f], mainPc'[f]} \cup {ioPc[f], ioPc'[f]} = {"close", "forget"}
  <1> USE DEF TypeOK, ChannelTypeOK, ClosesCounted
  <1>1. ASSUME UNCHANGED closes, NEW e \in Ends, NEW pc,
               \/ UNCHANGED ioPc /\ mainPc' = [mainPc EXCEPT ![e] = pc]
               \/ UNCHANGED mainPc /\ ioPc' = [ioPc EXCEPT ![e] = pc],
               \/ /\ UNCHANGED handle
                  /\ UNCHANGED ioPc => mainPc[e] # "forget" /\ pc \notin {"create", "mode"}
                  /\ UNCHANGED mainPc => ioPc[e] # "forget"
               \/ handle' = [handle EXCEPT ![e] = FALSE] /\ pc \notin {"create", "mode"}
               \/ mainPc[e] \in {"create", "mode"} /\ handle' = [handle EXCEPT ![e] = TRUE]
        PROVE  \A f \in Ends : ClosesCounted(f)' /\ Raced(f)
    <2>1. ASSUME NEW f \in Ends, f # e PROVE ClosesCounted(f)' /\ Raced(f)
      BY <1>1, <2>1
    <2>2. ClosesCounted(e)' /\ Raced(e)
      BY <1>1
    <2> QED
      BY <2>1, <2>2
  <1>2. ASSUME NEW e \in Ends, ResetPipe(e), UNCHANGED handle,
               \/ UNCHANGED ioPc /\ MainGoes(e, "close", "forget")
               \/ UNCHANGED mainPc /\ IoGoes(e, "close", "forget")
        PROVE  \A f \in Ends : ClosesCounted(f)' /\ Raced(f)
    <2> DEFINE n == IF handle[e] THEN 1 ELSE 0
    <2>1. closes' = [closes EXCEPT ![e] = @ + n] /\ n \in Nat /\ (n > 0 => handle[e])
      BY <1>2 DEF ResetPipe
    <2> HIDE DEF n
    <2>2. mainPc[e] \notin {"create", "mode"}
      BY <1>2 DEF HandleAccounted, MainGoes, IoGoes
    <2>3. ASSUME NEW f \in Ends, f # e PROVE ClosesCounted(f)' /\ Raced(f)
      BY <1>2, <2>1, <2>3 DEF MainGoes, IoGoes
    <2>4. ClosesCounted(e)'
      BY <1>2, <2>1, <2>2 DEF MainGoes, IoGoes
    <2>5. Raced(e)
      BY <1>2, <2>1 DEF MainGoes, IoGoes
    <2> QED
      BY <2>3, <2>4, <2>5
  <1>3. CASE Creation
    <2>1. CASE CreateServerPipe
      BY <1>1, <2>1, EndsFacts DEF CreateServerPipe, MainGoes, history
    <2>2. CASE CreateClientPipe
      <3>1. /\ mainPc[Client] = "create" /\ mainPc' = [mainPc EXCEPT ![Client] = "mode"]
            /\ UNCHANGED <<closes, ioPc, handle>>
        BY <2>2 DEF CreateClientPipe, MainGoes, history
      <3> QED
        BY <3>1, EndsFacts
    <2>3. CASE \E e \in Ends : CreateFails(e)
      BY <1>1, <2>3 DEF CreateFails, MainGoes, history
    <2> QED
      BY <1>3, <2>1, <2>2, <2>3 DEF Creation
  <1>4. ASSUME NEW e \in Ends, MainChoice(e) \/ MainRuns(e)
        PROVE  \A f \in Ends : ClosesCounted(f)' /\ Raced(f)
    <2>1. CASE ConnectOnIOThread(e)
      BY <1>1, <2>1 DEF ConnectOnIOThread, history
    <2>2. CASE BeginSend(e)
      BY <1>1, <2>2 DEF BeginSend, MainGoes, history
    <2>3. CASE Destroy(e)
      BY <1>1, <2>3 DEF Destroy, MainGoes, history
    <2>4. CASE e = Client /\ SetReadMode
      BY <1>1, <2>4 DEF SetReadMode, MainGoes, history
    <2>5. CASE Write(e)
      BY <1>1, <2>5 DEF Write, MainGoes
    <2>6. CASE DestroyDisconnect(e)
      BY <1>1, <2>6 DEF DestroyDisconnect, MainGoes, AfterDisconnect, history
    <2>7. CASE DestroyClose(e)
      <3>1. CASE MainGoes(e, "close", "forget") /\ ResetPipe(e) /\ UNCHANGED handle
        BY <1>2, <2>7, <3>1 DEF DestroyClose
      <3>2. CASE MainGoes(e, "forget", "quit") /\ ForgetHandle(e) /\ UNCHANGED <<pipeVars, closes>>
        BY <1>1, <2>7, <3>2 DEF DestroyClose, MainGoes, ForgetHandle
      <3> QED
        BY <2>7, <3>1, <3>2 DEF DestroyClose
    <2>8. CASE DestroyQuit(e)
      BY <1>1, <2>8 DEF DestroyQuit, MainGoes, history
    <2>9. CASE DestroyJoin(e)
      BY <1>1, <2>9 DEF DestroyJoin, MainGoes, history
    <2> QED
      BY <1>4, <2>1, <2>2, <2>3, <2>4, <2>5, <2>6, <2>7, <2>8, <2>9 DEF MainChoice, MainRuns
  <1>5. ASSUME NEW e \in Ends, IoThread(e)
        PROVE  \A f \in Ends : ClosesCounted(f)' /\ Raced(f)
    <2>1. CASE IoClose(e)
      <3>1. CASE IoGoes(e, "close", "forget") /\ ResetPipe(e) /\ UNCHANGED handle
        BY <1>2, <2>1, <3>1 DEF IoClose
      <3>2. CASE IoGoes(e, "forget", ioRet[e]) /\ ForgetHandle(e) /\ UNCHANGED <<pipeVars, closes>>
        BY <1>1, <2>1, <3>2 DEF IoClose, IoGoes, ForgetHandle
      <3> QED
        BY <2>1, <3>1, <3>2 DEF IoClose
    <2>2. CASE ConnectInternal(e) \/ ClientConnected(e) \/ IoDisconnect(e) \/ WaitObject(e)
               \/ WaitIoCompletion(e) \/ HandleIOCompletion(e) \/ NotifyMessage(e)
               \/ AcceptConnection(e)
      BY <1>1, <2>2
      DEF ConnectInternal, ClientConnected, IoDisconnect, WaitObject, AcceptConnection,
          WaitIoCompletion, HandleIOCompletion, NotifyMessage, IoGoes, history
    <2>3. CASE ConnectToClient(e)
      <3>1. \E pc \in {"wait", "read", "exited"} :
              ioPc[e] = "connect" /\ ioPc' = [ioPc EXCEPT ![e] = pc]
        BY <2>3, ConnectState
      <3>2. UNCHANGED <<mainPc, handle, closes>>
        BY <2>3 DEF ConnectToClient
      <3> QED
        BY <1>1, <3>1, <3>2
    <2>4. CASE FirstRead(e) \/ DoReadCompleteRoutine(e)
      BY <1>1, <2>4 DEF FirstRead, DoReadCompleteRoutine, ReadComplete, history
    <2> QED
      BY <1>5, <2>1, <2>2, <2>3, <2>4 DEF IoThread
  <1> QED
    BY <1>3, <1>4, <1>5 DEF Next

LEMMA ClosesInvariant == Spec => [](\A e \in Ends : ClosesCounted(e))
  <1>1. Init => \A e \in Ends : ClosesCounted(e)
    BY DEF Init, ClosesCounted
  <1>2. TypeOK /\ (\A e \in Ends : ClosesCounted(e)) /\ (\A e \in Ends : HandleAccounted(e))
          /\ [Next]_vars => (\A e \in Ends : ClosesCounted(e))'
    <2>1. CASE UNCHANGED vars
      BY <2>1 DEF vars, chanVars, ClosesCounted
    <2> QED
      BY <2>1, ClosesStep
  <1> QED
    BY <1>1, <1>2, TypeCorrect, HandleInvariant, PTL DEF Spec

(* A pipe handle is closed a second time only while both threads of the    *)
(* end are inside pipe_.reset(), one of them about to clear the pointer:   *)
(* outside that window the unsynchronised DisconnectAndClose of destructor *)
(* and I/O thread closes once.                                             *)
THEOREM ClosedTwiceOnlyInRace == Spec => SecondCloseIsARace
  <1>1. TypeOK /\ (\A e \in Ends : ClosesCounted(e)) /\ (\A e \in Ends : HandleAccounted(e))
          /\ [Next]_vars
          => [\A e \in Ends :
                closes'[e] > closes[e] /\ closes[e] > 0 =>
                  {mainPc[e], mainPc'[e]} \cup {ioPc[e], ioPc'[e]} = {"close", "forget"}]_vars
    BY ClosesStep
  <1> QED
    BY <1>1, TypeCorrect, ClosesInvariant, HandleInvariant, PTL DEF Spec, SecondCloseIsARace

-----------------------------------------------------------------------------
(* Nothing after a failure                                                 *)

LEMMA HeardMore ==
  ASSUME TypeOK, NEW e \in Ends, NEW notice \in Notices,
         told' = [told EXCEPT ![e] = Append(@, notice)]
  PROVE  /\ HeardOfFailure(e)' => HeardOfFailure(e) \/ notice \in {"disconnected", "error"}
         /\ \A i \in Len(told[e]) + 1 .. Len(told'[e]) : told'[e][i] = notice
         /\ \A f \in Ends : f # e => told'[f] = told[f]
  <1>1. told[e] \in Seq(Notices) /\ told'[e] = Append(told[e], notice)
    BY DEF TypeOK, ChannelTypeOK
  <1>2. /\ Len(told[e]) \in Nat
        /\ Len(told'[e]) = Len(told[e]) + 1
        /\ \A i \in 1..Len(told[e]) : told'[e][i] = told[e][i]
        /\ told'[e][Len(told[e]) + 1] = notice
    BY <1>1, AppendProperties, LenProperties
  <1>3. \A i \in Len(told[e]) + 1 .. Len(told'[e]) : told'[e][i] = notice
    BY <1>2
  <1>4. HeardOfFailure(e)' => HeardOfFailure(e) \/ notice \in {"disconnected", "error"}
    BY <1>2 DEF HeardOfFailure
  <1> QED
    BY <1>3, <1>4 DEF TypeOK, ChannelTypeOK

LEMMA FailureStep ==
  ASSUME TypeOK, \A f \in Ends : FailureLasts(f) /\ StateFollowsThread(f), Next
  PROVE  /\ \A f \in Ends : FailureLasts(f)'
         /\ \A f \in Ends : HeardOfFailure(f) =>
              /\ delivered'[f] = delivered[f]
              /\ \A i \in Len(told[f]) + 1 .. Len(told'[f]) :
                   told'[f][i] \in {"disconnected", "error"}
  <1> DEFINE Quiet(f) == HeardOfFailure(f) =>
               /\ delivered'[f] = delivered[f]
               /\ \A i \in Len(told[f]) + 1 .. Len(told'[f]) :
                    told'[f][i] \in {"disconnected", "error"}
  <1>1. \A f \in Ends : IsInError(f) => IsInError(f)'
    BY StateStep
  <1>2. \A f \in Ends : Len(told[f]) \in Nat
    BY LenProperties DEF TypeOK, ChannelTypeOK
  <1> USE DEF FailureLasts, PastGoodNews
  (* Steps that tell nothing and deliver nothing.                          *)
  <1>3. ASSUME UNCHANGED <<told, delivered>>,
               \A f \in Ends : PastGoodNews(f) => PastGoodNews(f)'
        PROVE  \A f \in Ends : FailureLasts(f)' /\ Quiet(f)
    BY <1>2, <1>3 DEF HeardOfFailure
  (* Steps of a thread that has not told of a failure and is not in error. *)
  <1>4. ASSUME NEW e \in Ends, ~PastGoodNews(e), UNCHANGED told,
               \A f \in Ends : f # e => ioPc'[f] = ioPc[f] /\ delivered'[f] = delivered[f]
        PROVE  \A f \in Ends : FailureLasts(f)' /\ Quiet(f)
    BY <1>1, <1>2, <1>4 DEF HeardOfFailure
  (* Steps that tell something.                                            *)
  <1>5. ASSUME NEW e \in Ends, NEW notice \in Notices, UNCHANGED delivered,
               told' = [told EXCEPT ![e] = Append(@, notice)],
               \A f \in Ends : f # e => ioPc'[f] = ioPc[f],
               PastGoodNews(e) => notice \in {"disconnected", "error"},
               PastGoodNews(e) \/ notice \in {"disconnected", "error"} => PastGoodNews(e)'
        PROVE  \A f \in Ends : FailureLasts(f)' /\ Quiet(f)
    <2>1. /\ HeardOfFailure(e)' => HeardOfFailure(e) \/ notice \in {"disconnected", "error"}
          /\ \A i \in Len(told[e]) + 1 .. Len(told'[e]) : told'[e][i] = notice
          /\ \A f \in Ends : f # e => told'[f] = told[f]
      BY <1>5, HeardMore
    <2>2. FailureLasts(e)' /\ Quiet(e)
      BY <1>5, <2>1
    <2>3. ASSUME NEW f \in Ends, f # e PROVE FailureLasts(f)' /\ Quiet(f)
      BY <1>1, <1>2, <1>5, <2>1, <2>3 DEF HeardOfFailure
    <2> QED
      BY <2>2, <2>3
  <1>6. CASE Creation
    BY <1>1, <1>3, <1>6
    DEF Creation, CreateServerPipe, CreateClientPipe, CreateFails, history
  <1>7. ASSUME NEW e \in Ends, MainChoice(e) \/ MainRuns(e)
        PROVE  \A f \in Ends : FailureLasts(f)' /\ Quiet(f)
    <2>1. UNCHANGED <<told, delivered>>
      BY <1>7
      DEF MainChoice, MainRuns, ConnectOnIOThread, BeginSend, Destroy, SetReadMode, Write,
          DestroyDisconnect, DestroyClose, DestroyQuit, DestroyJoin, history
    <2>2. \/ UNCHANGED ioPc
          \/ ioPc[e] = "none" /\ ioPc' = [ioPc EXCEPT ![e] = "start"]
      BY <1>7
      DEF MainChoice, MainRuns, ConnectOnIOThread, BeginSend, Destroy, SetReadMode, Write,
          DestroyDisconnect, DestroyClose, DestroyQuit, DestroyJoin
    <2>3. \A f \in Ends : PastGoodNews(f) => PastGoodNews(f)'
      BY <1>1, <2>2 DEF TypeOK, ChannelTypeOK
    <2> QED
      BY <1>3, <2>1, <2>3
  <1>8. ASSUME NEW e \in Ends, IoThread(e)
        PROVE  \A f \in Ends : FailureLasts(f)' /\ Quiet(f)
    <2> USE NotInError DEF TypeOK, ChannelTypeOK, IoGoes
    <2>1. CASE ConnectInternal(e)
      BY <1>1, <1>3, <2>1, <2>1 DEF ConnectInternal, history
    <2>2. CASE ClientConnected(e)
      BY <1>1, <1>3, <2>2 DEF ClientConnected, history
    <2>3. CASE ConnectToClient(e)
      <3>1. ~PastGoodNews(e)
        BY <2>3 DEF ConnectToClient
      <3>2. PICK notice \in {"pending", "connected", "error"},
                 pc \in {"wait", "read", "exited"} :
              /\ told' = [told EXCEPT ![e] = Append(@, notice)]
              /\ ioPc' = [ioPc EXCEPT ![e] = pc]
              /\ notice = "error" => pc = "exited"
        BY <2>3 DEF ConnectToClient, Tell
      <3>3. UNCHANGED delivered /\ notice \in Notices
        BY <2>3 DEF ConnectToClient, Notices
      <3>4. (notice \in {"disconnected", "error"}) => PastGoodNews(e)'
        BY <3>2
      <3> QED
        BY <1>5, <3>1, <3>2, <3>3, <3>4
    <2>4. CASE FirstRead(e)
      <3>1. /\ UNCHANGED <<told, delivered>>
            /\ ioPc[e] = "read" /\ \E pc \in IoPcs : ioPc' = [ioPc EXCEPT ![e] = pc]
        BY <2>4 DEF FirstRead, ReadComplete, history, IoPcs
      <3> QED
        BY <1>4, <3>1
    <2>5. CASE IoDisconnect(e)
      <3>1. /\ UNCHANGED <<told, delivered>>
            /\ \E pc \in {"close", "wait", "apc"} : ioPc' = [ioPc EXCEPT ![e] = pc]
        BY <2>5 DEF IoDisconnect, AfterDisconnect, history
      <3> QED
        BY <1>1, <1>3, <2>5, <3>1 DEF IoDisconnect
    <2>6. CASE IoClose(e)
      <3>1. /\ UNCHANGED <<told, delivered>> /\ ioPc[e] \in {"close", "forget"}
            /\ \E pc \in {"forget", "wait", "apc"} : ioPc' = [ioPc EXCEPT ![e] = pc]
        BY <2>6 DEF IoClose
      <3> QED
        BY <1>1, <1>3, <3>1
    <2>7. CASE WaitObject(e)
      <3>1. /\ UNCHANGED <<told, delivered>> /\ ioPc[e] = "wait"
            /\ \E pc \in {"exited", "accept", "wait"} :
                 /\ ioPc' = [ioPc EXCEPT ![e] = pc]
                 /\ pc = "accept" => state[e] = "ConnectPending"
        BY <2>7 DEF WaitObject, history
      <3> QED
        BY <1>1, <1>3, <3>1, SMTT(30) DEF IsInError
    <2>8. CASE AcceptConnection(e)
      <3>1. ~PastGoodNews(e)
        BY <2>8 DEF AcceptConnection
      <3>2. CASE IoGoes(e, "accept", "read") /\ UNCHANGED told
        BY <1>4, <2>8, <3>1, <3>2 DEF AcceptConnection
      <3>3. CASE IoGoes(e, "accept", "exited") /\ Tell(e, "error")
        BY <1>5, <2>8, <3>1, <3>3 DEF AcceptConnection, Tell, Notices
      <3> QED
        BY <2>8, <3>2, <3>3 DEF AcceptConnection
    <2>9. CASE DoReadCompleteRoutine(e)
      <3>1. /\ UNCHANGED <<told, delivered>> /\ ioPc[e] \in {"wait", "apc"}
            /\ \E pc \in {"apc", "disconnect"} : ioPc' = [ioPc EXCEPT ![e] = pc]
        BY <2>9 DEF DoReadCompleteRoutine, ReadComplete, history
      <3> QED
        BY <1>1, <1>3, <3>1
    <2>10. CASE WaitIoCompletion(e)
      BY <1>1, <1>3, <2>10 DEF WaitIoCompletion, history
    <2>11. CASE HandleIOCompletion(e)
      <3>1. CASE IsInError(e) /\ IoGoes(e, "handle", "wait") /\ Tell(e, Notice(state[e]))
        <4>1. Notice(state[e]) \in Notices /\ Notice(state[e]) \in {"disconnected", "error"}
          BY DEF Notice, Notices
        <4>2. PastGoodNews(e)'
          BY <1>1, <3>1
        <4>3. UNCHANGED delivered
          BY <2>11 DEF HandleIOCompletion
        <4>4. told' = [told EXCEPT ![e] = Append(@, Notice(state[e]))]
          BY <3>1 DEF Tell
        <4> QED
          BY <1>5, <3>1, <4>1, <4>2, <4>3, <4>4
      <3>2. CASE ~IsInError(e) /\ IoGoes(e, "handle", "notify") /\ UNCHANGED told
        BY <1>4, <2>11, <3>2 DEF HandleIOCompletion
      <3> QED
        BY <2>11, <3>1, <3>2 DEF HandleIOCompletion
    <2>12. CASE NotifyMessage(e)
      BY <1>4, <2>12 DEF NotifyMessage
    <2> QED
      BY <1>8, <2>1, <2>2, <2>3, <2>4, <2>5, <2>6, <2>7, <2>8, <2>9, <2>10, <2>11,
         <2>12 DEF IoThread
  <1> QED
    BY <1>6, <1>7, <1>8 DEF Next

LEMMA FailureInvariant == Spec => [](\A e \in Ends : FailureLasts(e))
  <1>1. Init => \A e \in Ends : FailureLasts(e)
    BY DEF Init, FailureLasts, HeardOfFailure
  <1>2. TypeOK /\ (\A e \in Ends : FailureLasts(e)) /\ (\A e \in Ends : StateFollowsThread(e))
          /\ [Next]_vars => (\A e \in Ends : FailureLasts(e))'
    <2>1. CASE UNCHANGED vars
      BY <2>1 DEF vars, chanVars, FailureLasts, PastGoodNews, HeardOfFailure, IsInError
    <2> QED
      BY <2>1, FailureStep
  <1> QED
    BY <1>1, <1>2, TypeCorrect, StateInvariant, PTL DEF Spec

(* Once the delegate has been told of a disconnect or an error, no step of *)
(* any thread hands it a message or a connect status again: what it still  *)
(* hears is of failure.                                                    *)
THEOREM FailureIsTheEnd == Spec => NothingAfterFailure
  <1>1. TypeOK /\ (\A e \in Ends : FailureLasts(e)) /\ (\A e \in Ends : StateFollowsThread(e))
          /\ [Next]_vars
          => [\A e \in Ends : HeardOfFailure(e) =>
                /\ delivered'[e] = delivered[e]
                /\ \A i \in Len(told[e]) + 1 .. Len(told'[e]) :
                     told'[e][i] \in {"disconnected", "error"}]_vars
    BY FailureStep
  <1> QED
    BY <1>1, TypeCorrect, FailureInvariant, StateInvariant, PTL DEF Spec, NothingAfterFailure

-----------------------------------------------------------------------------
(* Misfits                                                                 *)

Misfit(e) == MessageSize[Peer(e)] \notin 1..ReadBufSize
TooLong(e) == MessageSize[Peer(e)] > ReadBufSize

(* A completion the code may keep the message of.                          *)
Kept(c) == c.err = NoError /\ c.msg > 0

LEMMA MisfitSize ==
  ASSUME NEW e \in Ends
  PROVE  /\ Misfit(e) => MessageSize[Peer(e)] = 0 \/ TooLong(e)
         /\ \A m \in Nat : TooLong(e) => ~Kept(Completion(e, m))
  BY PipeAssumption, EndsFacts DEF Misfit, TooLong, Kept, Completion, MoreData, NoError

(* One more completion, or none.                                           *)
LEMMA QueueKept ==
  ASSUME NEW s \in Seq(Completions), NEW c \in Completions, ~Kept(c),
         \A i \in 1..Len(s) : ~Kept(s[i])
  PROVE  \A i \in 1..Len(Append(s, c)) : ~Kept(Append(s, c)[i])
  BY AppendProperties, LenProperties

NoneKept(e) == \A i \in 1..Len(apcs[e]) : ~Kept(apcs[e][i])

LEMMA PipeKeepsNone ==
  ASSUME TypeOK, NEW f \in Ends, TooLong(f), NoneKept(f), NEW e \in Ends,
         \/ CreateNamedPipe \/ CreateFile \/ ConnectNamedPipe
         \/ \E m \in Nat : WriteFile(e, m)
         \/ ReadFileEx(e, <<>>)
         \/ DisconnectNamedPipe \/ CloseHandle(e)
         \/ UNCHANGED apcs
  PROVE  NoneKept(f)'
  <1> USE DEF TypeOK, PipeTypeOK, NoneKept
  <1>1. ASSUME NEW c \in Completions, ~Kept(c), apcs'[f] \in {apcs[f], Append(apcs[f], c)}
        PROVE  NoneKept(f)'
    BY <1>1, QueueKept
  <1>2. CASE UNCHANGED apcs
    BY <1>2
  <1>3. CASE CreateNamedPipe \/ CreateFile \/ ConnectNamedPipe
    BY <1>3 DEF CreateNamedPipe, CreateFile, ConnectNamedPipe
  <1>4. CASE \E m \in Nat : WriteFile(e, m)
    <2>1. PICK m \in Nat : WriteFile(e, m)
      BY <1>4
    <2>2. Completion(f, m) \in Completions /\ ~Kept(Completion(f, m))
      BY CompletionType, MisfitSize
    <2>3. apcs'[f] \in {apcs[f], Append(apcs[f], Completion(f, m))}
      BY <2>1, EndsFacts DEF WriteFile
    <2> QED
      BY <1>1, <2>2, <2>3
  <1>5. CASE ReadFileEx(e, <<>>)
    <2>1. CASE f # e
      BY <1>5, <2>1 DEF ReadFileEx
    <2>2. CASE f = e
      <3> DEFINE c == Completion(e, Head(inbox[e]))
      <3>1. inbox[e] # <<>> => c \in Completions /\ ~Kept(c)
        BY <2>2, HeadTailProperties, CompletionType, MisfitSize
      <3>2. inbox[e] # <<>> => Append(<<>>, c) = <<c>> /\ Len(<<c>>) = 1 /\ <<c>>[1] = c
        BY <3>1, OneMore
      <3>3. apcs'[e] = <<>> \/ (inbox[e] # <<>> /\ apcs'[e] = <<c>>)
        BY <1>5, <3>2 DEF ReadFileEx
      <3> HIDE DEF c
      <3> QED
        BY <2>2, <3>1, <3>2, <3>3
    <2> QED
      BY <2>1, <2>2
  <1>6. ASSUME NEW code \in ErrorCodes, FailReads(code) PROVE NoneKept(f)'
    <2>1. /\ [err |-> code, msg |-> 0] \in Completions
          /\ ~Kept([err |-> code, msg |-> 0])
      BY DEF Completions, Kept
    <2>2. apcs'[f] \in {apcs[f], Append(apcs[f], [err |-> code, msg |-> 0])}
      BY <1>6 DEF FailReads
    <2> QED
      BY <1>1, <2>1, <2>2
  <1>7. CASE DisconnectNamedPipe
    BY <1>6, <1>7 DEF DisconnectNamedPipe, ErrorCodes
  <1>8. CASE CloseHandle(e)
    BY <1>6, <1>8 DEF CloseHandle, ErrorCodes
  <1> QED
    BY <1>2, <1>3, <1>4, <1>5, <1>7, <1>8

(* A misfit is not kept, and one longer than the buffer is an error.       *)
MisfitsDropped(e) ==
  Misfit(e) => /\ message[e] = <<>> /\ delivered[e] = <<>>
               /\ TooLong(e) => NoneKept(e)

LEMMA MisfitStep ==
  ASSUME TypeOK, \A f \in Ends : MisfitsDropped(f) /\ ReadsInTurn(f), Next
  PROVE  \A f \in Ends : MisfitsDropped(f)'
  <1> SUFFICES ASSUME NEW f \in Ends, Misfit(f)
               PROVE  /\ message'[f] = <<>> /\ delivered'[f] = <<>>
                      /\ TooLong(f) => NoneKept(f)'
    BY DEF MisfitsDropped, Misfit, TooLong
  <1>1. message[f] = <<>> /\ delivered[f] = <<>> /\ (TooLong(f) => NoneKept(f))
    BY DEF MisfitsDropped
  <1>2. <<>> \o <<>> = <<>>
    OBVIOUS
  <1> USE DEF TypeOK, ChannelTypeOK
  <1>3. CASE Creation
    <2>1. TooLong(f) => NoneKept(f)'
      BY <1>1, <1>3, PipeKeepsNone, EndsFacts
      DEF Creation, CreateServerPipe, CreateClientPipe, CreateFails, pipeVars
    <2> QED
      BY <1>1, <1>3, <2>1
      DEF Creation, CreateServerPipe, CreateClientPipe, CreateFails, history
  <1>4. ASSUME NEW e \in Ends, MainChoice(e) \/ MainRuns(e)
        PROVE  /\ message'[f] = <<>> /\ delivered'[f] = <<>>
               /\ TooLong(f) => NoneKept(f)'
    <2>1. message'[f] = <<>> /\ delivered'[f] = <<>>
      BY <1>1, <1>4
      DEF MainChoice, MainRuns, ConnectOnIOThread, BeginSend, Destroy, SetReadMode, Write,
          DestroyDisconnect, DestroyClose, DestroyQuit, DestroyJoin, history
    <2>2. ASSUME TooLong(f) PROVE NoneKept(f)'
      <3>1. NoneKept(f)
        BY <1>1, <2>2
      <3>2. CASE UNCHANGED apcs
        BY <2>2, <3>1, <3>2, PipeKeepsNone
      <3>3. CASE Write(e)
        BY <2>2, <3>1, <3>3, PipeKeepsNone DEF Write, pipeVars
      <3>4. CASE DestroyDisconnect(e)
        BY <2>2, <3>1, <3>4, PipeKeepsNone DEF DestroyDisconnect, DisconnectPipe, pipeVars
      <3>5. CASE DestroyClose(e)
        BY <2>2, <3>1, <3>5, PipeKeepsNone DEF DestroyClose, ResetPipe, pipeVars
      <3>6. CASE e = Client /\ SetReadMode
        BY <2>2, <3>1, <3>6, PipeKeepsNone DEF SetReadMode, pipeVars
      <3> QED
        BY <1>4, <3>2, <3>3, <3>4, <3>5, <3>6
        DEF MainChoice, MainRuns, ConnectOnIOThread, BeginSend, Destroy,
            DestroyQuit, DestroyJoin, pipeVars
    <2> QED
      BY <2>1, <2>2
  <1>5. ASSUME NEW e \in Ends, IoThread(e)
        PROVE  /\ message'[f] = <<>> /\ delivered'[f] = <<>>
               /\ TooLong(f) => NoneKept(f)'
    <2>1. ASSUME NEW c \in Completions, NEW ret, ReadComplete(e, c, <<>>, ret),
                 Len(apcs[e]) <= 1,
                 Kept(c) => apcs[e] # <<>> /\ c = Head(apcs[e])
          PROVE  /\ message'[f] = <<>> /\ delivered'[f] = <<>>
                 /\ TooLong(f) => NoneKept(f)'
      <3>1. delivered' = delivered
        BY <2>1 DEF ReadComplete, history
      <3>2. ASSUME TooLong(f) PROVE NoneKept(f)'
        <4>1. NoneKept(f)
          BY <1>1, <3>2
        <4>2. CASE ReadFileEx(e, <<>>)
          BY <3>2, <4>1, <4>2, PipeKeepsNone
        <4>3. CASE apcs' = [apcs EXCEPT ![e] = <<>>]
          BY <4>1, <4>3 DEF NoneKept, PipeTypeOK
        <4> QED
          BY <2>1, <4>2, <4>3 DEF ReadComplete
      <3>3. message'[f] = <<>>
        <4>1. CASE f # e
          BY <1>1, <2>1, <4>1, ReadCompleteState
        <4>2. CASE ReadError(e, c) # NoError
          BY <1>1, <2>1, <4>2 DEF ReadComplete
        <4>3. CASE f = e /\ ReadError(e, c) = NoError
          <5>1. message'[e] = Received(e, c) /\ c.err = NoError
            BY <2>1, <4>3 DEF ReadComplete, ReadError
          <5>2. CASE MessageSize[Peer(e)] = 0
            BY <1>1, <4>3, <5>1, <5>2 DEF Received
          <5>3. CASE TooLong(e)
            <6>1. ~Kept(c)
              <7>1. apcs[e] # <<>> => Head(apcs[e]) = apcs[e][1] /\ 1 \in 1..Len(apcs[e])
                BY HeadTailProperties, EmptySeq, LenProperties DEF PipeTypeOK
              <7> QED
                BY <1>1, <2>1, <4>3, <5>3, <7>1 DEF NoneKept
            <6> QED
              BY <1>1, <4>3, <5>1, <6>1 DEF Received, Kept
          <5> QED
            BY <4>3, <5>2, <5>3, MisfitSize
        <4> QED
          BY <4>1, <4>2, <4>3
      <3> QED
        BY <1>1, <3>1, <3>2, <3>3
    <2>2. CASE FirstRead(e)
      <3>1. /\ [err |-> NoError, msg |-> 0] \in Completions
            /\ ~Kept([err |-> NoError, msg |-> 0])
        BY DEF Completions, Kept
      <3>2. apcs[e] = <<>> /\ Len(apcs[e]) <= 1
        BY <2>2 DEF FirstRead, ReadsInTurn, NoRead
      <3> QED
        BY <2>1, <2>2, <3>1, <3>2 DEF FirstRead
    <2>3. CASE DoReadCompleteRoutine(e)
      <3>1. apcs[e] # <<>> /\ Len(apcs[e]) <= 1 /\ apcs[e] \in Seq(Completions)
        BY <2>3 DEF DoReadCompleteRoutine, ReadsInTurn, PipeTypeOK
      <3>2. Head(apcs[e]) \in Completions /\ Tail(apcs[e]) = <<>>
        BY <3>1, LastOne
      <3> QED
        BY <2>1, <2>3, <3>1, <3>2 DEF DoReadCompleteRoutine
    <2>4. CASE ConnectToClient(e)
      BY <1>1, <2>4, PipeKeepsNone DEF ConnectToClient
    <2>5. CASE IoDisconnect(e)
      <3>1. TooLong(f) => NoneKept(f)'
        BY <1>1, <2>5, PipeKeepsNone DEF IoDisconnect, DisconnectPipe, pipeVars
      <3> QED
        BY <1>1, <2>5, <3>1 DEF IoDisconnect, history
    <2>6. CASE IoClose(e)
      <3>1. TooLong(f) => NoneKept(f)'
        BY <1>1, <2>6, PipeKeepsNone DEF IoClose, ResetPipe, pipeVars
      <3> QED
        BY <1>1, <2>6, <3>1 DEF IoClose
    <2>7. CASE NotifyMessage(e)
      <3>1. message'[f] = <<>> /\ delivered'[f] = <<>>
        BY <1>1, <1>2, <2>7 DEF NotifyMessage
      <3> QED
        BY <1>1, <2>7, <3>1, PipeKeepsNone DEF NotifyMessage, pipeVars
    <2>8. CASE ConnectInternal(e) \/ ClientConnected(e) \/ WaitObject(e)
               \/ AcceptConnection(e) \/ WaitIoCompletion(e) \/ HandleIOCompletion(e)
      <3>1. UNCHANGED <<apcs, message, delivered>>
        BY <2>8
        DEF ConnectInternal, ClientConnected, WaitObject, AcceptConnection,
            WaitIoCompletion, HandleIOCompletion, pipeVars, history
      <3> QED
        BY <1>1, <3>1, PipeKeepsNone
    <2> QED
      BY <1>5, <2>2, <2>3, <2>4, <2>5, <2>6, <2>7, <2>8 DEF IoThread
  <1> QED
    BY <1>3, <1>4, <1>5 DEF Next

LEMMA MisfitInvariant == Spec => [](\A e \in Ends : MisfitsDropped(e))
  <1>1. Init => \A e \in Ends : MisfitsDropped(e)
    BY DEF Init, PipeInit, MisfitsDropped, NoneKept
  <1>2. TypeOK /\ (\A e \in Ends : MisfitsDropped(e)) /\ (\A e \in Ends : ReadsInTurn(e))
          /\ [Next]_vars => (\A e \in Ends : MisfitsDropped(e))'
    <2>1. CASE UNCHANGED vars
      BY <2>1 DEF vars, pipeVars, chanVars, MisfitsDropped, NoneKept, Misfit, TooLong
    <2> QED
      BY <2>1, MisfitStep
  <1> QED
    BY <1>1, <1>2, TypeCorrect, ReadsInvariant, PTL DEF Spec

(* A message longer than kReadBufSize never reaches OnMessage, not even    *)
(* its first part, and neither does an empty one.                          *)
THEOREM MisfitsStayOut == Spec => []NoMisfitDelivered
  <1>1. (\A e \in Ends : MisfitsDropped(e)) => NoMisfitDelivered
    BY DEF MisfitsDropped, Misfit, NoMisfitDelivered
  <1> QED
    BY <1>1, MisfitInvariant, PTL
=============================================================================
