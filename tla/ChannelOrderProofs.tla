-------------------------- MODULE ChannelOrderProofs ---------------------------
(***************************************************************************)
(* In which order the messages of MessageChannel arrive, and what becomes  *)
(* of them: ChannelProperties' InOrder, and the message stream that each   *)
(* direction of the channel implements.                                    *)
(***************************************************************************)
EXTENDS ChannelProofs

-----------------------------------------------------------------------------
(* What is on its way, as four sequences: delivered, read and not yet      *)
(* handed out, arriving, in the pipe                                       *)

InTurn(d, m, a, b, n) ==
  /\ Sorted(d) /\ Sorted(m) /\ Sorted(a) /\ Sorted(b)
  /\ Within(d, n) /\ Within(m, n) /\ Within(a, n) /\ Within(b, n)
  /\ Precedes(d, m) /\ Precedes(d, a) /\ Precedes(d, b)
  /\ Precedes(m, a) /\ Precedes(m, b)
  /\ Precedes(a, b)

Gapless(d, m, a, b) ==
  /\ Run(m, Len(d))
  /\ Run(a, Len(d) + Len(m))
  /\ Run(b, Len(d) + Len(m) + Len(a))

Total(d, m, a, b) == Len(d) + Len(m) + Len(a) + Len(b)

LEMMA TotalAppend ==
  ASSUME NEW d \in Seq(Nat), NEW m \in Seq(Nat), NEW a \in Seq(Nat), NEW b \in Seq(Nat),
         NEW x \in Nat
  PROVE  Total(d, m, a, Append(b, x)) = Total(d, m, a, b) + 1
  <1>1. /\ Len(d) \in Nat /\ Len(m) \in Nat /\ Len(a) \in Nat /\ Len(b) \in Nat
        /\ Len(Append(b, x)) = Len(b) + 1
    BY LenProperties, AppendProperties
  <1> QED
    BY <1>1 DEF Total

LEMMA Lose ==
  ASSUME NEW d, NEW m, NEW a, NEW b, NEW n, InTurn(d, m, a, b, n)
  PROVE  /\ InTurn(d, m, a, <<>>, n) /\ InTurn(d, <<>>, a, b, n) /\ InTurn(d, m, <<>>, b, n)
         /\ Gapless(d, m, a, b) => Gapless(d, m, a, <<>>)
  BY OrderEmpty DEF InTurn, Gapless

LEMMA Send ==
  ASSUME NEW d \in Seq(Nat), NEW m \in Seq(Nat), NEW a \in Seq(Nat), NEW b \in Seq(Nat),
         NEW n \in Nat, InTurn(d, m, a, b, n)
  PROVE  /\ InTurn(d, m, a, Append(b, n + 1), n + 1)
         /\ Gapless(d, m, a, b) /\ Total(d, m, a, b) = n
              => /\ Gapless(d, m, a, Append(b, n + 1))
                 /\ Total(d, m, a, Append(b, n + 1)) = n + 1
  <1>1. \A s \in Seq(Nat) : Within(s, n) => Within(s, n + 1) /\ Precedes(s, <<n + 1>>)
    <2> TAKE s \in Seq(Nat)
    <2>1. Within(s, n) => Within(s, n + 1)
      BY DEF Within
    <2> DEFINE x == n + 1
    <2>2. x \in Nat /\ (Within(s, n) => \A i \in 1..Len(s) : s[i] < x)
      BY DEF Within
    <2> HIDE DEF x
    <2>3. Within(s, n) => Precedes(s, <<x>>)
      BY <2>2, OrderOne
    <2> QED
      BY <2>1, <2>3 DEF x
  <1>2. InTurn(d, m, a, Append(b, n + 1), n + 1)
    <2>1. Sorted(Append(b, n + 1)) /\ Within(Append(b, n + 1), n + 1)
      BY <1>1, OrderAppend DEF InTurn
    <2>2. /\ Precedes(d, Append(b, n + 1)) /\ Precedes(m, Append(b, n + 1))
          /\ Precedes(a, Append(b, n + 1))
      BY <1>1, OrderAppend DEF InTurn
    <2> QED
      BY <1>1, <2>1, <2>2 DEF InTurn
  <1>3. ASSUME Gapless(d, m, a, b), Total(d, m, a, b) = n
        PROVE  /\ Gapless(d, m, a, Append(b, n + 1))
               /\ Total(d, m, a, Append(b, n + 1)) = n + 1
    <2>1. /\ Len(d) \in Nat /\ Len(m) \in Nat /\ Len(a) \in Nat /\ Len(b) \in Nat
          /\ Len(Append(b, n + 1)) = Len(b) + 1
      BY LenProperties, AppendProperties
    <2> DEFINE x == n + 1
               k == Len(d) + Len(m) + Len(a)
    <2>2. /\ x \in Nat /\ k \in Nat /\ x = k + Len(b) + 1
          /\ Run(m, Len(d)) /\ Run(a, Len(d) + Len(m)) /\ Run(b, k)
      <3>1. Len(d) + Len(m) + Len(a) + Len(b) = n
        BY <1>3 DEF Total
      <3>2. x \in Nat /\ k \in Nat /\ x = k + Len(b) + 1
        BY <2>1, <3>1
      <3> QED
        BY <1>3, <3>2 DEF Gapless
    <2> HIDE DEF x, k
    <2>3. Run(Append(b, x), k)
      BY <2>2, OrderAppend
    <2>4. Gapless(d, m, a, Append(b, x))
      BY <2>2, <2>3 DEF Gapless, k
    <2>5. Total(d, m, a, Append(b, n + 1)) = n + 1
      BY <1>3, n + 1 \in Nat, TotalAppend
    <2> QED
      BY <2>4, <2>5 DEF x
  <1> QED
    BY <1>2, <1>3

LEMMA SendToReader ==
  ASSUME NEW d \in Seq(Nat), NEW m \in Seq(Nat), NEW n \in Nat, InTurn(d, m, <<>>, <<>>, n)
  PROVE  /\ InTurn(d, m, <<n + 1>>, <<>>, n + 1)
         /\ Gapless(d, m, <<>>, <<>>) /\ Total(d, m, <<>>, <<>>) = n
              => /\ Gapless(d, m, <<n + 1>>, <<>>)
                 /\ Total(d, m, <<n + 1>>, <<>>) = n + 1
  <1> DEFINE x == n + 1
  <1>1. /\ x \in Nat /\ x \in 1..x
        /\ Len(d) \in Nat /\ Len(m) \in Nat /\ Len(<<>>) = 0 /\ Len(<<x>>) = 1
    BY LenProperties
  <1>2. ASSUME NEW s \in Seq(Nat), Within(s, n)
        PROVE  Within(s, x) /\ Precedes(s, <<x>>)
    <2>1. Within(s, x) /\ \A i \in 1..Len(s) : s[i] < x
      BY <1>2 DEF Within
    <2> HIDE DEF x
    <2> QED
      BY <1>1, <2>1, OrderOne
  <1>3. InTurn(d, m, <<x>>, <<>>, x)
    <2>1. Sorted(<<x>>) /\ Within(<<x>>, x)
      <3> HIDE DEF x
      <3> QED
        BY <1>1, OrderOne
    <2> QED
      BY <1>2, <2>1, OrderEmpty DEF InTurn
  <1>4. ASSUME Gapless(d, m, <<>>, <<>>), Total(d, m, <<>>, <<>>) = n
        PROVE  Gapless(d, m, <<x>>, <<>>) /\ Total(d, m, <<x>>, <<>>) = x
    <2>1. Len(d) + Len(m) + Len(<<>>) + Len(<<>>) = n
      BY <1>4 DEF Total
    <2>2. Total(d, m, <<x>>, <<>>) = x
      BY <1>1, <2>1 DEF Total
    <2> DEFINE k == Len(d) + Len(m)
    <2>3. Run(<<x>>, k)
      <3>1. k \in Nat /\ x = k + 1
        BY <1>1, <2>1
      <3> HIDE DEF x, k
      <3> QED
        BY <1>1, <3>1, OrderOne
    <2> QED
      BY <1>4, <2>2, <2>3, OrderEmpty DEF Gapless
  <1> QED
    BY <1>3, <1>4

LEMMA Receive ==
  ASSUME NEW d \in Seq(Nat), NEW m \in Seq(Nat), NEW x \in Nat, NEW b \in Seq(Nat),
         NEW n \in Nat, InTurn(d, m, <<x>>, b, n)
  PROVE  /\ InTurn(d, Append(m, x), <<>>, b, n)
         /\ Gapless(d, m, <<x>>, b) => Gapless(d, Append(m, x), <<>>, b)
         /\ Total(d, Append(m, x), <<>>, b) = Total(d, m, <<x>>, b)
  <1>1. /\ Len(d) \in Nat /\ Len(m) \in Nat /\ Len(b) \in Nat /\ Len(<<>>) = 0
        /\ Len(<<x>>) = 1 /\ Len(Append(m, x)) = Len(m) + 1
    BY LenProperties, AppendProperties
  <1>2. InTurn(d, Append(m, x), <<>>, b, n)
    <2>1. x \in 1..n
      BY OrderOne DEF InTurn
    <2>2. Sorted(Append(m, x)) /\ Within(Append(m, x), n)
      BY <2>1, OrderAppend DEF InTurn
    <2>3. Precedes(d, Append(m, x)) /\ Precedes(Append(m, x), b)
      BY OrderAppend DEF InTurn
    <2> QED
      BY <2>2, <2>3, OrderEmpty DEF InTurn
  <1>3. ASSUME Gapless(d, m, <<x>>, b) PROVE Gapless(d, Append(m, x), <<>>, b)
    <2>1. Run(m, Len(d)) /\ Run(<<x>>, Len(d) + Len(m)) /\ Run(b, Len(d) + Len(m) + 1)
      BY <1>1, <1>3 DEF Gapless
    <2> DEFINE k == Len(d) + Len(m)
    <2>2. x = Len(d) + Len(m) + 1
      <3>1. k \in Nat /\ Run(<<x>>, k)
        BY <1>1, <2>1
      <3> HIDE DEF k
      <3>2. x = k + 1
        BY <3>1, OrderOne
      <3> QED
        BY <3>2 DEF k
    <2>3. Run(Append(m, x), Len(d))
      BY <1>1, <2>1, <2>2, OrderAppend
    <2>4. Len(d) + Len(Append(m, x)) + Len(<<>>) = Len(d) + Len(m) + 1
      BY <1>1
    <2> QED
      BY <2>1, <2>3, <2>4, OrderEmpty DEF Gapless
  <1> QED
    BY <1>1, <1>2, <1>3 DEF Total

LEMMA StartRead ==
  ASSUME NEW d \in Seq(Nat), NEW m \in Seq(Nat), NEW b \in Seq(Nat), b # <<>>,
         NEW n \in Nat, InTurn(d, m, <<>>, b, n)
  PROVE  /\ Head(b) > 0
         /\ InTurn(d, m, <<Head(b)>>, Tail(b), n)
         /\ Gapless(d, m, <<>>, b) => Gapless(d, m, <<Head(b)>>, Tail(b))
         /\ Total(d, m, <<Head(b)>>, Tail(b)) = Total(d, m, <<>>, b)
  <1>1. /\ Len(d) \in Nat /\ Len(m) \in Nat /\ Len(Tail(b)) \in Nat /\ Len(<<>>) = 0
        /\ Len(<<Head(b)>>) = 1 /\ Len(b) = Len(Tail(b)) + 1
        /\ Head(b) \in Nat /\ Tail(b) \in Seq(Nat)
    BY LenProperties, OrderHeadTail
  <1>2. Head(b) \in 1..n /\ Within(Tail(b), n) /\ Sorted(Tail(b))
    BY OrderHeadTail DEF InTurn
  <1>3. InTurn(d, m, <<Head(b)>>, Tail(b), n)
    <2>1. /\ Precedes(d, <<Head(b)>>) /\ Precedes(m, <<Head(b)>>)
          /\ Precedes(d, Tail(b)) /\ Precedes(m, Tail(b)) /\ Precedes(<<Head(b)>>, Tail(b))
      BY OrderHeadTail DEF InTurn
    <2>2. Sorted(<<Head(b)>>) /\ Within(<<Head(b)>>, n)
      BY <1>1, <1>2, OrderOne
    <2> QED
      BY <1>2, <2>1, <2>2 DEF InTurn
  <1>4. ASSUME Gapless(d, m, <<>>, b) PROVE Gapless(d, m, <<Head(b)>>, Tail(b))
    <2>1. Run(m, Len(d)) /\ Run(b, Len(d) + Len(m))
      BY <1>1, <1>4 DEF Gapless
    <2> DEFINE k == Len(d) + Len(m)
    <2>2. k \in Nat /\ Run(b, k)
      BY <1>1, <2>1
    <2> HIDE DEF k
    <2>3. Head(b) = k + 1 /\ Run(Tail(b), k + 1)
      BY <2>2, OrderHeadTail
    <2>4. Run(<<Head(b)>>, k)
      BY <1>1, <2>2, <2>3, OrderOne
    <2> USE DEF k
    <2> QED
      BY <1>1, <2>1, <2>3, <2>4 DEF Gapless
  <1> QED
    BY <1>1, <1>2, <1>3, <1>4 DEF Total

LEMMA Deliver ==
  ASSUME NEW d \in Seq(Nat), NEW m \in Seq(Nat), NEW a \in Seq(Nat), NEW b \in Seq(Nat),
         NEW n \in Nat, InTurn(d, m, a, b, n)
  PROVE  /\ InTurn(d \o m, <<>>, a, b, n)
         /\ Run(d, 0) /\ Gapless(d, m, a, b) => Run(d \o m, 0) /\ Gapless(d \o m, <<>>, a, b)
         /\ Total(d \o m, <<>>, a, b) = Total(d, m, a, b)
  <1>1. /\ Len(d) \in Nat /\ Len(m) \in Nat /\ Len(a) \in Nat /\ Len(b) \in Nat /\ Len(<<>>) = 0
        /\ Len(d \o m) = Len(d) + Len(m)
    BY LenProperties, ConcatProperties
  <1>2. InTurn(d \o m, <<>>, a, b, n)
    <2>1. Sorted(d \o m) /\ Within(d \o m, n)
      BY OrderConcat DEF InTurn
    <2>2. Precedes(d \o m, a) /\ Precedes(d \o m, b)
      BY OrderConcat DEF InTurn
    <2> QED
      BY <2>1, <2>2, OrderEmpty DEF InTurn
  <1>3. ASSUME Run(d, 0), Gapless(d, m, a, b)
        PROVE  Run(d \o m, 0) /\ Gapless(d \o m, <<>>, a, b)
    <2>1. Run(d \o m, 0)
      BY <1>1, <1>3, OrderConcat DEF Gapless
    <2>2. /\ Run(a, Len(d) + Len(m)) /\ Run(b, Len(d) + Len(m) + Len(a))
          /\ Len(d \o m) + Len(<<>>) = Len(d) + Len(m)
          /\ Len(d \o m) + Len(<<>>) + Len(a) = Len(d) + Len(m) + Len(a)
      BY <1>1, <1>3 DEF Gapless
    <2>3. Run(<<>>, Len(d \o m))
      BY OrderEmpty
    <2> QED
      BY <2>1, <2>2, <2>3 DEF Gapless
  <1> QED
    BY <1>1, <1>2, <1>3 DEF Total

-----------------------------------------------------------------------------
(* Inductive strengthening                                                 *)

(* What is delivered, read, arriving and waiting is in order and was sent. *)
Ordered(e) == InTurn(delivered[e], message[e], Arriving(e), inbox[e], sent[Peer(e)])

Fits(e) == MessageSize[Peer(e)] \in 1..ReadBufSize

(* Nothing will be delivered any more.                                     *)
Dead(e) == IsInError(e) /\ ioPc[e] # "notify"

Attached == \A e \in Ends : pend[e] = "attached"

InPipe(e) == Total(delivered[e], message[e], Arriving(e), inbox[e])

Contiguous(e) ==
  /\ Gapless(delivered[e], message[e], Arriving(e), inbox[e])
  /\ Attached => InPipe(e) = sent[Peer(e)]

(* For messages that fit: until the destructor, what is delivered has no   *)
(* gap, and what may follow goes on from there, up to what was sent as     *)
(* long as the pipe is whole.                                              *)
NoGap(e) ==
  Fits(e) /\ ~Destroying(e) =>
    Run(delivered[e], 0) /\ (Dead(e) \/ Contiguous(e))

(* Nothing is sent before the client opens the pipe.                       *)
NothingSentYet == mainPc[Client] = "create" => \A e \in Ends : sent[e] = 0

OrderInv == NothingSentYet /\ \A e \in Ends : Ordered(e) /\ NoGap(e)

LEMMA MessageOfOne ==
  ASSUME NEW c \in Completions
  PROVE  MessageOf(<<c>>) = IF c.msg = 0 THEN <<>> ELSE <<c.msg>>
  BY DEF MessageOf

LEMMA OrderTypes ==
  ASSUME TypeOK, NEW e \in Ends
  PROVE  /\ delivered[e] \in Seq(Nat) /\ message[e] \in Seq(Nat) /\ inbox[e] \in Seq(Nat)
         /\ Arriving(e) \in Seq(Nat) /\ sent[Peer(e)] \in Nat
  <1>1. apcs[e] # <<>> => Head(apcs[e]).msg \in Nat
    <2>1. apcs[e] # <<>> => Head(apcs[e]) \in Completions
      BY HeadTailProperties DEF TypeOK, PipeTypeOK
    <2> QED
      BY <2>1 DEF Completions
  <1>2. Arriving(e) \in Seq(Nat)
    BY <1>1 DEF Arriving, MessageOf
  <1> QED
    BY <1>2, EndsFacts DEF TypeOK, PipeTypeOK, ChannelTypeOK

LEMMA Peers ==
  ASSUME NEW e \in Ends
  PROVE  /\ Peer(e) \in Ends /\ Peer(Peer(e)) = e /\ Peer(e) # e
         /\ \A f \in Ends : f = e \/ f = Peer(e)
  BY DEF Peer, Ends, Server, Client

(* A pipe operation that moves no message may lose those in the pipe, and  *)
(* then the pipe is not whole any more.                                    *)
PipeLoses(f) ==
  /\ Arriving(f)' = Arriving(f)
  /\ inbox'[f] \in {inbox[f], <<>>}
  /\ Attached' => Attached /\ inbox'[f] = inbox[f]

LEMMA PipeLosesOnly ==
  ASSUME TypeOK, \A f \in Ends : ReadsInTurn(f), NEW e \in Ends,
         \/ CreateNamedPipe \/ ConnectNamedPipe
         \/ DisconnectNamedPipe \/ CloseHandle(e) \/ UNCHANGED <<pend, inbox, apcs>>
  PROVE  \A f \in Ends : PipeLoses(f)
  <1> USE EndsFacts DEF TypeOK, PipeTypeOK, PipeLoses, Attached
  <1>1. CASE UNCHANGED <<pend, inbox, apcs>>
    BY <1>1 DEF Arriving
  <1>2. CASE CreateNamedPipe \/ ConnectNamedPipe
    <2>1. UNCHANGED <<inbox, apcs>>
      BY <1>2 DEF CreateNamedPipe, ConnectNamedPipe
    <2>2. Attached' => Attached
      BY <1>2 DEF CreateNamedPipe, ConnectNamedPipe
    <2> QED
      BY <2>1, <2>2 DEF Arriving
  <1>3. ASSUME NEW code \in ErrorCodes, FailReads(code), NEW f \in Ends
        PROVE  Arriving(f)' = Arriving(f)
    <2> DEFINE c == [err |-> code, msg |-> 0]
    <2>1. c \in Completions /\ c.msg = 0
      BY DEF Completions
    <2> HIDE DEF c
    <2>2. MessageOf(<<c>>) = <<>> /\ Append(<<>>, c) = <<c>> /\ MessageOf(<<>>) = <<>>
      BY <2>1, MessageOfOne, OneMore DEF MessageOf
    <2>3. apcs'[f] = apcs[f] \/ (apcs[f] = <<>> /\ apcs'[f] = <<c>>)
      BY <1>3, <2>2 DEF FailReads, ReadsInTurn, c
    <2> QED
      BY <2>2, <2>3 DEF Arriving
  <1>4. CASE DisconnectNamedPipe
    <2>1. \A f \in Ends : Arriving(f)' = Arriving(f)
      BY <1>3, <1>4 DEF DisconnectNamedPipe, ErrorCodes
    <2>2. ~Attached' /\ \A f \in Ends : inbox'[f] = <<>>
      BY <1>4 DEF DisconnectNamedPipe
    <2> QED
      BY <2>1, <2>2
  <1>5. CASE CloseHandle(e)
    <2>1. \A f \in Ends : Arriving(f)' = Arriving(f)
      BY <1>3, <1>5 DEF CloseHandle, ErrorCodes
    <2>2. ~Attached' /\ \A f \in Ends : inbox'[f] \in {inbox[f], <<>>}
      BY <1>5 DEF CloseHandle
    <2> QED
      BY <2>1, <2>2
  <1> QED
    BY <1>1, <1>2, <1>4, <1>5

(* Once it is decided that nothing more arrives, or that the destructor    *)
(* runs, it stays so.                                                      *)
LEMMA FateStays ==
  ASSUME TypeOK, \A f \in Ends : StateFollowsThread(f), Next
  PROVE  \A f \in Ends : (Dead(f) => Dead(f)') /\ (Destroying(f) => Destroying(f)')
  <1>1. \A f \in Ends : IsInError(f) => IsInError(f)'
    BY StateStep
  <1> USE DEF TypeOK, ChannelTypeOK
  <1>2. \A f \in Ends : ioPc'[f] = "notify" => ioPc[f] = "notify" \/ ~IsInError(f)
    <2>1. CASE Creation
      BY <2>1 DEF Creation, CreateServerPipe, CreateClientPipe, CreateFails
    <2>2. ASSUME NEW e \in Ends, MainChoice(e) \/ MainRuns(e)
          PROVE  \A f \in Ends : ioPc'[f] = "notify" => ioPc[f] = "notify"
      BY <2>2
      DEF MainChoice, MainRuns, ConnectOnIOThread, BeginSend, Destroy, SetReadMode, Write,
          DestroyDisconnect, DestroyClose, DestroyQuit, DestroyJoin
    <2>3. ASSUME NEW e \in Ends, IoThread(e)
          PROVE  \A f \in Ends : ioPc'[f] = "notify" => ioPc[f] = "notify" \/ ~IsInError(f)
      <3>1. CASE HandleIOCompletion(e)
        BY <3>1 DEF HandleIOCompletion, IoGoes
      <3>2. CASE FirstRead(e) \/ DoReadCompleteRoutine(e)
        BY <3>2 DEF FirstRead, DoReadCompleteRoutine, ReadComplete
      <3>3. CASE ConnectInternal(e) \/ ClientConnected(e) \/ ConnectToClient(e)
                 \/ IoDisconnect(e) \/ IoClose(e) \/ WaitObject(e) \/ AcceptConnection(e)
                 \/ WaitIoCompletion(e) \/ NotifyMessage(e)
        BY <3>3
        DEF ConnectInternal, ClientConnected, ConnectToClient, IoDisconnect, IoClose, WaitObject,
            AcceptConnection, WaitIoCompletion, NotifyMessage, IoGoes, AfterDisconnect
      <3> QED
        BY <2>3, <3>1, <3>2, <3>3 DEF IoThread
    <2> QED
      BY <2>1, <2>2, <2>3 DEF Next
  <1>3. \A f \in Ends : Destroying(f) => Destroying(f)'
    <2> USE EndsFacts DEF Destroying, Destructor, MainGoes
    <2>1. CASE Creation
      BY <2>1 DEF Creation, CreateServerPipe, CreateClientPipe, CreateFails
    <2>2. ASSUME NEW e \in Ends, MainChoice(e) \/ MainRuns(e)
          PROVE  \A f \in Ends : Destroying(f) => Destroying(f)'
      BY <2>2
      DEF MainChoice, MainRuns, ConnectOnIOThread, BeginSend, Destroy, SetReadMode, Write,
          DestroyDisconnect, DestroyClose, DestroyQuit, DestroyJoin, AfterDisconnect
    <2>3. ASSUME NEW e \in Ends, IoThread(e) PROVE UNCHANGED mainPc
      BY <2>3
      DEF IoThread, ConnectInternal, ClientConnected, ConnectToClient, IoDisconnect, IoClose,
          WaitObject, AcceptConnection, WaitIoCompletion, NotifyMessage, HandleIOCompletion,
          FirstRead, DoReadCompleteRoutine, ReadComplete
    <2> QED
      BY <2>1, <2>2, <2>3 DEF Next
  <1> QED
    BY <1>1, <1>2, <1>3 DEF Dead

-----------------------------------------------------------------------------
(* Every step keeps the order                                              *)

(* A step that hands out nothing and sends nothing to end f: what is on    *)
(* its way to f stays or gets lost in part.                                *)
OnlyLoses(f) ==
  /\ delivered'[f] = delivered[f] /\ sent'[Peer(f)] = sent[Peer(f)]
  /\ \/ message'[f] = message[f] /\ Arriving(f)' = Arriving(f)
     \/ /\ message'[f] = <<>> /\ Arriving(f)' \in {Arriving(f), <<>>}
        /\ Destroying(f)' \/ Dead(f)'
  /\ inbox'[f] \in {inbox[f], <<>>}
  /\ Attached' => Attached /\ inbox'[f] = inbox[f]

LEMMA LosesOrder ==
  ASSUME TypeOK, NEW f \in Ends, Ordered(f), NoGap(f), OnlyLoses(f),
         Dead(f) => Dead(f)', Destroying(f) => Destroying(f)'
  PROVE  Ordered(f)' /\ NoGap(f)'
  <1> DEFINE d == delivered[f]
             m == message[f]
             a == Arriving(f)
             b == inbox[f]
             n == sent[Peer(f)]
  <1>1. InTurn(d, m, a, b, n)
    BY DEF Ordered
  <1>2. /\ InTurn(d, m, a, <<>>, n) /\ InTurn(d, <<>>, a, b, n) /\ InTurn(d, <<>>, a, <<>>, n)
        /\ InTurn(d, <<>>, <<>>, b, n) /\ InTurn(d, <<>>, <<>>, <<>>, n)
        /\ Gapless(d, m, a, b) => Gapless(d, m, a, <<>>)
    <2> HIDE DEF d, m, a, b, n
    <2> QED
      BY <1>1, Lose
  <1>3. /\ delivered'[f] = d /\ sent'[Peer(f)] = n
        /\ message'[f] \in {m, <<>>} /\ Arriving(f)' \in {a, <<>>} /\ inbox'[f] \in {b, <<>>}
        /\ Arriving(f)' = <<>> \/ Arriving(f)' = a
        /\ message'[f] = m => (Arriving(f)' = a \/ m = <<>>)
    BY DEF OnlyLoses
  <1>4. Ordered(f)'
    <2> HIDE DEF d, m, a, b, n
    <2>1. InTurn(delivered'[f], message'[f], Arriving(f)', inbox'[f], sent'[Peer(f)])
      BY <1>1, <1>2, <1>3
    <2> QED
      BY <2>1 DEF Ordered
  <1>5. ASSUME Fits(f)', ~Destroying(f)'
        PROVE  Run(delivered'[f], 0) /\ (Dead(f)' \/ Contiguous(f)')
    <2>1. Run(d, 0) /\ (Dead(f) \/ Contiguous(f))
      BY <1>5 DEF NoGap, Fits
    <2>2. CASE Dead(f)'
      BY <1>3, <2>1, <2>2
    <2>3. CASE ~Dead(f)'
      <3>1. Contiguous(f) /\ message'[f] = m /\ Arriving(f)' = a
        BY <1>5, <2>1, <2>3 DEF OnlyLoses
      <3>2. Gapless(d, m, a, b)
        BY <3>1 DEF Contiguous
      <3>3. Gapless(delivered'[f], message'[f], Arriving(f)', inbox'[f])
        <4> HIDE DEF d, m, a, b, n
        <4> QED
          BY <1>2, <1>3, <3>1, <3>2
      <3>4. ASSUME Attached' PROVE InPipe(f)' = sent'[Peer(f)]
        <4>1. Attached /\ inbox'[f] = b
          BY <3>4 DEF OnlyLoses
        <4>2. Total(d, m, a, b) = n
          BY <3>1, <4>1 DEF Contiguous, InPipe
        <4> QED
          BY <1>3, <3>1, <4>1, <4>2 DEF InPipe
      <3> QED
        BY <1>3, <2>1, <3>3, <3>4 DEF Contiguous
    <2> QED
      BY <2>2, <2>3
  <1> QED
    BY <1>4, <1>5 DEF NoGap

(* A message on its way to end f is handed on: to the reader, to message_  *)
(* or to OnMessage, and no other.                                          *)
LEMMA KeepsOrder ==
  ASSUME NEW f \in Ends, NoGap(f),
         InTurn(delivered'[f], message'[f], Arriving(f)', inbox'[f], sent'[Peer(f)]),
         Fits(f) /\ ~Destroying(f) /\ Run(delivered[f], 0) /\ Contiguous(f)
           => Run(delivered'[f], 0) /\ Contiguous(f)',
         Dead(f) => Dead(f)' /\ delivered'[f] = delivered[f],
         Destroying(f) => Destroying(f)'
  PROVE  Ordered(f)' /\ NoGap(f)'
  BY DEF Ordered, NoGap, Fits

LEMMA WriteOrder ==
  ASSUME TypeOK, \A f \in Ends : ReadsInTurn(f) /\ Ordered(f) /\ NoGap(f),
         NEW e \in Ends, WriteFile(e, sent[e] + 1),
         sent' = [sent EXCEPT ![e] = @ + 1], UNCHANGED <<message, delivered, ioPc, state>>,
         mainPc' = [mainPc EXCEPT ![e] = "idle"], mainPc[e] = "write"
  PROVE  \A f \in Ends : Ordered(f)' /\ NoGap(f)'
  <1> DEFINE p == Peer(e)
  <1>1. /\ p \in Ends /\ p # e /\ Peer(p) = e
        /\ \A f \in Ends : f = e \/ f = p
    BY Peers
  <1>2. /\ Attached
        /\ UNCHANGED pend
        /\ \A f \in Ends : (Dead(f) <=> Dead(f)') /\ (Destroying(f) => Destroying(f)')
    <2>1. Attached /\ UNCHANGED pend
      BY <1>1 DEF WriteFile, WriteStatus, Attached, NoError, BadHandle, NotConnected, NoData
    <2>2. \A f \in Ends : Dead(f) <=> Dead(f)'
      BY DEF Dead, IsInError
    <2>3. \A f \in Ends : Destroying(f) => Destroying(f)'
      BY DEF Destroying, Destructor, TypeOK, ChannelTypeOK
    <2> QED
      BY <2>1, <2>2, <2>3
  <1>3. Ordered(e)' /\ NoGap(e)'
    <2>1. OnlyLoses(e)
      <3>1. sent'[Peer(e)] = sent[Peer(e)]
        BY <1>1 DEF TypeOK, ChannelTypeOK
      <3>2. apcs'[e] = apcs[e] /\ inbox'[e] = inbox[e]
        BY <1>1 DEF WriteFile, TypeOK, PipeTypeOK
      <3> QED
        BY <1>2, <3>1, <3>2 DEF OnlyLoses, Arriving, Attached
    <2> QED
      BY <1>2, <2>1, LosesOrder
  <1>4. Ordered(p)' /\ NoGap(p)'
    <2> DEFINE n == sent[e]
               d == delivered[p]
               m == message[p]
               a == Arriving(p)
               b == inbox[p]
    <2>1. /\ n \in Nat /\ d \in Seq(Nat) /\ m \in Seq(Nat) /\ a \in Seq(Nat) /\ b \in Seq(Nat)
          /\ InTurn(d, m, a, b, n)
      BY <1>1, OrderTypes DEF Ordered
    <2>2. /\ sent'[Peer(p)] = n + 1 /\ delivered'[p] = d /\ message'[p] = m
          /\ sent[Peer(p)] = n
      BY <1>1 DEF TypeOK, ChannelTypeOK
    <2>3. CASE ~reading[p]
      <3>1. Arriving(p)' = a /\ inbox'[p] = Append(b, n + 1)
        BY <1>1, <2>3 DEF WriteFile, TypeOK, PipeTypeOK, Arriving
      <3> HIDE DEF n, d, m, a, b
      <3>2. /\ InTurn(d, m, a, Append(b, n + 1), n + 1)
            /\ Gapless(d, m, a, b) /\ Total(d, m, a, b) = n
                 => /\ Gapless(d, m, a, Append(b, n + 1))
                    /\ Total(d, m, a, Append(b, n + 1)) = n + 1
        BY <2>1, Send
      <3>3. InTurn(delivered'[p], message'[p], Arriving(p)', inbox'[p], sent'[Peer(p)])
        BY <2>2, <3>1, <3>2
      <3>4. ASSUME Run(delivered[p], 0), Contiguous(p)
            PROVE  Run(delivered'[p], 0) /\ Contiguous(p)'
        <4>1. Gapless(d, m, a, b) /\ Total(d, m, a, b) = n
          BY <1>2, <2>2, <3>4 DEF Contiguous, InPipe, d, m, a, b
        <4>2. /\ Gapless(delivered'[p], message'[p], Arriving(p)', inbox'[p])
              /\ Total(delivered'[p], message'[p], Arriving(p)', inbox'[p]) = sent'[Peer(p)]
          BY <2>2, <3>1, <3>2, <4>1
        <4>3. Run(delivered'[p], 0)
          BY <2>2, <3>4 DEF d
        <4> QED
          BY <4>2, <4>3 DEF Contiguous, InPipe
      <3> HIDE DEF p
      <3> QED
        BY <1>1, <1>2, <3>3, <3>4, KeepsOrder
    <2>4. CASE reading[p]
      <3> DEFINE c == Completion(p, n + 1)
      <3>1. apcs[p] = <<>> /\ inbox[p] = <<>>
        BY <1>1, <2>4 DEF ReadsInTurn
      <3>2. c \in Completions /\ c.msg = n + 1 /\ n + 1 # 0
        BY <1>1, <2>1, n + 1 \in Nat, CompletionType DEF Completion
      <3>3. apcs'[p] = <<c>> /\ inbox'[p] = <<>>
        <4>1. apcs'[p] = Append(apcs[p], c) /\ inbox'[p] = inbox[p]
          BY <1>1, <2>4 DEF WriteFile, TypeOK, PipeTypeOK
        <4> QED
          BY <3>1, <3>2, <4>1, OneMore
      <3>4. Arriving(p)' = <<n + 1>> /\ a = <<>> /\ b = <<>>
        <4> HIDE DEF c
        <4> QED
          BY <3>1, <3>2, <3>3, MessageOfOne DEF Arriving, MessageOf
      <3> HIDE DEF n, d, m, a, b
      <3>5. /\ InTurn(d, m, <<n + 1>>, <<>>, n + 1)
            /\ Gapless(d, m, <<>>, <<>>) /\ Total(d, m, <<>>, <<>>) = n
                 => /\ Gapless(d, m, <<n + 1>>, <<>>)
                    /\ Total(d, m, <<n + 1>>, <<>>) = n + 1
        BY <2>1, <3>4, SendToReader
      <3>6. InTurn(delivered'[p], message'[p], Arriving(p)', inbox'[p], sent'[Peer(p)])
        BY <2>2, <3>3, <3>4, <3>5
      <3>7. ASSUME Run(delivered[p], 0), Contiguous(p)
            PROVE  Run(delivered'[p], 0) /\ Contiguous(p)'
        <4>1. Gapless(d, m, a, b) /\ Total(d, m, a, b) = n
          BY <1>2, <2>2, <3>7 DEF Contiguous, InPipe, d, m, a, b
        <4>2. /\ Gapless(delivered'[p], message'[p], Arriving(p)', inbox'[p])
              /\ Total(delivered'[p], message'[p], Arriving(p)', inbox'[p]) = sent'[Peer(p)]
          BY <2>2, <3>3, <3>4, <3>5, <4>1
        <4>3. Run(delivered'[p], 0)
          BY <2>2, <3>7 DEF d
        <4> QED
          BY <4>2, <4>3 DEF Contiguous, InPipe
      <3> HIDE DEF p
      <3> QED
        BY <1>1, <1>2, <3>6, <3>7, KeepsOrder
    <2> QED
      BY <2>3, <2>4
  <1> HIDE DEF p
  <1> QED
    BY <1>1, <1>3, <1>4

(* ReadComplete with nothing else outstanding: what arrived goes to        *)
(* message_ and the next message, if one waits, arrives.                   *)
LEMMA ReadOrder ==
  ASSUME TypeOK, \A f \in Ends : Ordered(f) /\ NoGap(f), NEW e \in Ends,
         \A f \in Ends : (Dead(f) => Dead(f)') /\ (Destroying(f) => Destroying(f)'),
         NEW c \in Completions, NEW ret, ReadComplete(e, c, <<>>, ret),
         Arriving(e) = MessageOf(<<c>>)
  PROVE  \A f \in Ends : Ordered(f)' /\ NoGap(f)'
  <1>1. UNCHANGED <<delivered, sent, pend, mainPc>>
    BY DEF ReadComplete, ReadFileEx, history
  <1>2. ASSUME NEW f \in Ends, f # e PROVE Ordered(f)' /\ NoGap(f)'
    <2>1. apcs'[f] = apcs[f] /\ inbox'[f] = inbox[f] /\ message'[f] = message[f]
      BY <1>2 DEF ReadComplete, ReadFileEx, TypeOK, PipeTypeOK, ChannelTypeOK
    <2>2. OnlyLoses(f)
      BY <1>1, <2>1 DEF OnlyLoses, Arriving, Attached
    <2> QED
      BY <1>2, <2>2, LosesOrder
  <1>3. CASE ReadError(e, c) # NoError
    <2>1. ReadError(e, c) \in ErrorCodes
      BY <1>3, StatusType DEF ReadError, Completions
    <2>2. /\ apcs'[e] = <<>> /\ message'[e] = <<>> /\ inbox'[e] = inbox[e]
          /\ state'[e] \in ErrorCodes /\ ioPc'[e] = "disconnect"
      BY <1>3, <2>1 DEF ReadComplete, SetState, TypeOK, PipeTypeOK, ChannelTypeOK
    <2>3. OnlyLoses(e)
      BY <1>1, <2>2 DEF OnlyLoses, Arriving, MessageOf, Dead, IsInError, Attached
    <2>4. Ordered(e)' /\ NoGap(e)'
      BY <2>3, LosesOrder
    <2> QED
      BY <1>2, <2>4
  <1>4. CASE ReadError(e, c) = NoError
    <2> DEFINE n == sent[Peer(e)]
               d == delivered[e]
               m == message[e]
               b == inbox[e]
               m1 == Received(e, c)
    <2>1. /\ n \in Nat /\ d \in Seq(Nat) /\ m \in Seq(Nat) /\ b \in Seq(Nat)
          /\ InTurn(d, m, MessageOf(<<c>>), b, n)
      BY OrderTypes DEF Ordered
    <2>2. c.msg \in Nat
      BY DEF Completions
    <2>3. /\ m1 \in Seq(Nat)
          /\ InTurn(d, m1, <<>>, b, n)
          /\ Fits(e) /\ Gapless(d, m, MessageOf(<<c>>), b) => Gapless(d, m1, <<>>, b)
          /\ Fits(e) => Total(d, m1, <<>>, b) = Total(d, m, MessageOf(<<c>>), b)
      <3>1. CASE c.msg = 0
        <4>1. MessageOf(<<c>>) = <<>> /\ m1 = m
          <5>1. MessageOf(<<c>>) = <<>>
            BY <3>1, MessageOfOne, Zenon
          <5>2. m1 = m
            BY <3>1 DEF Received
          <5> QED
            BY <5>1, <5>2
        <4> HIDE DEF n, d, m, b, m1
        <4> QED
          BY <2>1, <4>1
      <3>2. CASE c.msg > 0
        <4>1. MessageOf(<<c>>) = <<c.msg>>
          BY <2>2, <3>2, c.msg # 0, MessageOfOne, Zenon
        <4>2. m1 = Append(m, c.msg) \/ (m1 = m /\ ~Fits(e))
          BY <3>2, PipeAssumption, EndsFacts DEF Received, Fits
        <4> HIDE DEF n, d, m, b, m1
        <4>3. /\ InTurn(d, Append(m, c.msg), <<>>, b, n)
              /\ Gapless(d, m, <<c.msg>>, b) => Gapless(d, Append(m, c.msg), <<>>, b)
              /\ Total(d, Append(m, c.msg), <<>>, b) = Total(d, m, <<c.msg>>, b)
              /\ Append(m, c.msg) \in Seq(Nat)
          <5> DEFINE x == c.msg
          <5>1. x \in Nat /\ InTurn(d, m, <<x>>, b, n)
            BY <2>1, <2>2, <4>1
          <5> HIDE DEF x
          <5>2. Append(m, x) \in Seq(Nat)
            BY <2>1, <5>1, AppendProperties
          <5>3. /\ InTurn(d, Append(m, x), <<>>, b, n)
                /\ Gapless(d, m, <<x>>, b) => Gapless(d, Append(m, x), <<>>, b)
                /\ Total(d, Append(m, x), <<>>, b) = Total(d, m, <<x>>, b)
            BY <2>1, <5>1, Receive
          <5> QED
            BY <5>2, <5>3 DEF x
        <4>4. InTurn(d, m, <<>>, b, n)
          BY <2>1, Lose
        <4> QED
          BY <2>1, <4>1, <4>2, <4>3, <4>4
      <3> QED
        BY <2>2, <3>1, <3>2
    <2>4. message'[e] = m1 /\ delivered'[e] = d /\ sent'[Peer(e)] = n
      BY <1>1, <1>4 DEF ReadComplete, TypeOK, ChannelTypeOK
    <2>5. \/ b = <<>> /\ inbox'[e] = <<>> /\ Arriving(e)' = <<>>
          \/ /\ b # <<>> /\ inbox'[e] = Tail(b)
             /\ Head(b) > 0 => Arriving(e)' = <<Head(b)>>
      <3>1. ReadFileEx(e, <<>>)
        BY <1>4 DEF ReadComplete
      <3>2. CASE inbox[e] = <<>>
        BY <3>1, <3>2 DEF ReadFileEx, Arriving, MessageOf, TypeOK, PipeTypeOK
      <3>3. CASE inbox[e] # <<>>
        <4> DEFINE x == Completion(e, Head(inbox[e]))
        <4>1. /\ x \in Completions /\ x.msg = Head(inbox[e]) /\ Append(<<>>, x) = <<x>>
              /\ Head(inbox[e]) \in Nat
          BY <2>1, <3>3, HeadTailProperties, CompletionType, OneMore DEF Completion
        <4>2. apcs'[e] = <<x>> /\ inbox'[e] = Tail(inbox[e])
          BY <3>1, <3>3, <4>1 DEF ReadFileEx, TypeOK, PipeTypeOK
        <4> HIDE DEF x
        <4>3. Head(inbox[e]) > 0 => Arriving(e)' = <<Head(inbox[e])>>
          <5>1. Head(inbox[e]) > 0 => x.msg # 0
            BY <4>1
          <5>2. x.msg # 0 => MessageOf(<<x>>) = <<x.msg>>
            BY <4>1, MessageOfOne, Zenon
          <5> QED
            BY <4>1, <4>2, <5>1, <5>2 DEF Arriving
        <4> QED
          BY <3>3, <4>2, <4>3
      <3> QED
        BY <3>2, <3>3
    <2> HIDE DEF n, d, m, b, m1
    <2>6. /\ InTurn(d, m1, Arriving(e)', inbox'[e], n)
          /\ Gapless(d, m1, <<>>, b) => Gapless(d, m1, Arriving(e)', inbox'[e])
          /\ Total(d, m1, Arriving(e)', inbox'[e]) = Total(d, m1, <<>>, b)
      <3>1. CASE b = <<>>
        BY <2>3, <2>5, <3>1
      <3>2. CASE b # <<>>
        <4>1. /\ Head(b) > 0
              /\ InTurn(d, m1, <<Head(b)>>, Tail(b), n)
              /\ Gapless(d, m1, <<>>, b) => Gapless(d, m1, <<Head(b)>>, Tail(b))
              /\ Total(d, m1, <<Head(b)>>, Tail(b)) = Total(d, m1, <<>>, b)
          BY <2>1, <2>3, <3>2, StartRead
        <4> QED
          BY <2>5, <3>2, <4>1
      <3> QED
        BY <3>1, <3>2
    <2>7. InTurn(delivered'[e], message'[e], Arriving(e)', inbox'[e], sent'[Peer(e)])
      BY <2>4, <2>6
    <2>8. ASSUME Fits(e), Run(delivered[e], 0), Contiguous(e)
          PROVE  Run(delivered'[e], 0) /\ Contiguous(e)'
      <3>1. /\ Gapless(d, m, MessageOf(<<c>>), b)
            /\ Attached => Total(d, m, MessageOf(<<c>>), b) = n
        BY <2>8 DEF Contiguous, InPipe, d, m, b, n
      <3>2. /\ Gapless(delivered'[e], message'[e], Arriving(e)', inbox'[e])
            /\ Attached => Total(delivered'[e], message'[e], Arriving(e)', inbox'[e]) = sent'[Peer(e)]
        BY <2>3, <2>4, <2>6, <2>8, <3>1
      <3>3. Attached' => Attached
        BY <1>1 DEF Attached
      <3>4. Run(delivered'[e], 0)
        BY <1>1, <2>8
      <3> QED
        BY <3>2, <3>3, <3>4 DEF Contiguous, InPipe
    <2>9. Ordered(e)' /\ NoGap(e)'
      BY <1>1, <2>7, <2>8, KeepsOrder
    <2> QED
      BY <1>2, <2>9
  <1> QED
    BY <1>3, <1>4

(* NotifyMessage: what was read goes out.                                  *)
LEMMA NotifyOrder ==
  ASSUME TypeOK, \A f \in Ends : Ordered(f) /\ NoGap(f), NEW e \in Ends,
         \A f \in Ends : (Dead(f) => Dead(f)') /\ (Destroying(f) => Destroying(f)'),
         NotifyMessage(e)
  PROVE  \A f \in Ends : Ordered(f)' /\ NoGap(f)'
  <1>1. UNCHANGED <<sent, pend, inbox, apcs, mainPc>> /\ ioPc[e] = "notify"
    BY DEF NotifyMessage, IoGoes, pipeVars
  <1>2. ASSUME NEW f \in Ends, f # e PROVE Ordered(f)' /\ NoGap(f)'
    <2>1. message'[f] = message[f] /\ delivered'[f] = delivered[f]
      BY <1>2 DEF NotifyMessage, TypeOK, ChannelTypeOK
    <2>2. OnlyLoses(f)
      BY <1>1, <2>1 DEF OnlyLoses, Arriving, Attached
    <2> QED
      BY <1>2, <2>2, LosesOrder
  <1>3. Ordered(e)' /\ NoGap(e)'
    <2> DEFINE n == sent[Peer(e)]
               d == delivered[e]
               m == message[e]
               a == Arriving(e)
               b == inbox[e]
    <2>1. /\ n \in Nat /\ d \in Seq(Nat) /\ m \in Seq(Nat) /\ a \in Seq(Nat) /\ b \in Seq(Nat)
          /\ InTurn(d, m, a, b, n)
      BY OrderTypes DEF Ordered
    <2>2. /\ delivered'[e] = d \o m /\ message'[e] = <<>>
          /\ Arriving(e)' = a /\ inbox'[e] = b /\ sent'[Peer(e)] = n
      BY <1>1 DEF NotifyMessage, Arriving, TypeOK, ChannelTypeOK
    <2> HIDE DEF n, d, m, a, b
    <2>3. /\ InTurn(d \o m, <<>>, a, b, n)
          /\ Run(d, 0) /\ Gapless(d, m, a, b) => Run(d \o m, 0) /\ Gapless(d \o m, <<>>, a, b)
          /\ Total(d \o m, <<>>, a, b) = Total(d, m, a, b)
      BY <2>1, Deliver
    <2>4. InTurn(delivered'[e], message'[e], Arriving(e)', inbox'[e], sent'[Peer(e)])
      BY <2>2, <2>3
    <2>5. ASSUME Run(delivered[e], 0), Contiguous(e)
          PROVE  Run(delivered'[e], 0) /\ Contiguous(e)'
      <3>1. /\ Run(d, 0) /\ Gapless(d, m, a, b)
            /\ Attached => Total(d, m, a, b) = n
        BY <2>5 DEF Contiguous, InPipe, d, m, a, b, n
      <3>2. /\ Run(delivered'[e], 0)
            /\ Gapless(delivered'[e], message'[e], Arriving(e)', inbox'[e])
            /\ Attached => Total(delivered'[e], message'[e], Arriving(e)', inbox'[e]) = sent'[Peer(e)]
        BY <2>2, <2>3, <3>1
      <3>3. Attached' => Attached
        BY <1>1 DEF Attached
      <3> QED
        BY <3>2, <3>3 DEF Contiguous, InPipe
    <2>6. ~Dead(e)
      BY <1>1 DEF Dead
    <2> QED
      BY <2>4, <2>5, <2>6, KeepsOrder
  <1> QED
    BY <1>2, <1>3

(* Before the first message everything is empty.                           *)
LEMMA NothingYet ==
  ASSUME TypeOK, NEW f \in Ends, Ordered(f), sent[Peer(f)] = 0
  PROVE  delivered[f] = <<>> /\ message[f] = <<>> /\ Arriving(f) = <<>> /\ inbox[f] = <<>>
  <1>1. ASSUME NEW s \in Seq(Nat), Within(s, 0) PROVE s = <<>>
    <2>1. Len(s) \in Nat /\ (Len(s) # 0 => 1 \in 1..Len(s))
      BY LenProperties
    <2>2. Len(s) = 0
      BY <1>1, <2>1 DEF Within
    <2> QED
      BY <2>2, EmptySeq
  <1> QED
    BY <1>1, OrderTypes DEF Ordered, InTurn

LEMMA OrderCreation ==
  ASSUME TypeOK, OrderInv, \A f \in Ends : ReadsInTurn(f), Creation,
         \A f \in Ends : (Dead(f) => Dead(f)') /\ (Destroying(f) => Destroying(f)')
  PROVE  \A f \in Ends : Ordered(f)' /\ NoGap(f)'
  <1>1. UNCHANGED <<sent, delivered, message, apcs, inbox>>
    BY DEF Creation, CreateServerPipe, CreateClientPipe, CreateFails, CreateNamedPipe,
           CreateFile, history, pipeVars
  <1>2. CASE CreateServerPipe \/ \E e \in Ends : CreateFails(e)
    <2>1. \A f \in Ends : PipeLoses(f)
      BY <1>2, EndsFacts, PipeLosesOnly DEF CreateServerPipe, CreateFails, pipeVars
    <2>2. ASSUME NEW f \in Ends PROVE Ordered(f)' /\ NoGap(f)'
      <3>1. OnlyLoses(f)
        BY <1>1, <2>1 DEF OnlyLoses, PipeLoses
      <3> QED
        BY <3>1, LosesOrder DEF OrderInv
    <2> QED
      BY <2>2
  <1>3. CASE CreateClientPipe
    <2>1. \A f \in Ends : sent[f] = 0
      BY <1>3 DEF CreateClientPipe, MainGoes, OrderInv, NothingSentYet
    <2>2. ASSUME NEW f \in Ends PROVE Ordered(f)' /\ NoGap(f)'
      <3>1. /\ delivered[f] = <<>> /\ message[f] = <<>> /\ Arriving(f) = <<>> /\ inbox[f] = <<>>
            /\ sent[Peer(f)] = 0
        BY <2>1, NothingYet, EndsFacts DEF OrderInv
      <3>2. Arriving(f)' = Arriving(f)
        BY <1>1 DEF Arriving
      <3>3. InTurn(<<>>, <<>>, <<>>, <<>>, 0) /\ Gapless(<<>>, <<>>, <<>>, <<>>) /\ Run(<<>>, 0)
        BY OrderEmpty DEF InTurn, Gapless
      <3>4. Total(<<>>, <<>>, <<>>, <<>>) = 0
        BY DEF Total
      <3> QED
        BY <1>1, <3>1, <3>2, <3>3, <3>4 DEF Ordered, NoGap, Contiguous, InPipe
    <2> QED
      BY <2>2
  <1> QED
    BY <1>2, <1>3 DEF Creation

LEMMA OrderMain ==
  ASSUME TypeOK, OrderInv, \A f \in Ends : ReadsInTurn(f), NEW e \in Ends,
         MainChoice(e) \/ MainRuns(e),
         \A f \in Ends : (Dead(f) => Dead(f)') /\ (Destroying(f) => Destroying(f)')
  PROVE  \A f \in Ends : Ordered(f)' /\ NoGap(f)'
  <1>1. ASSUME UNCHANGED <<sent, delivered, message>>, \A f \in Ends : PipeLoses(f)
        PROVE  \A f \in Ends : Ordered(f)' /\ NoGap(f)'
    <2> TAKE f \in Ends
    <2>1. OnlyLoses(f)
      BY <1>1 DEF OnlyLoses, PipeLoses
    <2> QED
      BY <2>1, LosesOrder DEF OrderInv
  <1>2. CASE Write(e) /\ sent' # sent
    <2>1. /\ WriteFile(e, sent[e] + 1) /\ sent' = [sent EXCEPT ![e] = @ + 1]
          /\ UNCHANGED <<message, delivered, ioPc, state>>
          /\ mainPc' = [mainPc EXCEPT ![e] = "idle"] /\ mainPc[e] = "write"
      BY <1>2 DEF Write, MainGoes
    <2> QED
      BY <2>1, WriteOrder DEF OrderInv
  <1>3. CASE Write(e) /\ sent' = sent
    <2>1. sent[e] + 1 # sent[e]
      BY DEF TypeOK, ChannelTypeOK
    <2>2. UNCHANGED <<sent, delivered, message, pipeVars>>
      BY <1>3, <2>1 DEF Write, TypeOK, ChannelTypeOK
    <2>3. \A f \in Ends : PipeLoses(f)
      BY <2>2, PipeLosesOnly DEF pipeVars
    <2> QED
      BY <1>1, <2>2, <2>3
  <1>4. CASE Destroy(e)
    <2>1. UNCHANGED <<sent, delivered, pipeVars>>
      BY <1>4 DEF Destroy, history
    <2>2. \A f \in Ends : PipeLoses(f)
      BY <2>1, PipeLosesOnly DEF pipeVars
    <2> TAKE f \in Ends
    <2>3. message'[f] = message[f] \/ (message'[f] = <<>> /\ Destroying(f)')
      BY <1>4 DEF Destroy, MainGoes, Destroying, Destructor, TypeOK, ChannelTypeOK
    <2>4. OnlyLoses(f)
      BY <2>1, <2>2, <2>3 DEF OnlyLoses, PipeLoses
    <2> QED
      BY <2>4, LosesOrder DEF OrderInv
  <1>5. CASE ConnectOnIOThread(e) \/ BeginSend(e) \/ DestroyJoin(e)
    <2>1. UNCHANGED <<sent, delivered, message, pipeVars>>
      BY <1>5 DEF ConnectOnIOThread, BeginSend, DestroyJoin, history
    <2> QED
      BY <1>1, <2>1, PipeLosesOnly DEF pipeVars
  <1>6. CASE e = Client /\ SetReadMode
    BY <1>1, <1>6, PipeLosesOnly DEF SetReadMode, pipeVars, history
  <1>7. CASE DestroyDisconnect(e)
    BY <1>1, <1>7, PipeLosesOnly DEF DestroyDisconnect, DisconnectPipe, pipeVars, history
  <1>8. CASE DestroyClose(e)
    BY <1>1, <1>8, PipeLosesOnly DEF DestroyClose, ResetPipe, pipeVars
  <1>9. CASE DestroyQuit(e)
    BY <1>1, <1>9, PipeLosesOnly DEF DestroyQuit, pipeVars, history
  <1> QED
    BY <1>2, <1>3, <1>4, <1>5, <1>6, <1>7, <1>8, <1>9 DEF MainChoice, MainRuns

LEMMA OrderIo ==
  ASSUME TypeOK, OrderInv, \A f \in Ends : ReadsInTurn(f), NEW e \in Ends, IoThread(e),
         \A f \in Ends : (Dead(f) => Dead(f)') /\ (Destroying(f) => Destroying(f)')
  PROVE  \A f \in Ends : Ordered(f)' /\ NoGap(f)'
  <1>1. ASSUME UNCHANGED <<sent, delivered, message>>, \A f \in Ends : PipeLoses(f)
        PROVE  \A f \in Ends : Ordered(f)' /\ NoGap(f)'
    <2> TAKE f \in Ends
    <2>1. OnlyLoses(f)
      BY <1>1 DEF OnlyLoses, PipeLoses
    <2> QED
      BY <2>1, LosesOrder DEF OrderInv
  <1>2. CASE FirstRead(e)
    <2> DEFINE c == [err |-> NoError, msg |-> 0]
    <2>1. c \in Completions /\ c.msg = 0
      BY DEF Completions
    <2>2. apcs[e] = <<>>
      BY <1>2 DEF FirstRead, ReadsInTurn, NoRead
    <2>3. ReadComplete(e, c, <<>>, "wait")
      BY <1>2, <2>2 DEF FirstRead
    <2> HIDE DEF c
    <2>4. MessageOf(<<c>>) = <<>>
      BY <2>1, MessageOfOne, Zenon
    <2>5. Arriving(e) = MessageOf(<<c>>)
      BY <2>2, <2>4 DEF Arriving, MessageOf
    <2> QED
      BY <2>1, <2>3, <2>5, ReadOrder DEF OrderInv
  <1>3. CASE DoReadCompleteRoutine(e)
    <2> DEFINE c == Head(apcs[e])
    <2>1. apcs[e] # <<>> /\ Len(apcs[e]) <= 1 /\ apcs[e] \in Seq(Completions)
      BY <1>3 DEF DoReadCompleteRoutine, ReadsInTurn, TypeOK, PipeTypeOK
    <2>2. c \in Completions /\ Tail(apcs[e]) = <<>>
      BY <2>1, LastOne
    <2>3. ReadComplete(e, c, <<>>, "apc")
      BY <1>3, <2>2 DEF DoReadCompleteRoutine
    <2>4. MessageOf(<<c>>) = IF c.msg = 0 THEN <<>> ELSE <<c.msg>>
      BY <2>2, MessageOfOne, Zenon
    <2>5. Arriving(e) = MessageOf(<<c>>)
      BY <2>1, <2>4 DEF Arriving, MessageOf
    <2> HIDE DEF c
    <2> QED
      BY <2>2, <2>3, <2>5, ReadOrder DEF OrderInv
  <1>4. CASE NotifyMessage(e)
    BY <1>4, NotifyOrder DEF OrderInv
  <1>5. CASE ConnectInternal(e) \/ ClientConnected(e) \/ WaitObject(e) \/ AcceptConnection(e)
             \/ WaitIoCompletion(e) \/ HandleIOCompletion(e)
    <2>1. UNCHANGED <<sent, delivered, message, pend, inbox, apcs>>
      BY <1>5
      DEF ConnectInternal, ClientConnected, WaitObject, AcceptConnection, WaitIoCompletion,
          HandleIOCompletion, pipeVars, history
    <2> QED
      BY <1>1, <2>1, PipeLosesOnly
  <1>6. CASE ConnectToClient(e)
    BY <1>1, <1>6, PipeLosesOnly DEF ConnectToClient
  <1>7. CASE IoDisconnect(e)
    BY <1>1, <1>7, PipeLosesOnly DEF IoDisconnect, DisconnectPipe, pipeVars, history
  <1>8. CASE IoClose(e)
    BY <1>1, <1>8, PipeLosesOnly DEF IoClose, ResetPipe, pipeVars
  <1> QED
    BY <1>2, <1>3, <1>4, <1>5, <1>6, <1>7, <1>8 DEF IoThread

LEMMA NothingSentStep ==
  ASSUME TypeOK, NothingSentYet, \A f \in Ends : HandleAccounted(f), Next
  PROVE  NothingSentYet'
  <1> USE EndsFacts DEF NothingSentYet, TypeOK, ChannelTypeOK
  <1>1. CASE Creation
    BY <1>1 DEF Creation, CreateServerPipe, CreateClientPipe, CreateFails, MainGoes, history
  <1>2. ASSUME NEW e \in Ends, MainChoice(e) \/ MainRuns(e) PROVE NothingSentYet'
    <2>1. CASE Write(e)
      <3>1. mainPc' = [mainPc EXCEPT ![e] = "idle"] /\ mainPc[e] = "write"
        BY <2>1 DEF Write, MainGoes
      <3>2. CASE sent' = sent
        BY <3>1, <3>2
      <3>3. CASE WriteFile(e, sent[e] + 1)
        <4>1. Attached
          BY <3>3, Peers
          DEF WriteFile, WriteStatus, Attached, NoError, BadHandle, NotConnected, NoData
        <4>2. mainPc[Client] # "create"
          BY <4>1 DEF Attached, HandleAccounted
        <4> QED
          BY <3>1, <4>2
      <3> QED
        BY <2>1, <3>2, <3>3 DEF Write
    <2>2. CASE ~Write(e)
      <3>1. UNCHANGED sent
        BY <1>2, <2>2
        DEF MainChoice, MainRuns, ConnectOnIOThread, BeginSend, Destroy, SetReadMode,
            DestroyDisconnect, DestroyClose, DestroyQuit, DestroyJoin, history
      <3>2. UNCHANGED mainPc \/ \E pc \in MainPcs \ {"create"} : mainPc' = [mainPc EXCEPT ![e] = pc]
        BY <1>2, <2>2
        DEF MainChoice, MainRuns, ConnectOnIOThread, BeginSend, Destroy, SetReadMode, MainPcs,
            DestroyDisconnect, DestroyClose, DestroyQuit, DestroyJoin, MainGoes, AfterDisconnect,
            Destructor
      <3> QED
        BY <3>1, <3>2
    <2> QED
      BY <2>1, <2>2
  <1>3. ASSUME NEW e \in Ends, IoThread(e) PROVE NothingSentYet'
    <2>1. UNCHANGED <<mainPc, sent>>
      BY <1>3
      DEF IoThread, ConnectInternal, ClientConnected, ConnectToClient, IoDisconnect, IoClose,
          WaitObject, AcceptConnection, WaitIoCompletion, NotifyMessage, HandleIOCompletion,
          FirstRead, DoReadCompleteRoutine, ReadComplete, history
    <2> QED
      BY <2>1
  <1> QED
    BY <1>1, <1>2, <1>3 DEF Next

LEMMA OrderStep ==
  ASSUME TypeOK, OrderInv, Next,
         \A f \in Ends : ReadsInTurn(f) /\ StateFollowsThread(f) /\ HandleAccounted(f)
  PROVE  OrderInv'
  <1>1. \A f \in Ends : (Dead(f) => Dead(f)') /\ (Destroying(f) => Destroying(f)')
    BY FateStays
  <1>2. NothingSentYet'
    BY NothingSentStep DEF OrderInv
  <1>3. \A f \in Ends : Ordered(f)' /\ NoGap(f)'
    BY <1>1, OrderCreation, OrderMain, OrderIo DEF Next
  <1> QED
    BY <1>2, <1>3 DEF OrderInv

LEMMA OrderInvariant == Spec => []OrderInv
  <1>1. Init => OrderInv
    <2>1. InTurn(<<>>, <<>>, <<>>, <<>>, 0) /\ Gapless(<<>>, <<>>, <<>>, <<>>) /\ Run(<<>>, 0)
      BY OrderEmpty DEF InTurn, Gapless
    <2>2. Total(<<>>, <<>>, <<>>, <<>>) = 0 /\ MessageOf(<<>>) = <<>>
      BY DEF Total, MessageOf
    <2> QED
      BY <2>1, <2>2, EndsFacts
      DEF Init, PipeInit, OrderInv, NothingSentYet, Ordered, NoGap, Arriving, Contiguous, InPipe
  <1>2. TypeOK /\ OrderInv /\ (\A e \in Ends : ReadsInTurn(e)) /\ (\A e \in Ends : StateFollowsThread(e))
          /\ (\A e \in Ends : HandleAccounted(e)) /\ [Next]_vars => OrderInv'
    <2>1. CASE UNCHANGED vars
      BY <2>1
      DEF vars, pipeVars, chanVars, OrderInv, NothingSentYet, Ordered, NoGap, Arriving,
          Contiguous, InPipe, Attached, Dead, IsInError, Destroying, Fits
    <2> QED
      BY <2>1, OrderStep
  <1> QED
    BY <1>1, <1>2, TypeCorrect, ReadsInvariant, StateInvariant, HandleInvariant, PTL DEF Spec

(* OnMessage gets the messages in the order they were sent, none twice and *)
(* none that was not sent, whatever the four threads, the errors and the   *)
(* disconnects do; and until the receiver's own destructor clears          *)
(* message_, it skips none.                                                *)
THEOREM MessagesInOrder == Spec => []InOrder
  <1>1. TypeOK /\ OrderInv /\ (\A e \in Ends : MisfitsDropped(e)) => InOrder
    <2> SUFFICES ASSUME TypeOK, OrderInv, NEW e \in Ends, MisfitsDropped(e)
                 PROVE  /\ \A i, j \in 1..Len(delivered[e]) :
                             i < j => delivered[e][i] < delivered[e][j]
                        /\ \A i \in 1..Len(delivered[e]) : delivered[e][i] <= sent[Peer(e)]
                        /\ ~Destroying(e) => Numbers(delivered[e], Len(delivered[e]))
      BY DEF InOrder
    <2>1. delivered[e] \in Seq(Nat) /\ sent[Peer(e)] \in Nat
      BY OrderTypes
    <2>2. Sorted(delivered[e]) /\ Within(delivered[e], sent[Peer(e)])
      BY DEF OrderInv, Ordered, InTurn
    <2>3. ASSUME ~Destroying(e) PROVE Numbers(delivered[e], Len(delivered[e]))
      <3>1. CASE Fits(e)
        <4>1. Run(delivered[e], 0)
          BY <2>3, <3>1 DEF OrderInv, NoGap
        <4>2. delivered[e] = [i \in 1..Len(delivered[e]) |-> delivered[e][i]]
          BY <2>1, LenProperties
        <4>3. \A i \in 1..Len(delivered[e]) : delivered[e][i] = i
          BY <2>1, <4>1, LenProperties DEF Run
        <4> QED
          BY <4>2, <4>3 DEF Numbers
      <3>2. CASE ~Fits(e)
        <4>1. delivered[e] = <<>>
          BY <3>2 DEF MisfitsDropped, Misfit, Fits
        <4> QED
          BY <4>1 DEF Numbers
      <3> QED
        BY <3>1, <3>2
    <2>4. \A i \in 1..Len(delivered[e]) : delivered[e][i] <= sent[Peer(e)]
      BY <2>1, <2>2 DEF Within
    <2> QED
      BY <2>2, <2>3, <2>4 DEF Sorted
  <1> QED
    BY <1>1, TypeCorrect, OrderInvariant, MisfitInvariant, PTL

-----------------------------------------------------------------------------
(* The stream each direction implements                                    *)

StreamStep(r) == Stream(r)!Next \/ UNCHANGED Stream(r)!vars

PhaseMoves(r) ==
  \/ StreamPhase(r)' = StreamPhase(r)
  \/ StreamPhase(r)' \in Stream(r)!Later(StreamPhase(r))

(* A step that loses y, whatever y is, when the phase allows it.           *)
LEMMA LossIsBreakDown ==
  ASSUME NEW r \in Ends, NEW x \in Seq(Nat), NEW y \in Seq(Nat), NEW z \in Seq(Nat),
         InTransit(r) = x \o y \o z, InTransit(r)' = x \o z,
         delivered'[r] = delivered[r], sent'[Peer(r)] = sent[Peer(r)],
         StreamPhase(r)' \in Stream(r)!Later(StreamPhase(r)),
         StreamPhase(r)' = "cut" => y = <<>> \/ z = <<>>
  PROVE  Stream(r)!BreakDown
  <1> DEFINE q == InTransit(r)
             i == Len(x)
             j == Len(x) + Len(y) + 1
  <1>1. /\ Len(x) \in Nat /\ Len(y) \in Nat /\ Len(z) \in Nat
        /\ Len(q) = Len(x) + Len(y) + Len(z)
        /\ SubSeq(q, 1, Len(x)) = x /\ SubSeq(q, Len(x) + Len(y) + 1, Len(q)) = z
    BY LoseMiddle, LenProperties
  <1>2. i \in 0..Len(q) /\ j \in (i + 1)..(Len(q) + 1)
    BY <1>1
  <1>3. StreamPhase(r)' = "cut" => j = i + 1 \/ j = Len(q) + 1
    <2>1. y = <<>> => Len(y) = 0
      OBVIOUS
    <2>2. z = <<>> => Len(z) = 0
      OBVIOUS
    <2>3. Len(y) = 0 \/ Len(z) = 0 => j = i + 1 \/ j = Len(q) + 1
      <3> HIDE DEF q
      <3>1. Len(y) = 0 => j = i + 1
        BY <1>1
      <3>2. Len(z) = 0 => Len(q) = Len(x) + Len(y)
        BY <1>1
      <3> QED
        BY <3>1, <3>2
    <2> HIDE DEF i, j, q
    <2> QED
      BY <2>1, <2>2, <2>3
  <1>4. InTransit(r)' = SubSeq(q, 1, i) \o SubSeq(q, j, Len(q))
    BY <1>1
  <1> HIDE DEF i, j
  <1> QED
    BY <1>2, <1>3, <1>4 DEF Stream!BreakDown, q

(* A step that loses nothing.                                              *)
LEMMA NoLoss ==
  ASSUME NEW r \in Ends, InTransit(r) \in Seq(Nat), InTransit(r)' = InTransit(r),
         delivered'[r] = delivered[r], sent'[Peer(r)] = sent[Peer(r)], PhaseMoves(r)
  PROVE  StreamStep(r)
  <1>1. CASE StreamPhase(r)' = StreamPhase(r)
    BY <1>1 DEF StreamStep, Stream!vars
  <1>2. CASE StreamPhase(r)' \in Stream(r)!Later(StreamPhase(r))
    <2>1. <<>> \in Seq(Nat) /\ InTransit(r) \o <<>> = InTransit(r)
      BY ConcatEmptySeq
    <2>2. Stream(r)!BreakDown
      BY <1>2, <2>1, LossIsBreakDown
    <2> QED
      BY <2>2 DEF StreamStep, Stream!Next
  <1> QED
    BY <1>1, <1>2 DEF PhaseMoves

-----------------------------------------------------------------------------
(* What is known of an end that has lost its connection                    *)

(* Nothing arrives before the client opens the pipe.                       *)
NotOpened ==
  mainPc[Client] = "create" => \A e \in Ends : pend[e] # "attached" /\ apcs[e] = <<>>

Unattached(e) == pend[e] # "attached" => inbox[e] = <<>> /\ ~reading[e]

GoneIsClosed(e) == mainPc[e] = "gone" => pend[e] \in {"absent", "closed"}

(* A failed read is the last: nothing more comes.                          *)
FailedIsCut(e) == Fits(e) /\ ReadFailed(e) => inbox[e] = <<>> /\ ~Attached

(* Before the I/O thread connects nothing but the destructor disconnects,  *)
(* so ConnectNamedPipe revives no channel that is still in use.            *)
DetachedByDestructor ==
  pend[Server] = "detached" /\ ioPc[Server] \in {"none", "start", "connect"} =>
    mainPc[Server] \in Destructor \cup {"destroyed"}

CutInv ==
  /\ NotOpened /\ DetachedByDestructor
  /\ \A e \in Ends : Unattached(e) /\ GoneIsClosed(e) /\ FailedIsCut(e)

LEMMA FailedOne ==
  ASSUME NEW e \in Ends
  PROVE  /\ apcs[e] = <<>> => ~ReadFailed(e)
         /\ \A c \in Completions : apcs[e] = <<c>> => (ReadFailed(e) <=> c.err # NoError)
         /\ apcs'[e] = <<>> => ~ReadFailed(e)'
         /\ \A c \in Completions : apcs'[e] = <<c>> => (ReadFailed(e)' <=> c.err # NoError)
         /\ apcs'[e] = apcs[e] => (ReadFailed(e)' <=> ReadFailed(e))
  <1>1. \A c \in Completions : Len(<<c>>) = 1 /\ <<c>>[1] = c
    OBVIOUS
  <1>2. \A c \in Completions : apcs[e] = <<c>> => (ReadFailed(e) <=> c.err # NoError)
    BY <1>1 DEF ReadFailed
  <1>3. \A c \in Completions : apcs'[e] = <<c>> => (ReadFailed(e)' <=> c.err # NoError)
    BY <1>1 DEF ReadFailed
  <1>4. (apcs[e] = <<>> => ~ReadFailed(e)) /\ (apcs'[e] = <<>> => ~ReadFailed(e)')
    BY DEF ReadFailed
  <1>5. apcs'[e] = apcs[e] => (ReadFailed(e)' <=> ReadFailed(e))
    BY DEF ReadFailed
  <1> QED
    BY <1>2, <1>3, <1>4, <1>5

(* What a pipe operation that starts no read does to a connection.         *)
Cuts(f) ==
  /\ pend'[f] = "attached" => pend[f] = "attached"
  /\ pend[f] = "closed" => pend'[f] = "closed"
  /\ inbox'[f] # inbox[f] /\ pend'[f] \notin {"detached", "closed"} => Attached'
  /\ Unattached(f)'
  /\ mainPc[f] = "gone" => pend'[f] \in {"absent", "closed"}
  /\ mainPc[Client] = "create" => apcs'[f] = <<>>
  /\ ReadFailed(f) => ReadFailed(f)'
  /\ Fits(f) /\ ReadFailed(f)' => inbox'[f] = <<>> /\ ~Attached'

LEMMA FailReadsCuts ==
  ASSUME TypeOK, \A f \in Ends : ReadsInTurn(f), CutInv, NEW code \in ErrorCodes, FailReads(code),
         ~Attached', \A f \in Ends : inbox'[f] \in {inbox[f], <<>>}, NEW f \in Ends
  PROVE  /\ ~reading'[f]
         /\ mainPc[Client] = "create" => apcs'[f] = <<>>
         /\ ReadFailed(f) => ReadFailed(f)'
         /\ Fits(f) /\ ReadFailed(f)' => inbox'[f] = <<>> /\ ~Attached'
  <1> DEFINE c == [err |-> code, msg |-> 0]
  <1>1. c \in Completions /\ c.err # NoError
    BY NotInError DEF Completions
  <1>2. ~reading'[f]
    BY DEF FailReads
  <1>3. CASE ~reading[f]
    <2>1. apcs'[f] = apcs[f]
      BY <1>3 DEF FailReads
    <2>2. ReadFailed(f)' <=> ReadFailed(f)
      BY <2>1, FailedOne
    <2> QED
      BY <1>2, <2>1, <2>2 DEF CutInv, NotOpened, FailedIsCut
  <1>4. CASE reading[f]
    <2>1. apcs[f] = <<>> /\ inbox[f] = <<>>
      BY <1>4 DEF ReadsInTurn
    <2>2. apcs'[f] = Append(apcs[f], c)
      BY <1>4 DEF FailReads
    <2>3. apcs'[f] = <<c>>
      BY <1>1, <2>1, <2>2, OneMore
    <2> HIDE DEF c
    <2>4. ReadFailed(f)'
      BY <1>1, <2>3, FailedOne
    <2>5. mainPc[Client] # "create"
      BY <1>4 DEF CutInv, NotOpened, Unattached
    <2> QED
      BY <1>2, <2>1, <2>4, <2>5
  <1> QED
    BY <1>3, <1>4

LEMMA CompletionFits ==
  ASSUME NEW e \in Ends, NEW m, Fits(e)
  PROVE  Completion(e, m).err = NoError
  <1>1. ~(MessageSize[Peer(e)] > ReadBufSize)
    BY PipeAssumption DEF Fits
  <1> QED
    BY <1>1 DEF Completion

LEMMA PipeCuts ==
  ASSUME TypeOK, \A f \in Ends : ReadsInTurn(f) /\ HandleAccounted(f), CutInv, NEW e \in Ends,
         \/ mainPc[Server] = "create" /\ CreateNamedPipe
         \/ ConnectNamedPipe
         \/ \E m \in Nat : WriteFile(e, m)
         \/ IsOpen(Server) /\ DisconnectNamedPipe
         \/ pend[e] # "absent" /\ CloseHandle(e)
         \/ UNCHANGED <<pend, inbox, reading, apcs>>
  PROVE  \A f \in Ends : Cuts(f)
  <1> USE EndsFacts DEF TypeOK, PipeTypeOK, CutInv
  <1>1. ASSUME UNCHANGED <<inbox, reading, apcs>>, NEW f \in Ends,
               \A g \in Ends : pend'[g] = "attached" => pend[g] = "attached",
               pend[f] = "attached" => pend'[f] = "attached",
               pend[f] = "closed" => pend'[f] = "closed",
               mainPc[f] = "gone" => pend'[f] \in {"absent", "closed"}
        PROVE  Cuts(f)
    <2>1. (ReadFailed(f)' <=> ReadFailed(f)) /\ (Attached' => Attached)
      BY <1>1, FailedOne DEF Attached
    <2> QED
      BY <1>1, <2>1 DEF Cuts, Unattached, FailedIsCut, NotOpened
  <1>2. CASE UNCHANGED <<pend, inbox, reading, apcs>>
    BY <1>1, <1>2 DEF GoneIsClosed
  <1>3. CASE mainPc[Server] = "create" /\ CreateNamedPipe
    <2>1. pend[Server] = "absent"
      BY <1>3 DEF HandleAccounted
    <2> QED
      BY <1>1, <1>3, <2>1 DEF CreateNamedPipe, GoneIsClosed
  <1>4. CASE ConnectNamedPipe
    <2>1. \/ UNCHANGED pend
          \/ /\ pend[Server] \notin {"absent", "closed", "attached"}
             /\ pend' = [pend EXCEPT ![Server] = "listening"]
      BY <1>4 DEF ConnectNamedPipe, ConnectStatus, IsOpen, BadHandle, NoData
    <2> QED
      BY <1>1, <1>4, <2>1 DEF ConnectNamedPipe, GoneIsClosed
  <1>5. ASSUME NEW m \in Nat, WriteFile(e, m) PROVE \A f \in Ends : Cuts(f)
    <2> DEFINE p == Peer(e)
    <2>1. /\ Attached /\ UNCHANGED pend /\ p \in Ends
          /\ \A f \in Ends : f = e \/ f = p
      BY <1>5, Peers, ZenonT(30)
      DEF WriteFile, WriteStatus, Attached, NoError, BadHandle, NotConnected, NoData
    <2>2. mainPc[Client] # "create" /\ \A f \in Ends : mainPc[f] # "gone" /\ ~(Fits(f) /\ ReadFailed(f))
      BY <2>1 DEF NotOpened, Attached, GoneIsClosed, FailedIsCut
    <2> TAKE f \in Ends
    <2>3. Attached'
      BY <2>1 DEF Attached
    <2>4. Unattached(f)'
      BY <2>1 DEF Unattached, Attached
    <2>5. (ReadFailed(f) => ReadFailed(f)') /\ ~(Fits(f) /\ ReadFailed(f)')
      <3>1. CASE apcs'[f] = apcs[f]
        BY <2>2, <3>1, FailedOne
      <3>2. CASE f = p /\ reading[p]
        <4> DEFINE c == Completion(p, m)
        <4>1. c \in Completions /\ (Fits(p) => c.err = NoError)
          BY <2>1, CompletionType, CompletionFits
        <4>2. apcs[p] = <<>> /\ apcs'[p] = Append(apcs[p], c)
          BY <1>5, <2>1, <3>2 DEF WriteFile, ReadsInTurn
        <4> HIDE DEF c, p
        <4>3. apcs'[p] = <<c>>
          BY <4>1, <4>2, OneMore
        <4> QED
          BY <2>1, <3>2, <4>1, <4>2, <4>3, FailedOne
      <3>3. apcs'[f] = apcs[f] \/ (f = p /\ reading[p])
        BY <1>5, <2>1 DEF WriteFile
      <3> QED
        BY <3>1, <3>2, <3>3
    <2> QED
      BY <2>1, <2>2, <2>3, <2>4, <2>5 DEF Cuts
  <1>6. CASE IsOpen(Server) /\ DisconnectNamedPipe
    <2>1. /\ ~Attached' /\ \A f \in Ends : inbox'[f] = <<>>
          /\ FailReads(NotConnected) /\ NotConnected \in ErrorCodes
      BY <1>6 DEF DisconnectNamedPipe, Attached, ErrorCodes
    <2> TAKE f \in Ends
    <2>2. /\ ~reading'[f]
          /\ mainPc[Client] = "create" => apcs'[f] = <<>>
          /\ ReadFailed(f) => ReadFailed(f)'
          /\ Fits(f) /\ ReadFailed(f)' => inbox'[f] = <<>> /\ ~Attached'
      BY <2>1, FailReadsCuts
    <2>3. /\ pend'[f] = IF f = Server \/ pend[f] = "attached" THEN "detached" ELSE pend[f]
          /\ pend[Server] \notin {"absent", "closed"}
      BY <1>6 DEF DisconnectNamedPipe, IsOpen
    <2> QED
      BY <2>1, <2>2, <2>3 DEF Cuts, Unattached, GoneIsClosed
  <1>7. CASE pend[e] # "absent" /\ CloseHandle(e)
    <2>1. /\ ~Attached' /\ \A f \in Ends : inbox'[f] \in {inbox[f], <<>>}
          /\ FailReads(Broken) /\ Broken \in ErrorCodes
      BY <1>7 DEF CloseHandle, Attached, ErrorCodes
    <2> TAKE f \in Ends
    <2>2. /\ ~reading'[f]
          /\ mainPc[Client] = "create" => apcs'[f] = <<>>
          /\ ReadFailed(f) => ReadFailed(f)'
          /\ Fits(f) /\ ReadFailed(f)' => inbox'[f] = <<>> /\ ~Attached'
      BY <2>1, FailReadsCuts
    <2>3. /\ pend'[f] = IF f = e THEN "closed" ELSE pend[f]
          /\ inbox'[f] = IF f = e THEN <<>> ELSE inbox[f]
      BY <1>7 DEF CloseHandle
    <2> QED
      BY <2>1, <2>2, <2>3 DEF Cuts, Unattached, GoneIsClosed
  <1> QED
    BY <1>2, <1>3, <1>4, <1>5, <1>6, <1>7

(* The steps that start no read and open no pipe.                          *)
LEMMA CreationCuts ==
  ASSUME TypeOK, \A f \in Ends : ReadsInTurn(f) /\ HandleAccounted(f), CutInv,
         CreateServerPipe \/ \E e \in Ends : CreateFails(e)
  PROVE  \A f \in Ends : Cuts(f)
  <1>1. CASE CreateServerPipe
    BY <1>1, PipeCuts, EndsFacts DEF CreateServerPipe, MainGoes
  <1>2. CASE \E e \in Ends : CreateFails(e)
    BY <1>2, PipeCuts DEF CreateFails, pipeVars
  <1> QED
    BY <1>1, <1>2

LEMMA MainCuts ==
  ASSUME TypeOK, \A f \in Ends : ReadsInTurn(f) /\ HandleAccounted(f), CutInv,
         NEW e \in Ends, MainChoice(e) \/ MainRuns(e)
  PROVE  \A f \in Ends : Cuts(f)
  <1>1. CASE ConnectOnIOThread(e) \/ BeginSend(e) \/ Destroy(e) \/ DestroyJoin(e)
    BY <1>1, PipeCuts DEF ConnectOnIOThread, BeginSend, Destroy, DestroyJoin, pipeVars
  <1>2. CASE e = Client /\ SetReadMode
    <2>1. pend[e] # "absent"
      BY <1>2 DEF SetReadMode, MainGoes, HandleAccounted
    <2> QED
      BY <1>2, <2>1, PipeCuts DEF SetReadMode, pipeVars
  <1>3. CASE Write(e)
    <2>1. sent[e] + 1 \in Nat
      BY DEF TypeOK, ChannelTypeOK
    <2> QED
      BY <1>3, <2>1, PipeCuts DEF Write, pipeVars
  <1>4. CASE DestroyDisconnect(e)
    BY <1>4, PipeCuts DEF DestroyDisconnect, DisconnectPipe, IsServerHasValue, pipeVars
  <1>5. CASE DestroyClose(e)
    BY <1>5, PipeCuts DEF DestroyClose, ResetPipe, IsOpen, pipeVars
  <1>6. CASE DestroyQuit(e)
    BY <1>6, PipeCuts DEF DestroyQuit, pipeVars
  <1> QED
    BY <1>1, <1>2, <1>3, <1>4, <1>5, <1>6 DEF MainChoice, MainRuns

LEMMA IoCuts ==
  ASSUME TypeOK, \A f \in Ends : ReadsInTurn(f) /\ HandleAccounted(f), CutInv,
         NEW e \in Ends, IoThread(e), ~FirstRead(e), ~DoReadCompleteRoutine(e)
  PROVE  \A f \in Ends : Cuts(f)
  <1>1. CASE ConnectInternal(e) \/ ClientConnected(e) \/ WaitObject(e) \/ AcceptConnection(e)
             \/ WaitIoCompletion(e) \/ HandleIOCompletion(e) \/ NotifyMessage(e)
    BY <1>1, PipeCuts
    DEF ConnectInternal, ClientConnected, WaitObject, AcceptConnection, WaitIoCompletion,
        HandleIOCompletion, NotifyMessage, pipeVars
  <1>2. CASE ConnectToClient(e)
    BY <1>2, PipeCuts DEF ConnectToClient
  <1>3. CASE IoDisconnect(e)
    BY <1>3, PipeCuts DEF IoDisconnect, DisconnectPipe, IsServerHasValue, pipeVars
  <1>4. CASE IoClose(e)
    BY <1>4, PipeCuts DEF IoClose, ResetPipe, IsOpen, pipeVars
  <1> QED
    BY <1>1, <1>2, <1>3, <1>4 DEF IoThread

(* Where the main thread may go.                                           *)
LEMMA MainMoves ==
  ASSUME TypeOK, Next, NEW f \in Ends
  PROVE  /\ mainPc[f] \in {"destroyed", "gone"} => mainPc'[f] = mainPc[f]
         /\ mainPc[f] \in Destructor => mainPc'[f] \in Destructor \cup {"destroyed"}
         /\ mainPc'[f] = "create" => mainPc[f] = "create"
         /\ mainPc'[f] = "gone" /\ mainPc[f] # "gone" =>
              \/ mainPc[f] = "create" /\ UNCHANGED pend
              \/ pend'[f] = "closed"
  <1> USE EndsFacts DEF TypeOK, ChannelTypeOK, PipeTypeOK, Destructor, MainGoes
  <1>1. CASE Creation
    BY <1>1
    DEF Creation, CreateServerPipe, CreateClientPipe, CreateFails, pipeVars
  <1>2. ASSUME NEW e \in Ends, MainChoice(e)
        PROVE  \/ UNCHANGED mainPc
               \/ \E pc \in {"write", "disconnect"} :
                    mainPc[e] = "idle" /\ mainPc' = [mainPc EXCEPT ![e] = pc]
    BY <1>2 DEF MainChoice, ConnectOnIOThread, BeginSend, Destroy
  <1>3. ASSUME NEW e \in Ends, MainRuns(e)
        PROVE  \/ mainPc[e] = "mode" /\ mainPc' = [mainPc EXCEPT ![e] = "idle"]
               \/ /\ mainPc[e] = "mode" /\ mainPc' = [mainPc EXCEPT ![e] = "gone"]
                  /\ pend'[e] = "closed"
               \/ mainPc[e] = "write" /\ mainPc' = [mainPc EXCEPT ![e] = "idle"]
               \/ \E pc \in Destructor \cup {"destroyed"} :
                    mainPc[e] \in Destructor /\ mainPc' = [mainPc EXCEPT ![e] = pc]
    BY <1>3
    DEF MainRuns, SetReadMode, Write, DestroyDisconnect, DestroyClose, DestroyQuit, DestroyJoin,
        AfterDisconnect, CloseHandle
  <1>4. ASSUME NEW e \in Ends, IoThread(e) PROVE UNCHANGED mainPc
    BY <1>4
    DEF IoThread, ConnectInternal, ClientConnected, ConnectToClient, IoDisconnect, IoClose,
        WaitObject, AcceptConnection, WaitIoCompletion, NotifyMessage, HandleIOCompletion,
        FirstRead, DoReadCompleteRoutine, ReadComplete
  <1> QED
    BY <1>1, <1>2, <1>3, <1>4, ZenonT(30) DEF Next

(* Only a disconnect detaches the server, by the destructor or by a thread *)
(* that is past the connect.                                               *)
LEMMA DetachedStep ==
  ASSUME TypeOK, DetachedByDestructor, Next
  PROVE  DetachedByDestructor'
  <1> USE EndsFacts DEF TypeOK, ChannelTypeOK, PipeTypeOK
  <1> DEFINE Early == {"none", "start", "connect"}
  <1>1. mainPc[Server] \in Destructor \cup {"destroyed"}
          => mainPc'[Server] \in Destructor \cup {"destroyed"}
    BY MainMoves
  <1>2. ioPc'[Server] \in Early => ioPc[Server] \in Early
    <2>1. CASE Creation
      BY <2>1 DEF Creation, CreateServerPipe, CreateClientPipe, CreateFails
    <2>2. ASSUME NEW e \in Ends, MainChoice(e) \/ MainRuns(e)
          PROVE  ioPc'[Server] \in Early => ioPc[Server] \in Early
      BY <2>2
      DEF MainChoice, MainRuns, ConnectOnIOThread, BeginSend, Destroy, SetReadMode, Write,
          DestroyDisconnect, DestroyClose, DestroyQuit, DestroyJoin
    <2>3. ASSUME NEW e \in Ends, IoThread(e)
          PROVE  ioPc'[Server] \in Early => ioPc[Server] \in Early
      <3>1. CASE FirstRead(e) \/ DoReadCompleteRoutine(e)
        BY <3>1 DEF FirstRead, DoReadCompleteRoutine, ReadComplete
      <3>2. CASE ~(FirstRead(e) \/ DoReadCompleteRoutine(e))
        BY <2>3, <3>2, ZenonT(30)
        DEF IoThread, ConnectInternal, ClientConnected, ConnectToClient, IoDisconnect, IoClose,
            WaitObject, AcceptConnection, WaitIoCompletion, NotifyMessage, HandleIOCompletion,
            IoGoes, AfterDisconnect
      <3> QED
        BY <3>1, <3>2
    <2> QED
      BY <2>1, <2>2, <2>3 DEF Next
  <1>3. \/ pend'[Server] = "detached" => pend[Server] = "detached"
        \/ mainPc'[Server] \in Destructor
        \/ ioPc[Server] = "disconnect"
    <2>1. CASE Creation
      BY <2>1
      DEF Creation, CreateServerPipe, CreateClientPipe, CreateFails, CreateNamedPipe, CreateFile,
          pipeVars
    <2>2. ASSUME NEW e \in Ends, MainChoice(e) \/ MainRuns(e)
          PROVE  \/ pend'[Server] = "detached" => pend[Server] = "detached"
                 \/ mainPc'[Server] \in Destructor
      <3>1. CASE DestroyDisconnect(e)
        BY <3>1
        DEF DestroyDisconnect, DisconnectPipe, pipeVars, MainGoes, AfterDisconnect, Destructor
      <3>2. CASE ~DestroyDisconnect(e)
        <4>1. pend' = pend \/ \E g \in Ends : pend' = [pend EXCEPT ![g] = "closed"]
          BY <2>2, <3>2
          DEF MainChoice, MainRuns, ConnectOnIOThread, BeginSend, Destroy, SetReadMode, Write,
              WriteFile, DestroyClose, ResetPipe, CloseHandle, DestroyQuit, DestroyJoin, pipeVars
        <4> QED
          BY <4>1
      <3> QED
        BY <3>1, <3>2
    <2>3. ASSUME NEW e \in Ends, IoThread(e)
          PROVE  \/ pend'[Server] = "detached" => pend[Server] = "detached"
                 \/ ioPc[Server] = "disconnect"
      <3>1. CASE IoDisconnect(e)
        BY <3>1 DEF IoDisconnect, DisconnectPipe, pipeVars, IoGoes
      <3>2. CASE ~IoDisconnect(e)
        <4>1. \/ pend' = pend \/ \E g \in Ends : pend' = [pend EXCEPT ![g] = "closed"]
              \/ pend' = [pend EXCEPT ![Server] = "listening"]
          BY <2>3, <3>2
          DEF IoThread, ConnectInternal, ClientConnected, ConnectToClient, ConnectNamedPipe,
              IoClose, ResetPipe, CloseHandle, WaitObject, AcceptConnection, WaitIoCompletion,
              NotifyMessage, HandleIOCompletion, FirstRead, DoReadCompleteRoutine, ReadComplete,
              ReadFileEx, pipeVars
        <4> QED
          BY <4>1
      <3> QED
        BY <3>1, <3>2
    <2> QED
      BY <2>1, <2>2, <2>3 DEF Next
  <1> QED
    BY <1>1, <1>2, <1>3 DEF DetachedByDestructor

-----------------------------------------------------------------------------
(* Reading                                                                 *)

(* What ReadComplete does to the end that reads, when nothing else of its  *)
(* own is outstanding: the read has failed, or what arrived is kept and    *)
(* the next message, if one waits, arrives.                                *)
LEMMA ReadOutcome ==
  ASSUME TypeOK, CutInv, NEW e \in Ends, NEW c \in Completions, NEW ret,
         ReadComplete(e, c, <<>>, ret), ~reading[e]
  PROVE  /\ UNCHANGED <<pend, mainPc, delivered, sent>>
         /\ \A f \in Ends : f # e =>
              /\ apcs'[f] = apcs[f] /\ inbox'[f] = inbox[f] /\ reading'[f] = reading[f]
              /\ message'[f] = message[f] /\ state'[f] = state[f]
         /\ \/ /\ ReadError(e, c) # NoError
               /\ c.err # NoError \/ inbox[e] = <<>>
               /\ state'[e] \in ErrorCodes /\ message'[e] = <<>> /\ apcs'[e] = <<>>
               /\ inbox'[e] = inbox[e] /\ reading'[e] = FALSE
            \/ /\ ReadError(e, c) = NoError /\ pend[e] = "attached"
               /\ state'[e] = state[e] /\ message'[e] = Received(e, c)
               /\ \/ /\ inbox[e] = <<>> /\ inbox'[e] = <<>> /\ apcs'[e] = <<>>
                  \/ /\ inbox[e] # <<>> /\ inbox'[e] = Tail(inbox[e])
                     /\ apcs'[e] = <<Completion(e, Head(inbox[e]))>>
                     /\ Completion(e, Head(inbox[e])) \in Completions
  <1> USE DEF TypeOK, PipeTypeOK, ChannelTypeOK
  <1>1. UNCHANGED <<pend, mainPc, delivered, sent>>
    BY DEF ReadComplete, ReadFileEx, history
  <1>2. \A f \in Ends : f # e =>
          /\ apcs'[f] = apcs[f] /\ inbox'[f] = inbox[f] /\ reading'[f] = reading[f]
          /\ message'[f] = message[f] /\ state'[f] = state[f]
    BY DEF ReadComplete, ReadFileEx, SetState
  <1>3. CASE ReadError(e, c) # NoError
    <2>1. ReadError(e, c) \in ErrorCodes
      BY <1>3, StatusType DEF ReadError, Completions
    <2>2. c.err # NoError \/ inbox[e] = <<>>
      BY <1>3 DEF ReadError, ReadStatus, CutInv, Unattached, IsOpen
    <2>3. /\ state'[e] \in ErrorCodes /\ message'[e] = <<>> /\ apcs'[e] = <<>>
          /\ inbox'[e] = inbox[e] /\ reading'[e] = reading[e]
      BY <1>3, <2>1 DEF ReadComplete, SetState
    <2> QED
      BY <1>1, <1>2, <1>3, <2>2, <2>3
  <1>4. CASE ReadError(e, c) = NoError
    <2>1. ReadFileEx(e, <<>>) /\ state'[e] = state[e] /\ message'[e] = Received(e, c)
      BY <1>4 DEF ReadComplete
    <2>2. pend[e] = "attached"
      BY <2>1 DEF ReadFileEx, ReadStatus, NoError, BadHandle, NotConnected
    <2>3. CASE inbox[e] = <<>>
      BY <1>1, <1>2, <1>4, <2>1, <2>2, <2>3 DEF ReadFileEx
    <2>4. CASE inbox[e] # <<>>
      <3> DEFINE x == Completion(e, Head(inbox[e]))
      <3>1. x \in Completions /\ Append(<<>>, x) = <<x>>
        BY <2>4, HeadTailProperties, CompletionType, OneMore
      <3>2. inbox'[e] = Tail(inbox[e]) /\ apcs'[e] = Append(<<>>, x)
        BY <2>1, <2>4 DEF ReadFileEx
      <3> HIDE DEF x
      <3>3. inbox'[e] = Tail(inbox[e]) /\ apcs'[e] = <<x>> /\ x \in Completions
        BY <3>1, <3>2
      <3> QED
        BY <1>1, <1>2, <1>4, <2>1, <2>2, <2>4, <3>3 DEF x
    <2> QED
      BY <2>3, <2>4
  <1> QED
    BY <1>3, <1>4

(* The reads: the first of a connection and those of the routine.          *)
LEMMA ReadCall ==
  ASSUME TypeOK, \A f \in Ends : ReadsInTurn(f), NEW e \in Ends,
         FirstRead(e) \/ DoReadCompleteRoutine(e)
  PROVE  /\ \E c \in Completions, ret \in {"wait", "apc"} :
              /\ ReadComplete(e, c, <<>>, ret) /\ Arriving(e) = MessageOf(<<c>>)
              /\ ReadFailed(e) <=> c.err # NoError
         /\ ~reading[e] /\ ioPc[e] \notin {"none", "exited"}
  <1>1. CASE FirstRead(e)
    <2> DEFINE c == [err |-> NoError, msg |-> 0]
    <2>1. c \in Completions /\ c.msg = 0 /\ c.err = NoError
      BY DEF Completions
    <2>2. apcs[e] = <<>> /\ ~reading[e] /\ ioPc[e] = "read"
      BY <1>1 DEF FirstRead, ReadsInTurn, NoRead
    <2>3. ReadComplete(e, c, <<>>, "wait")
      BY <1>1, <2>2 DEF FirstRead
    <2> HIDE DEF c
    <2>4. MessageOf(<<c>>) = <<>>
      BY <2>1, MessageOfOne, Zenon
    <2>5. Arriving(e) = MessageOf(<<c>>)
      BY <2>2, <2>4 DEF Arriving, MessageOf
    <2>6. ReadFailed(e) <=> c.err # NoError
      BY <2>1, <2>2, FailedOne
    <2> QED
      BY <2>1, <2>2, <2>3, <2>5, <2>6
  <1>2. CASE DoReadCompleteRoutine(e)
    <2> DEFINE c == Head(apcs[e])
    <2>1. /\ apcs[e] # <<>> /\ Len(apcs[e]) <= 1 /\ apcs[e] \in Seq(Completions)
          /\ ~reading[e] /\ ioPc[e] \in {"wait", "apc"}
      BY <1>2 DEF DoReadCompleteRoutine, ReadsInTurn, TypeOK, PipeTypeOK
    <2>2. c \in Completions /\ Tail(apcs[e]) = <<>> /\ apcs[e] = <<c>>
      BY <2>1, LastOne
    <2>3. ReadComplete(e, c, <<>>, "apc")
      BY <1>2, <2>2 DEF DoReadCompleteRoutine
    <2> HIDE DEF c
    <2>4. ReadFailed(e) <=> c.err # NoError
      BY <2>2, FailedOne
    <2> QED
      BY <2>1, <2>2, <2>3, <2>4 DEF Arriving
  <1> QED
    BY <1>1, <1>2

LEMMA CutStep ==
  ASSUME TypeOK, \A f \in Ends : ReadsInTurn(f) /\ HandleAccounted(f), CutInv, Next
  PROVE  CutInv'
  <1>1. DetachedByDestructor'
    BY DetachedStep DEF CutInv
  <1>2. ASSUME \A f \in Ends : Cuts(f) PROVE CutInv'
    <2>1. NotOpened'
      BY <1>2, MainMoves, EndsFacts DEF NotOpened, Cuts, CutInv
    <2>2. ASSUME NEW f \in Ends PROVE Unattached(f)' /\ GoneIsClosed(f)' /\ FailedIsCut(f)'
      <3>1. Unattached(f)'
        BY <1>2 DEF Cuts
      <3>2. GoneIsClosed(f)'
        BY <1>2, MainMoves DEF Cuts, GoneIsClosed, HandleAccounted
      <3>3. FailedIsCut(f)'
        BY <1>2 DEF Cuts, FailedIsCut, Fits
      <3> QED
        BY <3>1, <3>2, <3>3
    <2> QED
      BY <1>1, <2>1, <2>2 DEF CutInv
  <1>3. CASE CreateClientPipe
    <2>1. /\ UNCHANGED <<inbox, reading, apcs>> /\ mainPc[Client] = "create"
          /\ pend' = [f \in Ends |-> "attached"] /\ mainPc' = [mainPc EXCEPT ![Client] = "mode"]
          /\ pend[Server] = "listening"
      BY <1>3 DEF CreateClientPipe, CreateFile, MainGoes
    <2>2. NotOpened'
      BY <2>1, EndsFacts DEF NotOpened, TypeOK, ChannelTypeOK
    <2>3. ASSUME NEW f \in Ends PROVE Unattached(f)' /\ GoneIsClosed(f)' /\ FailedIsCut(f)'
      <3>1. apcs'[f] = <<>> /\ pend'[f] = "attached"
        BY <2>1 DEF CutInv, NotOpened
      <3>2. ~ReadFailed(f)'
        BY <3>1, FailedOne
      <3>3. mainPc'[f] # "gone"
        BY <2>1, Peers, EndsFacts DEF TypeOK, ChannelTypeOK, CutInv, GoneIsClosed, Ends
      <3> QED
        BY <3>1, <3>2, <3>3 DEF Unattached, GoneIsClosed, FailedIsCut
    <2> QED
      BY <1>1, <2>2, <2>3 DEF CutInv
  <1>4. ASSUME NEW e \in Ends, FirstRead(e) \/ DoReadCompleteRoutine(e) PROVE CutInv'
    <2>1. PICK c \in Completions, ret \in {"wait", "apc"} :
            /\ ReadComplete(e, c, <<>>, ret) /\ Arriving(e) = MessageOf(<<c>>)
            /\ ReadFailed(e) <=> c.err # NoError
      BY <1>4, ReadCall
    <2>2. ~reading[e]
      BY <1>4, ReadCall
    <2>3. UNCHANGED <<pend, mainPc>>
      BY <2>1, <2>2, ReadOutcome
    <2>4. ASSUME NEW f \in Ends, f # e PROVE Unattached(f)' /\ FailedIsCut(f)' /\ apcs'[f] = apcs[f]
      <3>1. apcs'[f] = apcs[f] /\ inbox'[f] = inbox[f] /\ reading'[f] = reading[f]
        BY <2>1, <2>2, <2>4, ReadOutcome
      <3>2. ReadFailed(f)' <=> ReadFailed(f)
        BY <3>1, FailedOne
      <3> QED
        BY <2>3, <3>1, <3>2 DEF CutInv, Unattached, FailedIsCut, Fits, Attached
    <2>5. /\ Unattached(e)' /\ FailedIsCut(e)'
          /\ pend[e] # "attached" => apcs'[e] = <<>>
      <3>1. CASE ReadError(e, c) # NoError
        <4>1. apcs'[e] = <<>> /\ inbox'[e] = inbox[e] /\ ~reading'[e]
          BY <2>1, <2>2, <3>1, ReadOutcome
        <4>2. ~ReadFailed(e)'
          BY <4>1, FailedOne
        <4> QED
          BY <2>3, <4>1, <4>2 DEF CutInv, Unattached, FailedIsCut
      <3>2. CASE ReadError(e, c) = NoError
        <4>1. /\ pend[e] = "attached"
              /\ \/ apcs'[e] = <<>>
                 \/ /\ apcs'[e] = <<Completion(e, Head(inbox[e]))>>
                    /\ Completion(e, Head(inbox[e])) \in Completions
          BY <2>1, <2>2, <3>2, ReadOutcome
        <4>2. Fits(e) => ~ReadFailed(e)'
          BY <4>1, FailedOne, CompletionFits
        <4> QED
          BY <2>3, <4>1, <4>2 DEF Unattached, FailedIsCut, Fits
      <3> QED
        BY <3>1, <3>2
    <2>6. NotOpened'
      BY <2>3, <2>4, <2>5 DEF CutInv, NotOpened
    <2>7. \A f \in Ends : GoneIsClosed(f)'
      BY <2>3 DEF CutInv, GoneIsClosed
    <2> QED
      BY <1>1, <2>4, <2>5, <2>6, <2>7 DEF CutInv
  <1>5. CASE Creation /\ ~CreateClientPipe
    BY <1>2, <1>5, CreationCuts DEF Creation
  <1>6. ASSUME NEW e \in Ends, MainChoice(e) \/ MainRuns(e) PROVE CutInv'
    BY <1>2, <1>6, MainCuts
  <1>7. ASSUME NEW e \in Ends, IoThread(e), ~FirstRead(e), ~DoReadCompleteRoutine(e) PROVE CutInv'
    BY <1>2, <1>7, IoCuts
  <1> QED
    BY <1>3, <1>4, <1>5, <1>6, <1>7 DEF Next

LEMMA CutInvariant == Spec => []CutInv
  <1>1. Init => CutInv
    <2>1. Init => \A e \in Ends : ~ReadFailed(e)
      BY FailedOne DEF Init, PipeInit
    <2> QED
      BY <2>1, EndsFacts
      DEF Init, PipeInit, CutInv, NotOpened, DetachedByDestructor, Unattached, GoneIsClosed,
          FailedIsCut
  <1>2. TypeOK /\ CutInv /\ (\A e \in Ends : ReadsInTurn(e)) /\ (\A e \in Ends : HandleAccounted(e))
          /\ [Next]_vars => CutInv'
    <2>1. CASE UNCHANGED vars
      <3>1. \A e \in Ends : ReadFailed(e)' <=> ReadFailed(e)
        BY <2>1 DEF vars, pipeVars, ReadFailed
      <3> QED
        BY <2>1, <3>1
        DEF vars, pipeVars, chanVars, CutInv, NotOpened, DetachedByDestructor, Unattached,
            GoneIsClosed, FailedIsCut, Fits, Attached
    <2> QED
      BY <2>1, CutStep
  <1> QED
    BY <1>1, <1>2, TypeCorrect, ReadsInvariant, HandleInvariant, PTL DEF Spec

-----------------------------------------------------------------------------
(* The phase of a stream only goes on                                      *)

CutOff(r) == pend[r] \in {"detached", "closed"} \/ IsInError(r) \/ ReadFailed(r)

LEMMA DetachedStays ==
  ASSUME TypeOK, CutInv, \A f \in Ends : HandleAccounted(f), Next,
         NEW r \in Ends, pend[r] = "detached"
  PROVE  \/ pend'[r] \in {"detached", "closed"}
         \/ mainPc[r] \in Destructor \cup {"destroyed"}
  <1> USE EndsFacts DEF TypeOK, PipeTypeOK
  <1>1. CASE Creation
    <2>1. CASE CreateServerPipe
      BY <2>1 DEF CreateServerPipe, CreateNamedPipe, MainGoes, HandleAccounted
    <2>2. CASE CreateClientPipe
      <3>1. pend[Server] = "listening" /\ pend[Client] = "absent"
        BY <2>2 DEF CreateClientPipe, CreateFile, MainGoes, HandleAccounted
      <3> QED
        BY <3>1 DEF Ends
    <2>3. CASE \E e \in Ends : CreateFails(e)
      BY <2>3 DEF CreateFails, pipeVars
    <2> QED
      BY <1>1, <2>1, <2>2, <2>3 DEF Creation
  <1>2. ASSUME NEW e \in Ends, MainChoice(e) \/ MainRuns(e)
        PROVE  pend'[r] \in {"detached", "closed"}
    <2>1. \/ pend' = pend \/ \E g \in Ends : pend' = [pend EXCEPT ![g] = "closed"]
          \/ DisconnectNamedPipe
      BY <1>2
      DEF MainChoice, MainRuns, ConnectOnIOThread, BeginSend, Destroy, SetReadMode, Write,
          WriteFile, DestroyDisconnect, DisconnectPipe, DestroyClose, ResetPipe, CloseHandle,
          DestroyQuit, DestroyJoin, pipeVars
    <2> QED
      BY <2>1 DEF DisconnectNamedPipe
  <1>3. ASSUME NEW e \in Ends, IoThread(e)
        PROVE  \/ pend'[r] \in {"detached", "closed"}
               \/ mainPc[r] \in Destructor \cup {"destroyed"}
    <2>1. CASE ConnectToClient(e) /\ e = Server
      <3>1. pend' = pend \/ pend' = [pend EXCEPT ![Server] = "listening"]
        BY <2>1 DEF ConnectToClient, ConnectNamedPipe
      <3>2. r = Server => mainPc[r] \in Destructor \cup {"destroyed"}
        BY <2>1 DEF ConnectToClient, IoGoes, CutInv, DetachedByDestructor
      <3> QED
        BY <3>1, <3>2
    <2>2. CASE ~(ConnectToClient(e) /\ e = Server)
      <3>1. \/ pend' = pend \/ \E g \in Ends : pend' = [pend EXCEPT ![g] = "closed"]
            \/ DisconnectNamedPipe
        BY <1>3, <2>2
        DEF IoThread, ConnectInternal, ClientConnected, IoDisconnect, DisconnectPipe, IoClose,
            ResetPipe, CloseHandle, WaitObject, AcceptConnection, WaitIoCompletion,
            NotifyMessage, HandleIOCompletion, FirstRead, DoReadCompleteRoutine, ReadComplete,
            ReadFileEx, pipeVars
      <3> QED
        BY <3>1 DEF DisconnectNamedPipe
    <2> QED
      BY <2>1, <2>2
  <1> QED
    BY <1>1, <1>2, <1>3 DEF Next

LEMMA CutStays ==
  ASSUME TypeOK, CutInv, Next, NEW r \in Ends, CutOff(r),
         \A f \in Ends : StateFollowsThread(f) /\ ReadsInTurn(f) /\ HandleAccounted(f)
  PROVE  CutOff(r)' \/ mainPc[r] \in Destructor \cup {"destroyed"}
  <1>1. IsInError(r) => IsInError(r)'
    BY StateStep
  <1>2. CASE pend[r] = "detached"
    BY <1>2, DetachedStays DEF CutOff
  <1>3. CASE Creation /\ ~CreateClientPipe
    BY <1>1, <1>2, <1>3, CreationCuts DEF Creation, Cuts, CutOff
  <1>4. CASE CreateClientPipe
    <2>1. pend[Server] = "listening" /\ pend[Client] = "absent" /\ UNCHANGED apcs
      BY <1>4, EndsFacts DEF CreateClientPipe, CreateFile, MainGoes, HandleAccounted
    <2>2. ReadFailed(r)' <=> ReadFailed(r)
      BY <2>1, FailedOne
    <2> QED
      BY <1>1, <2>1, <2>2 DEF CutOff, Ends
  <1>5. ASSUME NEW e \in Ends, MainChoice(e) \/ MainRuns(e)
        PROVE  CutOff(r)' \/ pend[r] = "detached"
    BY <1>1, <1>5, MainCuts DEF Cuts, CutOff
  <1>6. ASSUME NEW e \in Ends, IoThread(e), ~FirstRead(e), ~DoReadCompleteRoutine(e)
        PROVE  CutOff(r)' \/ pend[r] = "detached"
    BY <1>1, <1>6, IoCuts DEF Cuts, CutOff
  <1>7. ASSUME NEW e \in Ends, FirstRead(e) \/ DoReadCompleteRoutine(e)
        PROVE  CutOff(r)'
    <2>1. PICK c \in Completions, ret \in {"wait", "apc"} :
            /\ ReadComplete(e, c, <<>>, ret) /\ Arriving(e) = MessageOf(<<c>>)
            /\ ReadFailed(e) <=> c.err # NoError
      BY <1>7, ReadCall
    <2>2. ~reading[e]
      BY <1>7, ReadCall
    <2>3. UNCHANGED pend
      BY <2>1, <2>2, ReadOutcome
    <2>4. CASE r # e
      <3>1. apcs'[r] = apcs[r]
        BY <2>1, <2>2, <2>4, ReadOutcome
      <3>2. ReadFailed(r)' <=> ReadFailed(r)
        BY <3>1, FailedOne
      <3> QED
        BY <1>1, <2>3, <3>2 DEF CutOff
    <2>5. CASE r = e
      <3>1. c.err # NoError => ReadError(e, c) # NoError
        BY DEF ReadError
      <3>2. ReadError(e, c) # NoError => state'[e] \in ErrorCodes
        BY <2>1, <2>2, ReadOutcome
      <3> QED
        BY <1>1, <2>1, <2>3, <2>5, <3>1, <3>2 DEF CutOff, IsInError
    <2> QED
      BY <2>4, <2>5
  <1> QED
    BY <1>2, <1>3, <1>4, <1>5, <1>6, <1>7 DEF Next

LEMMA PhaseStep ==
  ASSUME TypeOK, CutInv, Next, NEW r \in Ends,
         \A f \in Ends : StateFollowsThread(f) /\ ReadsInTurn(f) /\ HandleAccounted(f)
  PROVE  PhaseMoves(r)
  <1>1. StreamPhase(r) =
          IF mainPc[r] \in {"destroyed", "gone"} THEN "gone"
          ELSE IF mainPc[r] \in Destructor THEN "dying"
          ELSE IF CutOff(r) THEN "cut" ELSE "up"
    BY DEF StreamPhase, CutOff, Destructor
  <1>2. StreamPhase(r)' =
          IF mainPc'[r] \in {"destroyed", "gone"} THEN "gone"
          ELSE IF mainPc'[r] \in Destructor THEN "dying"
          ELSE IF CutOff(r)' THEN "cut" ELSE "up"
    BY DEF StreamPhase, CutOff, Destructor
  <1>3. /\ mainPc[r] \in {"destroyed", "gone"} => mainPc'[r] = mainPc[r]
        /\ mainPc[r] \in Destructor => mainPc'[r] \in Destructor \cup {"destroyed"}
    BY MainMoves
  <1>4. CutOff(r) => CutOff(r)' \/ mainPc[r] \in Destructor \cup {"destroyed"}
    BY CutStays
  <1>5. /\ Stream(r)!Later("up") = {"cut", "dying", "gone"}
        /\ Stream(r)!Later("cut") = {"cut", "dying", "gone"}
        /\ Stream(r)!Later("dying") = {"dying", "gone"}
    BY DEF Stream!Later
  <1>6. "destroyed" \notin Destructor /\ "gone" \notin Destructor
    BY DEF Destructor
  <1>7. CASE mainPc[r] \in {"destroyed", "gone"}
    BY <1>1, <1>2, <1>3, <1>7 DEF PhaseMoves
  <1>8. CASE mainPc[r] \in Destructor
    BY <1>1, <1>2, <1>3, <1>5, <1>6, <1>8 DEF PhaseMoves
  <1>9. CASE mainPc[r] \notin {"destroyed", "gone"} /\ mainPc[r] \notin Destructor
    BY <1>1, <1>2, <1>4, <1>5, <1>9 DEF PhaseMoves
  <1> QED
    BY <1>7, <1>8, <1>9

-----------------------------------------------------------------------------
(* Every step is one of the stream                                         *)

LEMMA StreamTypes ==
  ASSUME TypeOK, NEW r \in Ends
  PROVE  /\ InTransit(r) \in Seq(Nat)
         /\ InTransit(r) = message[r] \o (Arriving(r) \o inbox[r])
         /\ message[r] \o Arriving(r) \in Seq(Nat) /\ Arriving(r) \o inbox[r] \in Seq(Nat)
  <1> DEFINE m == message[r]
             a == Arriving(r)
             b == inbox[r]
  <1>1. m \in Seq(Nat) /\ a \in Seq(Nat) /\ b \in Seq(Nat) /\ InTransit(r) = (m \o a) \o b
    BY OrderTypes DEF InTransit
  <1> HIDE DEF m, a, b
  <1>2. m \o a \in Seq(Nat) /\ a \o b \in Seq(Nat)
    BY <1>1, ConcatProperties
  <1>3. (m \o a) \o b \in Seq(Nat)
    BY <1>1, <1>2, ConcatProperties
  <1>4. (m \o a) \o b = m \o (a \o b)
    BY <1>1, ConcatAssociative, SMTT(30)
  <1> QED
    BY <1>1, <1>2, <1>3, <1>4 DEF m, a, b

(* In use means that the stream has not come to its end.                   *)
LEMMA InUse ==
  ASSUME TypeOK, CutInv, NEW r \in Ends, HandleAccounted(r)
  PROVE  /\ pend[r] = "attached" => StreamPhase(r) # "gone"
         /\ ioPc[r] \notin {"none", "exited"} => StreamPhase(r) # "gone"
         /\ mainPc[r] = "idle" => StreamPhase(r) # "gone"
  <1>1. mainPc[r] \notin {"destroyed", "gone"} => StreamPhase(r) # "gone"
    BY DEF StreamPhase, Destructor
  <1> QED
    BY <1>1 DEF HandleAccounted, CutInv, GoneIsClosed

(* A step of the pipe: what is in it may be lost, the end of the queue.    *)
LEMMA PipeStream ==
  ASSUME TypeOK, CutInv, NEW r \in Ends, HandleAccounted(r), PhaseMoves(r),
         delivered'[r] = delivered[r], sent'[Peer(r)] = sent[Peer(r)],
         message'[r] = message[r], PipeLoses(r), Cuts(r)
  PROVE  StreamStep(r)
  <1>1. CASE inbox'[r] = inbox[r]
    <2>1. InTransit(r)' = InTransit(r)
      BY <1>1 DEF InTransit, PipeLoses
    <2> QED
      BY <2>1, NoLoss, StreamTypes
  <1>2. CASE inbox'[r] # inbox[r]
    <2>1. /\ inbox[r] # <<>> /\ inbox'[r] = <<>> /\ pend'[r] \in {"detached", "closed"}
          /\ Arriving(r)' = Arriving(r)
      BY <1>2 DEF PipeLoses, Cuts
    <2>2. pend[r] = "attached"
      BY <2>1 DEF CutInv, Unattached
    <2>3. StreamPhase(r) # "gone"
      BY <2>2, InUse
    <2>4. StreamPhase(r)' # "up"
      BY <2>1 DEF StreamPhase, Destructor
    <2>5. StreamPhase(r)' \in Stream(r)!Later(StreamPhase(r))
      BY <2>3, <2>4 DEF PhaseMoves, Stream!Later, StreamPhase
    <2> DEFINE x == message[r] \o Arriving(r)
               b == inbox[r]
    <2>6. x \in Seq(Nat) /\ b \in Seq(Nat) /\ <<>> \in Seq(Nat)
      BY StreamTypes, OrderTypes
    <2>7. InTransit(r) = x \o b \o <<>> /\ InTransit(r)' = x \o <<>>
      <3>1. InTransit(r) = x \o b /\ InTransit(r)' = x \o <<>>
        BY <2>1 DEF InTransit
      <3>2. x \o b \in Seq(Nat)
        BY <2>6, ConcatProperties
      <3>3. (x \o b) \o <<>> = x \o b
        BY <3>2, ConcatEmptySeq
      <3> QED
        BY <3>1, <3>3
    <2> HIDE DEF x, b
    <2>8. Stream(r)!BreakDown
      BY <2>5, <2>6, <2>7, LossIsBreakDown
    <2> QED
      BY <2>8 DEF StreamStep, Stream!Next
  <1> QED
    BY <1>1, <1>2

(* A write that succeeds: one more message for the peer.                   *)
LEMMA WriteStream ==
  ASSUME TypeOK, CutInv, \A f \in Ends : ReadsInTurn(f) /\ HandleAccounted(f) /\ PhaseMoves(f),
         NEW e \in Ends, WriteFile(e, sent[e] + 1),
         sent' = [sent EXCEPT ![e] = @ + 1], UNCHANGED <<message, delivered, state>>,
         mainPc[e] = "write", mainPc' = [mainPc EXCEPT ![e] = "idle"],
         NEW r \in Ends, Fits(r)
  PROVE  StreamStep(r)
  <1>1. /\ UNCHANGED pend /\ pend[r] = "attached"
        /\ Peer(r) \in Ends /\ Peer(Peer(r)) = r /\ Peer(r) # r
        /\ r = e \/ r = Peer(e)
    BY Peers DEF WriteFile, WriteStatus, NoError, BadHandle, NotConnected, NoData
  <1>2. CASE r = e
    <2>1. /\ sent'[Peer(r)] = sent[Peer(r)] /\ apcs'[r] = apcs[r] /\ inbox'[r] = inbox[r]
      BY <1>1, <1>2 DEF WriteFile, TypeOK, PipeTypeOK, ChannelTypeOK
    <2>2. InTransit(r)' = InTransit(r)
      BY <2>1 DEF InTransit, Arriving
    <2> QED
      BY <2>1, <2>2, NoLoss, StreamTypes
  <1>3. CASE r = Peer(e)
    <2> DEFINE n == sent[e] + 1
    <2>1. /\ n \in Nat /\ n # 0 /\ Peer(r) = e /\ sent[Peer(r)] + 1 = n /\ sent'[Peer(r)] = n
          /\ mainPc'[r] = mainPc[r]
      <3>1. sent[e] \in Nat /\ sent'[e] = sent[e] + 1
        BY DEF TypeOK, ChannelTypeOK
      <3>2. Peer(r) = e /\ r # e
        BY <1>1, <1>3, Peers
      <3>3. mainPc'[r] = mainPc[r]
        BY <3>2 DEF TypeOK, ChannelTypeOK
      <3> QED
        BY <3>1, <3>2, <3>3
    <2>2. /\ InTransit(r)' = Append(InTransit(r), n)
          /\ ReadFailed(r)' <=> ReadFailed(r)
      <3>1. CASE ~reading[r]
        <4>1. apcs'[r] = apcs[r] /\ inbox'[r] = Append(inbox[r], n)
          BY <1>3, <3>1 DEF WriteFile, TypeOK, PipeTypeOK
        <4>2. Append(InTransit(r), n) = (message[r] \o Arriving(r)) \o Append(inbox[r], n)
          <5> HIDE DEF n
          <5> DEFINE x == message[r] \o Arriving(r)
                     b == inbox[r]
          <5>1. x \in Seq(Nat) /\ b \in Seq(Nat) /\ n \in Nat /\ InTransit(r) = x \o b
            BY <2>1, OrderTypes, StreamTypes DEF InTransit
          <5> HIDE DEF x, b
          <5>2. Append(InTransit(r), n) = x \o Append(b, n)
            BY <5>1, ConcatMore, SMTT(30)
          <5> QED
            BY <5>2 DEF x, b
        <4>3. InTransit(r)' = (message[r] \o Arriving(r)) \o Append(inbox[r], n)
          BY <4>1 DEF InTransit, Arriving
        <4> QED
          BY <4>1, <4>2, <4>3, FailedOne
      <3>2. CASE reading[r]
        <4> DEFINE c == Completion(r, n)
                   m == message[r]
        <4>1. apcs[r] = <<>> /\ inbox[r] = <<>>
          BY <3>2 DEF ReadsInTurn
        <4>2. c \in Completions /\ c.msg = n /\ c.err = NoError
          BY <2>1, CompletionType, CompletionFits DEF Completion
        <4>3. inbox'[r] = <<>> /\ apcs'[r] = Append(apcs[r], c)
          BY <1>3, <3>2, <4>1 DEF WriteFile, TypeOK, PipeTypeOK
        <4> HIDE DEF c, n
        <4>4. apcs'[r] = <<c>>
          BY <4>1, <4>2, <4>3, OneMore
        <4>5. MessageOf(<<c>>) = <<n>>
          BY <2>1, <4>2, MessageOfOne, Zenon
        <4>6. Arriving(r)' = <<n>> /\ Arriving(r) = <<>>
          BY <4>1, <4>4, <4>5 DEF Arriving, MessageOf
        <4>7. InTransit(r) = (m \o <<>>) \o <<>> /\ InTransit(r)' = (m \o <<n>>) \o <<>>
          BY <4>1, <4>3, <4>6 DEF InTransit
        <4>8. m \in Seq(Nat) /\ <<n>> \in Seq(Nat) /\ m \o <<n>> \in Seq(Nat)
          BY <2>1, OrderTypes, ConcatProperties
        <4> HIDE DEF m
        <4>9. InTransit(r) = m /\ InTransit(r)' = m \o <<n>>
          BY <4>7, <4>8, ConcatEmptySeq
        <4>10. InTransit(r)' = Append(InTransit(r), n)
          BY <2>1, <4>8, <4>9, AppendIsConcat
        <4>11. ReadFailed(r)' <=> ReadFailed(r)
          BY <4>1, <4>2, <4>4, FailedOne
        <4> QED
          BY <4>10, <4>11
      <3> QED
        BY <3>1, <3>2
    <2>3. StreamPhase(r)' = StreamPhase(r)
      BY <1>1, <2>1, <2>2 DEF StreamPhase, IsInError
    <2>4. StreamPhase(r) # "gone"
      BY <1>1, InUse
    <2>5. Stream(r)!Send
      BY <2>1, <2>2, <2>3, <2>4 DEF Stream!Send
    <2> QED
      BY <2>5 DEF StreamStep, Stream!Next
  <1> QED
    BY <1>1, <1>2, <1>3

(* OnMessage gets everything that was read.                                *)
LEMMA NotifyStream ==
  ASSUME TypeOK, CutInv, \A f \in Ends : HandleAccounted(f) /\ PhaseMoves(f),
         NEW e \in Ends, NotifyMessage(e), NEW r \in Ends
  PROVE  StreamStep(r)
  <1>1. UNCHANGED <<sent, pend, inbox, apcs, mainPc, state>> /\ ioPc[e] = "notify"
    BY DEF NotifyMessage, IoGoes, pipeVars
  <1>2. Arriving(r)' = Arriving(r) /\ (ReadFailed(r)' <=> ReadFailed(r))
    BY <1>1, FailedOne DEF Arriving
  <1>3. CASE r # e
    <2>1. message'[r] = message[r] /\ delivered'[r] = delivered[r]
      BY <1>3 DEF NotifyMessage, TypeOK, ChannelTypeOK
    <2>2. InTransit(r)' = InTransit(r)
      BY <1>1, <1>2, <2>1 DEF InTransit
    <2> QED
      BY <1>1, <2>1, <2>2, NoLoss, StreamTypes
  <1>4. CASE r = e
    <2> DEFINE m == message[r]
               z == Arriving(r) \o inbox[r]
               q == InTransit(r)
    <2>1. /\ m \in Seq(Nat) /\ z \in Seq(Nat) /\ <<>> \in Seq(Nat) /\ q = m \o z
          /\ delivered[r] \in Seq(Nat)
      <3>1. m \in Seq(Nat) /\ delivered[r] \in Seq(Nat) /\ <<>> \in Seq(Nat)
        BY OrderTypes
      <3>2. z \in Seq(Nat) /\ q = m \o z
        BY StreamTypes
      <3> QED
        BY <3>1, <3>2
    <2>2. /\ delivered'[r] = delivered[r] \o m /\ message'[r] = <<>>
          /\ InTransit(r)' = (<<>> \o Arriving(r)) \o inbox[r]
      BY <1>1, <1>2, <1>4 DEF NotifyMessage, InTransit, TypeOK, ChannelTypeOK
    <2>3. InTransit(r)' = z
      BY <2>2, OrderTypes, ConcatEmptySeq
    <2>4. CASE m = <<>>
      <3>1. delivered'[r] = delivered[r] /\ InTransit(r)' = InTransit(r)
        BY <2>1, <2>2, <2>3, <2>4, ConcatEmptySeq
      <3> QED
        BY <1>1, <3>1, NoLoss, StreamTypes
    <2>5. CASE m # <<>>
      <3> HIDE DEF m, z
      <3>1. q = m \o <<>> \o z
        BY <2>1, ConcatEmptySeq
      <3>2. /\ Len(q) = Len(m) + Len(<<>>) + Len(z)
            /\ SubSeq(q, 1, Len(m)) = m
            /\ SubSeq(q, Len(m) + Len(<<>>) + 1, Len(q)) = z
        <4> HIDE DEF q
        <4> QED
          BY <2>1, <3>1, LoseMiddle
      <3>3. Len(<<>>) = 0 /\ Len(m) \in Nat \ {0} /\ Len(z) \in Nat
        BY <2>1, <2>5, EmptySeq, LenProperties
      <3>4. Len(m) \in 1..Len(q) /\ Len(m) + Len(<<>>) + 1 = Len(m) + 1
        BY <3>2, <3>3
      <3>5. /\ delivered'[r] = delivered[r] \o SubSeq(q, 1, Len(m))
            /\ InTransit(r)' = SubSeq(q, Len(m) + 1, Len(q))
        BY <2>2, <2>3, <3>2, <3>4
      <3>6. StreamPhase(r)' = StreamPhase(r) /\ StreamPhase(r) # "gone"
        <4>1. StreamPhase(r)' = StreamPhase(r)
          BY <1>1, <1>2 DEF StreamPhase, IsInError
        <4> QED
          BY <1>1, <1>4, <4>1, InUse
      <3>7. Stream(r)!Deliver
        BY <1>1, <3>4, <3>5, <3>6 DEF Stream!Deliver, q
      <3> QED
        BY <3>7 DEF StreamStep, Stream!Next
    <2> QED
      BY <2>4, <2>5
  <1> QED
    BY <1>3, <1>4

(* ReadComplete: a good read moves its message on, a failed one loses what *)
(* was read and not yet handed out, when nothing more can follow.          *)
LEMMA ReadStream ==
  ASSUME TypeOK, CutInv, OrderInv,
         \A f \in Ends : ReadsInTurn(f) /\ HandleAccounted(f) /\ PhaseMoves(f),
         NEW e \in Ends, FirstRead(e) \/ DoReadCompleteRoutine(e), NEW r \in Ends, Fits(r)
  PROVE  StreamStep(r)
  <1>1. PICK c \in Completions, ret \in {"wait", "apc"} :
          /\ ReadComplete(e, c, <<>>, ret) /\ Arriving(e) = MessageOf(<<c>>)
          /\ ReadFailed(e) <=> c.err # NoError
    BY ReadCall
  <1>2. ~reading[e] /\ ioPc[e] \notin {"none", "exited"}
    BY ReadCall
  <1>3. UNCHANGED <<pend, mainPc, delivered, sent>>
    BY <1>1, <1>2, ReadOutcome
  <1>4. CASE r # e
    <2>1. apcs'[r] = apcs[r] /\ inbox'[r] = inbox[r] /\ message'[r] = message[r]
      BY <1>1, <1>2, <1>4, ReadOutcome
    <2>2. InTransit(r)' = InTransit(r)
      BY <2>1 DEF InTransit, Arriving
    <2> QED
      BY <1>3, <2>2, NoLoss, StreamTypes
  <1>5. CASE r = e /\ ReadError(e, c) # NoError
    <2> DEFINE y == message[r] \o Arriving(r)
               b == inbox[r]
    <2>1. /\ c.err # NoError \/ inbox[e] = <<>>
          /\ state'[e] \in ErrorCodes /\ message'[e] = <<>> /\ apcs'[e] = <<>>
          /\ inbox'[e] = inbox[e]
      BY <1>1, <1>2, <1>5, ReadOutcome
    <2>2. b = <<>>
      BY <1>1, <1>5, <2>1 DEF CutInv, FailedIsCut
    <2>3. StreamPhase(r)' # "up"
      BY <1>5, <2>1 DEF StreamPhase, IsInError, Destructor
    <2>4. StreamPhase(r) # "gone"
      BY <1>2, <1>5, InUse
    <2>5. StreamPhase(r)' \in Stream(r)!Later(StreamPhase(r))
      BY <2>3, <2>4 DEF PhaseMoves, Stream!Later, StreamPhase
    <2>6. y \in Seq(Nat) /\ <<>> \in Seq(Nat) /\ InTransit(r) = y \o <<>>
      BY <2>2, StreamTypes, EmptySeq DEF InTransit
    <2>7. InTransit(r)' = (<<>> \o <<>>) \o <<>>
      BY <1>5, <2>1, <2>2 DEF InTransit, Arriving, MessageOf
    <2>8. InTransit(r) = <<>> \o y \o <<>> /\ InTransit(r)' = <<>> \o <<>>
      <3> HIDE DEF y
      <3>1. <<>> \o y = y /\ <<>> \o <<>> = <<>>
        BY <2>6, ConcatEmptySeq
      <3> QED
        BY <2>6, <2>7, <3>1
    <2> HIDE DEF y
    <2>9. Stream(r)!BreakDown
      BY <1>3, <2>5, <2>6, <2>8, LossIsBreakDown
    <2> QED
      BY <2>9 DEF StreamStep, Stream!Next
  <1>6. CASE r = e /\ ReadError(e, c) = NoError
    <2> DEFINE m == message[r]
               a == Arriving(r)
               b == inbox[r]
               m1 == Received(r, c)
    <2>1. /\ message'[r] = m1
          /\ \/ inbox[r] = <<>> /\ inbox'[r] = <<>> /\ apcs'[r] = <<>>
             \/ /\ inbox[r] # <<>> /\ inbox'[r] = Tail(inbox[r])
                /\ apcs'[r] = <<Completion(r, Head(inbox[r]))>>
                /\ Completion(r, Head(inbox[r])) \in Completions
      BY <1>1, <1>2, <1>6, ReadOutcome
    <2>2. m \in Seq(Nat) /\ b \in Seq(Nat) /\ a = MessageOf(<<c>>) /\ c.msg \in Nat
      BY <1>1, <1>6, OrderTypes DEF Completions
    <2>3. m1 = m \o a /\ m1 \in Seq(Nat)
      <3>1. MessageOf(<<c>>) = IF c.msg = 0 THEN <<>> ELSE <<c.msg>>
        BY MessageOfOne, Zenon
      <3>2. CASE c.msg = 0
        <4>1. m1 = m /\ a = <<>>
          BY <2>2, <3>1, <3>2 DEF Received
        <4> HIDE DEF m, a, m1
        <4> QED
          BY <2>2, <4>1, ConcatEmptySeq
      <3>3. CASE c.msg # 0
        <4>1. MessageSize[Peer(r)] > 0
          BY PipeAssumption DEF Fits
        <4>2. m1 = Append(m, c.msg) /\ a = <<c.msg>>
          BY <2>2, <3>1, <3>3, <4>1 DEF Received
        <4> HIDE DEF m, a, m1
        <4> QED
          BY <2>2, <4>2, AppendIsConcat, AppendProperties, ZenonT(30)
      <3> QED
        BY <3>2, <3>3
    <2>4. Arriving(r)' \o inbox'[r] = b /\ Arriving(r)' \in Seq(Nat) /\ inbox'[r] \in Seq(Nat)
      <3>1. CASE inbox[r] = <<>>
        <4>1. Arriving(r)' = <<>> /\ inbox'[r] = <<>> /\ b = <<>> /\ <<>> \in Seq(Nat)
          BY <2>1, <3>1 DEF Arriving, MessageOf
        <4> HIDE DEF b
        <4> QED
          BY <4>1, ConcatEmptySeq
      <3>2. CASE inbox[r] # <<>>
        <4> DEFINE x == Completion(r, Head(inbox[r]))
        <4>1. Within(b, sent[Peer(r)]) /\ sent[Peer(r)] \in Nat
          BY OrderTypes DEF OrderInv, Ordered, InTurn
        <4>2. Head(b) \in Nat /\ Tail(b) \in Seq(Nat) /\ Head(b) \in 1..sent[Peer(r)]
          BY <2>2, <3>2, <4>1, OrderHeadTail
        <4>3. Head(b) # 0
          BY <4>1, <4>2
        <4>4. x.msg = Head(b) /\ apcs'[r] = <<x>> /\ x \in Completions /\ inbox'[r] = Tail(b)
          BY <2>1, <3>2 DEF Completion
        <4> HIDE DEF x
        <4>5. MessageOf(<<x>>) = <<x.msg>>
          BY <4>3, <4>4, MessageOfOne, Zenon
        <4>6. Arriving(r)' = <<Head(b)>>
          BY <4>4, <4>5 DEF Arriving
        <4>7. b # <<>>
          BY <3>2
        <4> HIDE DEF b
        <4>8. <<Head(b)>> \o Tail(b) = b
          BY <2>2, <4>7, HeadConcatTail
        <4> QED
          BY <4>2, <4>4, <4>6, <4>8
      <3> QED
        BY <3>1, <3>2
    <2>5. InTransit(r)' = (m1 \o Arriving(r)') \o inbox'[r] /\ InTransit(r) = (m \o a) \o b
      BY <2>1 DEF InTransit
    <2> HIDE DEF m, a, b, m1
    <2>6. InTransit(r)' = InTransit(r)
      <3>1. \A x, y, z \in Seq(Nat) : (x \o y) \o z = x \o (y \o z)
        BY ConcatAssociative, SMTT(30)
      <3>2. (m1 \o Arriving(r)') \o inbox'[r] = m1 \o (Arriving(r)' \o inbox'[r])
        BY <2>3, <2>4, <3>1
      <3> QED
        BY <2>3, <2>4, <2>5, <3>2
    <2> QED
      BY <1>3, <2>6, NoLoss, StreamTypes
  <1> QED
    BY <1>4, <1>5, <1>6

(* The destructor's first step drops what was read.                        *)
LEMMA DestroyStream ==
  ASSUME TypeOK, CutInv, \A f \in Ends : HandleAccounted(f) /\ PhaseMoves(f),
         NEW e \in Ends, Destroy(e), NEW r \in Ends
  PROVE  StreamStep(r)
  <1>1. UNCHANGED <<sent, delivered, inbox, apcs>>
    BY DEF Destroy, pipeVars, history
  <1>2. Arriving(r)' = Arriving(r)
    BY <1>1 DEF Arriving
  <1>3. CASE r # e
    <2>1. message'[r] = message[r]
      BY <1>3 DEF Destroy, TypeOK, ChannelTypeOK
    <2>2. InTransit(r)' = InTransit(r)
      BY <1>1, <1>2, <2>1 DEF InTransit
    <2> QED
      BY <1>1, <2>2, NoLoss, StreamTypes
  <1>4. CASE r = e
    <2> DEFINE m == message[r]
               z == Arriving(r) \o inbox[r]
    <2>1. /\ mainPc[r] = "idle" /\ mainPc'[r] = "disconnect" /\ message'[r] = <<>>
      BY <1>4 DEF Destroy, MainGoes, TypeOK, ChannelTypeOK
    <2>2. StreamPhase(r)' = "dying" /\ StreamPhase(r) \in {"up", "cut"}
      BY <2>1 DEF StreamPhase, Destructor
    <2>3. StreamPhase(r)' \in Stream(r)!Later(StreamPhase(r))
      BY <2>2 DEF Stream!Later
    <2>4. m \in Seq(Nat) /\ z \in Seq(Nat) /\ <<>> \in Seq(Nat) /\ InTransit(r) = m \o z
      <3>1. m \in Seq(Nat) /\ <<>> \in Seq(Nat)
        BY OrderTypes
      <3>2. z \in Seq(Nat) /\ InTransit(r) = m \o z
        BY StreamTypes
      <3> QED
        BY <3>1, <3>2
    <2>5. InTransit(r)' = <<>> \o z
      <3>1. InTransit(r)' = (<<>> \o Arriving(r)) \o inbox[r]
        BY <1>1, <1>2, <2>1 DEF InTransit
      <3>2. <<>> \o Arriving(r) = Arriving(r)
        BY OrderTypes, ConcatEmptySeq
      <3>3. InTransit(r)' = z
        BY <3>1, <3>2
      <3> HIDE DEF z
      <3> QED
        BY <2>4, <3>3, ConcatEmptySeq
    <2> HIDE DEF m, z
    <2>6. InTransit(r) = <<>> \o m \o z
      BY <2>4, ConcatEmptySeq
    <2>7. Stream(r)!BreakDown
      BY <1>1, <2>2, <2>3, <2>4, <2>5, <2>6, LossIsBreakDown
    <2> QED
      BY <2>7 DEF StreamStep, Stream!Next
  <1> QED
    BY <1>3, <1>4

(* Every step, towards an end whose messages fit its read buffer.          *)
LEMMA StreamsStep ==
  ASSUME TypeOK, CutInv, OrderInv, Next,
         \A f \in Ends : StateFollowsThread(f) /\ ReadsInTurn(f) /\ HandleAccounted(f),
         NEW r \in Ends, Fits(r)
  PROVE  StreamStep(r)
  <1>1. \A f \in Ends : PhaseMoves(f)
    BY PhaseStep
  <1>2. ASSUME UNCHANGED <<sent, delivered, message>>, PipeLoses(r), Cuts(r)
        PROVE  StreamStep(r)
    BY <1>1, <1>2, PipeStream
  <1>3. CASE CreateServerPipe \/ \E e \in Ends : CreateFails(e)
    <2>1. PipeLoses(r)
      BY <1>3, EndsFacts, PipeLosesOnly DEF CreateServerPipe, CreateFails, pipeVars
    <2>2. UNCHANGED <<sent, delivered, message>>
      BY <1>3 DEF CreateServerPipe, CreateFails, history
    <2> QED
      BY <1>2, <1>3, <2>1, <2>2, CreationCuts
  <1>4. CASE CreateClientPipe
    <2>1. UNCHANGED <<sent, delivered, message, inbox, apcs>>
      BY <1>4 DEF CreateClientPipe, CreateFile, history
    <2>2. InTransit(r)' = InTransit(r)
      BY <2>1 DEF InTransit, Arriving
    <2> QED
      BY <1>1, <2>1, <2>2, NoLoss, StreamTypes
  <1>5. ASSUME NEW e \in Ends, MainChoice(e) \/ MainRuns(e)
        PROVE  StreamStep(r)
    <2>1. Cuts(r)
      BY <1>5, MainCuts
    <2>2. CASE Write(e) /\ sent' # sent
      <3>1. /\ WriteFile(e, sent[e] + 1) /\ sent' = [sent EXCEPT ![e] = @ + 1]
            /\ UNCHANGED <<message, delivered, state>>
            /\ mainPc[e] = "write" /\ mainPc' = [mainPc EXCEPT ![e] = "idle"]
        BY <2>2 DEF Write, MainGoes
      <3> QED
        BY <1>1, <3>1, WriteStream
    <2>3. CASE Write(e) /\ sent' = sent
      <3>1. sent[e] + 1 # sent[e]
        BY DEF TypeOK, ChannelTypeOK
      <3>2. UNCHANGED <<sent, delivered, message, pipeVars>>
        BY <2>3, <3>1 DEF Write, TypeOK, ChannelTypeOK
      <3>3. PipeLoses(r)
        BY <3>2, PipeLosesOnly DEF pipeVars
      <3> QED
        BY <1>2, <2>1, <3>2, <3>3
    <2>4. CASE Destroy(e)
      BY <1>1, <2>4, DestroyStream
    <2>5. CASE ConnectOnIOThread(e) \/ BeginSend(e) \/ DestroyJoin(e)
      <3>1. UNCHANGED <<sent, delivered, message, pipeVars>>
        BY <2>5 DEF ConnectOnIOThread, BeginSend, DestroyJoin, history
      <3> QED
        BY <1>2, <2>1, <3>1, PipeLosesOnly DEF pipeVars
    <2>6. CASE e = Client /\ SetReadMode
      BY <1>2, <2>1, <2>6, PipeLosesOnly DEF SetReadMode, pipeVars, history
    <2>7. CASE DestroyDisconnect(e)
      BY <1>2, <2>1, <2>7, PipeLosesOnly DEF DestroyDisconnect, DisconnectPipe, pipeVars, history
    <2>8. CASE DestroyClose(e)
      BY <1>2, <2>1, <2>8, PipeLosesOnly DEF DestroyClose, ResetPipe, pipeVars
    <2>9. CASE DestroyQuit(e)
      BY <1>2, <2>1, <2>9, PipeLosesOnly DEF DestroyQuit, pipeVars, history
    <2> QED
      BY <1>5, <2>2, <2>3, <2>4, <2>5, <2>6, <2>7, <2>8, <2>9 DEF MainChoice, MainRuns
  <1>6. ASSUME NEW e \in Ends, IoThread(e)
        PROVE  StreamStep(r)
    <2>1. CASE FirstRead(e) \/ DoReadCompleteRoutine(e)
      BY <1>1, <2>1, ReadStream
    <2>2. CASE NotifyMessage(e)
      BY <1>1, <2>2, NotifyStream
    <2>3. CASE ~(FirstRead(e) \/ DoReadCompleteRoutine(e)) /\ ~NotifyMessage(e)
      <3>1. Cuts(r)
        BY <1>6, <2>3, IoCuts
      <3>2. CASE ConnectInternal(e) \/ ClientConnected(e) \/ WaitObject(e)
                 \/ AcceptConnection(e) \/ WaitIoCompletion(e) \/ HandleIOCompletion(e)
        <4>1. UNCHANGED <<sent, delivered, message, pend, inbox, apcs>>
          BY <3>2
          DEF ConnectInternal, ClientConnected, WaitObject, AcceptConnection, WaitIoCompletion,
              HandleIOCompletion, pipeVars, history
        <4> QED
          BY <1>2, <3>1, <4>1, PipeLosesOnly
      <3>3. CASE ConnectToClient(e)
        BY <1>2, <3>1, <3>3, PipeLosesOnly DEF ConnectToClient
      <3>4. CASE IoDisconnect(e)
        BY <1>2, <3>1, <3>4, PipeLosesOnly DEF IoDisconnect, DisconnectPipe, pipeVars, history
      <3>5. CASE IoClose(e)
        BY <1>2, <3>1, <3>5, PipeLosesOnly DEF IoClose, ResetPipe, pipeVars
      <3> QED
        BY <1>6, <2>3, <3>2, <3>3, <3>4, <3>5 DEF IoThread
    <2> QED
      BY <2>1, <2>2, <2>3
  <1> QED
    BY <1>3, <1>4, <1>5, <1>6 DEF Next, Creation

(* Each direction of the channel implements a message stream, when the     *)
(* messages fit the read buffer (those that do not are never handed out,   *)
(* see MisfitsStayOut): from the moment a message is written, no step of   *)
(* the four threads, no error and no disconnect loses, doubles or reorders *)
(* what the stream's phase does not let go.                                *)
THEOREM ImplementsStreams ==
  ASSUME \A e \in Ends : MessageSize[e] \in 1..ReadBufSize
  PROVE  Spec => Streams
  <1>1. \A e \in Ends : Fits(e)
    BY EndsFacts DEF Fits
  <1>2. Init => \A r \in Ends : Stream(r)!Init
    <2> SUFFICES ASSUME Init, NEW r \in Ends PROVE Stream(r)!Init
      OBVIOUS
    <2>1. /\ sent[Peer(r)] = 0 /\ delivered[r] = <<>> /\ message[r] = <<>> /\ inbox[r] = <<>>
          /\ apcs[r] = <<>> /\ mainPc[r] = "create" /\ pend[r] = "absent" /\ state[r] = "Init"
      BY EndsFacts DEF Init, PipeInit
    <2>2. InTransit(r) = <<>>
      <3>1. InTransit(r) = (<<>> \o <<>>) \o <<>>
        BY <2>1 DEF InTransit, Arriving, MessageOf
      <3>2. <<>> \in Seq(Nat) /\ <<>> \o <<>> = <<>>
        BY EmptySeq, ConcatEmptySeq
      <3> QED
        BY <3>1, <3>2
    <2>3. ~ReadFailed(r) /\ ~IsInError(r)
      BY <2>1, FailedOne, NotInError DEF IsInError
    <2>4. StreamPhase(r) = "up"
      BY <2>1, <2>3 DEF StreamPhase, Destructor
    <2> QED
      BY <2>1, <2>2, <2>4 DEF Stream!Init
  <1>3. TypeOK /\ CutInv /\ OrderInv /\ (\A e \in Ends : ReadsInTurn(e))
          /\ (\A e \in Ends : StateFollowsThread(e)) /\ (\A e \in Ends : HandleAccounted(e))
          /\ [Next]_vars
          => [\A r \in Ends : Stream(r)!Next \/ UNCHANGED Stream(r)!vars]_vars
    BY <1>1, StreamsStep DEF StreamStep
  <1> QED
    BY <1>2, <1>3, TypeCorrect, CutInvariant, OrderInvariant, ReadsInvariant, StateInvariant,
       HandleInvariant, PTL DEF Spec, Streams
=============================================================================
