---------------------------- MODULE OverlappedProofs --------------------------
(***************************************************************************)
(* Theorems about OverlappedServer, for every number of instances, of      *)
(* clients and of requests, and for every quota of the pipe.               *)
(***************************************************************************)
EXTENDS OverlappedServer, SequenceFacts

(* What can be said of an instance k whose PIPEINST is p: before it is     *)
(* created; between its creation and its first connect; while the thread   *)
(* is elsewhere, with an operation that was pending or finished at once;   *)
(* and while the thread works on it.                                       *)
Absent(k, p) ==
  /\ k.conn = "none" /\ k.op = "none" /\ k.status = "ok" /\ ~k.event
  /\ p.dwState = "CONNECTING" /\ ~p.fPendingIO

Created(k, p) ==
  /\ k.conn \in {"listening", "connected", "orphaned"}
  /\ k.op = "none" /\ k.status = "ok" /\ k.event
  /\ p.dwState = "CONNECTING" /\ ~p.fPendingIO

InFlight(k, op) == k.op = op /\ k.status = "pending" /\ ~k.event

Served(k) == k.conn \in {"connected", "orphaned"}

Connecting(k) ==
  \/ InFlight(k, "connect") /\ k.conn = "listening"
  \/ Served(k) /\ k.op = "none" /\ k.event /\ k.status = "ok"

Reading(k) ==
  /\ Served(k)
  /\ \/ InFlight(k, "read") /\ k.conn = "connected" /\ k.inbox = <<>>
     \/ k.op = "none" /\ k.event /\ k.status \in {"ok", "zero", "failed"}

Writing(k) ==
  /\ Served(k)
  /\ \/ InFlight(k, "write") /\ k.conn = "connected"
     \/ k.op = "none" /\ k.event /\ k.status = "ok"
     \/ k.op = "none" /\ k.event /\ k.status = "failed" /\ k.conn = "orphaned"

AtOnce(k, p) ==
  /\ Served(k) /\ k.op = "none"
  /\ \/ k.event /\ k.status = "ok" /\ p.dwState # "CONNECTING"
     \/ k.status = "failed" /\ p.dwState = "READING" /\ (k.event \/ k.conn = "orphaned")

Resting(k, p) ==
  \/ p.fPendingIO /\ p.dwState = "CONNECTING" /\ Connecting(k)
  \/ p.fPendingIO /\ p.dwState = "READING" /\ Reading(k)
  \/ p.fPendingIO /\ p.dwState = "WRITING" /\ Writing(k)
  \/ ~p.fPendingIO /\ AtOnce(k, p)

Working(k, p) ==
  /\ Served(k) /\ k.op = "none" /\ k.event /\ p.dwState # "CONNECTING"
  /\ k.status = "ok" \/ (k.status = "failed" /\ p.dwState = "READING" /\ ~p.fPendingIO)

Placed(i) ==
  /\ pc = "create" =>
       IF i < cur THEN Resting(inst[i], Pipe[i]) ELSE Absent(inst[i], Pipe[i])
  /\ pc = "connect" =>
       /\ i < cur => Resting(inst[i], Pipe[i])
       /\ i = cur => Created(inst[i], Pipe[i])
       /\ i > cur => Absent(inst[i], Pipe[i])
  /\ pc = "wait" => Resting(inst[i], Pipe[i])
  /\ pc = "next" =>
       IF i = cur THEN Working(inst[i], Pipe[i]) ELSE Resting(inst[i], Pipe[i])

(* The read that has just finished will get the client disconnected.       *)
Spoiled(k, p) == p.fPendingIO /\ p.dwState = "READING" /\ k.status \in {"zero", "failed"}

(* The requests of a client add up, and what is in hand and what was       *)
(* replied belong to its session.                                          *)
Counted(i) ==
  LET k == inst[i] IN
  /\ k.conn = "connected" /\ ~Spoiled(k, Pipe[i]) =>
       /\ k.asked = Len(k.inbox) + k.answered + IF InHand(i) THEN 1 ELSE 0
       /\ InHand(i) => k.chRequest = k.session
  /\ \A n \in 1..Len(k.outbox) : k.outbox[n] = k.session
  /\ k.conn \in {"none", "listening"} => k.inbox = <<>> /\ k.outbox = <<>>

Inv == TypeOK /\ pc # "stopped" /\ \A i \in Instances : Placed(i) /\ Counted(i)

-----------------------------------------------------------------------------
(* Queues and records                                                      *)

AllOf(s, x) == \A n \in 1..Len(s) : s[n] = x

(* A queue whose messages are all x stays one when an x is added or the    *)
(* first message is taken.                                                 *)
LEMMA AllOfFacts ==
  ASSUME NEW s \in Seq(Nat), NEW x \in Nat, AllOf(s, x)
  PROVE  AllOf(Append(s, x), x) /\ (s # <<>> => AllOf(Tail(s), x))
  <1>1. AllOf(Append(s, x), x)
    BY AppendProperties, LenProperties DEF AllOf
  <1>2. ASSUME s # <<>>
        PROVE  AllOf(Tail(s), x)
    <2>1. /\ Len(s) \in Nat /\ Len(s) # 0 /\ Len(Tail(s)) = Len(s) - 1
          /\ \A n \in 1..Len(Tail(s)) : Tail(s)[n] = s[n + 1]
      BY <1>2, SeqFacts, HeadTailProperties
    <2> QED
      BY <2>1 DEF AllOf
  <1> QED
    BY <1>1, <1>2

PipeType == [dwState : {"CONNECTING", "READING", "WRITING"}, fPendingIO : BOOLEAN]

LEMMA InstanceFacts ==
  ASSUME NEW k \in InstanceType
  PROVE  /\ k.conn \in {"none", "listening", "connected", "orphaned", "disconnected"}
         /\ k.event \in BOOLEAN /\ k.op \in {"none", "connect", "read", "write"}
         /\ k.status \in Statuses /\ k.session \in Nat /\ k.inbox \in Seq(Requests)
         /\ k.outbox \in Seq(Nat) /\ k.chRequest \in Nat /\ k.asked \in Nat
         /\ k.answered \in Nat
         /\ Len(k.inbox) \in Nat /\ (Len(k.inbox) = 0 <=> k.inbox = <<>>)
  <1>1. /\ k.conn \in {"none", "listening", "connected", "orphaned", "disconnected"}
        /\ k.event \in BOOLEAN /\ k.op \in {"none", "connect", "read", "write"}
        /\ k.status \in Statuses /\ k.session \in Nat /\ k.inbox \in Seq(Requests)
        /\ k.outbox \in Seq(Nat) /\ k.chRequest \in Nat /\ k.asked \in Nat
        /\ k.answered \in Nat
    BY DEF InstanceType
  <1> QED
    BY <1>1, SeqFacts

(* Only op, status and event are touched.                                  *)
Unmoved(l, k) ==
  /\ l.conn = k.conn /\ l.session = k.session /\ l.inbox = k.inbox
  /\ l.outbox = k.outbox /\ l.chRequest = k.chRequest
  /\ l.asked = k.asked /\ l.answered = k.answered

LEMMA BegunFacts ==
  ASSUME NEW k \in InstanceType, NEW op \in {"connect", "read", "write"}
  PROVE  Begun(k, op) \in InstanceType /\ InFlight(Begun(k, op), op)
         /\ Unmoved(Begun(k, op), k)
  <1>1. "pending" \in Statuses
    BY DEF Statuses
  <1> QED
    BY <1>1 DEF Begun, InstanceType, InFlight, Unmoved

LEMMA DoneFacts ==
  ASSUME NEW k \in InstanceType, NEW st \in Statuses
  PROVE  /\ Done(k, st) \in InstanceType /\ Done(k, st).op = "none"
         /\ Done(k, st).status = st /\ Done(k, st).event /\ Unmoved(Done(k, st), k)
  BY DEF Done, InstanceType, Unmoved

LEMMA RefusedFacts ==
  ASSUME NEW k \in InstanceType
  PROVE  /\ Refused(k) \in InstanceType /\ Refused(k).op = "none"
         /\ Refused(k).status = "failed" /\ ~Refused(k).event /\ Unmoved(Refused(k), k)
  <1>1. "failed" \in Statuses
    BY DEF Statuses
  <1> QED
    BY <1>1 DEF Refused, InstanceType, Unmoved

(* The request r is read from the front of the inbox k.inbox = r o q.      *)
LEMMA FilledFacts ==
  ASSUME NEW k \in InstanceType, NEW r \in Requests
  PROVE  LET l == Filled(k, r) IN
         /\ l \in InstanceType /\ l.op = "none" /\ l.event
         /\ l.conn = k.conn /\ l.session = k.session /\ l.inbox = k.inbox
         /\ l.outbox = k.outbox /\ l.asked = k.asked /\ l.answered = k.answered
         /\ \/ r = "fits" /\ l.status = "ok" /\ l.chRequest = k.session
            \/ r # "fits" /\ l.status \in {"zero", "failed"}
  <1> DEFINE m == [k EXCEPT !.chRequest = k.session]
  <1>0. {"ok", "zero", "failed"} \subseteq Statuses
    BY DEF Statuses
  <1>1. /\ m \in InstanceType /\ m.chRequest = k.session
        /\ m.conn = k.conn /\ m.session = k.session /\ m.inbox = k.inbox
        /\ m.outbox = k.outbox /\ m.asked = k.asked /\ m.answered = k.answered
    BY DEF InstanceType
  <1>2. Filled(k, r) = CASE r = "fits"  -> Done(m, "ok")
                         [] r = "empty" -> Done(k, "zero")
                         [] r = "long"  -> Done(m, "failed")
    BY DEF Filled
  <1>3. r \in {"fits", "empty", "long"}
    BY DEF Requests
  <1> HIDE DEF m
  <1>4. CASE r = "fits"
    <2>1. Filled(k, r) = Done(m, "ok")
      BY <1>2, <1>4
    <2> QED
      BY <1>0, <1>1, <1>4, <2>1, DoneFacts DEF Unmoved
  <1>5. CASE r = "empty"
    <2>1. Filled(k, r) = Done(k, "zero")
      BY <1>2, <1>5
    <2> QED
      BY <1>0, <1>5, <2>1, DoneFacts DEF Unmoved
  <1>6. CASE r = "long"
    <2>1. Filled(k, r) = Done(m, "failed")
      BY <1>2, <1>6
    <2> QED
      BY <1>0, <1>1, <1>6, <2>1, DoneFacts, SMTT(30) DEF Unmoved
  <1> QED
    BY <1>3, <1>4, <1>5, <1>6

LEMMA ReadFacts ==
  ASSUME NEW k \in InstanceType
  PROVE  LET l == ReadFile(k) IN
         /\ l \in InstanceType
         /\ l.conn = k.conn /\ l.session = k.session /\ l.outbox = k.outbox
         /\ l.asked = k.asked /\ l.answered = k.answered
         /\ \/ /\ k.inbox # <<>> /\ l.inbox = Tail(k.inbox) /\ l.op = "none" /\ l.event
               /\ \/ Head(k.inbox) = "fits" /\ l.status = "ok" /\ l.chRequest = k.session
                  \/ Head(k.inbox) # "fits" /\ l.status \in {"zero", "failed"}
            \/ /\ k.inbox = <<>> /\ l.inbox = <<>> /\ k.conn = "connected"
               /\ InFlight(l, "read")
            \/ k.inbox = <<>> /\ l.inbox = <<>> /\ k.conn # "connected" /\ l.status = "failed"
  <1>1. CASE k.inbox # <<>>
    <2> DEFINE m == [k EXCEPT !.inbox = Tail(@)]
    <2>1. Head(k.inbox) \in Requests /\ Tail(k.inbox) \in Seq(Requests)
      BY <1>1, InstanceFacts, SeqFacts
    <2>2. /\ m \in InstanceType /\ m.conn = k.conn /\ m.session = k.session
          /\ m.inbox = Tail(k.inbox)
          /\ m.outbox = k.outbox /\ m.asked = k.asked /\ m.answered = k.answered
      BY <2>1 DEF InstanceType
    <2>3. ReadFile(k) = Filled(m, Head(k.inbox))
      BY <1>1 DEF ReadFile
    <2> HIDE DEF m
    <2> QED
      BY <1>1, <2>1, <2>2, <2>3, FilledFacts, SMTT(30)
  <1>2. CASE k.inbox = <<>> /\ k.conn = "connected"
    <2>1. ReadFile(k) = Begun(k, "read")
      BY <1>2 DEF ReadFile
    <2> QED
      BY <1>2, <2>1, BegunFacts DEF Unmoved
  <1>3. CASE k.inbox = <<>> /\ k.conn # "connected"
    <2>1. ReadFile(k) = Refused(k)
      BY <1>3 DEF ReadFile
    <2> QED
      BY <1>3, <2>1, RefusedFacts DEF Unmoved
  <1> QED
    BY <1>1, <1>2, <1>3

LEMMA RepliedFacts ==
  ASSUME NEW k \in InstanceType
  PROVE  LET l == Replied(k) IN
         /\ l \in InstanceType /\ l.op = "none" /\ l.event /\ l.status = "ok"
         /\ l.conn = k.conn /\ l.session = k.session /\ l.inbox = k.inbox
         /\ l.chRequest = k.chRequest /\ l.asked = k.asked
         /\ l.outbox = Append(k.outbox, k.chRequest) /\ l.answered = k.answered + 1
  <1> DEFINE m == [k EXCEPT !.outbox = Append(@, k.chRequest), !.answered = @ + 1]
  <1>1. Append(k.outbox, k.chRequest) \in Seq(Nat) /\ k.answered + 1 \in Nat
    BY InstanceFacts, SeqFacts
  <1>2. /\ m \in InstanceType /\ m.conn = k.conn /\ m.session = k.session
        /\ m.inbox = k.inbox /\ m.chRequest = k.chRequest /\ m.asked = k.asked
        /\ m.outbox = Append(k.outbox, k.chRequest) /\ m.answered = k.answered + 1
    BY <1>1 DEF InstanceType
  <1>3. Replied(k) = Done(m, "ok") /\ "ok" \in Statuses
    BY DEF Replied, Statuses
  <1> HIDE DEF m
  <1> QED
    BY <1>2, <1>3, DoneFacts DEF Unmoved

LEMMA WriteFacts ==
  ASSUME NEW k \in InstanceType
  PROVE  LET l == WriteFile(k) IN
         /\ l \in InstanceType
         /\ l.conn = k.conn /\ l.session = k.session /\ l.inbox = k.inbox
         /\ l.asked = k.asked /\ l.chRequest = k.chRequest
         /\ \/ k.conn # "connected" /\ Unmoved(l, k) /\ l.status = "failed"
            \/ k.conn = "connected" /\ Unmoved(l, k) /\ InFlight(l, "write")
            \/ /\ k.conn = "connected" /\ l.op = "none" /\ l.event /\ l.status = "ok"
               /\ l.outbox = Append(k.outbox, k.chRequest) /\ l.answered = k.answered + 1
  BY RefusedFacts, BegunFacts, RepliedFacts DEF WriteFile, Unmoved

(* A client is disconnected and its instance connected again.              *)
LEMMA ReconnectFacts ==
  ASSUME NEW k \in InstanceType
  PROVE  LET l == ConnectNamedPipe(DisconnectNamedPipe(k)) IN
         /\ l \in InstanceType /\ l.conn = "listening" /\ InFlight(l, "connect")
         /\ l.inbox = <<>> /\ l.outbox = <<>> /\ l.session = k.session
         /\ l.chRequest = k.chRequest /\ l.asked = k.asked /\ l.answered = k.answered
         /\ DisconnectNamedPipe(k).conn = "disconnected"
  <1> DEFINE d == DisconnectNamedPipe(k)
             m == [d EXCEPT !.conn = "listening"]
  <1>0. <<>> \in Seq(Requests) /\ <<>> \in Seq(Nat)
    OBVIOUS
  <1>1. /\ d \in InstanceType /\ d.conn = "disconnected" /\ d.inbox = <<>>
        /\ d.outbox = <<>> /\ d.session = k.session /\ d.chRequest = k.chRequest
        /\ d.asked = k.asked /\ d.answered = k.answered
    BY <1>0 DEF InstanceType, DisconnectNamedPipe
  <1> HIDE DEF d
  <1>2. /\ m \in InstanceType /\ m.conn = "listening" /\ m.inbox = <<>>
        /\ m.outbox = <<>> /\ m.session = k.session /\ m.chRequest = k.chRequest
        /\ m.asked = k.asked /\ m.answered = k.answered
    BY <1>1 DEF InstanceType
  <1>3. ConnectNamedPipe(d) = Begun(m, "connect")
    BY <1>1 DEF ConnectNamedPipe
  <1> HIDE DEF m
  <1>4. /\ ConnectNamedPipe(d) \in InstanceType /\ InFlight(ConnectNamedPipe(d), "connect")
        /\ Unmoved(ConnectNamedPipe(d), m)
    BY <1>2, <1>3, BegunFacts
  <1> QED
    BY <1>1, <1>2, <1>4 DEF Unmoved, d

-----------------------------------------------------------------------------
(* The invariant                                                           *)

States == {"create", "connect", "wait", "next"}

LEMMA InstanceInv ==
  ASSUME Inv, NEW i \in Instances
  PROVE  /\ inst[i] \in InstanceType /\ Pipe[i] \in PipeType
         /\ Pipe[i].dwState \in {"CONNECTING", "READING", "WRITING"}
         /\ Pipe[i].fPendingIO \in BOOLEAN
         /\ Placed(i) /\ Counted(i) /\ pc \in States /\ i \in Nat /\ cur \in Nat
         /\ AllOf(inst[i].outbox, inst[i].session)
  <1>1. inst[i] \in InstanceType /\ Pipe[i] \in PipeType
    BY DEF Inv, TypeOK, PipeType
  <1>2. Pipe[i].dwState \in {"CONNECTING", "READING", "WRITING"} /\ Pipe[i].fPendingIO \in BOOLEAN
    BY <1>1 DEF PipeType
  <1>3. Placed(i) /\ Counted(i) /\ pc \in States /\ i \in Nat /\ cur \in Nat
    BY ServerAssumption DEF Inv, TypeOK, Instances, States
  <1> QED
    BY <1>1, <1>2, <1>3 DEF Counted, AllOf

(* A step of one instance keeps the invariant when it does so for that     *)
(* instance and leaves the thread where it was with regard to the others.  *)
LEMMA OneInstance ==
  ASSUME Inv, NEW i \in Instances, NEW k \in InstanceType, NEW p \in PipeType,
         inst' = [inst EXCEPT ![i] = k], Pipe' = [Pipe EXCEPT ![i] = p],
         pc' \in States, cur' \in Instances, sessions' \in 0..MaxSessions,
         Placed(i)', Counted(i)',
         \A j \in Instances \ {i} :
           inst'[j] = inst[j] /\ Pipe'[j] = Pipe[j] => Placed(j)' /\ AtRest(j)' = AtRest(j)
  PROVE  Inv'
  <1>1. TypeOK' /\ pc' # "stopped"
    BY DEF Inv, TypeOK, States, PipeType
  <1>2. \A j \in Instances \ {i} : inst'[j] = inst[j] /\ Pipe'[j] = Pipe[j]
    BY DEF Inv, TypeOK
  <1>3. ASSUME NEW j \in Instances \ {i}
        PROVE  Placed(j)' /\ Counted(j)'
    <2>1. Placed(j)' /\ AtRest(j)' = AtRest(j)
      BY <1>2
    <2>2. InHand(j)' = InHand(j)
      BY <1>2, <2>1 DEF InHand
    <2>3. Spoiled(inst[j], Pipe[j])' = Spoiled(inst[j], Pipe[j])
      BY <1>2 DEF Spoiled
    <2>4. Counted(j)
      BY DEF Inv
    <2> QED
      BY <1>2, <2>1, <2>2, <2>3, <2>4 DEF Counted
  <1> QED
    BY <1>1, <1>3 DEF Inv

(* A step of a client.                                                     *)
LEMMA OneClient ==
  ASSUME Inv, NEW i \in Instances, NEW k \in InstanceType, Client(i, k),
         sessions' \in 0..MaxSessions, Placed(i)', Counted(i)'
  PROVE  Inv'
  <1>1. Pipe' = [Pipe EXCEPT ![i] = Pipe[i]] /\ Pipe[i] \in PipeType
    BY DEF Client, Inv, TypeOK, PipeType
  <1>2. \A j \in Instances \ {i} :
          inst'[j] = inst[j] /\ Pipe'[j] = Pipe[j] => Placed(j)' /\ AtRest(j)' = AtRest(j)
    BY DEF Client, Inv, Placed, AtRest
  <1>3. pc' \in States /\ cur' \in Instances
    BY DEF Client, Inv, TypeOK, States
  <1> QED
    BY <1>1, <1>2, <1>3, OneInstance DEF Client

(* Where a client can be, the instance has been connected.                 *)
Place(k, p) == Resting(k, p) \/ Working(k, p) \/ Created(k, p)

(* A step of a client leaves the thread where it is with regard to the     *)
(* instance.                                                               *)
LEMMA PlaceKept ==
  ASSUME Inv, NEW i \in Instances, NEW k \in InstanceType, Client(i, k),
         inst[i].conn # "none",
         Resting(inst[i], Pipe[i]) => Resting(k, Pipe[i]),
         Working(inst[i], Pipe[i]) => Working(k, Pipe[i]),
         Created(inst[i], Pipe[i]) => Created(k, Pipe[i])
  PROVE  Placed(i)' /\ inst'[i] = k /\ Pipe'[i] = Pipe[i] /\ AtRest(i)' = AtRest(i)
         /\ Place(inst[i], Pipe[i])
  <1>1. inst'[i] = k /\ Pipe'[i] = Pipe[i] /\ pc' = pc /\ cur' = cur
    BY DEF Client, Inv, TypeOK
  <1>2. Placed(i) /\ ~Absent(inst[i], Pipe[i]) /\ pc \in States /\ i \in Nat /\ cur \in Nat
    BY InstanceInv DEF Absent
  <1> QED
    BY <1>1, <1>2 DEF Placed, AtRest, Place, States

LEMMA OpensKeeps ==
  ASSUME Inv, NEW i \in Instances, ClientOpens(i)
  PROVE  Inv' /\ inst[i].conn = "listening" /\ inst'[i].conn = "connected"
         /\ inst'[i].asked = 0 /\ inst'[i].answered = 0 /\ inst'[i].inbox = <<>>
         /\ Pipe'[i].dwState = "CONNECTING"
  <1> DEFINE m == [inst[i] EXCEPT !.conn = "connected", !.session = sessions + 1,
                                  !.asked = 0, !.answered = 0]
             k == IF m.op = "connect" THEN Done(m, "ok") ELSE m
  <1>1. /\ inst[i] \in InstanceType /\ inst[i].conn = "listening"
        /\ inst[i].inbox = <<>> /\ inst[i].outbox = <<>>
        /\ sessions \in Nat /\ sessions + 1 \in Nat /\ sessions' \in 0..MaxSessions
        /\ "ok" \in Statuses
    BY InstanceInv, ServerAssumption DEF ClientOpens, Counted, Inv, TypeOK, Statuses
  <1>2. /\ m \in InstanceType /\ m.conn = "connected" /\ m.session = sessions + 1
        /\ m.asked = 0 /\ m.answered = 0 /\ m.inbox = <<>> /\ m.outbox = <<>>
        /\ m.op = inst[i].op /\ m.status = inst[i].status /\ m.event = inst[i].event
    BY <1>1 DEF InstanceType
  <1>3. Client(i, k)
    BY DEF ClientOpens
  <1> HIDE DEF m
  <1>4. /\ k \in InstanceType /\ k.conn = "connected"
        /\ k.asked = 0 /\ k.answered = 0 /\ k.inbox = <<>> /\ k.outbox = <<>>
        /\ m.op = "connect" => k.op = "none" /\ k.event /\ k.status = "ok"
        /\ m.op # "connect" => k = m
    BY <1>1, <1>2, DoneFacts DEF Unmoved
  <1> HIDE DEF k
  <1>5. /\ Resting(inst[i], Pipe[i]) => Resting(k, Pipe[i])
        /\ ~Working(inst[i], Pipe[i])
        /\ Created(inst[i], Pipe[i]) => Created(k, Pipe[i])
        /\ Place(inst[i], Pipe[i]) => Pipe[i].dwState = "CONNECTING"
    BY <1>1, <1>2, <1>4
    DEF Resting, Working, Created, Connecting, Reading, Writing, AtOnce, Served, InFlight, Place
  <1>6. /\ Placed(i)' /\ inst'[i] = k /\ Pipe'[i] = Pipe[i] /\ AtRest(i)' = AtRest(i)
        /\ Place(inst[i], Pipe[i])
    BY <1>1, <1>3, <1>4, <1>5, PlaceKept
  <1>7. ~InHand(i)' /\ Len(k.inbox) = 0 /\ Len(k.outbox) = 0
    BY <1>4, <1>5, <1>6 DEF InHand
  <1>8. Counted(i)'
    BY <1>4, <1>6, <1>7 DEF Counted
  <1> QED
    BY <1>1, <1>3, <1>4, <1>5, <1>6, <1>8, OneClient

LEMMA OneMore ==
  ASSUME NEW asked \in Nat, NEW left \in Nat, NEW answered \in Nat,
         asked = left + answered
  PROVE  asked + 1 = (left + 1) + answered
  OBVIOUS

LEMMA OneDone ==
  ASSUME NEW asked \in Nat, NEW left \in Nat, NEW answered \in Nat,
         asked = left + answered + 1
  PROVE  asked = left + (answered + 1) /\ answered < asked
  OBVIOUS

LEMMA WritesKeeps ==
  ASSUME Inv, NEW i \in Instances, NEW r \in Requests, ClientWrites(i, r)
  PROVE  /\ Inv' /\ inst[i].conn = "connected" /\ inst'[i].conn = "connected"
         /\ inst'[i].asked = inst[i].asked + 1 /\ inst'[i].answered = inst[i].answered
         /\ Improper(i) => Improper(i)'
  <1> DEFINE m == [inst[i] EXCEPT !.asked = @ + 1]
             a == [m EXCEPT !.inbox = Append(@, r)]
             k == IF m.op = "read" THEN Filled(m, r) ELSE a
  <1>1. /\ inst[i] \in InstanceType /\ inst[i].conn = "connected" /\ Counted(i)
        /\ inst[i].asked + 1 \in Nat /\ sessions' \in 0..MaxSessions
        /\ Append(inst[i].inbox, r) \in Seq(Requests)
        /\ Len(Append(inst[i].inbox, r)) = Len(inst[i].inbox) + 1
        /\ Len(inst[i].inbox) \in Nat
        /\ inst[i].asked \in Nat /\ inst[i].answered \in Nat
    BY InstanceInv, InstanceFacts, SeqFacts DEF ClientWrites, Inv, TypeOK
  <1>2. /\ m \in InstanceType /\ m.conn = "connected" /\ m.session = inst[i].session
        /\ m.asked = inst[i].asked + 1 /\ m.answered = inst[i].answered
        /\ m.inbox = inst[i].inbox /\ m.outbox = inst[i].outbox
        /\ m.chRequest = inst[i].chRequest
        /\ m.op = inst[i].op /\ m.status = inst[i].status /\ m.event = inst[i].event
    BY <1>1 DEF InstanceType
  <1>3. Client(i, k)
    BY DEF ClientWrites
  <1> HIDE DEF m
  <1>4. /\ a \in InstanceType /\ a.conn = "connected" /\ a.session = m.session
        /\ a.asked = m.asked /\ a.answered = m.answered
        /\ a.inbox = Append(inst[i].inbox, r) /\ a.outbox = m.outbox
        /\ a.chRequest = m.chRequest
        /\ a.op = m.op /\ a.status = m.status /\ a.event = m.event
    BY <1>1, <1>2 DEF InstanceType
  <1> HIDE DEF a
  <1>5. CASE m.op = "read"
    <2>1. k = Filled(m, r)
      BY <1>5
    <2> HIDE DEF k
    <2>2. /\ k \in InstanceType /\ k.op = "none" /\ k.event
          /\ k.conn = "connected" /\ k.session = m.session /\ k.inbox = m.inbox
          /\ k.outbox = m.outbox /\ k.asked = m.asked /\ k.answered = m.answered
          /\ \/ r = "fits" /\ k.status = "ok" /\ k.chRequest = m.session
             \/ r # "fits" /\ k.status \in {"zero", "failed"}
      BY <1>2, <2>1, FilledFacts
    <2>3. /\ Resting(inst[i], Pipe[i]) => Resting(k, Pipe[i])
          /\ ~Working(inst[i], Pipe[i]) /\ ~Created(inst[i], Pipe[i])
          /\ Place(inst[i], Pipe[i]) =>
               /\ Pipe[i].dwState = "READING" /\ Pipe[i].fPendingIO
               /\ inst[i].inbox = <<>> /\ inst[i].status = "pending"
      BY <1>5, <1>2, <2>2
      DEF Resting, Working, Created, Connecting, Reading, Writing, AtOnce, Served, InFlight, Place
    <2>4. /\ Placed(i)' /\ inst'[i] = k /\ Pipe'[i] = Pipe[i] /\ AtRest(i)' = AtRest(i)
          /\ Place(inst[i], Pipe[i])
      BY <1>1, <1>3, <2>2, <2>3, PlaceKept
    <2>5. AtRest(i)
      BY <1>1, <1>5, <1>2, <2>3, InstanceInv DEF Placed, AtRest
    <2>6. InHand(i)' <=> k.status = "ok"
      BY <2>2, <2>3, <2>4, <2>5 DEF InHand
    <2>7. ~InHand(i) /\ ~Spoiled(inst[i], Pipe[i]) /\ ~Improper(i)
      BY <2>3, <2>4 DEF InHand, Spoiled, Improper
    <2>8. inst[i].asked = Len(inst[i].inbox) + inst[i].answered
      BY <1>1, <2>7 DEF Counted
    <2>9. k.status # "ok" => Spoiled(inst[i], Pipe[i])'
      BY <2>2, <2>3, <2>4 DEF Spoiled
    <2>10. Counted(i)'
      <3>1. /\ ~Spoiled(inst[i], Pipe[i])' => InHand(i)' /\ k.chRequest = k.session
            /\ k.asked = Len(k.inbox) + k.answered + 1
        BY <1>1, <1>2, <2>2, <2>6, <2>8, <2>9
      <3>2. \A n \in 1..Len(k.outbox) : k.outbox[n] = k.session
        BY <1>1, <1>2, <2>2 DEF Counted
      <3> QED
        BY <2>2, <2>4, <3>1, <3>2 DEF Counted
    <2> QED
      BY <1>1, <1>2, <1>3, <2>2, <2>4, <2>7, <2>10, OneClient
  <1>6. CASE m.op # "read"
    <2>1. k = a
      BY <1>6
    <2> HIDE DEF k
    <2>2. /\ Resting(inst[i], Pipe[i]) => Resting(k, Pipe[i])
          /\ Working(inst[i], Pipe[i]) => Working(k, Pipe[i])
          /\ Created(inst[i], Pipe[i]) => Created(k, Pipe[i])
      BY <1>6, <1>2, <1>4, <2>1, <1>1
      DEF Resting, Working, Created, Connecting, Reading, Writing, AtOnce, Served, InFlight
    <2>3. /\ Placed(i)' /\ inst'[i] = k /\ Pipe'[i] = Pipe[i] /\ AtRest(i)' = AtRest(i)
      BY <1>1, <1>3, <1>4, <2>1, <2>2, PlaceKept
    <2>4. (InHand(i)' <=> InHand(i)) /\ (Spoiled(inst[i], Pipe[i])' <=> Spoiled(inst[i], Pipe[i]))
      BY <1>2, <1>4, <2>1, <2>3 DEF InHand, Spoiled
    <2>5. Counted(i)'
      <3>1. k.conn = "connected" /\ ~Spoiled(inst[i], Pipe[i])' =>
              k.asked = Len(k.inbox) + k.answered + IF InHand(i)' THEN 1 ELSE 0
        <4>1. ~Spoiled(inst[i], Pipe[i]) =>
                inst[i].asked = Len(inst[i].inbox) + inst[i].answered
                                + IF InHand(i) THEN 1 ELSE 0
          BY <1>1 DEF Counted
        <4>0. /\ Len(inst[i].inbox) \in Nat /\ inst[i].asked \in Nat
              /\ inst[i].answered \in Nat
          BY <1>1
        <4>2. /\ k.asked = inst[i].asked + 1 /\ k.answered = inst[i].answered
              /\ Len(k.inbox) = Len(inst[i].inbox) + 1
          BY <1>1, <1>2, <1>4, <2>1
        <4>3. CASE InHand(i)
          BY <1>1, <2>4, <4>1, <4>2, <4>3, SMTT(30)
        <4>4. CASE ~InHand(i)
          <5>1. ~Spoiled(inst[i], Pipe[i]) => inst[i].asked = Len(inst[i].inbox) + inst[i].answered
            BY <1>1, <4>1, <4>4
          <5>2. ~Spoiled(inst[i], Pipe[i]) => k.asked = Len(k.inbox) + k.answered
            BY <4>0, <4>2, <5>1, OneMore, SMTT(30)
          <5>3. Len(k.inbox) + k.answered \in Nat
            BY <1>1, <4>2
          <5> QED
            BY <2>4, <4>4, <5>2, <5>3
        <4> QED
          BY <4>3, <4>4
      <3>2. /\ ~Spoiled(inst[i], Pipe[i])' /\ InHand(i)' => k.chRequest = k.session
            /\ \A n \in 1..Len(k.outbox) : k.outbox[n] = k.session
        BY <1>1, <1>2, <1>4, <2>1, <2>4 DEF Counted
      <3> QED
        BY <1>2, <1>4, <2>1, <2>3, <3>1, <3>2 DEF Counted
    <2>6. Improper(i) => Improper(i)'
      <3>1. \A n \in 1..Len(inst[i].inbox) :
              n \in 1..Len(k.inbox) /\ k.inbox[n] = inst[i].inbox[n]
        BY <1>1, <1>4, <2>1, InstanceFacts, AppendProperties, SMTT(30)
      <3> QED
        BY <1>2, <1>4, <2>1, <2>3, <3>1 DEF Improper
    <2> QED
      BY <1>1, <1>2, <1>3, <1>4, <2>1, <2>3, <2>5, <2>6, OneClient
  <1> QED
    BY <1>5, <1>6

LEMMA ReadsKeeps ==
  ASSUME Inv, NEW i \in Instances, ClientReads(i)
  PROVE  /\ Inv' /\ inst'[i].conn = inst[i].conn /\ inst'[i].inbox = inst[i].inbox
         /\ inst'[i].asked = inst[i].asked /\ Pipe'[i] = Pipe[i]
         /\ \/ inst'[i].answered = inst[i].answered /\ inst'[i].status = inst[i].status
            \/ /\ inst[i].conn = "connected" /\ Pipe[i].dwState = "WRITING"
               /\ inst'[i].answered = inst[i].answered + 1
               /\ inst[i].answered < inst[i].asked
  <1> DEFINE m == [inst[i] EXCEPT !.outbox = Tail(@)]
             k == IF m.op = "write" THEN Replied(m) ELSE m
  <1>1. /\ inst[i] \in InstanceType /\ Counted(i) /\ inst[i].conn # "none"
        /\ sessions' \in 0..MaxSessions
        /\ inst[i].outbox \in Seq(Nat) /\ inst[i].outbox # <<>>
        /\ Tail(inst[i].outbox) \in Seq(Nat)
        /\ Len(inst[i].inbox) \in Nat /\ inst[i].session \in Nat
        /\ inst[i].asked \in Nat /\ inst[i].answered \in Nat
    BY InstanceInv, InstanceFacts, SeqFacts DEF ClientReads, Counted, Inv, TypeOK
  <1>2. /\ m \in InstanceType /\ m.conn = inst[i].conn /\ m.session = inst[i].session
        /\ m.asked = inst[i].asked /\ m.answered = inst[i].answered
        /\ m.inbox = inst[i].inbox /\ m.outbox = Tail(inst[i].outbox)
        /\ m.chRequest = inst[i].chRequest
        /\ m.op = inst[i].op /\ m.status = inst[i].status /\ m.event = inst[i].event
    BY <1>1 DEF InstanceType
  <1>3. Client(i, k)
    BY DEF ClientReads
  <1>4. AllOf(m.outbox, m.session)
    BY <1>1, <1>2, InstanceInv, AllOfFacts
  <1> HIDE DEF m
  <1>5. CASE m.op = "write"
    <2>1. k = Replied(m)
      BY <1>5
    <2> HIDE DEF k
    <2>2. /\ k \in InstanceType /\ k.op = "none" /\ k.event /\ k.status = "ok"
          /\ k.conn = m.conn /\ k.session = m.session /\ k.inbox = m.inbox
          /\ k.chRequest = m.chRequest /\ k.asked = m.asked
          /\ k.outbox = Append(m.outbox, m.chRequest) /\ k.answered = m.answered + 1
      BY <1>2, <2>1, RepliedFacts
    <2>3. /\ Resting(inst[i], Pipe[i]) => Resting(k, Pipe[i])
          /\ ~Working(inst[i], Pipe[i]) /\ ~Created(inst[i], Pipe[i])
          /\ Place(inst[i], Pipe[i]) =>
               /\ Pipe[i].dwState = "WRITING" /\ Pipe[i].fPendingIO
               /\ inst[i].conn = "connected" /\ inst[i].status = "pending"
      BY <1>5, <1>2, <2>2
      DEF Resting, Working, Created, Connecting, Reading, Writing, AtOnce, Served, InFlight, Place
    <2>4. /\ Placed(i)' /\ inst'[i] = k /\ Pipe'[i] = Pipe[i] /\ AtRest(i)' = AtRest(i)
          /\ Place(inst[i], Pipe[i])
      BY <1>1, <1>3, <2>2, <2>3, PlaceKept
    <2>5. AtRest(i)
      BY <1>1, <1>5, <1>2, <2>3, InstanceInv DEF Placed, AtRest
    <2>6. ~InHand(i)'
      BY <2>2, <2>3, <2>4, <2>5 DEF InHand
    <2>7. InHand(i) /\ ~Spoiled(inst[i], Pipe[i])
      BY <2>3, <2>4 DEF InHand, Spoiled
    <2>8. inst[i].asked = Len(inst[i].inbox) + inst[i].answered + 1
          /\ inst[i].chRequest = inst[i].session
      BY <1>1, <2>3, <2>4, <2>7 DEF Counted
    <2>9. AllOf(k.outbox, k.session)
      BY <1>1, <1>2, <1>4, <2>2, <2>8, AllOfFacts, ZenonT(30)
    <2>10. /\ k.asked = Len(k.inbox) + k.answered
           /\ inst[i].answered < inst[i].asked
      <3>1. /\ Len(inst[i].inbox) \in Nat /\ inst[i].asked \in Nat
            /\ inst[i].answered \in Nat
        BY <1>1
      <3>2. /\ k.asked = inst[i].asked /\ k.inbox = inst[i].inbox
            /\ k.answered = inst[i].answered + 1
        BY <1>2, <2>2
      <3> QED
        BY <2>8, <3>1, <3>2, OneDone
    <2>11. Counted(i)'
      <3>1. /\ k.conn = "connected" /\ Len(k.inbox) \in Nat /\ k.answered \in Nat
            /\ k.asked = Len(k.inbox) + k.answered + 0
        BY <1>2, <2>2, <2>3, <2>4, <2>10, InstanceFacts
      <3> QED
        BY <2>4, <2>6, <2>9, <3>1 DEF Counted, AllOf
    <2> QED
      BY <1>1, <1>2, <1>3, <2>2, <2>3, <2>4, <2>10, <2>11, OneClient
  <1>6. CASE m.op # "write"
    <2>1. k = m
      BY <1>6
    <2> HIDE DEF k
    <2>2. /\ Resting(inst[i], Pipe[i]) => Resting(k, Pipe[i])
          /\ Working(inst[i], Pipe[i]) => Working(k, Pipe[i])
          /\ Created(inst[i], Pipe[i]) => Created(k, Pipe[i])
      BY <1>6, <1>2, <2>1, <1>1
      DEF Resting, Working, Created, Connecting, Reading, Writing, AtOnce, Served, InFlight
    <2>3. /\ Placed(i)' /\ inst'[i] = k /\ Pipe'[i] = Pipe[i] /\ AtRest(i)' = AtRest(i)
      BY <1>1, <1>2, <1>3, <2>1, <2>2, PlaceKept
    <2>4. (InHand(i)' <=> InHand(i)) /\ (Spoiled(inst[i], Pipe[i])' <=> Spoiled(inst[i], Pipe[i]))
      BY <1>2, <2>1, <2>3 DEF InHand, Spoiled
    <2>5. Counted(i)'
      <3>1. k.conn \in {"none", "listening"} => FALSE
        BY <1>1, <1>2, <2>1 DEF Counted
      <3> QED
        BY <1>1, <1>2, <1>4, <2>1, <2>3, <2>4, <3>1, ZenonT(30) DEF Counted, AllOf
    <2> QED
      BY <1>1, <1>2, <1>3, <2>1, <2>3, <2>5, OneClient
  <1> QED
    BY <1>5, <1>6

(* A client with all its answers has nothing in the pipe and nothing in    *)
(* hand, so that counting may start again.                                 *)
LEMMA GoesOnKeeps ==
  ASSUME Inv, NEW i \in Instances, ClientGoesOn(i)
  PROVE  /\ Inv' /\ inst[i].conn = "connected" /\ inst'[i].conn = inst[i].conn
         /\ inst[i].answered = inst[i].asked
         /\ inst'[i].asked = 0 /\ inst'[i].answered = 0
         /\ inst'[i].inbox = inst[i].inbox /\ inst'[i].status = inst[i].status
         /\ Pipe'[i] = Pipe[i]
  <1> DEFINE k == [inst[i] EXCEPT !.asked = 0, !.answered = 0]
  <1>1. /\ inst[i] \in InstanceType /\ Counted(i) /\ inst[i].conn = "connected"
        /\ sessions' \in 0..MaxSessions /\ inst[i].answered = inst[i].asked
        /\ Len(inst[i].inbox) \in Nat /\ inst[i].asked \in Nat
    BY InstanceInv, InstanceFacts DEF ClientGoesOn, Inv, TypeOK
  <1>2. /\ k \in InstanceType /\ k.conn = inst[i].conn /\ k.session = inst[i].session
        /\ k.asked = 0 /\ k.answered = 0 /\ k.chRequest = inst[i].chRequest
        /\ k.inbox = inst[i].inbox /\ k.outbox = inst[i].outbox
        /\ k.op = inst[i].op /\ k.status = inst[i].status /\ k.event = inst[i].event
    BY <1>1 DEF InstanceType
  <1>3. Client(i, k)
    BY DEF ClientGoesOn
  <1> HIDE DEF k
  <1>4. /\ Resting(inst[i], Pipe[i]) => Resting(k, Pipe[i])
        /\ Working(inst[i], Pipe[i]) => Working(k, Pipe[i])
        /\ Created(inst[i], Pipe[i]) => Created(k, Pipe[i])
    BY <1>2
    DEF Resting, Working, Created, Connecting, Reading, Writing, AtOnce, Served, InFlight
  <1>5. Placed(i)' /\ inst'[i] = k /\ Pipe'[i] = Pipe[i] /\ AtRest(i)' = AtRest(i)
    BY <1>1, <1>2, <1>3, <1>4, PlaceKept
  <1>6. (InHand(i)' <=> InHand(i)) /\ (Spoiled(inst[i], Pipe[i])' <=> Spoiled(inst[i], Pipe[i]))
    BY <1>2, <1>5 DEF InHand, Spoiled
  <1>7. ~Spoiled(inst[i], Pipe[i]) => Len(inst[i].inbox) = 0 /\ ~InHand(i)
    <2>1. CASE InHand(i)
      <3>1. ~Spoiled(inst[i], Pipe[i]) =>
              inst[i].asked = Len(inst[i].inbox) + inst[i].asked + 1
        BY <1>1, <2>1 DEF Counted
      <3> QED
        BY <1>1, <3>1
    <2>2. CASE ~InHand(i)
      <3>1. ~Spoiled(inst[i], Pipe[i]) =>
              inst[i].asked = Len(inst[i].inbox) + inst[i].asked + 0
        BY <1>1, <2>2 DEF Counted
      <3> QED
        BY <1>1, <2>2, <3>1
    <2> QED
      BY <2>1, <2>2
  <1>8. Counted(i)'
    <2>1. ~Spoiled(inst[i], Pipe[i])' =>
            k.asked = Len(k.inbox) + k.answered + IF InHand(i)' THEN 1 ELSE 0
      <3>1. ~Spoiled(inst[i], Pipe[i])' => ~InHand(i)'
        BY <1>6, <1>7
      <3>2. ~Spoiled(inst[i], Pipe[i])' => k.asked = 0 /\ Len(k.inbox) = 0 /\ k.answered = 0
        BY <1>2, <1>6, <1>7
      <3>3. 0 = 0 + 0 + 0
        OBVIOUS
      <3> QED
        BY <3>1, <3>2, <3>3
    <2>2. \A n \in 1..Len(k.outbox) : k.outbox[n] = k.session
      BY <1>1, <1>2 DEF Counted
    <2> QED
      BY <1>1, <1>2, <1>5, <1>6, <1>7, <2>1, <2>2 DEF Counted
  <1> QED
    BY <1>1, <1>2, <1>3, <1>5, <1>8, OneClient

LEMMA ClosesKeeps ==
  ASSUME Inv, NEW i \in Instances, ClientCloses(i)
  PROVE  Inv' /\ inst[i].conn = "connected" /\ inst'[i].conn = "orphaned"
         /\ inst'[i].asked = inst[i].asked /\ inst'[i].answered = inst[i].answered
  <1> DEFINE m == [inst[i] EXCEPT !.conn = "orphaned", !.outbox = <<>>]
             k == IF m.op # "none" THEN Done(m, "failed") ELSE m
  <1>1. /\ inst[i] \in InstanceType /\ inst[i].conn = "connected"
        /\ sessions' \in 0..MaxSessions /\ "failed" \in Statuses /\ <<>> \in Seq(Nat)
    BY InstanceInv DEF ClientCloses, Inv, TypeOK, Statuses
  <1>2. /\ m \in InstanceType /\ m.conn = "orphaned"
        /\ m.asked = inst[i].asked /\ m.answered = inst[i].answered /\ m.outbox = <<>>
        /\ m.op = inst[i].op /\ m.status = inst[i].status /\ m.event = inst[i].event
    BY <1>1 DEF InstanceType
  <1>3. Client(i, k)
    BY DEF ClientCloses
  <1> HIDE DEF m
  <1>4. /\ k \in InstanceType /\ k.conn = "orphaned" /\ k.outbox = <<>>
        /\ k.asked = m.asked /\ k.answered = m.answered
        /\ m.op # "none" => k.op = "none" /\ k.event /\ k.status = "failed"
        /\ m.op = "none" => k = m
    BY <1>1, <1>2, DoneFacts DEF Unmoved
  <1> HIDE DEF k
  <1>5. /\ Resting(inst[i], Pipe[i]) => Resting(k, Pipe[i])
        /\ Working(inst[i], Pipe[i]) => Working(k, Pipe[i])
        /\ Created(inst[i], Pipe[i]) => Created(k, Pipe[i])
    BY <1>1, <1>2, <1>4
    DEF Resting, Working, Created, Connecting, Reading, Writing, AtOnce, Served, InFlight
  <1>6. Placed(i)' /\ inst'[i] = k
    BY <1>1, <1>3, <1>4, <1>5, PlaceKept
  <1>7. Counted(i)'
    BY <1>4, <1>6 DEF Counted
  <1> QED
    BY <1>1, <1>2, <1>3, <1>4, <1>6, <1>7, OneClient

-----------------------------------------------------------------------------
(* What the server does                                                    *)

(* The thread turns to an instance or leaves it: the others stay put.      *)
LEMMA Elsewhere ==
  ASSUME Inv, NEW i \in Instances,
         \/ pc = "create" /\ i = cur /\ pc' = "connect" /\ cur' = cur
         \/ pc = "connect" /\ i = cur /\ cur < N /\ pc' = "create" /\ cur' = cur + 1
         \/ pc = "connect" /\ i = cur /\ ~(cur < N) /\ pc' = "wait" /\ cur' = cur
         \/ pc = "wait" /\ pc' \in {"wait", "next"} /\ cur' = i
         \/ pc = "next" /\ i = cur /\ pc' = "wait" /\ cur' = cur,
         NEW j \in Instances \ {i}, inst'[j] = inst[j], Pipe'[j] = Pipe[j]
  PROVE  Placed(j)' /\ AtRest(j)' = AtRest(j)
  <1>1. /\ Placed(j) /\ i \in Nat /\ j \in Nat /\ cur \in Nat /\ j # i
        /\ j <= N /\ N \in Nat
    BY InstanceInv, ServerAssumption DEF Instances
  <1> QED
    BY <1>1 DEF Placed, AtRest

LEMMA CreateKeeps ==
  ASSUME Inv, NEW i \in Instances, i = cur, CreateInstance
  PROVE  Inv' /\ inst[i].conn = "none" /\ inst'[i].conn = "listening"
         /\ inst'[i].asked = inst[i].asked /\ inst'[i].answered = inst[i].answered
         /\ Pipe' = Pipe /\ \A j \in Instances \ {i} : inst'[j] = inst[j]
  <1> DEFINE k == [inst[i] EXCEPT !.conn = "listening", !.event = TRUE]
  <1>1. /\ inst[i] \in InstanceType /\ Absent(inst[i], Pipe[i])
        /\ i \in Nat /\ Counted(i) /\ Pipe[i] \in PipeType
        /\ inst \in [Instances -> InstanceType]
    BY InstanceInv DEF CreateInstance, Placed, Inv, TypeOK
  <1>2. /\ k \in InstanceType /\ k.conn = "listening" /\ k.event
        /\ k.session = inst[i].session /\ k.inbox = inst[i].inbox
        /\ k.outbox = inst[i].outbox
        /\ k.asked = inst[i].asked /\ k.answered = inst[i].answered
        /\ k.op = inst[i].op /\ k.status = inst[i].status
    BY <1>1 DEF InstanceType
  <1>3. inst' = [inst EXCEPT ![i] = k] /\ inst'[i] = k
        /\ \A j \in Instances \ {i} : inst'[j] = inst[j]
    BY <1>1 DEF CreateInstance
  <1> HIDE DEF k
  <1>4. Pipe' = [Pipe EXCEPT ![i] = Pipe[i]] /\ Pipe' = Pipe /\ Pipe'[i] = Pipe[i]
        /\ cur' = cur /\ pc' = "connect"
    BY DEF CreateInstance, Inv, TypeOK
  <1>5. Created(k, Pipe[i])
    BY <1>1, <1>2 DEF Created, Absent
  <1>6. Placed(i)'
    BY <1>1, <1>3, <1>4, <1>5 DEF Placed
  <1>7. Counted(i)'
    <2>1. k.inbox = <<>> /\ k.outbox = <<>>
      BY <1>1, <1>2 DEF Counted, Absent
    <2> QED
      BY <1>2, <1>3, <2>1 DEF Counted
  <1>8. pc' \in States /\ cur' \in Instances /\ sessions' \in 0..MaxSessions
    BY <1>1 DEF CreateInstance, Inv, TypeOK, States
  <1>9. \A j \in Instances \ {i} :
          inst'[j] = inst[j] /\ Pipe'[j] = Pipe[j] => Placed(j)' /\ AtRest(j)' = AtRest(j)
    BY <1>1, Elsewhere DEF CreateInstance
  <1>10. Inv'
    BY <1>1, <1>2, <1>3, <1>4, <1>6, <1>7, <1>8, <1>9, OneInstance
  <1> QED
    BY <1>1, <1>2, <1>3, <1>4, <1>10 DEF Absent

LEMMA ConnectKeeps ==
  ASSUME Inv, NEW i \in Instances, i = cur, ConnectInstance
  PROVE  /\ Inv' /\ Created(inst[i], Pipe[i])
         /\ inst'[i].conn = inst[i].conn /\ inst'[i].inbox = inst[i].inbox
         /\ inst'[i].asked = inst[i].asked /\ inst'[i].answered = inst[i].answered
         /\ Pipe'[i].dwState = "READING" => ~Pipe'[i].fPendingIO
         /\ \A j \in Instances \ {i} : inst'[j] = inst[j] /\ Pipe'[j] = Pipe[j]
  <1> DEFINE c == ConnectNamedPipe(inst[i])
             e == [c EXCEPT !.event = TRUE]
             k == IF inst[i].conn = "connected" THEN e ELSE c
             p == [dwState |-> IF c.op = "connect" THEN "CONNECTING" ELSE "READING",
                   fPendingIO |-> c.op = "connect"]
  <1>1. /\ inst[i] \in InstanceType /\ Created(inst[i], Pipe[i]) /\ Counted(i)
        /\ i \in Nat /\ AllOf(inst[i].outbox, inst[i].session)
        /\ inst \in [Instances -> InstanceType] /\ Pipe \in [Instances -> PipeType]
    BY InstanceInv DEF ConnectInstance, Placed, Inv, TypeOK, PipeType
  <1>2. /\ c \in InstanceType /\ Unmoved(c, inst[i])
        /\ inst[i].conn = "listening" => InFlight(c, "connect")
        /\ inst[i].conn # "listening" => c.op = "none" /\ c.status = "failed"
    <2>1. CASE inst[i].conn = "listening"
      <3> DEFINE m == [inst[i] EXCEPT !.conn = "listening"]
      <3>1. m = inst[i] /\ c = Begun(m, "connect")
        BY <1>1, <2>1 DEF ConnectNamedPipe, InstanceType
      <3> QED
        BY <1>1, <2>1, <3>1, BegunFacts
    <2>2. CASE inst[i].conn # "listening"
      <3>1. c = Refused(inst[i])
        BY <1>1, <2>2 DEF ConnectNamedPipe, Created
      <3> QED
        BY <1>1, <2>2, <3>1, RefusedFacts
    <2> QED
      BY <2>1, <2>2
  <1>3. inst' = [inst EXCEPT ![i] = k] /\ Pipe' = [Pipe EXCEPT ![i] = p]
    BY DEF ConnectInstance, ConnectToNewClient
  <1> HIDE DEF c
  <1>4. /\ k \in InstanceType /\ Unmoved(k, inst[i])
        /\ k.op = c.op /\ k.status = c.status
        /\ inst[i].conn = "connected" => k.event
        /\ inst[i].conn # "connected" => k = c
    BY <1>2 DEF InstanceType, Unmoved
  <1>5. /\ p \in PipeType /\ (p.fPendingIO <=> c.op = "connect")
        /\ p.dwState = IF c.op = "connect" THEN "CONNECTING" ELSE "READING"
    BY DEF PipeType
  <1> HIDE DEF k, p
  <1>6. inst'[i] = k /\ Pipe'[i] = p
        /\ \A j \in Instances \ {i} : inst'[j] = inst[j] /\ Pipe'[j] = Pipe[j]
    BY <1>1, <1>3
  <1>7. Resting(k, p)
    <2>1. CASE inst[i].conn = "listening"
      BY <1>2, <1>4, <1>5, <2>1 DEF Resting, Connecting, InFlight, Unmoved
    <2>2. CASE inst[i].conn # "listening"
      BY <1>1, <1>2, <1>4, <1>5, <2>2 DEF Resting, AtOnce, Created, Served, Unmoved
    <2> QED
      BY <2>1, <2>2
  <1>8. /\ pc' \in {"create", "wait"} /\ sessions' = sessions
        /\ pc' = "create" => cur' = cur + 1
        /\ pc = "connect" /\ cur' \in Instances
    BY <1>1, ServerAssumption DEF ConnectInstance, Instances
  <1>9. Placed(i)'
    BY <1>1, <1>6, <1>7, <1>8 DEF Placed
  <1>10. Counted(i)'
    <2>1. ~InHand(i)' /\ ~InHand(i) /\ ~Spoiled(inst[i], Pipe[i])
      BY <1>1, <1>5, <1>6 DEF InHand, Spoiled, Created
    <2> QED
      BY <1>1, <1>4, <1>6, <2>1 DEF Counted, Unmoved
  <1>11. \A j \in Instances \ {i} :
           inst'[j] = inst[j] /\ Pipe'[j] = Pipe[j] => Placed(j)' /\ AtRest(j)' = AtRest(j)
    BY Elsewhere DEF ConnectInstance
  <1>12. Inv'
    <2>1. pc' \in States /\ sessions' \in 0..MaxSessions
      BY <1>8 DEF States, Inv, TypeOK
    <2> QED
      BY <1>3, <1>4, <1>5, <1>8, <1>9, <1>10, <1>11, <2>1, OneInstance
  <1> QED
    BY <1>1, <1>4, <1>5, <1>6, <1>12 DEF Unmoved

(* The thread waits in its loop, or works on instance i.                   *)
AtLoop(i) == \/ pc = "wait" /\ cur' = i
             \/ pc = "next" /\ i = cur /\ cur' = cur

(* The step of the loop that makes of an instance k and p.                 *)
LEMMA LoopKeeps ==
  ASSUME Inv, NEW i \in Instances, NEW k \in InstanceType, NEW p \in PipeType,
         AtLoop(i), pc' \in {"wait", "next"}, pc = "next" => pc' = "wait",
         inst' = [inst EXCEPT ![i] = k], Pipe' = [Pipe EXCEPT ![i] = p],
         sessions' = sessions,
         IF pc' = "wait" THEN Resting(k, p) ELSE Working(k, p),
         inst'[i] = k /\ Pipe'[i] = p => Counted(i)'
  PROVE  Inv'
  <1>1. inst'[i] = k /\ Pipe'[i] = p
    BY DEF Inv, TypeOK
  <1>2. pc' \in States /\ cur' \in Instances /\ sessions' \in 0..MaxSessions
    BY DEF Inv, TypeOK, States, AtLoop
  <1>3. Placed(i)'
    BY <1>1 DEF Placed, AtLoop
  <1>4. \A j \in Instances \ {i} :
          inst'[j] = inst[j] /\ Pipe'[j] = Pipe[j] => Placed(j)' /\ AtRest(j)' = AtRest(j)
    BY Elsewhere DEF AtLoop
  <1> QED
    BY <1>1, <1>2, <1>3, <1>4, OneInstance

(* A client is disconnected: its instance starts again.                    *)
LEMMA ReconnectKeeps ==
  ASSUME Inv, NEW i \in Instances, NEW k \in InstanceType, Reconnect(i, k), AtLoop(i),
         sessions' = sessions
  PROVE  /\ Inv' /\ inst'[i].conn = "listening"
         /\ inst'[i].asked = k.asked /\ inst'[i].answered = k.answered
         /\ \A j \in Instances \ {i} : inst'[j] = inst[j] /\ Pipe'[j] = Pipe[j]
  <1> DEFINE d == DisconnectNamedPipe(k)
             l == ConnectNamedPipe(d)
             e == [l EXCEPT !.event = TRUE]
             m == IF d.conn = "connected" THEN e ELSE l
             p == [dwState |-> IF l.op = "connect" THEN "CONNECTING" ELSE "READING",
                   fPendingIO |-> l.op = "connect"]
  <1>1. /\ l \in InstanceType /\ l.conn = "listening" /\ InFlight(l, "connect")
        /\ l.inbox = <<>> /\ l.outbox = <<>> /\ l.session = k.session
        /\ l.asked = k.asked /\ l.answered = k.answered
        /\ d.conn = "disconnected"
    BY ReconnectFacts
  <1>2. inst' = [inst EXCEPT ![i] = m] /\ Pipe' = [Pipe EXCEPT ![i] = p] /\ pc' = "wait"
    BY DEF Reconnect, DisconnectAndReconnect, ConnectToNewClient
  <1>3. m = l
    BY <1>1
  <1> HIDE DEF l, d
  <1>4. p \in PipeType /\ p.fPendingIO /\ p.dwState = "CONNECTING"
    BY <1>1 DEF PipeType, InFlight
  <1> HIDE DEF m, p
  <1>5. Resting(m, p)
    BY <1>1, <1>3, <1>4 DEF Resting, Connecting
  <1>6. inst'[i] = m /\ Pipe'[i] = p => Counted(i)'
    BY <1>1, <1>3 DEF Counted
  <1>7. Inv'
    BY <1>1, <1>2, <1>3, <1>4, <1>5, <1>6, LoopKeeps
  <1>8. inst'[i] = m /\ \A j \in Instances \ {i} : inst'[j] = inst[j] /\ Pipe'[j] = Pipe[j]
    BY <1>2 DEF Inv, TypeOK
  <1> QED
    BY <1>1, <1>3, <1>7, <1>8

LEMMA AdvanceKeeps ==
  ASSUME Inv, NEW i \in Instances, NEW d \in {"READING", "WRITING"},
         pc = "wait", cur' = i, sessions' = sessions, Advance(i, d),
         inst[i].event,
         \/ ~Pipe[i].fPendingIO /\ d = Pipe[i].dwState
         \/ /\ Pipe[i].fPendingIO /\ inst[i].status = "ok"
            /\ d = IF Pipe[i].dwState = "READING" THEN "WRITING" ELSE "READING"
  PROVE  /\ Inv' /\ inst' = inst
         /\ Pipe'[i].dwState = d /\ Pipe'[i].fPendingIO = Pipe[i].fPendingIO
         /\ \A j \in Instances \ {i} : Pipe'[j] = Pipe[j]
  <1> DEFINE p == [Pipe[i] EXCEPT !.dwState = d]
  <1>1. /\ inst[i] \in InstanceType /\ Resting(inst[i], Pipe[i]) /\ Counted(i)
        /\ Pipe \in [Instances -> PipeType] /\ Pipe[i] \in PipeType
        /\ Pipe[i].dwState \in {"CONNECTING", "READING", "WRITING"}
        /\ inst \in [Instances -> InstanceType]
    BY InstanceInv DEF Placed, Inv, TypeOK, PipeType
  <1>2. p \in PipeType /\ p.dwState = d /\ p.fPendingIO = Pipe[i].fPendingIO
    BY <1>1 DEF PipeType
  <1>3. /\ inst' = [inst EXCEPT ![i] = inst[i]] /\ inst' = inst
        /\ Pipe' = [Pipe EXCEPT ![i] = p] /\ pc' = "next"
    BY <1>1 DEF Advance
  <1> HIDE DEF p
  <1>4. Pipe'[i] = p /\ \A j \in Instances \ {i} : Pipe'[j] = Pipe[j]
    BY <1>1, <1>3
  <1>5. Working(inst[i], p)
    BY <1>1, <1>2
    DEF Resting, Working, Connecting, Reading, Writing, AtOnce, Served, InFlight
  <1>6. (InHand(i)' <=> InHand(i)) /\ ~Spoiled(inst[i], p) /\ ~Spoiled(inst[i], Pipe[i])
    <2>1. CASE ~Pipe[i].fPendingIO
      BY <1>2, <1>3, <1>4, <2>1 DEF InHand, Spoiled
    <2>2. CASE Pipe[i].fPendingIO
      BY <1>1, <1>2, <1>3, <1>4, <2>2 DEF InHand, Spoiled, AtRest
    <2> QED
      BY <2>1, <2>2
  <1>7. Counted(i)'
    BY <1>1, <1>3, <1>4, <1>6 DEF Counted
  <1>8. Inv'
    BY <1>1, <1>2, <1>3, <1>5, <1>7, LoopKeeps DEF AtLoop
  <1> QED
    BY <1>2, <1>3, <1>4, <1>8

(* Taking a result answers no request; it leaves the client as it was, or  *)
(* hangs up on one that has left or asked improperly.                      *)
LEMMA WaitKeeps ==
  ASSUME Inv, NEW i \in Instances, Wait(i)
  PROVE  /\ Inv'
         /\ inst'[i].asked = inst[i].asked /\ inst'[i].answered = inst[i].answered
         /\ \A j \in Instances \ {i} : inst'[j] = inst[j] /\ Pipe'[j] = Pipe[j]
         /\ \/ inst' = inst /\ (Improper(i)' <=> Improper(i))
            \/ /\ inst'[i].conn = "listening" /\ Served(inst[i])
               /\ inst[i].conn = "connected" => Improper(i)
  <1>1. /\ inst[i] \in InstanceType /\ Resting(inst[i], Pipe[i])
        /\ Pipe[i].dwState \in {"CONNECTING", "READING", "WRITING"}
        /\ inst[i].event /\ pc = "wait" /\ cur' = i /\ sessions' = sessions
    BY InstanceInv DEF Placed, Wait, Signaled
  <1>2. AtLoop(i)
    BY <1>1 DEF AtLoop
  <1>3. CASE ~Pipe[i].fPendingIO /\ Advance(i, Pipe[i].dwState)
    <2>1. Pipe[i].dwState \in {"READING", "WRITING"}
      BY <1>1, <1>3 DEF Resting, AtOnce
    <2>2. /\ Inv' /\ inst' = inst
          /\ Pipe'[i].dwState = Pipe[i].dwState /\ Pipe'[i].fPendingIO = Pipe[i].fPendingIO
          /\ \A j \in Instances \ {i} : Pipe'[j] = Pipe[j]
      BY <1>1, <1>3, <2>1, AdvanceKeeps
    <2>3. Improper(i)' <=> Improper(i)
      BY <2>2 DEF Improper
    <2> QED
      BY <2>2, <2>3
  <1>4. ASSUME NEW d \in {"READING", "WRITING"}, Pipe[i].fPendingIO, inst[i].status = "ok",
               d = IF Pipe[i].dwState = "READING" THEN "WRITING" ELSE "READING",
               Advance(i, d)
        PROVE  /\ Inv' /\ inst' = inst /\ (Improper(i)' <=> Improper(i))
               /\ \A j \in Instances \ {i} : Pipe'[j] = Pipe[j]
    <2>1. /\ Inv' /\ inst' = inst
          /\ \A j \in Instances \ {i} : Pipe'[j] = Pipe[j]
      BY <1>1, <1>4, AdvanceKeeps
    <2>2. Improper(i)' <=> Improper(i)
      BY <1>4, <2>1 DEF Improper
    <2> QED
      BY <2>1, <2>2
  <1>5. ASSUME Pipe[i].fPendingIO, inst[i].status # "ok", Pipe[i].dwState # "CONNECTING",
               Reconnect(i, inst[i])
        PROVE  /\ Inv' /\ inst'[i].conn = "listening"
               /\ inst'[i].asked = inst[i].asked /\ inst'[i].answered = inst[i].answered
               /\ \A j \in Instances \ {i} : inst'[j] = inst[j] /\ Pipe'[j] = Pipe[j]
               /\ Served(inst[i]) /\ (inst[i].conn = "connected" => Improper(i))
    <2>1. /\ Inv' /\ inst'[i].conn = "listening"
          /\ inst'[i].asked = inst[i].asked /\ inst'[i].answered = inst[i].answered
          /\ \A j \in Instances \ {i} : inst'[j] = inst[j] /\ Pipe'[j] = Pipe[j]
      BY <1>1, <1>2, <1>5, ReconnectKeeps
    <2>2. Served(inst[i])
      BY <1>1, <1>5 DEF Resting, Reading, Writing
    <2>3. inst[i].conn = "connected" =>
            Pipe[i].dwState = "READING" /\ inst[i].status \in {"zero", "failed"}
      BY <1>1, <1>5 DEF Resting, Reading, Writing, InFlight
    <2> QED
      BY <1>5, <2>1, <2>2, <2>3 DEF Improper
  <1>6. CASE Pipe[i].fPendingIO /\ Pipe[i].dwState = "CONNECTING" /\ ConnectResult(i)
    <2>1. inst[i].status = "ok"
      BY <1>1, <1>6 DEF Resting, Connecting, InFlight
    <2> QED
      BY <1>4, <1>6, <2>1 DEF ConnectResult
  <1>7. CASE Pipe[i].fPendingIO /\ Pipe[i].dwState = "READING" /\ ReadResult(i)
    <2>1. CASE inst[i].status = "ok"
      BY <1>4, <1>7, <2>1 DEF ReadResult
    <2>2. CASE inst[i].status # "ok"
      <3>1. Reconnect(i, inst[i])
        BY <1>7, <2>2 DEF ReadResult
      <3> QED
        BY <1>5, <1>7, <2>2, <3>1
    <2> QED
      BY <2>1, <2>2
  <1>8. CASE Pipe[i].fPendingIO /\ Pipe[i].dwState = "WRITING" /\ WriteResult(i)
    <2>1. CASE inst[i].status = "ok"
      BY <1>4, <1>8, <2>1 DEF WriteResult
    <2>2. CASE inst[i].status # "ok"
      <3>1. Reconnect(i, inst[i])
        BY <1>8, <2>2 DEF WriteResult
      <3> QED
        BY <1>5, <1>8, <2>2, <3>1
    <2> QED
      BY <2>1, <2>2
  <1> QED
    BY <1>3, <1>6, <1>7, <1>8 DEF Wait

(* A call on the instance that finished at once or is in flight.           *)
LEMMA IssuedKeeps ==
  ASSUME Inv, NEW i \in Instances, NEW k \in InstanceType, NEW next \in {"READING", "WRITING"},
         pc = "next", i = cur, UNCHANGED <<cur, sessions>>, Issued(i, k, next),
         k.status = "ok" =>
           \A p \in PipeType :
             p.dwState = next /\ ~p.fPendingIO =>
               /\ Resting(k, p)
               /\ pc' = "wait" /\ inst'[i] = k /\ Pipe'[i] = p => Counted(i)',
         k.status = "pending" =>
           \A p \in PipeType :
             p.dwState = Pipe[i].dwState /\ p.fPendingIO =>
               /\ Resting(k, p)
               /\ pc' = "wait" /\ inst'[i] = k /\ Pipe'[i] = p => Counted(i)'
  PROVE  /\ Inv'
         /\ \A j \in Instances \ {i} : inst'[j] = inst[j] /\ Pipe'[j] = Pipe[j]
         /\ \/ k.status = "ok" /\ inst'[i] = k /\ ~Pipe'[i].fPendingIO
            \/ /\ k.status = "pending" /\ inst'[i] = k
               /\ Pipe'[i].dwState = Pipe[i].dwState
            \/ /\ k.status \in {"zero", "failed"} /\ inst'[i].conn = "listening"
               /\ inst'[i].asked = k.asked /\ inst'[i].answered = k.answered
  <1>1. /\ AtLoop(i) /\ Pipe[i] \in PipeType
        /\ inst \in [Instances -> InstanceType] /\ Pipe \in [Instances -> PipeType]
    BY DEF AtLoop, Inv, TypeOK, PipeType
  <1>2. ASSUME k.status = "ok", pc' = "wait", inst' = [inst EXCEPT ![i] = k],
               Pipe' = [Pipe EXCEPT ![i] = [dwState |-> next, fPendingIO |-> FALSE]]
        PROVE  /\ Inv' /\ inst'[i] = k /\ ~Pipe'[i].fPendingIO
               /\ \A j \in Instances \ {i} : inst'[j] = inst[j] /\ Pipe'[j] = Pipe[j]
    <2> DEFINE p == [dwState |-> next, fPendingIO |-> FALSE]
    <2>1. p \in PipeType /\ p.dwState = next /\ ~p.fPendingIO
      BY DEF PipeType
    <2>2. Pipe' = [Pipe EXCEPT ![i] = p]
      BY <1>2
    <2> HIDE DEF p
    <2>3. /\ inst'[i] = k /\ Pipe'[i] = p
          /\ \A j \in Instances \ {i} : inst'[j] = inst[j] /\ Pipe'[j] = Pipe[j]
      BY <1>1, <1>2, <2>2
    <2>4. Resting(k, p) /\ Counted(i)'
      BY <1>2, <2>1, <2>3
    <2>5. Inv'
      BY <1>1, <1>2, <2>1, <2>2, <2>4, LoopKeeps
    <2> QED
      BY <2>1, <2>3, <2>5
  <1>3. ASSUME k.status = "pending", pc' = "wait", inst' = [inst EXCEPT ![i] = k],
               Pipe' = [Pipe EXCEPT ![i].fPendingIO = TRUE]
        PROVE  /\ Inv' /\ inst'[i] = k /\ Pipe'[i].dwState = Pipe[i].dwState
               /\ \A j \in Instances \ {i} : inst'[j] = inst[j] /\ Pipe'[j] = Pipe[j]
    <2> DEFINE p == [Pipe[i] EXCEPT !.fPendingIO = TRUE]
    <2>1. p \in PipeType /\ p.dwState = Pipe[i].dwState /\ p.fPendingIO
      BY <1>1 DEF PipeType
    <2>2. Pipe' = [Pipe EXCEPT ![i] = p]
      BY <1>3
    <2> HIDE DEF p
    <2>3. /\ inst'[i] = k /\ Pipe'[i] = p
          /\ \A j \in Instances \ {i} : inst'[j] = inst[j] /\ Pipe'[j] = Pipe[j]
      BY <1>1, <1>3, <2>2
    <2>4. Resting(k, p) /\ Counted(i)'
      BY <1>3, <2>1, <2>3
    <2>5. Inv'
      BY <1>1, <1>3, <2>1, <2>2, <2>4, LoopKeeps
    <2> QED
      BY <2>1, <2>3, <2>5
  <1>4. ASSUME k.status \in {"zero", "failed"}, Reconnect(i, k)
        PROVE  /\ Inv' /\ inst'[i].conn = "listening"
               /\ inst'[i].asked = k.asked /\ inst'[i].answered = k.answered
               /\ \A j \in Instances \ {i} : inst'[j] = inst[j] /\ Pipe'[j] = Pipe[j]
    BY <1>1, <1>4, ReconnectKeeps
  <1> QED
    BY <1>2, <1>3, <1>4 DEF Issued

LEMMA NextReadKeeps ==
  ASSUME Inv, NEW i \in Instances, NextRead(i)
  PROVE  /\ Inv'
         /\ inst'[i].asked = inst[i].asked /\ inst'[i].answered = inst[i].answered
         /\ \A j \in Instances \ {i} : inst'[j] = inst[j] /\ Pipe'[j] = Pipe[j]
         /\ \/ inst'[i].conn = inst[i].conn /\ (Improper(i)' <=> Improper(i))
            \/ /\ inst'[i].conn = "listening" /\ Served(inst[i])
               /\ inst[i].conn = "connected" => Improper(i)
  <1> DEFINE k == ReadFile(inst[i])
  <1>1. /\ inst[i] \in InstanceType /\ Working(inst[i], Pipe[i]) /\ Counted(i)
        /\ pc = "next" /\ i = cur /\ UNCHANGED <<cur, sessions>>
        /\ Pipe[i].dwState = "READING" /\ Served(inst[i])
        /\ Issued(i, k, "WRITING")
    BY InstanceInv DEF Placed, NextRead, Working
  <1>2. /\ inst[i].inbox \in Seq(Requests) /\ Len(inst[i].inbox) \in Nat
        /\ (Len(inst[i].inbox) = 0 <=> inst[i].inbox = <<>>)
        /\ inst[i].asked \in Nat /\ inst[i].answered \in Nat
    BY <1>1, InstanceFacts
  <1>3. /\ k \in InstanceType
        /\ k.conn = inst[i].conn /\ k.session = inst[i].session /\ k.outbox = inst[i].outbox
        /\ k.asked = inst[i].asked /\ k.answered = inst[i].answered
        /\ \/ /\ inst[i].inbox # <<>> /\ k.inbox = Tail(inst[i].inbox)
              /\ k.op = "none" /\ k.event
              /\ \/ /\ Head(inst[i].inbox) = "fits" /\ k.status = "ok"
                    /\ k.chRequest = inst[i].session
                 \/ Head(inst[i].inbox) # "fits" /\ k.status \in {"zero", "failed"}
           \/ /\ inst[i].inbox = <<>> /\ k.inbox = <<>> /\ inst[i].conn = "connected"
              /\ InFlight(k, "read")
           \/ /\ inst[i].inbox = <<>> /\ k.inbox = <<>> /\ inst[i].conn # "connected"
              /\ k.status = "failed"
    BY <1>1, ReadFacts
  <1> HIDE DEF k
  <1>4. ~InHand(i) /\ ~Spoiled(inst[i], Pipe[i])
    BY <1>1 DEF InHand, AtRest, Working, Spoiled
  <1>5. inst[i].conn = "connected" => inst[i].asked = Len(inst[i].inbox) + inst[i].answered
    BY <1>1, <1>2, <1>4 DEF Counted
  <1>6. \A n \in 1..Len(k.outbox) : k.outbox[n] = k.session
    BY <1>1, <1>3 DEF Counted
  <1>7. k.status = "ok" =>
          /\ inst[i].inbox # <<>> /\ k.inbox = Tail(inst[i].inbox) /\ k.op = "none" /\ k.event
          /\ Head(inst[i].inbox) = "fits" /\ k.chRequest = k.session
          /\ Len(inst[i].inbox) = Len(k.inbox) + 1 /\ Len(k.inbox) \in Nat
    <2>1. k.status = "ok" =>
            /\ inst[i].inbox # <<>> /\ k.inbox = Tail(inst[i].inbox) /\ k.op = "none" /\ k.event
            /\ Head(inst[i].inbox) = "fits" /\ k.chRequest = k.session
      BY <1>3 DEF InFlight
    <2>2. inst[i].inbox # <<>> =>
            /\ Len(Tail(inst[i].inbox)) = Len(inst[i].inbox) - 1
            /\ Len(Tail(inst[i].inbox)) \in Nat
      BY <1>2, SeqFacts
    <2>3. inst[i].inbox # <<>> => Len(inst[i].inbox) = Len(Tail(inst[i].inbox)) + 1
      BY <1>2, <2>2
    <2> QED
      BY <2>1, <2>2, <2>3
  <1>8. k.status = "pending" =>
          /\ inst[i].inbox = <<>> /\ k.inbox = <<>> /\ k.conn = "connected"
          /\ InFlight(k, "read")
    BY <1>3
  <1>9. k.status \in {"zero", "failed"} /\ inst[i].conn = "connected" => Improper(i)
    <2>1. k.status \in {"zero", "failed"} /\ inst[i].conn = "connected" =>
            inst[i].inbox # <<>> /\ Head(inst[i].inbox) # "fits"
      BY <1>3 DEF InFlight
    <2>2. inst[i].inbox # <<>> =>
            1 \in 1..Len(inst[i].inbox) /\ inst[i].inbox[1] = Head(inst[i].inbox)
      BY <1>2, HeadTailProperties
    <2> QED
      BY <2>1, <2>2 DEF Improper
  <1>10. ASSUME k.status = "ok", NEW p \in PipeType, p.dwState = "WRITING", ~p.fPendingIO
         PROVE  /\ Resting(k, p)
                /\ pc' = "wait" /\ inst'[i] = k /\ Pipe'[i] = p => Counted(i)'
    <2>1. Resting(k, p)
      BY <1>1, <1>3, <1>7, <1>10 DEF Resting, AtOnce, Served
    <2>2. ASSUME pc' = "wait", inst'[i] = k, Pipe'[i] = p
          PROVE  Counted(i)'
      <3>1. InHand(i)'
        BY <1>10, <2>2 DEF InHand
      <3>2. k.conn = "connected" => k.asked = Len(k.inbox) + k.answered + 1
        BY <1>2, <1>3, <1>5, <1>7, <1>10, SMTT(30)
      <3>3. k.conn \notin {"none", "listening"}
        BY <1>1, <1>3 DEF Served
      <3> QED
        BY <1>6, <1>7, <1>10, <2>2, <3>1, <3>2, <3>3 DEF Counted
    <2> QED
      BY <2>1, <2>2
  <1>11. ASSUME k.status = "pending", NEW p \in PipeType, p.dwState = Pipe[i].dwState,
                p.fPendingIO
         PROVE  /\ Resting(k, p)
                /\ pc' = "wait" /\ inst'[i] = k /\ Pipe'[i] = p => Counted(i)'
    <2>1. Resting(k, p)
      BY <1>1, <1>8, <1>11 DEF Resting, Reading, Served
    <2>2. ASSUME pc' = "wait", inst'[i] = k, Pipe'[i] = p
          PROVE  Counted(i)'
      <3>1. ~InHand(i)'
        BY <1>1, <1>11, <2>2 DEF InHand
      <3>2. k.asked = Len(k.inbox) + k.answered + 0
        <4>1. inst[i].asked = Len(inst[i].inbox) + inst[i].answered + 0
          BY <1>2, <1>3, <1>5, <1>8, <1>11
        <4> QED
          BY <1>3, <1>8, <1>11, <4>1
      <3> QED
        BY <1>6, <1>8, <1>11, <2>2, <3>1, <3>2 DEF Counted
    <2> QED
      BY <2>1, <2>2
  <1>12. /\ Inv'
         /\ \A j \in Instances \ {i} : inst'[j] = inst[j] /\ Pipe'[j] = Pipe[j]
         /\ \/ k.status = "ok" /\ inst'[i] = k /\ ~Pipe'[i].fPendingIO
            \/ /\ k.status = "pending" /\ inst'[i] = k
               /\ Pipe'[i].dwState = Pipe[i].dwState
            \/ /\ k.status \in {"zero", "failed"} /\ inst'[i].conn = "listening"
               /\ inst'[i].asked = k.asked /\ inst'[i].answered = k.answered
    BY <1>1, <1>3, <1>10, <1>11, IssuedKeeps
  <1>13. CASE k.status = "ok" /\ inst'[i] = k /\ ~Pipe'[i].fPendingIO
    <2>1. \A n \in 1..Len(k.inbox) : k.inbox[n] = inst[i].inbox[n + 1]
      <3>1. \A n \in 1..Len(Tail(inst[i].inbox)) :
              Tail(inst[i].inbox)[n] = inst[i].inbox[n + 1]
        BY <1>2, <1>7, <1>13, HeadTailProperties
      <3> QED
        BY <1>7, <1>13, <3>1
    <2>2. inst[i].inbox[1] = "fits"
      BY <1>2, <1>7, <1>13, HeadTailProperties
    <2>3. (\E n \in 1..Len(k.inbox) : k.inbox[n] # "fits")
            <=> (\E n \in 1..Len(inst[i].inbox) : inst[i].inbox[n] # "fits")
      <3>1. ASSUME NEW n \in 1..Len(k.inbox), k.inbox[n] # "fits"
            PROVE  \E m \in 1..Len(inst[i].inbox) : inst[i].inbox[m] # "fits"
        <4>1. n + 1 \in 1..Len(inst[i].inbox) /\ inst[i].inbox[n + 1] # "fits"
          BY <1>7, <1>13, <2>1, <3>1
        <4> QED
          BY <4>1
      <3>2. ASSUME NEW n \in 1..Len(inst[i].inbox), inst[i].inbox[n] # "fits"
            PROVE  \E m \in 1..Len(k.inbox) : k.inbox[m] # "fits"
        <4>1. n - 1 \in 1..Len(k.inbox) /\ (n - 1) + 1 = n
          BY <1>7, <1>13, <2>2, <3>2
        <4>2. k.inbox[n - 1] # "fits"
          BY <2>1, <3>2, <4>1
        <4> QED
          BY <4>1, <4>2
      <3> QED
        BY <3>1, <3>2
    <2>4. Improper(i)' <=> Improper(i)
      <3>1. ~(Pipe[i].fPendingIO /\ inst[i].status \in {"zero", "failed"})
        BY <1>1 DEF Working
      <3> QED
        BY <1>3, <1>13, <2>3, <3>1 DEF Improper
    <2> QED
      BY <1>3, <1>12, <1>13, <2>4
  <1>14. CASE k.status = "pending" /\ inst'[i] = k /\ Pipe'[i].dwState = Pipe[i].dwState
    <2>1. ~Improper(i) /\ ~Improper(i)'
      BY <1>1, <1>8, <1>14 DEF Improper, Working
    <2> QED
      BY <1>3, <1>12, <1>14, <2>1
  <1>15. CASE /\ k.status \in {"zero", "failed"} /\ inst'[i].conn = "listening"
              /\ inst'[i].asked = k.asked /\ inst'[i].answered = k.answered
    BY <1>1, <1>3, <1>9, <1>12, <1>15
  <1> QED
    BY <1>12, <1>13, <1>14, <1>15

LEMMA NextWriteKeeps ==
  ASSUME Inv, NEW i \in Instances, NextWrite(i)
  PROVE  /\ Inv' /\ inst'[i].asked = inst[i].asked
         /\ \A j \in Instances \ {i} : inst'[j] = inst[j] /\ Pipe'[j] = Pipe[j]
         /\ \/ /\ inst'[i].conn = "connected" /\ inst[i].conn = "connected"
               /\ (Improper(i)' <=> Improper(i))
               /\ inst[i].answered < inst[i].asked
               /\ inst'[i].answered = inst[i].answered + 1
            \/ /\ inst'[i].conn = inst[i].conn /\ (Improper(i)' <=> Improper(i))
               /\ inst'[i].answered = inst[i].answered
            \/ /\ inst'[i].conn = "listening" /\ inst[i].conn = "orphaned"
               /\ inst'[i].answered = inst[i].answered
  <1> DEFINE k == WriteFile(inst[i])
  <1>1. /\ inst[i] \in InstanceType /\ Working(inst[i], Pipe[i]) /\ Counted(i)
        /\ pc = "next" /\ i = cur /\ UNCHANGED <<cur, sessions>>
        /\ Pipe[i].dwState = "WRITING" /\ Served(inst[i])
        /\ Issued(i, k, "READING") /\ AllOf(inst[i].outbox, inst[i].session)
    BY InstanceInv DEF Placed, NextWrite, Working
  <1>2. /\ Len(inst[i].inbox) \in Nat /\ inst[i].outbox \in Seq(Nat)
        /\ inst[i].asked \in Nat /\ inst[i].answered \in Nat /\ inst[i].session \in Nat
    BY <1>1, InstanceFacts
  <1>3. /\ k \in InstanceType
        /\ k.conn = inst[i].conn /\ k.session = inst[i].session /\ k.inbox = inst[i].inbox
        /\ k.asked = inst[i].asked /\ k.chRequest = inst[i].chRequest
        /\ \/ inst[i].conn # "connected" /\ Unmoved(k, inst[i]) /\ k.status = "failed"
           \/ inst[i].conn = "connected" /\ Unmoved(k, inst[i]) /\ InFlight(k, "write")
           \/ /\ inst[i].conn = "connected" /\ k.op = "none" /\ k.event /\ k.status = "ok"
              /\ k.outbox = Append(inst[i].outbox, inst[i].chRequest)
              /\ k.answered = inst[i].answered + 1
    BY <1>1, WriteFacts
  <1> HIDE DEF k
  <1>4. InHand(i) /\ ~Spoiled(inst[i], Pipe[i])
    BY <1>1 DEF InHand, AtRest, Spoiled
  <1>5. inst[i].conn = "connected" =>
          /\ inst[i].asked = Len(inst[i].inbox) + inst[i].answered + 1
          /\ inst[i].chRequest = inst[i].session
    BY <1>1, <1>4 DEF Counted
  <1>6. k.status = "ok" =>
          /\ inst[i].conn = "connected" /\ k.op = "none" /\ k.event
          /\ k.outbox = Append(inst[i].outbox, inst[i].session)
          /\ k.answered = inst[i].answered + 1
    BY <1>3, <1>5 DEF InFlight
  <1>7. k.status = "pending" =>
          inst[i].conn = "connected" /\ Unmoved(k, inst[i]) /\ InFlight(k, "write")
    BY <1>3
  <1>8. k.status \in {"zero", "failed"} =>
          inst[i].conn = "orphaned" /\ k.answered = inst[i].answered
    BY <1>1, <1>3 DEF InFlight, Unmoved, Served
  <1>9. ASSUME k.status = "ok", NEW p \in PipeType, p.dwState = "READING", ~p.fPendingIO
        PROVE  /\ Resting(k, p)
               /\ pc' = "wait" /\ inst'[i] = k /\ Pipe'[i] = p => Counted(i)'
    <2>1. Resting(k, p)
      BY <1>3, <1>6, <1>9 DEF Resting, AtOnce, Served
    <2>2. ASSUME pc' = "wait", inst'[i] = k, Pipe'[i] = p
          PROVE  Counted(i)'
      <3>1. ~InHand(i)'
        BY <1>9, <2>2 DEF InHand
      <3>2. k.asked = Len(k.inbox) + k.answered
        <4>1. inst[i].asked = Len(inst[i].inbox) + inst[i].answered + 1
          BY <1>5, <1>6, <1>9
        <4>2. inst[i].asked = Len(inst[i].inbox) + (inst[i].answered + 1)
          BY <1>2, <4>1, OneDone, ZenonT(30)
        <4> QED
          BY <1>3, <1>6, <1>9, <4>2
      <3>3. k.asked = Len(k.inbox) + k.answered + 0
        BY <1>2, <1>3, <1>6, <1>9, <3>2
      <3>4. AllOf(k.outbox, k.session)
        BY <1>1, <1>2, <1>3, <1>6, <1>9, AllOfFacts
      <3> QED
        BY <1>3, <1>6, <1>9, <2>2, <3>1, <3>3, <3>4 DEF Counted, AllOf
    <2> QED
      BY <2>1, <2>2
  <1>10. ASSUME k.status = "pending", NEW p \in PipeType, p.dwState = Pipe[i].dwState,
                p.fPendingIO
         PROVE  /\ Resting(k, p)
                /\ pc' = "wait" /\ inst'[i] = k /\ Pipe'[i] = p => Counted(i)'
    <2>1. Resting(k, p)
      BY <1>1, <1>3, <1>7, <1>10 DEF Resting, Writing, Served
    <2>2. ASSUME pc' = "wait", inst'[i] = k, Pipe'[i] = p
          PROVE  Counted(i)'
      <3>1. InHand(i)'
        BY <1>1, <1>10, <2>2 DEF InHand
      <3> QED
        BY <1>1, <1>3, <1>5, <1>7, <1>10, <2>2, <3>1 DEF Counted, AllOf, Unmoved
    <2> QED
      BY <2>1, <2>2
  <1>11. /\ Inv'
         /\ \A j \in Instances \ {i} : inst'[j] = inst[j] /\ Pipe'[j] = Pipe[j]
         /\ \/ k.status = "ok" /\ inst'[i] = k /\ ~Pipe'[i].fPendingIO
            \/ /\ k.status = "pending" /\ inst'[i] = k
               /\ Pipe'[i].dwState = Pipe[i].dwState
            \/ /\ k.status \in {"zero", "failed"} /\ inst'[i].conn = "listening"
               /\ inst'[i].asked = k.asked /\ inst'[i].answered = k.answered
    BY <1>1, <1>3, <1>9, <1>10, IssuedKeeps
  <1>12. CASE k.status = "ok" /\ inst'[i] = k /\ ~Pipe'[i].fPendingIO
    <2>1. Improper(i)' <=> Improper(i)
      BY <1>1, <1>3, <1>12 DEF Improper
    <2>2. inst[i].answered < inst[i].asked
      BY <1>2, <1>5, <1>6, <1>12, OneDone
    <2> QED
      BY <1>3, <1>6, <1>11, <1>12, <2>1, <2>2
  <1>13. CASE k.status = "pending" /\ inst'[i] = k /\ Pipe'[i].dwState = Pipe[i].dwState
    <2>1. Improper(i)' <=> Improper(i)
      BY <1>1, <1>3, <1>13 DEF Improper
    <2> QED
      BY <1>3, <1>7, <1>11, <1>13, <2>1 DEF Unmoved
  <1>14. CASE /\ k.status \in {"zero", "failed"} /\ inst'[i].conn = "listening"
              /\ inst'[i].asked = k.asked /\ inst'[i].answered = k.answered
    BY <1>3, <1>8, <1>11, <1>14
  <1> QED
    BY <1>11, <1>12, <1>13, <1>14

-----------------------------------------------------------------------------
(* The specification                                                       *)

LEMMA InitInv ==
  ASSUME Init
  PROVE  Inv
  <1> DEFINE p == [dwState |-> "CONNECTING", fPendingIO |-> FALSE]
             k == [conn |-> "none", event |-> FALSE, op |-> "none", status |-> "ok",
                   session |-> 0, inbox |-> <<>>, outbox |-> <<>>, chRequest |-> 0,
                   asked |-> 0, answered |-> 0]
  <1>1. /\ p \in PipeType /\ p.dwState = "CONNECTING" /\ ~p.fPendingIO
    BY DEF PipeType
  <1>2. k \in InstanceType
    <2>1. <<>> \in Seq(Requests) /\ <<>> \in Seq(Nat) /\ "ok" \in Statuses
      BY DEF Statuses
    <2> QED
      BY <2>1 DEF InstanceType
  <1>3. /\ k.conn = "none" /\ ~k.event /\ k.op = "none" /\ k.status = "ok"
        /\ k.inbox = <<>> /\ k.outbox = <<>>
    OBVIOUS
  <1>4. Pipe = [i \in Instances |-> p] /\ inst = [i \in Instances |-> k] /\ cur = 1
        /\ pc = "create" /\ sessions = 0
    BY DEF Init
  <1> HIDE DEF p, k
  <1>5. TypeOK
    BY <1>1, <1>2, <1>4, ServerAssumption DEF TypeOK, PipeType, Instances
  <1>6. ASSUME NEW i \in Instances
        PROVE  Placed(i) /\ Counted(i)
    <2>1. i \in Nat /\ ~(i < 1) /\ inst[i] = k /\ Pipe[i] = p
      BY <1>4, ServerAssumption DEF Instances
    <2>2. Placed(i)
      BY <1>1, <1>3, <1>4, <2>1 DEF Placed, Absent
    <2> QED
      BY <1>3, <2>1, <2>2 DEF Counted
  <1> QED
    BY <1>4, <1>5, <1>6 DEF Inv

LEMMA StepInv ==
  ASSUME Inv, [Next]_vars
  PROVE  Inv'
  <1>1. CASE CreateInstance
    BY <1>1, CreateKeeps DEF Inv, TypeOK
  <1>2. CASE ConnectInstance
    BY <1>2, ConnectKeeps DEF Inv, TypeOK
  <1>3. ASSUME NEW i \in Instances, Wait(i) \/ NextRead(i) \/ NextWrite(i)
        PROVE  Inv'
    BY <1>3, WaitKeeps, NextReadKeeps, NextWriteKeeps
  <1>4. ASSUME NEW i \in Instances,
               \/ ClientOpens(i)
               \/ \E r \in Requests : ClientWrites(i, r)
               \/ ClientReads(i)
               \/ ClientGoesOn(i)
               \/ ClientCloses(i)
        PROVE  Inv'
    BY <1>4, OpensKeeps, WritesKeeps, ReadsKeeps, GoesOnKeeps, ClosesKeeps
  <1>5. CASE UNCHANGED vars
    BY <1>5 DEF vars, Inv, TypeOK, Placed, Counted, InHand, AtRest, Spoiled
  <1> QED
    BY <1>1, <1>2, <1>3, <1>4, <1>5 DEF Next, ServerStep, ClientStep

THEOREM Invariant == Spec => []Inv
  BY InitInv, StepInv, PTL DEF Spec

(* Every variable keeps its type.                                          *)
THEOREM TypeCorrect == Spec => []TypeOK
  <1>1. Inv => TypeOK
    BY DEF Inv
  <1> QED
    BY <1>1, Invariant, PTL

(* An event is signaled only when what it stands for is over, what is in   *)
(* flight is what dwState says, and no client stops the server.            *)
THEOREM EventsAreResults == Spec => []EventMeansDone
  <1>1. ASSUME Inv
        PROVE  EventMeansDone
    <2>1. ASSUME NEW i \in Instances
          PROVE  LET k == inst[i] IN
                 /\ k.event => k.op = "none" /\ k.status # "pending"
                 /\ k.op # "none" =>
                      /\ Pipe[i].fPendingIO
                      /\ k.op = [CONNECTING |-> "connect", READING |-> "read",
                                 WRITING |-> "write"][Pipe[i].dwState]
      <3>1. Absent(inst[i], Pipe[i]) \/ Place(inst[i], Pipe[i])
        BY <1>1, InstanceInv DEF Placed, Place, States
      <3> QED
        BY <3>1 DEF Absent, Place, Created, Resting, Working, Connecting, Reading, Writing,
                    AtOnce, Served, InFlight
    <2> QED
      BY <1>1, <2>1 DEF EventMeansDone, Inv
  <1> QED
    BY <1>1, Invariant, PTL

(* The requests of a client that stays and asks properly are in the pipe,  *)
(* in hand or answered, each once, and no client gets another's reply.     *)
THEOREM RequestsAnsweredOnce == Spec => []OneReplyEach
  <1>1. ASSUME Inv
        PROVE  OneReplyEach
    <2>1. ASSUME NEW i \in Instances
          PROVE  LET k == inst[i] IN
                 /\ k.conn = "connected" /\ k.status \in {"ok", "pending"} =>
                      k.asked = Len(k.inbox) + k.answered + IF InHand(i) THEN 1 ELSE 0
                 /\ \A n \in 1..Len(k.outbox) : k.outbox[n] = k.session
      BY <1>1 DEF Inv, Counted, Spoiled
    <2> QED
      BY <2>1 DEF OneReplyEach
  <1> QED
    BY <1>1, Invariant, PTL

-----------------------------------------------------------------------------
(* Every instance serves sessions                                          *)

LEMMA ServerServes ==
  ASSUME Inv, ServerStep, NEW j \in Instances
  PROVE  S(j)!Next \/ UNCHANGED S(j)!vars
  <1> USE DEF S!vars
  <1>0. ASSUME inst'[j] = inst[j], Pipe'[j] = Pipe[j]
        PROVE  UNCHANGED S(j)!vars
    BY <1>0 DEF Link, Improper
  <1>1. ASSUME NEW i \in Instances, i = cur, CreateInstance
        PROVE  UNCHANGED S(j)!vars
    <2>1. CASE j = i
      BY <1>1, <2>1, CreateKeeps DEF Link, Improper
    <2> QED
      BY <1>0, <1>1, <2>1, CreateKeeps
  <1>2. ASSUME NEW i \in Instances, i = cur, ConnectInstance
        PROVE  UNCHANGED S(j)!vars
    <2>1. CASE j = i
      BY <1>2, <2>1, ConnectKeeps DEF Link, Improper, Created
    <2> QED
      BY <1>0, <1>2, <2>1, ConnectKeeps
  (* An instance that is hung up on, or on which nothing is done that its  *)
  (* client could see.                                                     *)
  <1>3. ASSUME NEW i \in Instances,
               /\ inst'[i].asked = inst[i].asked /\ inst'[i].answered = inst[i].answered
               /\ \A l \in Instances \ {i} : inst'[l] = inst[l] /\ Pipe'[l] = Pipe[l]
               /\ \/ inst'[i].conn = inst[i].conn /\ (Improper(i)' <=> Improper(i))
                  \/ /\ inst'[i].conn = "listening" /\ Served(inst[i])
                     /\ inst[i].conn = "connected" => Improper(i)
        PROVE  S(j)!Next \/ UNCHANGED S(j)!vars
    <2>1. CASE j = i /\ inst'[i].conn = inst[i].conn /\ (Improper(i)' <=> Improper(i))
      <3>1. Improper(i)' = Improper(i)
        BY <2>1 DEF Improper
      <3> QED
        BY <1>3, <2>1, <3>1 DEF Link
    <2>2. CASE /\ j = i /\ inst'[i].conn = "listening" /\ Served(inst[i])
               /\ inst[i].conn = "connected" => Improper(i)
      <3>1. ~Improper(i)'
        BY <2>2 DEF Improper
      <3>2. /\ Link(i)' = "free" /\ Link(i) \in {"open", "left"}
            /\ Link(i) = "open" => Improper(i)
        BY <2>2 DEF Link, Served
      <3>3. S(i)!HangUp
        BY <1>3, <3>1, <3>2 DEF S!HangUp
      <3> QED
        BY <2>2, <3>3 DEF S!Next
    <2> QED
      BY <1>0, <1>3, <2>1, <2>2
  <1>4. ASSUME NEW i \in Instances, Wait(i)
        PROVE  S(j)!Next \/ UNCHANGED S(j)!vars
    <2>1. /\ inst'[i].asked = inst[i].asked /\ inst'[i].answered = inst[i].answered
          /\ \A l \in Instances \ {i} : inst'[l] = inst[l] /\ Pipe'[l] = Pipe[l]
          /\ \/ inst'[i].conn = inst[i].conn /\ (Improper(i)' <=> Improper(i))
             \/ /\ inst'[i].conn = "listening" /\ Served(inst[i])
                /\ inst[i].conn = "connected" => Improper(i)
      BY <1>4, WaitKeeps
    <2> QED
      BY <1>3, <2>1
  <1>5. ASSUME NEW i \in Instances, NextRead(i)
        PROVE  S(j)!Next \/ UNCHANGED S(j)!vars
    <2>1. /\ inst'[i].asked = inst[i].asked /\ inst'[i].answered = inst[i].answered
          /\ \A l \in Instances \ {i} : inst'[l] = inst[l] /\ Pipe'[l] = Pipe[l]
          /\ \/ inst'[i].conn = inst[i].conn /\ (Improper(i)' <=> Improper(i))
             \/ /\ inst'[i].conn = "listening" /\ Served(inst[i])
                /\ inst[i].conn = "connected" => Improper(i)
      BY <1>5, NextReadKeeps
    <2> QED
      BY <1>3, <2>1
  <1>6. ASSUME NEW i \in Instances, NextWrite(i)
        PROVE  S(j)!Next \/ UNCHANGED S(j)!vars
    <2>1. /\ inst'[i].asked = inst[i].asked
          /\ \A l \in Instances \ {i} : inst'[l] = inst[l] /\ Pipe'[l] = Pipe[l]
      BY <1>6, NextWriteKeeps
    <2>2. CASE /\ inst'[i].conn = "connected" /\ inst[i].conn = "connected"
               /\ (Improper(i)' <=> Improper(i))
               /\ inst[i].answered < inst[i].asked
               /\ inst'[i].answered = inst[i].answered + 1
      <3>1. S(i)!Answer
        <4>1. Improper(i)' = Improper(i)
          BY <2>2 DEF Improper
        <4> QED
          BY <2>1, <2>2, <4>1 DEF S!Answer, Link
      <3>2. CASE j = i
        BY <3>1, <3>2 DEF S!Next
      <3> QED
        BY <1>0, <2>1, <3>2
    <2>3. CASE \/ /\ inst'[i].conn = inst[i].conn /\ (Improper(i)' <=> Improper(i))
                  /\ inst'[i].answered = inst[i].answered
               \/ /\ inst'[i].conn = "listening" /\ inst[i].conn = "orphaned"
                  /\ inst'[i].answered = inst[i].answered
      <3>1. \/ inst'[i].conn = inst[i].conn /\ (Improper(i)' <=> Improper(i))
            \/ /\ inst'[i].conn = "listening" /\ Served(inst[i])
               /\ inst[i].conn = "connected" => Improper(i)
        BY <2>3 DEF Served
      <3>2. inst'[i].answered = inst[i].answered
        BY <2>3
      <3> QED
        BY <1>3, <2>1, <3>1, <3>2
    <2> QED
      BY <1>6, <2>2, <2>3, NextWriteKeeps
  <1>7. cur \in Instances
    BY DEF Inv, TypeOK
  <1> QED
    BY <1>1, <1>2, <1>4, <1>5, <1>6, <1>7 DEF ServerStep

LEMMA ClientServed ==
  ASSUME Inv, ClientStep, NEW j \in Instances
  PROVE  S(j)!Next \/ UNCHANGED S(j)!vars
  <1> USE DEF S!vars
  <1>0. ASSUME NEW i \in Instances, NEW k, Client(i, k), j # i
        PROVE  UNCHANGED S(j)!vars
    <2>1. inst'[j] = inst[j] /\ Pipe'[j] = Pipe[j]
      BY <1>0 DEF Client, Inv, TypeOK
    <2> QED
      BY <2>1 DEF Link, Improper
  <1>1. ASSUME ClientOpens(j)
        PROVE  S(j)!Next
    <2>1. ~Improper(j)'
      <3>1. /\ inst'[j].inbox = <<>> /\ Pipe'[j].dwState = "CONNECTING"
        BY <1>1, OpensKeeps
      <3> QED
        BY <3>1 DEF Improper
    <2>2. S(j)!Open
      BY <1>1, <2>1, OpensKeeps DEF S!Open, Link
    <2> QED
      BY <2>2 DEF S!Next
  <1>2. ASSUME NEW r \in Requests, ClientWrites(j, r)
        PROVE  S(j)!Next
    <2>1. S(j)!Ask
      BY <1>2, WritesKeeps DEF S!Ask, Link
    <2> QED
      BY <2>1 DEF S!Next
  <1>3. ASSUME ClientReads(j)
        PROVE  S(j)!Next \/ UNCHANGED S(j)!vars
    <2>1. /\ inst'[j].conn = inst[j].conn /\ inst'[j].inbox = inst[j].inbox
          /\ inst'[j].asked = inst[j].asked /\ Pipe'[j] = Pipe[j]
          /\ \/ inst'[j].answered = inst[j].answered /\ inst'[j].status = inst[j].status
             \/ /\ inst[j].conn = "connected" /\ Pipe[j].dwState = "WRITING"
                /\ inst'[j].answered = inst[j].answered + 1
                /\ inst[j].answered < inst[j].asked
      BY <1>3, ReadsKeeps
    <2>2. CASE inst'[j].answered = inst[j].answered /\ inst'[j].status = inst[j].status
      BY <2>1, <2>2 DEF Link, Improper
    <2>3. CASE /\ inst[j].conn = "connected" /\ Pipe[j].dwState = "WRITING"
               /\ inst'[j].answered = inst[j].answered + 1
               /\ inst[j].answered < inst[j].asked
      <3>1. Improper(j)' = Improper(j)
        BY <2>1, <2>3 DEF Improper
      <3>2. S(j)!Answer
        BY <2>1, <2>3, <3>1 DEF S!Answer, Link
      <3> QED
        BY <3>2 DEF S!Next
    <2> QED
      BY <2>1, <2>2, <2>3
  <1>4. ASSUME ClientCloses(j)
        PROVE  S(j)!Next
    <2>1. /\ inst[j].conn = "connected" /\ inst'[j].conn = "orphaned"
          /\ inst'[j].asked = inst[j].asked /\ inst'[j].answered = inst[j].answered
      BY <1>4, ClosesKeeps
    <2>2. ~Improper(j)'
      BY <2>1 DEF Improper
    <2>3. S(j)!Leave
      BY <2>1, <2>2 DEF S!Leave, Link
    <2> QED
      BY <2>3 DEF S!Next
  <1>5. ASSUME ClientGoesOn(j)
        PROVE  S(j)!Next
    <2>1. S(j)!GoOn
      BY <1>5, GoesOnKeeps DEF S!GoOn, Link, Improper
    <2> QED
      BY <2>1 DEF S!Next
  <1>6. ASSUME NEW i \in Instances, j # i,
               \/ ClientOpens(i)
               \/ \E r \in Requests : ClientWrites(i, r)
               \/ ClientReads(i)
               \/ ClientGoesOn(i)
               \/ ClientCloses(i)
        PROVE  UNCHANGED S(j)!vars
    <2>1. \E k : Client(i, k)
      BY <1>6 DEF ClientOpens, ClientWrites, ClientReads, ClientGoesOn, ClientCloses
    <2> QED
      BY <1>0, <1>6, <2>1
  <1>7. PICK i \in Instances :
          \/ ClientOpens(i)
          \/ \E r \in Requests : ClientWrites(i, r)
          \/ ClientReads(i)
          \/ ClientGoesOn(i)
          \/ ClientCloses(i)
    BY DEF ClientStep
  <1> QED
    BY <1>1, <1>2, <1>3, <1>4, <1>5, <1>6, <1>7

(* Every instance serves sessions: no reply comes without a request, and   *)
(* no client is hung up on that has not left or asked improperly.          *)
THEOREM ServesSessions == Spec => Sessions
  <1>1. Init => \A i \in Instances : S(i)!Init
    BY DEF Init, S!Init, Link, Improper
  <1>2. ASSUME Inv, [Next]_vars
        PROVE  [\A i \in Instances : S(i)!Next \/ UNCHANGED S(i)!vars]_vars
    <2>1. CASE Next
      BY <1>2, <2>1, ServerServes, ClientServed DEF Next
    <2> QED
      BY <1>2, <2>1
  <1> QED
    BY <1>1, <1>2, Invariant, PTL DEF Spec, Sessions
=============================================================================
