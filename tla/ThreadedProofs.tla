----------------------------- MODULE ThreadedProofs ---------------------------
(***************************************************************************)
(* Theorems about ThreadedServer and PipeClient, for every number of       *)
(* clients, of requests and of messages, and for every quota of the pipe.  *)
(***************************************************************************)
EXTENDS PipeClient, SequenceFacts

(* While the process runs: the main loop has the instance created last     *)
(* until it has given it to a thread or closed it, the instances before it *)
(* are with their threads, or closed, those after it do not exist yet; and *)
(* the last one that the bound allows has no client.                       *)
Mine(i) == i = hPipe /\ pc \in {"connect", "waiting", "spawn"}

Owned(i) ==
  /\ Mine(i) => thread[i] = "none" /\ inst[i].conn \in {"listening", "connected", "orphaned"}
  /\ pc = "spawn" /\ i = hPipe => inst[i].conn # "listening"
  /\ thread[i] = "none" /\ ~Mine(i) => inst[i].conn = IF i > hPipe THEN "none" ELSE "closed"
  /\ thread[i] \in {"start", "read", "write", "flush", "disconnect", "failed"} =>
       inst[i].conn \in {"connected", "orphaned"}
  /\ thread[i] = "close" => inst[i].conn = "disconnected"
  /\ thread[i] = "exited" => inst[i].conn = "closed"
  /\ i > hPipe => thread[i] = "none"
  /\ inst[i].conn \notin {"none", "listening"} => i <= MaxClients

Ownership ==
  pc # "stopped" =>
    /\ pc \in {"connect", "waiting", "spawn"} => hPipe # 0
    /\ pc \in {"create", "spawn"} => hPipe <= MaxClients
    /\ \A i \in Instances : Owned(i)

(* Every request that was asked has been answered, is in the pipe or with  *)
(* the thread that answers it, or was given up, also after a stop.         *)
Accounted(i) ==
  /\ inst[i].answered + Len(inst[i].inbox) + (IF thread[i] = "write" THEN 1 ELSE 0)
       <= inst[i].asked
  /\ inst[i].conn \in {"none", "listening"} => inst[i].asked = 0 /\ inst[i].outbox = 0

(* The replies to the client are those it has read and those in the pipe;  *)
(* nobody else writes to its instance.                                     *)
ClientAccounted ==
  /\ cpc \in {"open", "busy"} => at = 0
  /\ cpc \in {"mode", "write", "read"} => at # 0
  /\ at = 0 => got = 0
  /\ at # 0 =>
       /\ inst[at].conn \notin {"none", "listening"}
       /\ got + inst[at].outbox <= inst[at].answered
       /\ inst[at].asked <= Messages
       /\ cpc = "mode" => inst[at].asked = 0
       /\ cpc = "write" => inst[at].asked < Messages

ServerInv == TypeOK /\ Ownership /\ \A i \in Instances : Accounted(i)

Inv == ClientTypeOK /\ ServerInv /\ ClientAccounted

-----------------------------------------------------------------------------
ThreadStates == {"none", "start", "read", "write", "flush", "disconnect", "close",
                 "exited", "failed"}

LEMMA InstanceFacts ==
  ASSUME TypeOK, NEW i \in Instances
  PROVE  /\ inst[i] \in InstanceType /\ thread[i] \in ThreadStates
         /\ inst[i].conn \in {"none", "listening", "connected", "orphaned", "disconnected",
                              "closed"}
         /\ inst[i].inbox \in Seq(Requests) /\ inst[i].outbox \in 0..Quota
         /\ inst[i].asked \in Nat /\ inst[i].answered \in Nat
         /\ Len(inst[i].inbox) \in Nat
         /\ i \in Nat \ {0} /\ i <= MaxClients + 1
         /\ Len(inst[i].inbox) = 0 <=> inst[i].inbox = <<>>
  <1>1. inst[i] \in InstanceType /\ thread[i] \in ThreadStates
    BY DEF TypeOK, ThreadStates
  <1>2. /\ inst[i].conn \in {"none", "listening", "connected", "orphaned", "disconnected",
                             "closed"}
        /\ inst[i].inbox \in Seq(Requests) /\ inst[i].outbox \in 0..Quota
        /\ inst[i].asked \in Nat /\ inst[i].answered \in Nat
    BY <1>1 DEF InstanceType
  <1>3. i \in Nat \ {0} /\ i <= MaxClients + 1
    BY ThreadedAssumption DEF Instances
  <1> QED
    BY <1>1, <1>2, <1>3, SeqFacts

LEMMA Answering ==
  ASSUME NEW k \in InstanceType
  PROVE  LET l == [k EXCEPT !.outbox = @ + 1, !.answered = @ + 1] IN
         /\ l.conn = k.conn /\ l.inbox = k.inbox /\ l.asked = k.asked
         /\ l.outbox = k.outbox + 1 /\ l.answered = k.answered + 1
  BY DEF InstanceType

(* A step of one instance and its thread keeps the invariant when it does  *)
(* so for that instance.                                                   *)
LEMMA OneInstance ==
  ASSUME ServerInv, NEW i \in Instances, NEW k \in InstanceType, NEW t \in ThreadStates,
         inst' = [inst EXCEPT ![i] = k], thread' = [thread EXCEPT ![i] = t],
         UNCHANGED <<pc, hPipe>>,
         pc # "stopped" => Owned(i)',
         Accounted(i)'
  PROVE  ServerInv'
  <1>1. TypeOK'
    BY DEF ServerInv, TypeOK, ThreadStates
  <1>2. \A j \in Instances \ {i} : inst'[j] = inst[j] /\ thread'[j] = thread[j]
    BY DEF ServerInv, TypeOK
  <1>3. Ownership'
    <2>1. ASSUME pc # "stopped", NEW j \in Instances \ {i}
          PROVE  Owned(j)'
      BY <1>2, <2>1 DEF ServerInv, Ownership, Owned, Mine
    <2> QED
      BY <2>1 DEF ServerInv, Ownership
  <1>4. \A j \in Instances : Accounted(j)'
    BY <1>2 DEF ServerInv, Accounted
  <1> QED
    BY <1>1, <1>3, <1>4 DEF ServerInv

-----------------------------------------------------------------------------
(* What a client does                                                      *)

LEMMA OpensKeeps ==
  ASSUME ServerInv, NEW i \in Instances, ClientOpens(i)
  PROVE  ServerInv'
  <1> DEFINE k == [inst[i] EXCEPT !.conn = "connected"]
  <1>1. k \in InstanceType /\ inst[i] \in InstanceType
    BY InstanceFacts DEF ServerInv, InstanceType
  <1>2. inst'[i] = k /\ thread' = [thread EXCEPT ![i] = thread[i]] /\ thread'[i] = thread[i]
    BY DEF ClientOpens, Update, ServerInv, TypeOK
  <1>3. /\ k.conn = "connected" /\ k.inbox = inst[i].inbox
        /\ k.asked = inst[i].asked /\ k.answered = inst[i].answered
    BY <1>1 DEF InstanceType
  <1>4. pc # "stopped" => Owned(i)'
    BY <1>2, <1>3, InstanceFacts DEF ServerInv, Ownership, Owned, Mine, ClientOpens
  <1>5. Accounted(i)'
    BY <1>2, <1>3 DEF ServerInv, Accounted
  <1> QED
    BY <1>1, <1>2, <1>4, <1>5, InstanceFacts, OneInstance DEF ServerInv, ClientOpens, Update

LEMMA WritesKeeps ==
  ASSUME ServerInv, NEW i \in Instances, NEW r \in Requests, ClientWrites(i, r)
  PROVE  ServerInv'
  <1> DEFINE k == [inst[i] EXCEPT !.inbox = Append(@, r), !.asked = @ + 1]
  <1>0. /\ Append(inst[i].inbox, r) \in Seq(Requests)
        /\ Len(Append(inst[i].inbox, r)) = Len(inst[i].inbox) + 1
        /\ inst[i].asked + 1 \in Nat
    BY InstanceFacts, SeqFacts DEF ServerInv
  <1>1. k \in InstanceType /\ inst[i] \in InstanceType
    BY <1>0, InstanceFacts, ZenonT(30) DEF ServerInv, InstanceType
  <1>2. inst'[i] = k /\ thread' = [thread EXCEPT ![i] = thread[i]] /\ thread'[i] = thread[i]
    BY DEF ClientWrites, Update, ServerInv, TypeOK
  <1>3. /\ k.conn = inst[i].conn /\ k.inbox = Append(inst[i].inbox, r)
        /\ k.asked = inst[i].asked + 1 /\ k.answered = inst[i].answered
    BY <1>1 DEF InstanceType
  <1>4. pc # "stopped" => Owned(i)'
    BY <1>2, <1>3 DEF ServerInv, Ownership, Owned, Mine, ClientWrites
  <1>5. Accounted(i)'
    <2>1. /\ inst[i].answered \in Nat /\ Len(inst[i].inbox) \in Nat /\ inst[i].asked \in Nat
          /\ inst[i].conn = "connected" /\ Accounted(i)
      BY InstanceFacts DEF ServerInv, ClientWrites
    <2>2. /\ inst'[i].answered = inst[i].answered /\ inst'[i].asked = inst[i].asked + 1
          /\ Len(inst'[i].inbox) = Len(inst[i].inbox) + 1 /\ inst'[i].conn = "connected"
          /\ thread'[i] = thread[i]
      BY <1>0, <1>2, <1>3, <2>1
    <2> QED
      BY <2>1, <2>2 DEF Accounted
  <1> QED
    BY <1>1, <1>2, <1>4, <1>5, InstanceFacts, OneInstance DEF ServerInv, ClientWrites, Update

LEMMA ReadsKeeps ==
  ASSUME ServerInv, NEW i \in Instances, ClientReads(i)
  PROVE  ServerInv'
  <1> DEFINE k == [inst[i] EXCEPT !.outbox = @ - 1]
  <1>0. inst[i].outbox - 1 \in 0..Quota
    BY InstanceFacts, ThreadedAssumption DEF ServerInv, ClientReads
  <1>1. k \in InstanceType /\ inst[i] \in InstanceType
    BY <1>0, InstanceFacts, ZenonT(30) DEF ServerInv, InstanceType
  <1>2. inst'[i] = k /\ thread' = [thread EXCEPT ![i] = thread[i]] /\ thread'[i] = thread[i]
    BY DEF ClientReads, Update, ServerInv, TypeOK
  <1>3. /\ k.conn = inst[i].conn /\ k.inbox = inst[i].inbox
        /\ k.asked = inst[i].asked /\ k.answered = inst[i].answered
    BY <1>1 DEF InstanceType
  <1>4. pc # "stopped" => Owned(i)'
    BY <1>2, <1>3 DEF ServerInv, Ownership, Owned, Mine, ClientReads
  <1>5. Accounted(i)'
    BY <1>2, <1>3 DEF ServerInv, Accounted, ClientReads
  <1> QED
    BY <1>1, <1>2, <1>4, <1>5, InstanceFacts, OneInstance DEF ServerInv, ClientReads, Update

LEMMA ClosesKeeps ==
  ASSUME ServerInv, NEW i \in Instances, ClientCloses(i)
  PROVE  ServerInv'
  <1> DEFINE k == [inst[i] EXCEPT !.conn = "orphaned", !.outbox = 0]
  <1>0. 0 \in 0..Quota
    BY ThreadedAssumption
  <1>1. k \in InstanceType /\ inst[i] \in InstanceType
    BY <1>0, InstanceFacts, ZenonT(30) DEF ServerInv, InstanceType
  <1>2. inst'[i] = k /\ thread' = [thread EXCEPT ![i] = thread[i]] /\ thread'[i] = thread[i]
    BY DEF ClientCloses, Update, ServerInv, TypeOK
  <1>3. /\ k.conn = "orphaned" /\ k.inbox = inst[i].inbox
        /\ k.asked = inst[i].asked /\ k.answered = inst[i].answered
    BY <1>1 DEF InstanceType
  <1>4. pc # "stopped" => Owned(i)'
    BY <1>2, <1>3 DEF ServerInv, Ownership, Owned, Mine, ClientCloses
  <1>5. Accounted(i)'
    BY <1>2, <1>3 DEF ServerInv, Accounted
  <1> QED
    BY <1>1, <1>2, <1>4, <1>5, InstanceFacts, OneInstance DEF ServerInv, ClientCloses, Update

LEMMA ClientKeeps ==
  ASSUME ServerInv, NEW i \in Instances, Client(i)
  PROVE  ServerInv'
  BY OpensKeeps, WritesKeeps, ReadsKeeps, ClosesKeeps DEF Client

-----------------------------------------------------------------------------
(* What a thread does with its instance                                    *)

LEMMA StartKeeps ==
  ASSUME ServerInv, NEW i \in Instances, pc # "stopped", Start(i), UNCHANGED <<pc, hPipe>>
  PROVE  ServerInv'
  <1>1. PICK t \in {"read", "failed"} : ThreadGoes(i, "start", t)
    BY DEF Start
  <1>2. /\ inst' = [inst EXCEPT ![i] = inst[i]] /\ inst'[i] = inst[i]
        /\ thread' = [thread EXCEPT ![i] = t] /\ thread'[i] = t /\ t \in ThreadStates
        /\ thread[i] = "start"
    BY <1>1 DEF Start, ThreadGoes, ServerInv, TypeOK, ThreadStates
  <1>3. Owned(i)'
    BY <1>2 DEF ServerInv, Ownership, Owned, Mine
  <1>4. Accounted(i)'
    BY <1>2 DEF ServerInv, Accounted
  <1> QED
    BY <1>2, <1>3, <1>4, InstanceFacts, OneInstance DEF ServerInv

LEMMA ReadFileKeeps ==
  ASSUME ServerInv, NEW i \in Instances, pc # "stopped", ReadFile(i), UNCHANGED <<pc, hPipe>>
  PROVE  ServerInv'
  <1>1. CASE inst[i].inbox # <<>>
    <2> DEFINE k == [inst[i] EXCEPT !.inbox = Tail(@)]
               t == IF Head(inst[i].inbox) = "fits" THEN "write" ELSE "flush"
    <2>1. /\ Tail(inst[i].inbox) \in Seq(Requests)
          /\ Len(Tail(inst[i].inbox)) = Len(inst[i].inbox) - 1
      BY <1>1, InstanceFacts, SeqFacts DEF ServerInv
    <2>0. inst[i] \in InstanceType /\ t \in ThreadStates
      BY InstanceFacts DEF ServerInv, ThreadStates
    <2>2. k \in InstanceType
      BY <2>0, <2>1 DEF InstanceType
    <2>3. /\ inst' = [inst EXCEPT ![i] = k] /\ inst'[i] = k
          /\ thread' = [thread EXCEPT ![i] = t] /\ thread'[i] = t /\ thread[i] = "read"
      BY <1>1 DEF ReadFile, ThreadGoes, Update, ServerInv, TypeOK
    <2>4. /\ inst'[i].conn = inst[i].conn /\ inst'[i].inbox = Tail(inst[i].inbox)
          /\ inst'[i].outbox = inst[i].outbox
          /\ inst'[i].asked = inst[i].asked /\ inst'[i].answered = inst[i].answered
      BY <2>0, <2>3, ZenonT(30) DEF InstanceType
    <2>5. Owned(i)'
      BY <2>3, <2>4 DEF ServerInv, Ownership, Owned, Mine
    <2>6. Accounted(i)'
      <3>1. /\ inst[i].answered \in Nat /\ Len(inst[i].inbox) \in Nat /\ inst[i].asked \in Nat
            /\ Accounted(i) /\ Len(inst'[i].inbox) = Len(inst[i].inbox) - 1
        BY <2>1, <2>4, InstanceFacts DEF ServerInv
      <3>2. thread[i] = "read" /\ thread'[i] \in {"write", "flush"}
        BY <2>3
      <3> QED
        BY <2>4, <3>1, <3>2, SMTT(30) DEF Accounted
    <2> QED
      BY <2>0, <2>2, <2>3, <2>5, <2>6, OneInstance
  <1>2. CASE inst[i].inbox = <<>>
    <2>1. /\ inst' = [inst EXCEPT ![i] = inst[i]] /\ inst'[i] = inst[i]
          /\ thread' = [thread EXCEPT ![i] = "flush"] /\ thread'[i] = "flush"
          /\ thread[i] = "read" /\ "flush" \in ThreadStates
      BY <1>2 DEF ReadFile, ThreadGoes, ServerInv, TypeOK, ThreadStates
    <2>2. Owned(i)'
      BY <2>1 DEF ServerInv, Ownership, Owned, Mine
    <2>3. Accounted(i)'
      BY <2>1 DEF ServerInv, Accounted
    <2> QED
      BY <2>1, <2>2, <2>3, InstanceFacts, OneInstance DEF ServerInv
  <1> QED
    BY <1>1, <1>2

LEMMA WriteFileKeeps ==
  ASSUME ServerInv, NEW i \in Instances, pc # "stopped", WriteFile(i), UNCHANGED <<pc, hPipe>>
  PROVE  ServerInv'
  <1>1. CASE inst[i].conn = "connected"
    <2> DEFINE k == [inst[i] EXCEPT !.outbox = @ + 1, !.answered = @ + 1]
    <2>1. inst[i].outbox + 1 \in 0..Quota /\ inst[i].answered + 1 \in Nat
      BY <1>1, InstanceFacts, ThreadedAssumption DEF ServerInv, WriteFile
    <2>0. inst[i] \in InstanceType /\ "read" \in ThreadStates
      BY InstanceFacts DEF ServerInv, ThreadStates
    <2>2. k \in InstanceType
      BY <2>0, <2>1 DEF InstanceType
    <2>3. /\ inst' = [inst EXCEPT ![i] = k] /\ inst'[i] = k
          /\ thread' = [thread EXCEPT ![i] = "read"] /\ thread'[i] = "read"
          /\ thread[i] = "write"
      BY <1>1 DEF WriteFile, ThreadGoes, Update, ServerInv, TypeOK
    <2>4. /\ inst'[i].conn = inst[i].conn /\ inst'[i].inbox = inst[i].inbox
          /\ inst'[i].asked = inst[i].asked /\ inst'[i].answered = inst[i].answered + 1
      BY <2>0, <2>3, ZenonT(30) DEF InstanceType
    <2>5. Owned(i)'
      BY <2>3, <2>4 DEF ServerInv, Ownership, Owned, Mine
    <2>6. Accounted(i)'
      <3>1. /\ inst[i].answered \in Nat /\ Len(inst[i].inbox) \in Nat /\ inst[i].asked \in Nat
            /\ Accounted(i)
        BY InstanceFacts DEF ServerInv
      <3>2. thread[i] = "write" /\ thread'[i] = "read"
        BY <2>3
      <3> QED
        BY <2>4, <3>1, <3>2, <1>1 DEF Accounted
    <2> QED
      BY <2>0, <2>2, <2>3, <2>5, <2>6, OneInstance
  <1>2. CASE inst[i].conn # "connected"
    <2>1. /\ inst' = [inst EXCEPT ![i] = inst[i]] /\ inst'[i] = inst[i]
          /\ thread' = [thread EXCEPT ![i] = "flush"] /\ thread'[i] = "flush"
          /\ thread[i] = "write" /\ "flush" \in ThreadStates
      BY <1>2 DEF WriteFile, ThreadGoes, ServerInv, TypeOK, ThreadStates
    <2>2. Owned(i)'
      BY <2>1 DEF ServerInv, Ownership, Owned, Mine
    <2>3. Accounted(i)'
      BY <2>1, InstanceFacts DEF ServerInv, Accounted
    <2> QED
      BY <2>1, <2>2, <2>3, InstanceFacts, OneInstance DEF ServerInv
  <1> QED
    BY <1>1, <1>2

LEMMA FlushKeeps ==
  ASSUME ServerInv, NEW i \in Instances, pc # "stopped", FlushFileBuffers(i),
         UNCHANGED <<pc, hPipe>>
  PROVE  ServerInv'
  <1>1. /\ inst' = [inst EXCEPT ![i] = inst[i]] /\ inst'[i] = inst[i]
        /\ thread' = [thread EXCEPT ![i] = "disconnect"] /\ thread'[i] = "disconnect"
        /\ thread[i] = "flush" /\ "disconnect" \in ThreadStates
    BY DEF FlushFileBuffers, ThreadGoes, ServerInv, TypeOK, ThreadStates
  <1>2. Owned(i)'
    BY <1>1 DEF ServerInv, Ownership, Owned, Mine
  <1>3. Accounted(i)'
    BY <1>1 DEF ServerInv, Accounted
  <1> QED
    BY <1>1, <1>2, <1>3, InstanceFacts, OneInstance DEF ServerInv

LEMMA DisconnectKeeps ==
  ASSUME ServerInv, NEW i \in Instances, pc # "stopped", DisconnectAndClose(i),
         UNCHANGED <<pc, hPipe>>
  PROVE  ServerInv'
  <1>0. <<>> \in Seq(Requests) /\ Len(<<>>) = 0 /\ 0 \in 0..Quota
    BY EmptySeq, ThreadedAssumption
  <1>1. CASE thread[i] = "disconnect"
    <2> DEFINE k == [inst[i] EXCEPT !.conn = "disconnected", !.inbox = <<>>, !.outbox = 0]
    <2>0. inst[i] \in InstanceType /\ "close" \in ThreadStates
      BY InstanceFacts DEF ServerInv, ThreadStates
    <2>1. k \in InstanceType
      BY <1>0, <2>0 DEF InstanceType
    <2>2. /\ inst' = [inst EXCEPT ![i] = k] /\ inst'[i] = k
          /\ thread' = [thread EXCEPT ![i] = "close"] /\ thread'[i] = "close"
      BY <1>1 DEF DisconnectAndClose, ThreadGoes, Update, ServerInv, TypeOK
    <2>3. /\ inst'[i].conn = "disconnected" /\ inst'[i].inbox = <<>>
          /\ inst'[i].asked = inst[i].asked /\ inst'[i].answered = inst[i].answered
      BY <2>0, <2>2, ZenonT(30) DEF InstanceType
    <2>4. Owned(i)'
      BY <1>1, <2>2, <2>3 DEF ServerInv, Ownership, Owned, Mine
    <2>5. Accounted(i)'
      BY <1>0, <1>1, <2>2, <2>3, InstanceFacts DEF ServerInv, Accounted
    <2> QED
      BY <2>0, <2>1, <2>2, <2>4, <2>5, OneInstance
  <1>2. CASE thread[i] # "disconnect"
    <2> DEFINE k == [inst[i] EXCEPT !.conn = "closed"]
    <2>1. k \in InstanceType /\ inst[i] \in InstanceType /\ "exited" \in ThreadStates
      BY InstanceFacts DEF ServerInv, InstanceType, ThreadStates
    <2>2. /\ inst' = [inst EXCEPT ![i] = k] /\ inst'[i] = k /\ thread[i] = "close"
          /\ thread' = [thread EXCEPT ![i] = "exited"] /\ thread'[i] = "exited"
      BY <1>2 DEF DisconnectAndClose, ThreadGoes, Update, ServerInv, TypeOK
    <2>3. /\ inst'[i].conn = "closed" /\ inst'[i].inbox = inst[i].inbox
          /\ inst'[i].asked = inst[i].asked /\ inst'[i].answered = inst[i].answered
      BY <2>1, <2>2 DEF InstanceType
    <2>4. Owned(i)'
      BY <2>2, <2>3 DEF ServerInv, Ownership, Owned, Mine
    <2>5. Accounted(i)'
      BY <2>2, <2>3 DEF ServerInv, Accounted
    <2> QED
      BY <2>1, <2>2, <2>4, <2>5, OneInstance
  <1> QED
    BY <1>1, <1>2

LEMMA ThreadKeeps ==
  ASSUME ServerInv, NEW i \in Instances, InstanceThread(i)
  PROVE  ServerInv'
  BY StartKeeps, ReadFileKeeps, WriteFileKeeps, FlushKeeps, DisconnectKeeps DEF InstanceThread

-----------------------------------------------------------------------------
(* The main loop                                                           *)

LEMMA CreateKeeps == ServerInv /\ CreateNamedPipe => ServerInv'
  <1> SUFFICES ASSUME ServerInv, CreateNamedPipe
               PROVE  ServerInv'
    OBVIOUS
  <1>0. hPipe \in Nat /\ hPipe + 1 \in Instances
    BY ThreadedAssumption DEF ServerInv, TypeOK, Ownership, CreateNamedPipe, MainGoes, Instances
  <1>p. PICK n \in Instances : n = hPipe + 1
    BY <1>0
  <1> DEFINE k == [inst[n] EXCEPT !.conn = "listening"]
  <1>1. hPipe \in Nat /\ n \in Nat /\ n > hPipe /\ hPipe' = n
    BY <1>0, <1>p DEF CreateNamedPipe
  <1>2. inst[n] \in InstanceType
    BY <1>1, InstanceFacts DEF ServerInv
  <1>3. k \in InstanceType
    BY <1>2 DEF InstanceType
  <1>4. /\ inst' = [inst EXCEPT ![n] = k] /\ inst'[n] = k /\ UNCHANGED thread
        /\ pc = "create" /\ pc' = "connect"
    BY <1>p DEF CreateNamedPipe, Update, MainGoes, ServerInv, TypeOK
  <1>5. /\ inst'[n].conn = "listening" /\ inst'[n].inbox = inst[n].inbox
        /\ inst'[n].outbox = inst[n].outbox
        /\ inst'[n].asked = inst[n].asked /\ inst'[n].answered = inst[n].answered
    BY <1>2, <1>4 DEF InstanceType
  <1>6. thread[n] = "none" /\ inst[n].conn = "none"
    BY <1>1, <1>4 DEF ServerInv, Ownership, Owned, Mine
  <1>7. TypeOK'
    BY <1>1, <1>3, <1>4 DEF ServerInv, TypeOK
  <1>8. \A j \in Instances \ {n} : inst'[j] = inst[j]
    BY <1>4 DEF ServerInv, TypeOK
  <1>9. \A j \in Instances : Owned(j)'
    <2>1. Owned(n)'
      <3>1. ~(n > hPipe') /\ thread'[n] = "none" /\ Mine(n)'
        BY <1>1, <1>4, <1>6 DEF Mine
      <3> QED
        BY <1>4, <1>5, <3>1 DEF Owned
    <2>2. ASSUME NEW j \in Instances, j # n
          PROVE  Owned(j)'
      <3>0. j \in Nat
        BY InstanceFacts DEF ServerInv
      <3>1. Owned(j) /\ ~Mine(j) /\ ~Mine(j)' /\ (j > hPipe <=> j > n) /\ n # hPipe
        BY <1>p, <1>1, <1>4, <2>2, <3>0 DEF ServerInv, Ownership, Mine
      <3> QED
        BY <1>1, <1>4, <1>8, <2>2, <3>1 DEF Owned
    <2> QED
      BY <2>1, <2>2
  <1>10. Ownership'
    BY <1>1, <1>4, <1>9 DEF Ownership
  <1>11. \A j \in Instances : Accounted(j)'
    BY <1>4, <1>5, <1>6, <1>8 DEF ServerInv, Accounted
  <1> QED
    BY <1>7, <1>10, <1>11 DEF ServerInv

(* The instance of the main loop: its state and its place in the bound.    *)
LEMMA MineFacts ==
  ASSUME ServerInv, pc \in {"connect", "waiting", "spawn"}
  PROVE  /\ hPipe \in Instances /\ thread[hPipe] = "none"
         /\ inst[hPipe].conn \in {"listening", "connected", "orphaned"}
         /\ inst[hPipe].conn # "listening" => hPipe <= MaxClients
         /\ pc = "spawn" => inst[hPipe].conn # "listening"
  <1>1. hPipe \in Instances
    BY DEF ServerInv, TypeOK, Ownership
  <1>2. Owned(hPipe) /\ Mine(hPipe)
    BY <1>1 DEF ServerInv, Ownership, Mine
  <1> QED
    BY <1>1, <1>2 DEF Owned

LEMMA ConnectKeeps == ServerInv /\ (ConnectNamedPipe \/ Connected) => ServerInv'
  <1> SUFFICES ASSUME ServerInv, ConnectNamedPipe \/ Connected
               PROVE  ServerInv'
    OBVIOUS
  <1>1. pc \in {"connect", "waiting"} /\ UNCHANGED <<hPipe, thread>>
    BY DEF ConnectNamedPipe, Connected, MainGoes
  <1>2. CASE pc' # "create"
    <2>1. UNCHANGED inst
      BY <1>2 DEF ConnectNamedPipe, Connected, MainGoes
    <2>2. TypeOK'
      BY <1>1, <2>1 DEF ServerInv, TypeOK, ConnectNamedPipe, Connected, MainGoes
    <2>3. pc' = "waiting" \/ (pc' = "spawn" /\ inst[hPipe].conn # "listening")
      <3>1. CASE ConnectNamedPipe
        BY <1>2, <3>1 DEF ConnectNamedPipe, MainGoes
      <3>2. CASE Connected
        BY <3>2 DEF Connected, MainGoes
      <3> QED
        BY <3>1, <3>2
    <2>4. ASSUME NEW j \in Instances
          PROVE  Owned(j)'
      <3>1. Owned(j) /\ (Mine(j) <=> Mine(j)')
        BY <1>1, <2>3 DEF ServerInv, Ownership, Mine
      <3> QED
        BY <1>1, <2>1, <2>3, <3>1 DEF Owned
    <2>5. Ownership'
      BY <1>1, <2>3, <2>4, MineFacts DEF ServerInv, Ownership
    <2> QED
      BY <1>1, <2>1, <2>2, <2>5 DEF ServerInv, Accounted
  <1>3. CASE pc' = "create"
    <2> DEFINE k == [inst[hPipe] EXCEPT !.conn = "closed", !.inbox = <<>>]
    <2>1. hPipe \in Instances /\ thread[hPipe] = "none" /\ inst[hPipe] \in InstanceType
      BY <1>1, MineFacts, InstanceFacts DEF ServerInv
    <2>2. <<>> \in Seq(Requests) /\ Len(<<>>) = 0
      BY EmptySeq
    <2>3. k \in InstanceType
      BY <2>1, <2>2 DEF InstanceType
    <2>4. /\ inst' = [inst EXCEPT ![hPipe] = k] /\ inst'[hPipe] = k
          /\ inst[hPipe].conn = "orphaned"
      BY <1>3, <2>1 DEF ConnectNamedPipe, Connected, MainGoes, Update, ServerInv, TypeOK
    <2>5. /\ inst'[hPipe].conn = "closed" /\ inst'[hPipe].inbox = <<>>
          /\ inst'[hPipe].asked = inst[hPipe].asked
          /\ inst'[hPipe].answered = inst[hPipe].answered
      BY <2>1, <2>4, ZenonT(30) DEF InstanceType
    <2>6. TypeOK'
      BY <1>1, <1>3, <2>3, <2>4 DEF ServerInv, TypeOK
    <2>7. \A j \in Instances \ {hPipe} : inst'[j] = inst[j]
      BY <2>4 DEF ServerInv, TypeOK
    <2>8. hPipe <= MaxClients
      BY <1>1, <2>4, MineFacts
    <2>9. ASSUME NEW j \in Instances
          PROVE  Owned(j)'
      <3>1. Owned(j) /\ ~Mine(j)' /\ hPipe \in Nat
        BY <1>1, <1>3, <2>1, InstanceFacts DEF ServerInv, Ownership, Mine
      <3>2. CASE j = hPipe
        BY <1>1, <1>3, <2>1, <2>5, <2>8, <3>1, <3>2 DEF Owned
      <3>3. CASE j # hPipe
        <4>1. ~Mine(j) /\ inst'[j] = inst[j]
          BY <2>7, <3>3 DEF Mine
        <4> QED
          BY <1>1, <1>3, <3>1, <4>1 DEF Owned
      <3> QED
        BY <3>2, <3>3
    <2>10. Ownership'
      BY <1>1, <1>3, <2>8, <2>9 DEF Ownership
    <2>11. ASSUME NEW j \in Instances
           PROVE  Accounted(j)'
      <3>1. /\ inst[j].answered \in Nat /\ Len(inst[j].inbox) \in Nat /\ inst[j].asked \in Nat
            /\ Accounted(j)
        BY InstanceFacts DEF ServerInv
      <3>2. CASE j = hPipe
        <4>1. Len(inst'[j].inbox) = 0 /\ thread'[j] = "none"
          BY <1>1, <2>1, <2>2, <2>5, <3>2
        <4> QED
          BY <1>1, <2>1, <2>5, <3>1, <3>2, <4>1, SMTT(30) DEF Accounted
      <3>3. CASE j # hPipe
        BY <1>1, <2>7, <3>1, <3>3 DEF Accounted
      <3> QED
        BY <3>2, <3>3
    <2> QED
      BY <2>6, <2>10, <2>11 DEF ServerInv
  <1> QED
    BY <1>2, <1>3

LEMMA CreateThreadKeeps == ServerInv /\ CreateThread => ServerInv'
  <1> SUFFICES ASSUME ServerInv, CreateThread
               PROVE  ServerInv'
    OBVIOUS
  <1>1. /\ pc = "spawn" /\ pc' = "create" /\ UNCHANGED <<hPipe, inst>>
        /\ thread' = [thread EXCEPT ![hPipe] = "start"]
    BY DEF CreateThread, MainGoes, ThreadGoes
  <1>2. /\ hPipe \in Instances /\ hPipe <= MaxClients
        /\ inst[hPipe].conn \in {"connected", "orphaned"} /\ thread[hPipe] = "none"
    BY <1>1, MineFacts
  <1>3. TypeOK' /\ thread'[hPipe] = "start" /\ \A j \in Instances \ {hPipe} : thread'[j] = thread[j]
    BY <1>1, <1>2 DEF ServerInv, TypeOK
  <1>4. ASSUME NEW j \in Instances
        PROVE  Owned(j)'
    <2>1. Owned(j) /\ ~Mine(j)' /\ hPipe \in Nat
      BY <1>1, <1>2, InstanceFacts DEF ServerInv, Ownership, Mine
    <2>2. CASE j = hPipe
      BY <1>1, <1>2, <1>3, <2>1, <2>2 DEF Owned
    <2>3. CASE j # hPipe
      <3>1. ~Mine(j) /\ thread'[j] = thread[j]
        BY <1>3, <2>3 DEF Mine
      <3> QED
        BY <1>1, <2>1, <2>3, <3>1 DEF Owned
    <2> QED
      BY <2>2, <2>3
  <1>5. Ownership'
    BY <1>1, <1>2, <1>4 DEF Ownership
  <1>6. \A j \in Instances : Accounted(j)'
    BY <1>1, <1>2, <1>3 DEF ServerInv, Accounted
  <1> QED
    BY <1>3, <1>5, <1>6 DEF ServerInv

LEMMA StopKeeps == ServerInv /\ Stop => ServerInv'
  <1> SUFFICES ASSUME ServerInv, Stop
               PROVE  ServerInv'
    OBVIOUS
  <1>1. <<>> \in Seq(Requests) /\ Len(<<>>) = 0
    BY EmptySeq
  <1>2. ASSUME NEW j \in Instances
        PROVE  /\ inst'[j] \in InstanceType /\ inst'[j].inbox = <<>>
               /\ inst'[j].conn = IF inst[j].conn = "none" THEN "none" ELSE "closed"
               /\ inst'[j].asked = inst[j].asked /\ inst'[j].answered = inst[j].answered
               /\ inst'[j].outbox = inst[j].outbox
    <2>1. inst[j] \in InstanceType
      BY InstanceFacts DEF ServerInv
    <2>2. inst'[j] = [inst[j] EXCEPT !.conn = IF @ = "none" THEN @ ELSE "closed", !.inbox = <<>>]
      BY DEF Stop
    <2> QED
      BY <1>1, <2>1, <2>2 DEF InstanceType
  <1>3. TypeOK'
    <2>1. inst' = [j \in Instances |-> inst'[j]]
      BY DEF Stop
    <2> QED
      BY <1>2, <2>1 DEF Stop, ServerInv, TypeOK
  <1>4. ASSUME NEW j \in Instances
        PROVE  Accounted(j)'
    <2>1. /\ inst[j].answered \in Nat /\ Len(inst[j].inbox) \in Nat /\ inst[j].asked \in Nat
          /\ Accounted(j) /\ UNCHANGED thread
      BY InstanceFacts DEF ServerInv, Stop
    <2>2. /\ Len(inst'[j].inbox) = 0
          /\ inst'[j].conn \in {"none", "listening"} => inst[j].conn = "none"
      BY <1>1, <1>2
    <2> QED
      BY <1>2, <2>1, <2>2, SMTT(30) DEF Accounted
  <1>5. Ownership'
    BY DEF Stop, Ownership
  <1> QED
    BY <1>3, <1>4, <1>5 DEF ServerInv

LEMMA ServerKeeps == ServerInv /\ ServerStep => ServerInv'
  BY CreateKeeps, ConnectKeeps, CreateThreadKeeps, StopKeeps, ThreadKeeps DEF ServerStep, MainThread

(* What the server and the other clients may do to an instance that has    *)
(* had its client: no request is added to it and no reply taken from it.   *)
LEMMA OthersOnInstance ==
  ASSUME ServerInv, NEW i \in Instances, inst[i].conn \notin {"none", "listening"},
         ServerStep \/ \E j \in Instances \ {i} : Client(j)
  PROVE  /\ inst'[i].conn \notin {"none", "listening"}
         /\ inst'[i].asked = inst[i].asked
         /\ inst'[i].answered - inst[i].answered >= inst'[i].outbox - inst[i].outbox
  <1> USE DEF Update
  <1>0. /\ inst[i] \in InstanceType /\ inst[i].outbox \in Nat /\ inst[i].answered \in Nat
        /\ inst \in [Instances -> InstanceType]
    BY InstanceFacts, ThreadedAssumption DEF ServerInv, TypeOK
  <1>1. CASE inst'[i] = inst[i]
    BY <1>0, <1>1
  <1>2. ASSUME NEW j \in Instances \ {i}, Client(j) \/ InstanceThread(j)
        PROVE  inst'[i] = inst[i]
    BY <1>0, <1>2 DEF Client, ClientOpens, ClientWrites, ClientReads, ClientCloses,
         InstanceThread, Start, ReadFile, WriteFile, FlushFileBuffers, DisconnectAndClose
  <1>3. CASE InstanceThread(i) /\ inst'[i] # inst[i]
    <2>1. CASE inst' = [inst EXCEPT ![i] = [inst[i] EXCEPT !.inbox = Tail(@)]]
      BY <1>0, <2>1 DEF InstanceType
    <2>2. CASE inst' = [inst EXCEPT ![i] = [inst[i] EXCEPT !.outbox = @ + 1, !.answered = @ + 1]]
      <3>1. inst'[i] = [inst[i] EXCEPT !.outbox = @ + 1, !.answered = @ + 1]
        BY <1>0, <2>2
      <3>2. /\ inst'[i].conn = inst[i].conn /\ inst'[i].asked = inst[i].asked
            /\ inst'[i].outbox = inst[i].outbox + 1 /\ inst'[i].answered = inst[i].answered + 1
        BY <1>0, <3>1 DEF InstanceType
      <3> QED
        BY <1>0, <3>2
    <2>3. CASE inst' = [inst EXCEPT ![i] = [inst[i] EXCEPT !.conn = "disconnected", !.inbox = <<>>,
                                                           !.outbox = 0]]
      <3>1. inst'[i] = [inst[i] EXCEPT !.conn = "disconnected", !.inbox = <<>>, !.outbox = 0]
        BY <1>0, <2>3
      <3>2. /\ inst'[i].conn = "disconnected" /\ inst'[i].asked = inst[i].asked
            /\ inst'[i].outbox = 0 /\ inst'[i].answered = inst[i].answered
        BY <1>0, <3>1 DEF InstanceType
      <3> QED
        BY <1>0, <3>2
    <2>4. CASE inst' = [inst EXCEPT ![i] = [inst[i] EXCEPT !.conn = "closed"]]
      BY <1>0, <2>4 DEF InstanceType
    <2> QED
      BY <1>3, <2>1, <2>2, <2>3, <2>4 DEF InstanceThread, Start, ReadFile, WriteFile,
           FlushFileBuffers, DisconnectAndClose
  <1>4. CASE CreateNamedPipe
    <2>1. hPipe + 1 \in Instances /\ hPipe \in Nat /\ i \in Nat
      BY <1>4, ThreadedAssumption DEF ServerInv, TypeOK, Ownership, CreateNamedPipe, MainGoes, Instances
    <2>2. inst[hPipe + 1].conn = "none"
      BY <1>4, <2>1 DEF ServerInv, Ownership, Owned, Mine, CreateNamedPipe, MainGoes
    <2>3. hPipe + 1 # i
      BY <2>2
    <2>4. inst'[i] = inst[i]
      BY <1>0, <1>4, <2>3 DEF CreateNamedPipe
    <2> QED
      BY <1>1, <2>4
  <1>5. CASE ConnectNamedPipe \/ Connected
    <2>1. \/ UNCHANGED inst
          \/ inst' = [inst EXCEPT ![hPipe] = [inst[hPipe] EXCEPT !.conn = "closed", !.inbox = <<>>]]
      BY <1>5 DEF ConnectNamedPipe, Connected
    <2>2. inst'[i] = inst[i] \/ inst'[i] = [inst[i] EXCEPT !.conn = "closed", !.inbox = <<>>]
      BY <1>0, <2>1
    <2>3. CASE inst'[i] = [inst[i] EXCEPT !.conn = "closed", !.inbox = <<>>]
      <3>1. /\ inst'[i].conn = "closed" /\ inst'[i].asked = inst[i].asked
            /\ inst'[i].outbox = inst[i].outbox /\ inst'[i].answered = inst[i].answered
        BY <1>0, <2>3 DEF InstanceType
      <3> QED
        BY <1>0, <3>1
    <2> QED
      BY <1>1, <2>2, <2>3
  <1>6. CASE CreateThread
    BY <1>1, <1>6 DEF CreateThread
  <1>7. CASE Stop
    <2>1. inst'[i] = [inst[i] EXCEPT !.conn = "closed", !.inbox = <<>>]
      BY <1>7 DEF Stop
    <2> QED
      BY <1>0, <2>1 DEF InstanceType
  <1> QED
    BY <1>1, <1>2, <1>3, <1>4, <1>5, <1>6, <1>7 DEF ServerStep, MainThread

-----------------------------------------------------------------------------
(* The sample client                                                       *)

LEMMA AtFacts ==
  ASSUME Inv, at # 0
  PROVE  /\ at \in Instances
         /\ inst[at].outbox \in Nat /\ inst[at].asked \in Nat /\ inst[at].answered \in Nat
         /\ Len(inst[at].inbox) \in Nat /\ inst[at] \in InstanceType /\ got \in Nat
  BY InstanceFacts, ThreadedAssumption, ClientAssumption DEF Inv, ClientTypeOK

LEMMA EnvironmentKeeps ==
  ASSUME Inv, ServerStep \/ OtherClient, UNCHANGED clientVars
  PROVE  ServerInv' /\ ClientAccounted'
  <1>1. ServerInv'
    BY ServerKeeps, ClientKeeps DEF Inv, OtherClient
  <1>2. UNCHANGED <<at, cpc, got>>
    BY DEF clientVars
  <1>3. ASSUME at # 0
        PROVE  /\ inst'[at].conn \notin {"none", "listening"}
               /\ inst'[at].asked = inst[at].asked
               /\ inst'[at].answered - inst[at].answered >= inst'[at].outbox - inst[at].outbox
    BY <1>3, AtFacts, OthersOnInstance DEF Inv, ClientAccounted, OtherClient
  <1>4. CASE at = 0
    BY <1>1, <1>2, <1>4 DEF Inv, ClientAccounted
  <1>5. CASE at # 0
    <2>1. inst'[at].outbox \in Int /\ inst'[at].answered \in Int
      BY <1>1, <1>5, AtFacts DEF ServerInv, TypeOK, InstanceType
    <2>2. got + inst'[at].outbox <= inst'[at].answered
      BY <1>3, <1>5, <2>1, AtFacts, SMTT(30) DEF Inv, ClientAccounted
    <2> QED
      BY <1>1, <1>2, <1>3, <1>5, <2>2 DEF Inv, ClientAccounted
  <1> QED
    BY <1>1, <1>4, <1>5

LEMMA CreateFileKeeps ==
  ASSUME Inv, CreateFile
  PROVE  ServerInv' /\ ClientAccounted' /\ at' \in {0} \union Instances /\ got' \in Nat
  <1>0. cpc = "open" /\ at = 0 /\ got = 0 /\ got' = 0
    BY DEF CreateFile, Goes, Inv, ClientAccounted
  <1>1. CASE UNCHANGED <<vars, at, got>> /\ cpc' \in {"busy", "failed"}
    BY <1>0, <1>1 DEF Inv, ClientAccounted, vars, ServerInv, TypeOK, Ownership, Owned, Mine, Accounted
  <1>2. ASSUME NEW i \in Instances, ClientOpens(i), Goes("open", "mode"), at' = i, UNCHANGED got
        PROVE  ServerInv' /\ ClientAccounted' /\ at' \in Instances
    <2>1. ServerInv'
      BY <1>2, OpensKeeps DEF Inv
    <2>2. inst[i] \in InstanceType /\ inst[i].asked = 0 /\ inst[i].outbox = 0 /\ i # 0
          /\ inst[i].answered \in Nat
      BY <1>2, InstanceFacts DEF Inv, ServerInv, Accounted, ClientOpens
    <2>3. inst'[i] = [inst[i] EXCEPT !.conn = "connected"]
      BY <1>2 DEF ClientOpens, Update, Inv, ServerInv, TypeOK
    <2>4. /\ inst'[i].conn = "connected" /\ inst'[i].asked = 0 /\ inst'[i].outbox = 0
          /\ inst'[i].answered = inst[i].answered
      BY <2>2, <2>3 DEF InstanceType
    <2>5. cpc' = "mode" /\ at' = i /\ got' = 0
      BY <1>0, <1>2 DEF Goes
    <2> QED
      BY <2>1, <2>2, <2>4, <2>5, ClientAssumption DEF ClientAccounted
  <1>3. cpc' \in {"busy", "failed"} \/ cpc' = "mode"
    BY DEF CreateFile, Goes
  <1> QED
    BY <1>0, <1>1, <1>2 DEF CreateFile, Goes, Listening

LEMMA WaitKeeps ==
  ASSUME Inv, WaitNamedPipe \/ SetMode
  PROVE  ServerInv' /\ ClientAccounted' /\ UNCHANGED <<at, got>>
  <1>1. UNCHANGED <<pc, hPipe, thread, inst, at, got>>
    BY DEF WaitNamedPipe, SetMode, vars
  <1>2. ServerInv'
    BY <1>1 DEF Inv, ServerInv, TypeOK, Ownership, Owned, Mine, Accounted
  <1>3. CASE WaitNamedPipe
    BY <1>1, <1>2, <1>3 DEF WaitNamedPipe, Goes, Inv, ClientAccounted
  <1>4. CASE SetMode
    BY <1>1, <1>2, <1>4, ClientAssumption DEF SetMode, Goes, Inv, ClientAccounted
  <1> QED
    BY <1>1, <1>2, <1>3, <1>4

LEMMA WriteKeeps ==
  ASSUME Inv, Write
  PROVE  ServerInv' /\ ClientAccounted' /\ UNCHANGED <<at, got>>
  <1>1. cpc = "write" /\ at # 0 /\ UNCHANGED <<at, got>> /\ at \in Instances
    BY AtFacts DEF Write, Goes, Inv, ClientAccounted
  <1>2. CASE UNCHANGED vars
    <2>1. UNCHANGED <<pc, hPipe, thread, inst>> /\ cpc' = "failed"
      <3>1. CASE ClientWrites(at, "fits")
        <4>1. inst'[at].asked = inst[at].asked + 1
          BY <1>1, <3>1, AtFacts DEF ClientWrites, Update, Inv, ServerInv, TypeOK, InstanceType
        <4> QED
          BY <1>1, <1>2, <4>1, AtFacts DEF vars
      <3> QED
        BY <1>2, <3>1 DEF Write, Goes, vars
    <2>2. ServerInv'
      BY <2>1 DEF Inv, ServerInv, TypeOK, Ownership, Owned, Mine, Accounted
    <2> QED
      BY <1>1, <2>1, <2>2 DEF Inv, ClientAccounted
  <1>3. CASE ClientWrites(at, "fits") /\ cpc' = IF inst[at].asked + 1 = Messages THEN "read" ELSE "write"
    <2>1. ServerInv'
      BY <1>1, <1>3, WritesKeeps DEF Inv, Requests
    <2>2. inst'[at] = [inst[at] EXCEPT !.inbox = Append(@, "fits"), !.asked = @ + 1]
      BY <1>1, <1>3 DEF ClientWrites, Update, Inv, ServerInv, TypeOK
    <2>3. /\ inst'[at].conn = inst[at].conn /\ inst'[at].asked = inst[at].asked + 1
          /\ inst'[at].outbox = inst[at].outbox /\ inst'[at].answered = inst[at].answered
      BY <1>1, <2>2, AtFacts DEF InstanceType
    <2>4. inst[at].asked \in Nat /\ inst[at].asked < Messages
      BY <1>1, AtFacts DEF Inv, ClientAccounted
    <2>5. inst'[at].asked <= Messages /\ (cpc' = "write" => inst'[at].asked < Messages)
          /\ cpc' \in {"write", "read"}
      BY <1>3, <2>3, <2>4, ClientAssumption
    <2> QED
      BY <1>1, <2>1, <2>3, <2>5 DEF Inv, ClientAccounted
  <1> QED
    BY <1>1, <1>2, <1>3 DEF Write, Goes

LEMMA ReadKeeps ==
  ASSUME Inv, Read
  PROVE  ServerInv' /\ ClientAccounted' /\ UNCHANGED at /\ got' \in Nat
  <1>1. cpc = "read" /\ at # 0 /\ UNCHANGED at /\ at \in Instances /\ got \in Nat
    BY AtFacts DEF Read, Goes, Inv, ClientAccounted
  <1>2. CASE UNCHANGED <<vars, got>> /\ cpc' = "failed"
    <2>1. UNCHANGED <<pc, hPipe, thread, inst, got>>
      BY <1>2 DEF vars
    <2>2. ServerInv'
      BY <2>1 DEF Inv, ServerInv, TypeOK, Ownership, Owned, Mine, Accounted
    <2> QED
      BY <1>1, <1>2, <2>1, <2>2 DEF Inv, ClientAccounted
  <1>3. CASE ClientReads(at) /\ got' = got + 1 /\ cpc' = "read"
    <2>1. ServerInv'
      BY <1>1, <1>3, ReadsKeeps DEF Inv
    <2>2. inst'[at] = [inst[at] EXCEPT !.outbox = @ - 1]
      BY <1>1, <1>3 DEF ClientReads, Update, Inv, ServerInv, TypeOK
    <2>3. /\ inst'[at].conn = inst[at].conn /\ inst'[at].asked = inst[at].asked
          /\ inst'[at].outbox = inst[at].outbox - 1 /\ inst'[at].answered = inst[at].answered
      BY <1>1, <2>2, AtFacts DEF InstanceType
    <2>4. got' + inst'[at].outbox <= inst'[at].answered
      BY <1>1, <1>3, <2>3, AtFacts DEF Inv, ClientAccounted
    <2> QED
      BY <1>1, <1>3, <2>1, <2>3, <2>4 DEF Inv, ClientAccounted
  <1> QED
    BY <1>1, <1>2, <1>3 DEF Read, Goes

LEMMA KillKeeps ==
  ASSUME Inv, Kill
  PROVE  ServerInv' /\ ClientAccounted' /\ UNCHANGED <<at, got>>
  <1>1. cpc' = "killed" /\ UNCHANGED <<at, got>>
    BY DEF Kill
  <1>2. CASE UNCHANGED vars
    <2>1. UNCHANGED <<pc, hPipe, thread, inst>>
      BY <1>2 DEF vars
    <2>2. ServerInv'
      BY <2>1 DEF Inv, ServerInv, TypeOK, Ownership, Owned, Mine, Accounted
    <2> QED
      BY <1>1, <2>1, <2>2 DEF Inv, ClientAccounted
  <1>3. CASE at # 0 /\ ClientCloses(at)
    <2>1. ServerInv'
      BY <1>3, AtFacts, ClosesKeeps DEF Inv
    <2>2. inst'[at] = [inst[at] EXCEPT !.conn = "orphaned", !.outbox = 0]
      BY <1>3, AtFacts DEF ClientCloses, Update, Inv, ServerInv, TypeOK
    <2>3. /\ inst'[at].conn = "orphaned" /\ inst'[at].asked = inst[at].asked
          /\ inst'[at].outbox = 0 /\ inst'[at].answered = inst[at].answered
      BY <1>3, <2>2, AtFacts DEF InstanceType
    <2>4. got + inst'[at].outbox <= inst'[at].answered
      BY <1>3, <2>3, AtFacts DEF Inv, ClientAccounted
    <2> QED
      BY <1>1, <1>3, <2>1, <2>3, <2>4 DEF Inv, ClientAccounted
  <1> QED
    BY <1>2, <1>3 DEF Kill

-----------------------------------------------------------------------------
(* The invariant                                                           *)

LEMMA InitInv == ClientInit => Inv
  <1> SUFFICES ASSUME ClientInit
               PROVE  Inv
    OBVIOUS
  <1>0. <<>> \in Seq(Requests) /\ Len(<<>>) = 0 /\ 0 \in 0..Quota
    BY EmptySeq, ThreadedAssumption
  <1>1. TypeOK
    BY <1>0 DEF ClientInit, Init, TypeOK, InstanceType
  <1>2. \A i \in Instances :
          /\ inst[i].conn = "none" /\ inst[i].asked = 0 /\ inst[i].answered = 0
          /\ inst[i].inbox = <<>> /\ inst[i].outbox = 0 /\ thread[i] = "none" /\ i > hPipe
    BY <1>1, InstanceFacts DEF ClientInit, Init
  <1>3. Ownership
    BY <1>2, ThreadedAssumption DEF ClientInit, Init, Ownership, Owned, Mine
  <1>4. \A i \in Instances : Accounted(i)
    BY <1>0, <1>2 DEF Accounted
  <1> QED
    BY <1>1, <1>3, <1>4, ClientAssumption DEF ClientInit, Inv, ServerInv, ClientTypeOK, ClientAccounted

LEMMA InvKept == Inv /\ [ClientNext]_allVars => Inv'
  <1> SUFFICES ASSUME Inv, [ClientNext]_allVars
               PROVE  Inv'
    OBVIOUS
  <1>1. CASE UNCHANGED allVars
    BY <1>1 DEF allVars, vars, clientVars, Inv, ClientTypeOK, ServerInv, TypeOK, Ownership,
         Owned, Mine, Accounted, ClientAccounted
  <1>2. CASE ClientNext
    <2>1. ServerInv' /\ ClientAccounted' /\ at' \in {0} \union Instances /\ got' \in Nat
      <3>1. at \in {0} \union Instances /\ got \in Nat
        BY ClientAssumption DEF Inv, ClientTypeOK
      <3>2. CASE (ServerStep \/ OtherClient) /\ UNCHANGED clientVars
        BY <3>1, <3>2, EnvironmentKeeps DEF clientVars
      <3>3. CASE ClientRuns \/ Kill
        BY <3>1, <3>3, CreateFileKeeps, WaitKeeps, WriteKeeps, ReadKeeps, KillKeeps DEF ClientRuns
      <3> QED
        BY <1>2, <3>2, <3>3 DEF ClientNext
    <2>2. cpc' \in {"open", "busy", "mode", "write", "read", "failed", "killed"}
      BY <1>2 DEF ClientNext, clientVars, ClientRuns, CreateFile, WaitNamedPipe, SetMode, Write,
           Read, Kill, Goes, Inv, ClientTypeOK
    <2>3. got' \in 0..Messages
      <3>1. CASE at' = 0
        BY <2>1, <3>1, ClientAssumption DEF ClientAccounted
      <3>2. CASE at' # 0
        <4>1. PICK i \in Instances : i = at'
          BY <2>1, <3>2
        <4>2. /\ inst'[i].asked \in Nat /\ inst'[i].answered \in Nat /\ inst'[i].outbox \in Nat
              /\ Len(inst'[i].inbox) \in Nat
          BY <2>1, SeqFacts, ThreadedAssumption DEF ServerInv, TypeOK, InstanceType
        <4>3. Accounted(i)'
          BY <2>1 DEF ServerInv
        <4>4. inst'[i].answered <= inst'[i].asked
          BY <4>2, <4>3 DEF Accounted
        <4>5. got' + inst'[i].outbox <= inst'[i].answered /\ inst'[i].asked <= Messages
          BY <2>1, <3>2, <4>1 DEF ClientAccounted
        <4> QED
          BY <2>1, <4>2, <4>4, <4>5, ClientAssumption
      <3> QED
        BY <3>1, <3>2
    <2> QED
      BY <2>1, <2>2, <2>3 DEF Inv, ServerInv, ClientTypeOK
  <1> QED
    BY <1>1, <1>2

LEMMA Invariant == Spec => []Inv
  BY InitInv, InvKept, PTL DEF Spec

-----------------------------------------------------------------------------
(* The variables of the server and of the client keep their types; in      *)
(* particular the client never reads more replies than it sent messages.   *)
THEOREM TypeCorrect == Spec => []ClientTypeOK
  <1>1. Inv => ClientTypeOK
    BY DEF Inv
  <1> QED
    BY <1>1, Invariant, PTL

(* Every open instance belongs to the main loop of StartNamedPipeServer or *)
(* to one InstanceThread, never to both, and a closed one to nobody: each  *)
(* is closed exactly once, whichever of the two saw its client go.         *)
THEOREM OneOwnerEach == Spec => []OneOwner
  <1>1. Inv => OneOwner
    <2> SUFFICES ASSUME Inv, pc # "stopped", NEW i \in Instances
                 PROVE  LET main  == i = hPipe /\ pc \in {"connect", "waiting", "spawn"}
                            owned == thread[i] \notin {"none", "exited", "failed"} IN
                        /\ ~(main /\ owned)
                        /\ main \/ owned \/ thread[i] = "failed"
                             <=> inst[i].conn \notin {"none", "closed"}
      BY DEF OneOwner
    <2>1. Owned(i) /\ thread[i] \in ThreadStates
      BY InstanceFacts DEF Inv, ServerInv, Ownership
    <2> QED
      BY <2>1 DEF Owned, Mine, ThreadStates
  <1> QED
    BY <1>1, Invariant, PTL

-----------------------------------------------------------------------------
(* The steps of the system as its instances see them                       *)

ClientDoes(i) ==
  \/ ClientOpens(i)
  \/ \E r \in Requests : ClientWrites(i, r)
  \/ ClientReads(i)
  \/ ClientCloses(i)

LEMMA StepKinds ==
  ASSUME Inv, [ClientNext]_allVars
  PROVE  \/ ServerStep
         \/ \E j \in Instances : ClientDoes(j)
         \/ UNCHANGED vars
  <1>1. CASE UNCHANGED allVars
    BY <1>1 DEF allVars
  <1>2. CASE ServerStep \/ OtherClient
    BY <1>2 DEF OtherClient, Client, ClientDoes
  <1>3. CASE CreateFile
    BY <1>3 DEF CreateFile, Listening, ClientDoes
  <1>4. CASE WaitNamedPipe \/ SetMode
    BY <1>4 DEF WaitNamedPipe, SetMode
  <1>5. CASE Write \/ Read \/ Kill
    <2>1. at # 0 => at \in Instances
      BY AtFacts
    <2>2. cpc \in {"write", "read"} => at # 0
      BY DEF Inv, ClientAccounted
    <2>3. "fits" \in Requests
      BY DEF Requests
    <2>4. CASE Write
      BY <2>1, <2>2, <2>3, <2>4 DEF Write, Goes, ClientDoes
    <2>5. CASE Read
      BY <2>1, <2>2, <2>5 DEF Read, Goes, ClientDoes, vars
    <2>6. CASE Kill
      BY <2>1, <2>6 DEF Kill, ClientDoes
    <2> QED
      BY <1>5, <2>4, <2>5, <2>6
  <1> QED
    BY <1>1, <1>2, <1>3, <1>4, <1>5 DEF ClientNext, ClientRuns

(* A client or a thread only changes its own instance.                     *)
LEMMA OwnInstance ==
  ASSUME ServerInv, NEW j \in Instances, ClientDoes(j) \/ InstanceThread(j),
         NEW i \in Instances, i # j
  PROVE  inst'[i] = inst[i] /\ thread'[i] = thread[i]
  <1>1. inst \in [Instances -> InstanceType] /\ thread \in [Instances -> ThreadStates]
    BY DEF ServerInv, TypeOK, ThreadStates
  <1> QED
    BY <1>1 DEF ClientDoes, ClientOpens, ClientWrites, ClientReads, ClientCloses, InstanceThread,
      Start, ReadFile, WriteFile, FlushFileBuffers, DisconnectAndClose, Update, ThreadGoes

(* What the main loop does to an instance: create it, close one whose      *)
(* client has gone, or give it to its thread.                              *)
LEMMA MainOnInstance ==
  ASSUME ServerInv, MainThread, NEW i \in Instances
  PROVE  \/ inst'[i] = inst[i] /\ thread'[i] = thread[i]
         \/ /\ inst[i].conn = "none" /\ thread'[i] = thread[i]
            /\ inst'[i] = [inst[i] EXCEPT !.conn = "listening"]
         \/ /\ inst[i].conn = "orphaned" /\ thread'[i] = thread[i]
            /\ inst'[i] = [inst[i] EXCEPT !.conn = "closed", !.inbox = <<>>]
         \/ inst'[i] = inst[i] /\ thread[i] = "none" /\ thread'[i] = "start"
  <1>1. inst \in [Instances -> InstanceType] /\ thread \in [Instances -> ThreadStates]
    BY DEF ServerInv, TypeOK, ThreadStates
  <1>2. CASE CreateNamedPipe
    <2>1. hPipe + 1 \in Instances /\ hPipe \in Nat /\ hPipe + 1 > hPipe
      BY <1>2, ThreadedAssumption DEF ServerInv, TypeOK, Ownership, CreateNamedPipe, MainGoes, Instances
    <2>2. inst[hPipe + 1].conn = "none"
      BY <1>2, <2>1 DEF ServerInv, Ownership, Owned, Mine, CreateNamedPipe, MainGoes
    <2> QED
      BY <1>1, <1>2, <2>2 DEF CreateNamedPipe, Update
  <1>3. CASE ConnectNamedPipe \/ Connected
    BY <1>1, <1>3 DEF ConnectNamedPipe, Connected, Update
  <1>4. CASE CreateThread
    BY <1>1, <1>4 DEF CreateThread, ThreadGoes
  <1> QED
    BY <1>2, <1>3, <1>4 DEF MainThread

-----------------------------------------------------------------------------
(* The replies                                                             *)

(* A thread that is about to disconnect has seen its client read all.      *)
Flushed ==
  pc # "stopped" =>
    \A i \in Instances :
      thread[i] = "disconnect" /\ inst[i].conn = "connected" => inst[i].outbox = 0

LEMMA FlushedKept ==
  ASSUME Inv, Flushed, [ClientNext]_allVars
  PROVE  Flushed'
  <1> SUFFICES ASSUME pc' # "stopped", NEW i \in Instances,
                      thread'[i] = "disconnect", inst'[i].conn = "connected"
               PROVE  inst'[i].outbox = 0
    BY DEF Flushed
  <1>0. /\ inst \in [Instances -> InstanceType] /\ thread \in [Instances -> ThreadStates]
        /\ inst[i] \in InstanceType
    BY DEF Inv, ServerInv, TypeOK, ThreadStates
  <1>1. ASSUME pc # "stopped", inst'[i] = inst[i], thread'[i] = thread[i]
        PROVE  inst'[i].outbox = 0
    BY <1>1 DEF Flushed
  <1>2. ASSUME NEW j \in Instances, ClientDoes(j)
        PROVE  inst'[i].outbox = 0
    <2>1. pc # "stopped" /\ thread' = thread
      BY <1>2 DEF ClientDoes, ClientOpens, ClientWrites, ClientReads, ClientCloses
    <2>2. CASE i # j
      BY <1>1, <1>2, <2>1, <2>2, OwnInstance DEF Inv
    <2>3. CASE i = j
      <3>1. inst[i].conn # "listening"
        BY <2>1 DEF Inv, ServerInv, Ownership, Owned
      <3>2. CASE ClientReads(i) \/ ClientCloses(i)
        <4>1. inst[i].outbox = 0 \/ inst[i].conn # "connected"
          BY <2>1 DEF Flushed
        <4>2. inst'[i].conn = "connected" => inst[i].conn = "connected"
          BY <1>0, <3>2 DEF ClientReads, ClientCloses, Update, InstanceType
        <4>3. CASE ClientReads(i)
          BY <4>1, <4>2, <4>3 DEF ClientReads
        <4>4. CASE ClientCloses(i)
          BY <1>0, <4>4 DEF ClientCloses, Update, InstanceType
        <4> QED
          BY <3>2, <4>3, <4>4
      <3>3. ASSUME NEW r \in Requests, ClientWrites(i, r)
            PROVE  inst'[i].outbox = 0
        BY <1>0, <2>1, <3>3 DEF ClientWrites, Update, InstanceType, Flushed
      <3> QED
        BY <1>2, <2>3, <3>1, <3>2, <3>3 DEF ClientDoes, ClientOpens
    <2> QED
      BY <2>2, <2>3
  <1>3. ASSUME NEW j \in Instances, InstanceThread(j)
        PROVE  inst'[i].outbox = 0
    <2>1. pc # "stopped"
      BY <1>3 DEF InstanceThread
    <2>2. CASE i # j
      BY <1>1, <1>3, <2>1, <2>2, OwnInstance DEF Inv
    <2>3. CASE i = j
      BY <1>0, <1>3, <2>3 DEF InstanceThread, Start, ReadFile, WriteFile, FlushFileBuffers,
           DisconnectAndClose, ThreadGoes
    <2> QED
      BY <2>2, <2>3
  <1>4. CASE MainThread
    <2>1. pc # "stopped"
      BY <1>4 DEF MainThread, CreateNamedPipe, ConnectNamedPipe, Connected, CreateThread, MainGoes
    <2> QED
      BY <1>0, <1>1, <1>4, <2>1, MainOnInstance DEF Inv, InstanceType
  <1>5. CASE Stop \/ UNCHANGED vars
    BY <1>1, <1>5 DEF Stop, vars
  <1> QED
    BY <1>2, <1>3, <1>4, <1>5, StepKinds DEF ServerStep

(* named_pipe_server.cpp:198-199: a client that stays connected has read   *)
(* every reply when InstanceThread disconnects it.                         *)
THEOREM RepliesReachClient == Spec => RepliesFlushed
  <1>1. ClientInit => Flushed
    BY DEF ClientInit, Init, Flushed
  <1>2. ASSUME Inv, Flushed, [ClientNext]_allVars, NEW i \in Instances,
               inst[i].conn = "connected", inst'[i].conn = "disconnected"
        PROVE  inst[i].outbox = 0
    <2>0. inst \in [Instances -> InstanceType] /\ inst[i] \in InstanceType
      BY <1>2 DEF Inv, ServerInv, TypeOK
    <2>1. ASSUME NEW j \in Instances, ClientDoes(j)
          PROVE  FALSE
      <3>1. CASE i # j
        BY <1>2, <2>1, <3>1, OwnInstance DEF Inv
      <3>2. CASE i = j
        BY <1>2, <2>0, <2>1, <3>2 DEF ClientDoes, ClientOpens, ClientWrites, ClientReads,
             ClientCloses, Update, InstanceType
      <3> QED
        BY <3>1, <3>2
    <2>2. ASSUME NEW j \in Instances, InstanceThread(j)
          PROVE  inst[i].outbox = 0
      <3>1. CASE i # j
        BY <1>2, <2>2, <3>1, OwnInstance DEF Inv
      <3>2. CASE i = j
        <4>1. thread[i] = "disconnect" /\ pc # "stopped"
          <5>1. inst'[i].conn # inst[i].conn
            BY <1>2
          <5>2. ~Start(i) /\ ~FlushFileBuffers(i)
            BY <5>1 DEF Start, FlushFileBuffers
          <5>3. ~ReadFile(i) /\ ~WriteFile(i)
            <6>1. ~Update(i, [inst[i] EXCEPT !.inbox = Tail(@)])
              BY <2>0, <5>1 DEF Update, InstanceType
            <6>2. ~Update(i, [inst[i] EXCEPT !.outbox = @ + 1, !.answered = @ + 1])
              BY <2>0, <5>1, Answering DEF Update
            <6> QED
              BY <5>1, <6>1, <6>2 DEF ReadFile, WriteFile
          <5>4. pc # "stopped" /\ DisconnectAndClose(i)
            BY <2>2, <3>2, <5>2, <5>3 DEF InstanceThread
          <5>5. CASE Update(i, [inst[i] EXCEPT !.conn = "closed"])
            BY <1>2, <2>0, <5>5 DEF Update, InstanceType
          <5> QED
            BY <5>4, <5>5 DEF DisconnectAndClose, ThreadGoes
        <4> QED
          BY <1>2, <4>1 DEF Flushed
      <3> QED
        BY <3>1, <3>2
    <2>3. ~MainThread
      BY <1>2, <2>0, MainOnInstance DEF Inv, InstanceType
    <2>4. ~Stop
      BY <1>2, <2>0, ZenonT(30) DEF Stop, InstanceType
    <2>5. ~UNCHANGED vars
      BY <1>2 DEF vars
    <2> QED
      BY <1>2, <2>1, <2>2, <2>3, <2>4, <2>5, StepKinds DEF ServerStep
  <1>3. Inv /\ Flushed /\ [ClientNext]_allVars =>
          [\A i \in Instances :
             inst[i].conn = "connected" /\ inst'[i].conn = "disconnected" => inst[i].outbox = 0]_vars
    BY <1>2
  <1> QED
    BY <1>1, <1>3, FlushedKept, Invariant, PTL DEF Spec, RepliesFlushed

-----------------------------------------------------------------------------
(* The sessions                                                            *)

Misfits(q) == \E n \in 1..Len(q) : q[n] # "fits"

LEMMA MisfitsFacts ==
  ASSUME NEW q \in Seq(Requests)
  PROVE  /\ q = <<>> => ~Misfits(q)
         /\ \A r \in Requests : Misfits(q) => Misfits(Append(q, r))
         /\ q # <<>> => (Misfits(q) <=> Head(q) # "fits" \/ Misfits(Tail(q)))
  <1>1. q = <<>> => ~Misfits(q)
    BY DEF Misfits
  <1>2. ASSUME NEW r \in Requests, Misfits(q)
        PROVE  Misfits(Append(q, r))
    <2>1. PICK n \in 1..Len(q) : q[n] # "fits"
      BY <1>2 DEF Misfits
    <2>2. Append(q, r)[n] # "fits" /\ n \in 1..Len(Append(q, r))
      BY <2>1, AppendProperties, LenProperties
    <2> QED
      BY <2>2 DEF Misfits
  <1>3. ASSUME q # <<>>
        PROVE  Misfits(q) <=> Head(q) # "fits" \/ Misfits(Tail(q))
    <2>1. /\ Tail(q) \in Seq(Requests) /\ Len(Tail(q)) = Len(q) - 1 /\ Head(q) = q[1]
          /\ \A n \in 1..Len(Tail(q)) : Tail(q)[n] = q[n + 1]
          /\ Len(q) \in Nat \ {0}
      BY <1>3, HeadTailProperties, EmptySeq
    <2>2. ASSUME Misfits(q), Head(q) = "fits"
          PROVE  Misfits(Tail(q))
      <3>1. PICK n \in 1..Len(q) : q[n] # "fits"
        BY <2>2 DEF Misfits
      <3>2. n # 1 /\ n - 1 \in 1..Len(Tail(q)) /\ Tail(q)[n - 1] = q[n]
        BY <2>1, <2>2, <3>1
      <3> QED
        BY <3>1, <3>2 DEF Misfits
    <2>3. ASSUME Misfits(Tail(q))
          PROVE  Misfits(q)
      <3>1. PICK n \in 1..Len(Tail(q)) : Tail(q)[n] # "fits"
        BY <2>3 DEF Misfits
      <3>2. n + 1 \in 1..Len(q) /\ q[n + 1] # "fits"
        BY <2>1, <3>1
      <3> QED
        BY <3>2 DEF Misfits
    <2>4. Head(q) # "fits" => Misfits(q)
      BY <2>1 DEF Misfits
    <2> QED
      BY <2>2, <2>3, <2>4
  <1> QED
    BY <1>1, <1>2, <1>3

(* A step that changes neither the connection nor what was asked and       *)
(* answered, properly or not, is not seen by the session.                  *)
LEMMA Unseen ==
  ASSUME NEW i \in Instances,
         Link(i)' = Link(i), inst'[i].asked = inst[i].asked, inst'[i].answered = inst[i].answered,
         Improper(i)' <=> Improper(i)
  PROVE  UNCHANGED S(i)!vars
  <1>1. Improper(i)' = Improper(i)
    BY DEF Improper
  <1> QED
    BY <1>1 DEF S!vars

LEMMA SameUnseen ==
  ASSUME NEW i \in Instances, inst'[i] = inst[i], thread'[i] = thread[i]
  PROVE  UNCHANGED S(i)!vars
  <1>1. Link(i)' = Link(i) /\ (Improper(i)' <=> Improper(i))
    BY DEF Link, Improper
  <1> QED
    BY <1>1, Unseen

LEMMA ClientInSession ==
  ASSUME Inv, pc # "stopped", NEW i \in Instances, ClientDoes(i)
  PROVE  S(i)!Next \/ UNCHANGED S(i)!vars
  <1>0. /\ inst \in [Instances -> InstanceType] /\ inst[i] \in InstanceType
        /\ inst[i].inbox \in Seq(Requests) /\ UNCHANGED thread
    BY InstanceFacts DEF Inv, ServerInv, TypeOK, ClientDoes, ClientOpens, ClientWrites, ClientReads,
       ClientCloses
  <1>1. CASE ClientOpens(i)
    <2>1. /\ inst'[i].conn = "connected" /\ inst'[i].inbox = inst[i].inbox
          /\ inst'[i].asked = inst[i].asked /\ inst'[i].answered = inst[i].answered
          /\ inst[i].conn = "listening"
      BY <1>0, <1>1 DEF ClientOpens, Update, InstanceType
    <2>2. inst[i].asked = 0 /\ inst[i].answered = 0 /\ inst[i].inbox = <<>>
      BY <2>1, InstanceFacts DEF Inv, ServerInv, Accounted
    <2>3. thread[i] = "none"
      BY <2>1, InstanceFacts DEF Inv, ServerInv, Ownership, Owned, ThreadStates
    <2>4. ~Improper(i)'
      BY <1>0, <2>1, <2>2, <2>3, MisfitsFacts DEF Improper, Misfits
    <2>5. Link(i) = "free" /\ Link(i)' = "open"
      BY <2>1 DEF Link
    <2>6. S(i)!Open
      BY <2>1, <2>2, <2>4, <2>5 DEF S!Open
    <2> QED
      BY <2>6 DEF S!Next
  <1>2. ASSUME NEW r \in Requests, ClientWrites(i, r)
        PROVE  S(i)!Ask
    <2>1. /\ inst'[i].conn = inst[i].conn /\ inst'[i].inbox = Append(inst[i].inbox, r)
          /\ inst'[i].asked = inst[i].asked + 1 /\ inst'[i].answered = inst[i].answered
          /\ inst[i].conn = "connected"
      BY <1>0, <1>2 DEF ClientWrites, Update, InstanceType
    <2>2. Improper(i) => Improper(i)'
      <3>1. Misfits(inst[i].inbox) => Misfits(inst'[i].inbox)
        BY <1>0, <2>1, MisfitsFacts
      <3> QED
        BY <1>0, <2>1, <3>1 DEF Improper, Misfits
    <2>3. Link(i) = "open" /\ Link(i)' = "open"
      BY <2>1 DEF Link
    <2> QED
      BY <2>1, <2>2, <2>3 DEF S!Ask
  <1>3. CASE ClientReads(i)
    <2>1. /\ inst'[i].conn = inst[i].conn /\ inst'[i].inbox = inst[i].inbox
          /\ inst'[i].asked = inst[i].asked /\ inst'[i].answered = inst[i].answered
      BY <1>0, <1>3 DEF ClientReads, Update, InstanceType
    <2>2. Link(i)' = Link(i) /\ (Improper(i)' <=> Improper(i))
      BY <1>0, <2>1 DEF Link, Improper
    <2> QED
      BY <2>1, <2>2, Unseen
  <1>4. CASE ClientCloses(i)
    <2>1. /\ inst'[i].conn = "orphaned" /\ inst[i].conn = "connected"
          /\ inst'[i].asked = inst[i].asked /\ inst'[i].answered = inst[i].answered
      BY <1>0, <1>4 DEF ClientCloses, Update, InstanceType
    <2>2. Link(i) = "open" /\ Link(i)' = "left" /\ ~Improper(i)'
      BY <2>1 DEF Link, Improper
    <2>3. S(i)!Leave
      BY <2>1, <2>2 DEF S!Leave
    <2> QED
      BY <2>3 DEF S!Next
  <1>5. S(i)!Ask => S(i)!Next
    BY DEF S!Next
  <1> QED
    BY <1>1, <1>2, <1>3, <1>4, <1>5 DEF ClientDoes

LEMMA ThreadInSession ==
  ASSUME Inv, NEW i \in Instances, InstanceThread(i)
  PROVE  S(i)!Next \/ UNCHANGED S(i)!vars
  <1>0. /\ inst \in [Instances -> InstanceType] /\ inst[i] \in InstanceType
        /\ thread \in [Instances -> ThreadStates]
        /\ inst[i].inbox \in Seq(Requests) /\ pc # "stopped" /\ Owned(i) /\ Accounted(i)
        /\ Len(inst[i].inbox) \in Nat /\ inst[i].asked \in Nat /\ inst[i].answered \in Nat
    BY InstanceFacts DEF Inv, ServerInv, TypeOK, ThreadStates, Ownership, InstanceThread
  <1>1. CASE Start(i)
    <2>1. inst'[i] = inst[i] /\ thread[i] = "start" /\ thread'[i] \in {"read", "failed"}
      BY <1>0, <1>1 DEF Start, ThreadGoes
    <2>2. Link(i)' = Link(i) /\ (Improper(i)' <=> Improper(i))
      BY <2>1 DEF Link, Improper
    <2> QED
      BY <2>1, <2>2, Unseen
  <1>2. CASE ReadFile(i) /\ inst[i].inbox # <<>>
    <2>1. /\ inst'[i].conn = inst[i].conn /\ inst'[i].inbox = Tail(inst[i].inbox)
          /\ inst'[i].asked = inst[i].asked /\ inst'[i].answered = inst[i].answered
      BY <1>0, <1>2 DEF ReadFile, Update, InstanceType
    <2>2. /\ thread[i] = "read"
          /\ thread'[i] = IF Head(inst[i].inbox) = "fits" THEN "write" ELSE "flush"
      BY <1>0, <1>2 DEF ReadFile, ThreadGoes
    <2>3. Misfits(inst[i].inbox) <=> Head(inst[i].inbox) # "fits" \/ Misfits(inst'[i].inbox)
      BY <1>0, <1>2, <2>1, MisfitsFacts
    <2>4. Improper(i)' <=> Improper(i)
      BY <2>1, <2>2, <2>3 DEF Improper, Misfits
    <2>5. Link(i)' = Link(i)
      BY <2>1 DEF Link
    <2> QED
      BY <2>1, <2>4, <2>5, Unseen
  <1>3. CASE ReadFile(i) /\ inst[i].inbox = <<>>
    <2>1. inst'[i] = inst[i] /\ inst[i].conn = "orphaned"
      BY <1>3 DEF ReadFile
    <2>2. Link(i)' = Link(i) /\ (Improper(i)' <=> Improper(i))
      BY <2>1 DEF Link, Improper
    <2> QED
      BY <2>1, <2>2, Unseen
  <1>4. CASE WriteFile(i) /\ inst[i].conn = "connected"
    <2>1. inst'[i] = [inst[i] EXCEPT !.outbox = @ + 1, !.answered = @ + 1]
      BY <1>0, <1>4 DEF WriteFile, Update
    <2>2. /\ inst'[i].conn = "connected" /\ inst'[i].inbox = inst[i].inbox
          /\ inst'[i].asked = inst[i].asked /\ inst'[i].answered = inst[i].answered + 1
      BY <1>0, <1>4, <2>1, Answering
    <2>3. thread[i] = "write" /\ thread'[i] = "read"
      BY <1>0, <1>4 DEF WriteFile, ThreadGoes
    <2>4. Link(i) = "open" /\ Link(i)' = "open" /\ (Improper(i)' <=> Improper(i))
      BY <1>4, <2>2, <2>3 DEF Link, Improper
    <2>5. Improper(i)' = Improper(i)
      BY <2>4 DEF Improper
    <2>6. inst[i].answered < inst[i].asked
      BY <1>0, <2>3 DEF Accounted
    <2>7. S(i)!Answer
      BY <2>2, <2>4, <2>5, <2>6 DEF S!Answer
    <2> QED
      BY <2>7 DEF S!Next
  <1>5. CASE WriteFile(i) /\ inst[i].conn # "connected"
    <2>1. inst'[i] = inst[i]
      BY <1>5 DEF WriteFile
    <2>2. Link(i)' = Link(i) /\ (Improper(i)' <=> Improper(i))
      BY <1>5, <2>1 DEF Link, Improper
    <2> QED
      BY <2>1, <2>2, Unseen
  <1>6. CASE FlushFileBuffers(i)
    <2>1. inst'[i] = inst[i] /\ thread[i] = "flush" /\ thread'[i] = "disconnect"
      BY <1>0, <1>6 DEF FlushFileBuffers, ThreadGoes
    <2>2. Link(i)' = Link(i) /\ (Improper(i)' <=> Improper(i))
      BY <2>1 DEF Link, Improper
    <2> QED
      BY <2>1, <2>2, Unseen
  <1>7. CASE DisconnectAndClose(i) /\ thread[i] = "disconnect"
    <2>1. inst'[i] = [inst[i] EXCEPT !.conn = "disconnected", !.inbox = <<>>, !.outbox = 0]
      BY <1>0, <1>7 DEF DisconnectAndClose, ThreadGoes, Update
    <2>2. /\ inst'[i].conn = "disconnected"
          /\ inst'[i].asked = inst[i].asked /\ inst'[i].answered = inst[i].answered
      BY <1>0, <2>1 DEF InstanceType
    <2>3. inst[i].conn \in {"connected", "orphaned"}
      BY <1>0, <1>7 DEF Owned
    <2>4. /\ Link(i) # "free" /\ Link(i)' = "free" /\ ~Improper(i)'
          /\ Link(i) = "open" => Improper(i)
      BY <1>7, <2>2, <2>3 DEF Link, Improper
    <2>5. S(i)!HangUp
      BY <2>2, <2>4 DEF S!HangUp
    <2> QED
      BY <2>5 DEF S!Next
  <1>8. CASE DisconnectAndClose(i) /\ thread[i] # "disconnect"
    <2>1. thread[i] = "close" /\ inst'[i] = [inst[i] EXCEPT !.conn = "closed"]
      BY <1>0, <1>8 DEF DisconnectAndClose, ThreadGoes, Update
    <2>2. /\ inst'[i].conn = "closed" /\ inst[i].conn = "disconnected"
          /\ inst'[i].asked = inst[i].asked /\ inst'[i].answered = inst[i].answered
      BY <1>0, <2>1 DEF InstanceType, Owned
    <2>3. Link(i)' = Link(i) /\ (Improper(i)' <=> Improper(i))
      BY <2>2 DEF Link, Improper
    <2> QED
      BY <2>2, <2>3, Unseen
  <1> QED
    BY <1>1, <1>2, <1>3, <1>4, <1>5, <1>6, <1>7, <1>8 DEF InstanceThread

LEMMA MainInSession ==
  ASSUME Inv, MainThread, NEW i \in Instances
  PROVE  S(i)!Next \/ UNCHANGED S(i)!vars
  <1>0. inst[i] \in InstanceType
    BY InstanceFacts DEF Inv, ServerInv
  <1>1. CASE inst'[i] = inst[i] /\ thread'[i] = thread[i]
    BY <1>1, SameUnseen
  <1>2. CASE inst[i].conn = "none" /\ inst'[i] = [inst[i] EXCEPT !.conn = "listening"]
    <2>1. /\ inst'[i].conn = "listening"
          /\ inst'[i].asked = inst[i].asked /\ inst'[i].answered = inst[i].answered
      BY <1>0, <1>2 DEF InstanceType
    <2>2. Link(i)' = Link(i) /\ (Improper(i)' <=> Improper(i))
      BY <1>2, <2>1 DEF Link, Improper
    <2> QED
      BY <2>1, <2>2, Unseen
  <1>3. CASE inst[i].conn = "orphaned" /\ inst'[i] = [inst[i] EXCEPT !.conn = "closed", !.inbox = <<>>]
    <2>1. /\ inst'[i].conn = "closed"
          /\ inst'[i].asked = inst[i].asked /\ inst'[i].answered = inst[i].answered
      BY <1>0, <1>3 DEF InstanceType
    <2>2. Link(i) = "left" /\ Link(i)' = "free" /\ ~Improper(i)'
      BY <1>3, <2>1 DEF Link, Improper
    <2>3. S(i)!HangUp
      BY <2>1, <2>2 DEF S!HangUp
    <2> QED
      BY <2>3 DEF S!Next
  <1>4. CASE inst'[i] = inst[i] /\ thread[i] = "none" /\ thread'[i] = "start"
    <2>1. Link(i)' = Link(i) /\ (Improper(i)' <=> Improper(i))
      BY <1>4 DEF Link, Improper
    <2> QED
      BY <1>4, <2>1, Unseen
  <1> QED
    BY <1>1, <1>2, <1>3, <1>4, MainOnInstance DEF Inv

(* As long as the process runs each instance of the server implements      *)
(* Session: an answer for every proper request, none without, and no       *)
(* client hung up on that has neither left nor asked improperly.           *)
THEOREM ServesSessions == Spec => Sessions
  <1>1. ASSUME ClientInit, NEW i \in Instances
        PROVE  S(i)!Init
    <2>1. /\ inst[i].conn = "none" /\ inst[i].asked = 0 /\ inst[i].answered = 0
          /\ thread[i] = "none"
      BY <1>1 DEF ClientInit, Init
    <2>2. Link(i) = "free" /\ ~Improper(i)
      BY <2>1 DEF Link, Improper
    <2> QED
      BY <2>1, <2>2 DEF S!Init
  <1>2. ASSUME Inv, [ClientNext]_allVars, pc' # "stopped", NEW i \in Instances
        PROVE  S(i)!Next \/ UNCHANGED S(i)!vars
    <2>1. ASSUME NEW j \in Instances, ClientDoes(j)
          PROVE  S(i)!Next \/ UNCHANGED S(i)!vars
      <3>1. pc # "stopped"
        BY <1>2, <2>1 DEF ClientDoes, ClientOpens, ClientWrites, ClientReads, ClientCloses
      <3> QED
        BY <1>2, <2>1, <3>1, ClientInSession, OwnInstance, SameUnseen DEF Inv
    <2>2. ASSUME NEW j \in Instances, InstanceThread(j)
          PROVE  S(i)!Next \/ UNCHANGED S(i)!vars
      BY <1>2, <2>2, ThreadInSession, OwnInstance, SameUnseen DEF Inv
    <2>3. CASE MainThread
      BY <1>2, <2>3, MainInSession
    <2>4. ~Stop
      BY <1>2 DEF Stop
    <2>5. CASE UNCHANGED vars
      BY <2>5, SameUnseen DEF vars
    <2> QED
      BY <1>2, <2>1, <2>2, <2>3, <2>4, <2>5, StepKinds DEF ServerStep
  <1>3. Inv /\ [ClientNext]_allVars =>
          [pc' # "stopped" => \A i \in Instances : S(i)!Next \/ UNCHANGED S(i)!vars]_vars
    BY <1>2
  <1>4. ClientInit => \A i \in Instances : S(i)!Init
    BY <1>1
  <1> QED
    BY <1>3, <1>4, Invariant, PTL DEF Spec, Sessions
=============================================================================
