----------------------------- MODULE RoutineProofs -----------------------------
(***************************************************************************)
(* Theorems about CompletionRoutineServer, for every number of clients, of *)
(* requests and of failed calls, and for every quota of the pipe.          *)
(***************************************************************************)
EXTENDS CompletionRoutineServer, SequenceFacts, FiniteSetTheorems

Operations == {"read", "write"}
Completion == [i : Instances, op : Operations, result : Results]

(* In the queue q of completions: one of instance i with such an operation *)
(* and result; any of instance i; and at most one.                         *)
Has(q, i, ops, results) ==
  \E n \in 1..Len(q) : q[n].i = i /\ q[n].op \in ops /\ q[n].result \in results

Any(q, i) == \E n \in 1..Len(q) : q[n].i = i

Single(q, i) == \A m, n \in 1..Len(q) : q[m].i = i /\ q[n].i = i => m = n

(* An instance k with number i when q are the completions that wait: one   *)
(* operation at a time, of an allocated instance; none fails a write of a  *)
(* client that is there; and the requests of the client add up.            *)
Held(k, q, i) ==
  /\ Single(q, i)
  /\ k.op # "none" => ~Any(q, i) /\ k.conn = "connected"
  /\ k.storage # "allocated" => k.op = "none" /\ ~Any(q, i)
  /\ k.conn \in {"none", "listening"} =>
       k.inbox = <<>> /\ k.asked = 0 /\ k.answered = 0 /\ k.storage = "none"
  /\ Has(q, i, {"write"}, {"zero", "failed"}) => k.conn # "connected"

Counted(k, q, i) ==
  k.conn = "connected" /\ ~Has(q, i, {"read"}, {"zero", "failed"}) =>
    k.asked = Len(k.inbox) + k.answered + (IF Has(q, i, {"read"}, {"ok"}) THEN 1 ELSE 0)
                + (IF k.op = "write" THEN 1 ELSE 0)

(* The newest instance has no storage until its client is accepted; the    *)
(* event is not signaled while its connect is pending; and the last one    *)
(* that the bound allows has no client.                                    *)
Newest ==
  /\ pc # "stopped"
  /\ \A i \in Instances : i > created => inst[i].conn = "none"
  /\ \A i \in Instances : inst[i].conn \notin {"none", "listening"} => i <= MaxClients
  /\ pc = "create" => created <= MaxClients
  /\ pc = "connect" => hPipe # 0
  /\ pc \in {"wait", "routines"} =>
       /\ hPipe = 0 => created <= MaxClients
       /\ fPendingIO /\ event => connect = "ok"
       /\ hPipe # 0 /\ inst[hPipe].conn = "listening" => connect = "pending" /\ ~event
  /\ pc \in {"connect", "wait", "routines"} /\ hPipe # 0 =>
       hPipe = created /\ inst[hPipe].storage = "none" /\ inst[hPipe].conn # "none"

Inv ==
  /\ TypeOK /\ Newest
  /\ \A i \in Instances : Held(inst[i], apcs, i) /\ Counted(inst[i], apcs, i)

-----------------------------------------------------------------------------
(* The queue of completions                                                *)

Same(q, r, j) ==
  /\ Single(q, j) => Single(r, j)
  /\ Any(r, j) <=> Any(q, j)
  /\ \A ops, results : Has(r, j, ops, results) <=> Has(q, j, ops, results)

LEMMA AppendQueue ==
  ASSUME NEW T, NEW q \in Seq(T), NEW c \in T
  PROVE  /\ Append(q, c) \in Seq(T)
         /\ \A j : c.i # j => Same(q, Append(q, c), j)
         /\ ~Any(q, c.i) =>
              /\ Single(Append(q, c), c.i) /\ Any(Append(q, c), c.i)
              /\ \A ops, results :
                   Has(Append(q, c), c.i, ops, results) <=> c.op \in ops /\ c.result \in results
  <1> DEFINE r == Append(q, c)
  <1>1. /\ r \in Seq(T) /\ Len(q) \in Nat /\ Len(r) = Len(q) + 1
        /\ r[Len(q) + 1] = c /\ \A n \in 1..Len(q) : r[n] = q[n]
    BY AppendProperties, LenProperties
  <1> HIDE DEF r
  <1>2. ASSUME NEW j, c.i # j
        PROVE  Same(q, r, j)
    <2>1. \A n \in 1..Len(r) : r[n].i = j => n \in 1..Len(q) /\ q[n].i = j
      BY <1>1, <1>2
    <2>2. \A n \in 1..Len(q) : n \in 1..Len(r) /\ r[n] = q[n]
      BY <1>1
    <2>3. Single(q, j) => Single(r, j)
      BY <2>1 DEF Single
    <2>4. Any(r, j) <=> Any(q, j)
      BY <2>1, <2>2 DEF Any
    <2>5. ASSUME NEW ops, NEW results
          PROVE  Has(r, j, ops, results) <=> Has(q, j, ops, results)
      BY <2>1, <2>2 DEF Has
    <2> QED
      BY <2>3, <2>4, <2>5 DEF Same
  <1>3. ASSUME ~Any(q, c.i)
        PROVE  /\ Single(r, c.i) /\ Any(r, c.i)
               /\ \A ops, results :
                    Has(r, c.i, ops, results) <=> c.op \in ops /\ c.result \in results
    <2>1. \A n \in 1..Len(r) : r[n].i = c.i => n = Len(q) + 1
      BY <1>1, <1>3 DEF Any
    <2>2. Len(q) + 1 \in 1..Len(r)
      BY <1>1
    <2>3. Single(r, c.i)
      BY <2>1 DEF Single
    <2>4. Any(r, c.i)
      BY <1>1, <2>2 DEF Any
    <2>5. ASSUME NEW ops, NEW results
          PROVE  Has(r, c.i, ops, results) <=> c.op \in ops /\ c.result \in results
      BY <1>1, <2>1, <2>2 DEF Has
    <2> QED
      BY <2>3, <2>4, <2>5
  <1> QED
    BY <1>1, <1>2, <1>3 DEF r

LEMMA TailQueue ==
  ASSUME NEW T, NEW q \in Seq(T), q # <<>>
  PROVE  LET c == Head(q) IN
         /\ c \in T /\ Tail(q) \in Seq(T) /\ Any(q, c.i)
         /\ \A j : c.i # j => Same(q, Tail(q), j)
         /\ Single(q, c.i) =>
              /\ ~Any(Tail(q), c.i)
              /\ \A ops, results :
                   Has(q, c.i, ops, results) <=> c.op \in ops /\ c.result \in results
  <1> DEFINE r == Tail(q)
             c == Head(q)
  <1>1. /\ r \in Seq(T) /\ c \in T /\ Len(q) \in Nat /\ Len(r) \in Nat /\ Len(q) = Len(r) + 1
        /\ q[1] = c /\ \A n \in 1..Len(r) : r[n] = q[n + 1]
    <2>1. /\ r \in Seq(T) /\ c \in T /\ Len(r) = Len(q) - 1 /\ q[1] = c
          /\ \A n \in 1..Len(r) : r[n] = q[n + 1]
      BY HeadTailProperties
    <2>2. Len(q) \in Nat /\ Len(q) # 0 /\ Len(r) \in Nat
      BY <2>1, SeqFacts, LenProperties
    <2> QED
      BY <2>1, <2>2
  <1> HIDE DEF r, c
  <1>2. 1 \in 1..Len(q) /\ \A n \in 1..Len(r) : n + 1 \in 1..Len(q) /\ n + 1 # 1
    BY <1>1
  <1>3. ASSUME NEW j, c.i # j
        PROVE  Same(q, r, j)
    <2>1. \A n \in 1..Len(q) : q[n].i = j => n - 1 \in 1..Len(r) /\ r[n - 1] = q[n]
      <3>1. ASSUME NEW n \in 1..Len(q), q[n].i = j
            PROVE  n - 1 \in 1..Len(r) /\ r[n - 1] = q[n]
        <4>1. n # 1
          BY <1>1, <1>3, <3>1
        <4>2. n - 1 \in 1..Len(r) /\ (n - 1) + 1 = n
          BY <1>1, <4>1
        <4> QED
          BY <1>1, <4>2
      <3> QED
        BY <3>1
    <2>2. Single(q, j) => Single(r, j)
      <3>1. ASSUME Single(q, j), NEW m \in 1..Len(r), NEW n \in 1..Len(r),
                   r[m].i = j, r[n].i = j
            PROVE  m = n
        <4>1. m + 1 = n + 1
          BY <1>1, <1>2, <3>1 DEF Single
        <4> QED
          BY <1>1, <4>1
      <3> QED
        BY <3>1 DEF Single
    <2>3. Any(r, j) <=> Any(q, j)
      BY <1>1, <1>2, <2>1, SMTT(30) DEF Any
    <2>4. ASSUME NEW ops, NEW results
          PROVE  Has(r, j, ops, results) <=> Has(q, j, ops, results)
      <3>1. ASSUME Has(q, j, ops, results)
            PROVE  Has(r, j, ops, results)
        BY <2>1, <3>1 DEF Has
      <3>2. ASSUME Has(r, j, ops, results)
            PROVE  Has(q, j, ops, results)
        BY <1>1, <1>2, <3>2 DEF Has
      <3> QED
        BY <3>1, <3>2
    <2> QED
      BY <2>2, <2>3, <2>4 DEF Same
  <1>4. ASSUME Single(q, c.i)
        PROVE  /\ ~Any(r, c.i)
               /\ \A ops, results :
                    Has(q, c.i, ops, results) <=> c.op \in ops /\ c.result \in results
    <2>1. \A n \in 1..Len(q) : q[n].i = c.i => n = 1
      BY <1>1, <1>2, <1>4 DEF Single
    <2>2. ~Any(r, c.i)
      BY <1>1, <1>2, <2>1 DEF Any
    <2>3. ASSUME NEW ops, NEW results
          PROVE  Has(q, c.i, ops, results) <=> c.op \in ops /\ c.result \in results
      BY <1>1, <1>2, <2>1 DEF Has
    <2> QED
      BY <2>2, <2>3
  <1>5. Any(q, c.i)
    BY <1>1, <1>2 DEF Any
  <1> QED
    BY <1>1, <1>3, <1>4, <1>5 DEF r, c

LEMMA SameFacts ==
  ASSUME NEW q, NEW r, NEW s, NEW j
  PROVE  Same(q, q, j) /\ (Same(q, r, j) /\ Same(r, s, j) => Same(q, s, j))
  BY DEF Same

LEMMA HasAny ==
  ASSUME NEW q, NEW i, NEW ops, NEW results, Has(q, i, ops, results)
  PROVE  Any(q, i)
  BY DEF Has, Any

(* How many completions of an instance wait, when it is one at most.       *)
LEMMA QueuedOnce ==
  ASSUME apcs \in Seq(Completion), NEW i \in Instances, Single(apcs, i), NEW ops, NEW results
  PROVE  QueuedFor(i, ops, results) = IF Has(apcs, i, ops, results) THEN 1 ELSE 0
  <1> DEFINE found == {n \in 1..Len(apcs) :
                         apcs[n].i = i /\ apcs[n].op \in ops /\ apcs[n].result \in results}
  <1>1. CASE Has(apcs, i, ops, results)
    <2>1. PICK n \in found : TRUE
      BY <1>1 DEF Has
    <2>2. found = {n}
      BY <2>1 DEF Single
    <2>3. Cardinality(found) = 1
      BY <2>2, FS_Singleton
    <2> QED
      BY <1>1, <2>3 DEF QueuedFor
  <1>2. CASE ~Has(apcs, i, ops, results)
    <2>1. found = {}
      BY <1>2 DEF Has
    <2>2. Cardinality(found) = 0
      BY <2>1, FS_EmptySet
    <2> QED
      BY <1>2, <2>2 DEF QueuedFor
  <1> QED
    BY <1>1, <1>2

-----------------------------------------------------------------------------
(* The operations on an instance                                           *)

LEMMA InstanceFacts ==
  ASSUME NEW k \in InstanceType
  PROVE  /\ k.conn \in {"none", "listening", "connected", "orphaned", "closed"}
         /\ k.op \in {"none", "read", "write"} /\ k.inbox \in Seq(Requests)
         /\ k.outbox \in 0..Quota /\ k.asked \in Nat /\ k.answered \in Nat
         /\ k.storage \in {"none", "allocated", "freed"}
         /\ Len(k.inbox) \in Nat /\ (Len(k.inbox) = 0 <=> k.inbox = <<>>)
  <1>1. k.inbox \in Seq(Requests)
    BY DEF InstanceType
  <1> QED
    BY <1>1, SeqFacts DEF InstanceType

Unfit(k) == \E n \in 1..Len(k.inbox) : k.inbox[n] # "fits"

(* What Improper says of an instance k when q are the completions.         *)
Misused(k, q, i) ==
  k.conn = "connected" /\ (Unfit(k) \/ Has(q, i, {"read"}, {"zero", "failed"}))

Stays(k, l) == l.conn = k.conn /\ l.asked = k.asked /\ l.answered = k.answered

(* The instance is l and the completions are q, as the invariant asks.     *)
Becomes(l, q, queue, i) ==
  /\ l \in InstanceType /\ q \in Seq(Completion)
  /\ inst' = [inst EXCEPT ![i] = l] /\ apcs' = q
  /\ Held(l, q, i) /\ Counted(l, q, i)
  /\ \A j \in Instances \ {i} : Same(queue, q, j)

LEMMA Results3 ==
  ASSUME NEW r \in Requests
  PROVE  /\ ResultOf(r) \in Results
         /\ r = "fits" => ResultOf(r) = "ok"
         /\ r # "fits" => ResultOf(r) \in {"zero", "failed"}
  BY DEF Requests, Results, ResultOf

(* The first request of an inbox and those behind it.                      *)
LEMMA UnfitFacts ==
  ASSUME NEW k \in InstanceType, NEW l, k.inbox # <<>>, l.inbox = Tail(k.inbox)
  PROVE  Unfit(k) <=> Head(k.inbox) # "fits" \/ Unfit(l)
  <1>1. /\ Len(k.inbox) \in Nat /\ Len(l.inbox) \in Nat /\ Len(k.inbox) = Len(l.inbox) + 1
        /\ k.inbox[1] = Head(k.inbox)
        /\ \A n \in 1..Len(l.inbox) : l.inbox[n] = k.inbox[n + 1]
    <2>1. /\ Len(Tail(k.inbox)) = Len(k.inbox) - 1 /\ k.inbox[1] = Head(k.inbox)
          /\ \A n \in 1..Len(Tail(k.inbox)) : Tail(k.inbox)[n] = k.inbox[n + 1]
      BY InstanceFacts, HeadTailProperties
    <2>2. Len(k.inbox) \in Nat /\ Len(k.inbox) # 0
      BY InstanceFacts
    <2> QED
      BY <2>1, <2>2
  <1>2. ASSUME Unfit(l)
        PROVE  Unfit(k)
    <2>1. PICK n \in 1..Len(l.inbox) : l.inbox[n] # "fits"
      BY <1>2 DEF Unfit
    <2>2. n + 1 \in 1..Len(k.inbox) /\ k.inbox[n + 1] # "fits"
      BY <1>1, <2>1
    <2> QED
      BY <2>2 DEF Unfit
  <1>3. ASSUME Head(k.inbox) # "fits"
        PROVE  Unfit(k)
    <2>1. 1 \in 1..Len(k.inbox) /\ k.inbox[1] # "fits"
      BY <1>1, <1>3
    <2> QED
      BY <2>1 DEF Unfit
  <1>4. ASSUME Unfit(k), Head(k.inbox) = "fits"
        PROVE  Unfit(l)
    <2>1. PICK n \in 1..Len(k.inbox) : k.inbox[n] # "fits"
      BY <1>4 DEF Unfit
    <2>2. n # 1
      BY <1>1, <1>4, <2>1
    <2>3. n - 1 \in 1..Len(l.inbox) /\ (n - 1) + 1 = n
      BY <1>1, <2>2
    <2>4. l.inbox[n - 1] # "fits"
      BY <1>1, <2>1, <2>3
    <2> QED
      BY <2>3, <2>4 DEF Unfit
  <1> QED
    BY <1>2, <1>3, <1>4

(* The instance is free for an operation: nothing of it is outstanding.    *)
Free(k, queue, i) ==
  /\ k \in InstanceType /\ queue \in Seq(Completion) /\ i \in Instances
  /\ k.op = "none" /\ k.storage = "allocated" /\ ~Any(queue, i)
  /\ k.conn \notin {"none", "listening"}

LEMMA Counting ==
  ASSUME NEW asked \in Nat, NEW left \in Nat, NEW answered \in Nat
  PROVE  /\ asked = (left + 1) + answered => asked = left + answered + 1 + 0
         /\ asked = left + answered => asked = left + answered + 0 + 0
         /\ asked = left + answered + 1 =>
              /\ asked = left + (answered + 1) + 0 + 0
              /\ asked = left + answered + 0 + 1
              /\ answered < asked
         /\ asked = left + answered + 1 + 0 => asked = left + answered + 1
         /\ asked = left + answered + 0 + 1 => asked = left + answered + 1
         /\ asked = left + answered + 0 + 0 => asked = left + answered
  OBVIOUS

LEMMA OneMore ==
  ASSUME NEW asked \in Nat, NEW left \in Nat, NEW answered \in Nat, NEW x \in Nat,
         NEW y \in Nat, asked = left + answered + x + y
  PROVE  asked + 1 = (left + 1) + answered + x + y
  OBVIOUS

LEMMA CloseBecomes ==
  ASSUME NEW i, NEW k, NEW queue, Free(k, queue, i), DisconnectAndClose(i, k, queue)
  PROVE  \E l, q : /\ Becomes(l, q, queue, i) /\ l.conn = "closed" /\ l.storage = "freed"
                   /\ l.asked = k.asked /\ l.answered = k.answered
  <1> DEFINE l == [k EXCEPT !.conn = "closed", !.op = "none", !.inbox = <<>>,
                            !.outbox = 0, !.storage = "freed"]
  <1>1. /\ l \in InstanceType /\ l.conn = "closed" /\ l.storage = "freed" /\ l.op = "none"
        /\ l.asked = k.asked /\ l.answered = k.answered
    <2>1. <<>> \in Seq(Requests) /\ 0 \in 0..Quota
      BY RoutineAssumption
    <2> QED
      BY <2>1 DEF Free, InstanceType
  <1>2. inst' = [inst EXCEPT ![i] = l] /\ apcs' = queue
    BY DEF DisconnectAndClose, Update
  <1> HIDE DEF l
  <1>3. Single(queue, i) /\ ~Any(queue, i) /\ queue \in Seq(Completion)
    BY DEF Single, Any, Free
  <1>4. Held(l, queue, i) /\ Counted(l, queue, i)
    BY <1>1, <1>3 DEF Held, Counted
  <1>5. Becomes(l, queue, queue, i)
    BY <1>1, <1>2, <1>3, <1>4, SameFacts DEF Becomes
  <1> QED
    BY <1>1, <1>5

LEMMA ReadBecomes ==
  ASSUME NEW i, NEW k, NEW queue, Free(k, queue, i), CanRead(k), ReadFileEx(i, k, queue),
         k.conn = "connected" => k.asked = Len(k.inbox) + k.answered
  PROVE  \E l, q : /\ Becomes(l, q, queue, i) /\ Stays(k, l) /\ l.storage = "allocated"
                   /\ Misused(l, q, i) <=> k.conn = "connected" /\ Unfit(k)
  <1>0. /\ k \in InstanceType /\ queue \in Seq(Completion) /\ i \in Instances
        /\ k.op = "none" /\ k.storage = "allocated" /\ ~Any(queue, i)
        /\ k.conn \notin {"none", "listening"}
        /\ k.inbox \in Seq(Requests) /\ Len(k.inbox) \in Nat
        /\ k.asked \in Nat /\ k.answered \in Nat
    BY InstanceFacts DEF Free
  <1>1. CASE k.inbox # <<>>
    <2> DEFINE l == [k EXCEPT !.inbox = Tail(@), !.op = "none"]
               c == [i |-> i, op |-> "read", result |-> ResultOf(Head(k.inbox))]
               q == Append(queue, c)
    <2>1. /\ Head(k.inbox) \in Requests /\ Tail(k.inbox) \in Seq(Requests)
          /\ Len(Tail(k.inbox)) \in Nat /\ Len(k.inbox) = Len(Tail(k.inbox)) + 1
      <3>1. /\ Head(k.inbox) \in Requests /\ Tail(k.inbox) \in Seq(Requests)
            /\ Len(Tail(k.inbox)) = Len(k.inbox) - 1 /\ Len(Tail(k.inbox)) \in Nat
        BY <1>0, <1>1, SeqFacts
      <3> QED
        BY <1>0, <3>1
    <2>2. /\ l \in InstanceType /\ Stays(k, l) /\ l.storage = "allocated" /\ l.op = "none"
          /\ l.inbox = Tail(k.inbox)
      BY <1>0, <2>1 DEF InstanceType, Stays
    <2>3. /\ c \in Completion /\ c.i = i /\ c.op = "read"
          /\ c.result = ResultOf(Head(k.inbox))
      BY <1>0, <2>1, Results3 DEF Completion, Operations
    <2>4. inst' = [inst EXCEPT ![i] = l] /\ apcs' = q
      BY <1>1 DEF ReadFileEx, Update
    <2> HIDE DEF l, c
    <2>5. /\ q \in Seq(Completion) /\ Single(q, i) /\ Any(q, i)
          /\ \A j \in Instances \ {i} : Same(queue, q, j)
          /\ \A ops, results : Has(q, i, ops, results) <=> c.op \in ops /\ c.result \in results
      BY <1>0, <2>3, AppendQueue
    <2> HIDE DEF q
    <2>6. /\ Has(q, i, {"read"}, {"ok"}) <=> c.result = "ok"
          /\ Has(q, i, {"read"}, {"zero", "failed"}) <=> c.result \in {"zero", "failed"}
          /\ ~Has(q, i, {"write"}, {"zero", "failed"})
          /\ c.result \in {"ok", "zero", "failed"}
      BY <2>3, <2>5 DEF Completion, Results
    <2>7. Held(l, q, i)
      BY <1>0, <2>2, <2>5, <2>6 DEF Held, Stays
    <2>8. Counted(l, q, i)
      <3>1. k.conn = "connected" => l.asked = Len(l.inbox) + l.answered + 1 + 0
        <4>1. k.conn = "connected" => k.asked = (Len(Tail(k.inbox)) + 1) + k.answered
          BY <2>1
        <4>2. k.conn = "connected" => k.asked = Len(Tail(k.inbox)) + k.answered + 1 + 0
          BY <1>0, <2>1, <4>1, Counting
        <4> QED
          BY <2>2, <4>2 DEF Stays
      <3> QED
        BY <2>2, <2>6, <3>1 DEF Counted, Stays
    <2>9. Becomes(l, q, queue, i)
      BY <2>2, <2>4, <2>5, <2>7, <2>8 DEF Becomes
    <2>10. Misused(l, q, i) <=> k.conn = "connected" /\ Unfit(k)
      <3>1. Unfit(k) <=> Head(k.inbox) # "fits" \/ Unfit(l)
        BY <1>0, <1>1, <2>2, UnfitFacts
      <3>2. c.result \in {"zero", "failed"} <=> Head(k.inbox) # "fits"
        BY <2>1, <2>3, Results3
      <3> QED
        BY <2>2, <2>6, <3>1, <3>2 DEF Misused, Stays
    <2> QED
      BY <2>2, <2>9, <2>10
  <1>2. CASE k.inbox = <<>>
    <2> DEFINE l == [k EXCEPT !.op = "read"]
    <2>1. k.conn = "connected"
      BY <1>2 DEF CanRead
    <2>2. /\ l \in InstanceType /\ Stays(k, l) /\ l.storage = "allocated" /\ l.op = "read"
          /\ l.inbox = k.inbox
      BY <1>0 DEF InstanceType, Stays
    <2>3. inst' = [inst EXCEPT ![i] = l] /\ apcs' = queue
      BY <1>2 DEF ReadFileEx, Update
    <2> HIDE DEF l
    <2>4. Single(queue, i) /\ \A ops, results : ~Has(queue, i, ops, results)
      BY <1>0 DEF Single, Any, Has
    <2>5. Held(l, queue, i)
      BY <1>0, <2>1, <2>2, <2>4 DEF Held, Stays
    <2>6. Counted(l, queue, i)
      <3>1. l.asked = Len(l.inbox) + l.answered + 0 + 0
        BY <1>0, <2>1, <2>2, Counting DEF Stays
      <3> QED
        BY <2>2, <2>4, <3>1 DEF Counted
    <2>7. Becomes(l, queue, queue, i)
      BY <1>0, <2>2, <2>3, <2>5, <2>6, SameFacts DEF Becomes
    <2>8. Misused(l, queue, i) <=> k.conn = "connected" /\ Unfit(k)
      BY <2>2, <2>4 DEF Misused, Unfit, Stays
    <2> QED
      BY <2>2, <2>7, <2>8
  <1> QED
    BY <1>1, <1>2

LEMMA WriteBecomes ==
  ASSUME NEW i, NEW k, NEW queue, Free(k, queue, i), k.conn = "connected",
         WriteFileEx(i, k, queue), k.asked = Len(k.inbox) + k.answered + 1
  PROVE  \E l, q : /\ Becomes(l, q, queue, i) /\ l.storage = "allocated"
                   /\ l.conn = "connected" /\ l.asked = k.asked
                   /\ \/ l.answered = k.answered
                      \/ l.answered = k.answered + 1 /\ k.answered < k.asked
                   /\ Misused(l, q, i) <=> Unfit(k)
  <1>0. /\ k \in InstanceType /\ queue \in Seq(Completion) /\ i \in Instances
        /\ k.op = "none" /\ k.storage = "allocated" /\ ~Any(queue, i)
        /\ k.outbox \in 0..Quota /\ Len(k.inbox) \in Nat
        /\ k.asked \in Nat /\ k.answered \in Nat
    BY InstanceFacts DEF Free
  <1>1. CASE k.outbox < Quota
    <2> DEFINE l == [k EXCEPT !.outbox = @ + 1, !.answered = @ + 1]
               c == [i |-> i, op |-> "write", result |-> "ok"]
               q == Append(queue, c)
    <2>1. k.outbox + 1 \in 0..Quota /\ k.answered + 1 \in Nat
      BY <1>0, <1>1, RoutineAssumption
    <2>2. /\ l \in InstanceType /\ l.conn = "connected" /\ l.storage = "allocated"
          /\ l.op = "none" /\ l.inbox = k.inbox /\ l.asked = k.asked
          /\ l.answered = k.answered + 1
      BY <1>0, <2>1 DEF InstanceType
    <2>3. c \in Completion /\ c.i = i /\ c.op = "write" /\ c.result = "ok"
      BY <1>0 DEF Completion, Operations, Results
    <2>4. inst' = [inst EXCEPT ![i] = l] /\ apcs' = q
      BY <1>0, <1>1, RoutineAssumption DEF WriteFileEx, Update
    <2> HIDE DEF l, c
    <2>5. /\ q \in Seq(Completion) /\ Single(q, i) /\ Any(q, i)
          /\ \A j \in Instances \ {i} : Same(queue, q, j)
          /\ \A ops, results : Has(q, i, ops, results) <=> c.op \in ops /\ c.result \in results
      BY <1>0, <2>3, AppendQueue
    <2> HIDE DEF q
    <2>6. /\ ~Has(q, i, {"read"}, {"ok"}) /\ ~Has(q, i, {"read"}, {"zero", "failed"})
          /\ ~Has(q, i, {"write"}, {"zero", "failed"})
      BY <2>3, <2>5
    <2>7. Held(l, q, i)
      BY <2>2, <2>5, <2>6 DEF Held
    <2>8. Counted(l, q, i)
      <3>1. l.asked = Len(l.inbox) + l.answered + 0 + 0
        BY <1>0, <2>2, Counting
      <3> QED
        BY <2>2, <2>6, <3>1 DEF Counted
    <2>9. Becomes(l, q, queue, i)
      BY <2>2, <2>4, <2>5, <2>7, <2>8 DEF Becomes
    <2>10. Misused(l, q, i) <=> Unfit(k)
      BY <2>2, <2>6 DEF Misused, Unfit
    <2>11. k.answered < k.asked
      BY <1>0, Counting
    <2> QED
      BY <2>2, <2>9, <2>10, <2>11
  <1>2. CASE k.outbox = Quota
    <2> DEFINE l == [k EXCEPT !.op = "write"]
    <2>2. /\ l \in InstanceType /\ l.conn = "connected" /\ l.storage = "allocated"
          /\ l.op = "write" /\ l.inbox = k.inbox /\ l.asked = k.asked
          /\ l.answered = k.answered
      BY <1>0 DEF InstanceType
    <2>3. inst' = [inst EXCEPT ![i] = l] /\ apcs' = queue
      BY <1>2, RoutineAssumption DEF WriteFileEx, Update
    <2> HIDE DEF l
    <2>4. Single(queue, i) /\ \A ops, results : ~Has(queue, i, ops, results)
      BY <1>0 DEF Single, Any, Has
    <2>5. Held(l, queue, i)
      BY <1>0, <2>2, <2>4 DEF Held
    <2>6. Counted(l, queue, i)
      <3>1. l.asked = Len(l.inbox) + l.answered + 0 + 1
        BY <1>0, <2>2, Counting
      <3> QED
        BY <2>2, <2>4, <3>1 DEF Counted
    <2>7. Becomes(l, queue, queue, i)
      BY <1>0, <2>2, <2>3, <2>5, <2>6, SameFacts DEF Becomes
    <2>8. Misused(l, queue, i) <=> Unfit(k)
      BY <2>2, <2>4 DEF Misused, Unfit
    <2> QED
      BY <2>2, <2>7, <2>8
  <1> QED
    BY <1>0, <1>1, <1>2, RoutineAssumption

(* The routine of a write, and the start of an instance: it reads or gives *)
(* up a client that has gone.                                              *)
LEMMA WrittenBecomes ==
  ASSUME NEW i, NEW k, NEW queue, NEW result, Free(k, queue, i),
         CompletedWriteRoutine(i, k, result, queue),
         k.conn = "connected" => result = "ok" /\ k.asked = Len(k.inbox) + k.answered
  PROVE  \E l, q :
           /\ Becomes(l, q, queue, i)
           /\ \/ /\ Stays(k, l) /\ l.storage = "allocated"
                 /\ Misused(l, q, i) <=> k.conn = "connected" /\ Unfit(k)
              \/ /\ l.conn = "closed" /\ l.storage = "freed" /\ k.conn # "connected"
                 /\ l.asked = k.asked /\ l.answered = k.answered
  <1>1. CASE result = "ok" /\ CanRead(k)
    <2>1. ReadFileEx(i, k, queue)
      BY <1>1 DEF CompletedWriteRoutine
    <2> QED
      BY <1>1, <2>1, ReadBecomes
  <1>2. CASE ~(result = "ok" /\ CanRead(k))
    <2>1. DisconnectAndClose(i, k, queue) /\ k.conn # "connected"
      BY <1>2 DEF CompletedWriteRoutine, CanRead
    <2> QED
      BY <2>1, CloseBecomes
  <1> QED
    BY <1>1, <1>2

LEMMA AnsweredBecomes ==
  ASSUME NEW i, NEW k, NEW queue, NEW result, Free(k, queue, i),
         CompletedReadRoutine(i, k, result, queue),
         k.conn = "connected" /\ result = "ok" => k.asked = Len(k.inbox) + k.answered + 1
  PROVE  \E l, q :
           /\ Becomes(l, q, queue, i)
           /\ \/ /\ k.conn = "connected" /\ result = "ok" /\ l.storage = "allocated"
                 /\ l.conn = "connected" /\ l.asked = k.asked
                 /\ \/ l.answered = k.answered
                    \/ l.answered = k.answered + 1 /\ k.answered < k.asked
                 /\ Misused(l, q, i) <=> Unfit(k)
              \/ /\ l.conn = "closed" /\ l.storage = "freed"
                 /\ k.conn = "connected" => result # "ok"
                 /\ l.asked = k.asked /\ l.answered = k.answered
  <1>1. CASE result = "ok" /\ k.conn = "connected"
    <2>1. WriteFileEx(i, k, queue)
      BY <1>1 DEF CompletedReadRoutine
    <2> QED
      BY <1>1, <2>1, WriteBecomes
  <1>2. CASE ~(result = "ok" /\ k.conn = "connected")
    <2>1. DisconnectAndClose(i, k, queue)
      BY <1>2 DEF CompletedReadRoutine
    <2> QED
      BY <1>2, <2>1, CloseBecomes
  <1> QED
    BY <1>1, <1>2

-----------------------------------------------------------------------------
(* The invariant                                                           *)

Scalars ==
  /\ pc \in {"create", "connect", "wait", "routines", "stopped"}
  /\ hPipe \in {0} \union Instances
  /\ fPendingIO \in BOOLEAN /\ event \in BOOLEAN
  /\ connect \in {"none", "pending", "ok", "failed"}
  /\ created \in {0} \union Instances /\ failures \in 0..MaxFailures

LEMMA TypeParts ==
  TypeOK <=> Scalars /\ inst \in [Instances -> InstanceType] /\ apcs \in Seq(Completion)
  BY DEF TypeOK, Scalars, Completion, Operations

LEMMA InvFacts ==
  ASSUME Inv, NEW i \in Instances
  PROVE  /\ Scalars /\ inst \in [Instances -> InstanceType] /\ apcs \in Seq(Completion)
         /\ inst[i] \in InstanceType /\ Held(inst[i], apcs, i) /\ Counted(inst[i], apcs, i)
         /\ i \in Nat \ {0} /\ i <= MaxClients + 1
         /\ inst[i].asked \in Nat /\ inst[i].answered \in Nat /\ Len(inst[i].inbox) \in Nat
  <1>1. /\ Scalars /\ inst \in [Instances -> InstanceType] /\ apcs \in Seq(Completion)
        /\ Held(inst[i], apcs, i) /\ Counted(inst[i], apcs, i)
    BY TypeParts DEF Inv
  <1>2. i \in Nat \ {0} /\ i <= MaxClients + 1
    BY RoutineAssumption DEF Instances
  <1> QED
    BY <1>1, <1>2, InstanceFacts

(* A step of one instance keeps the invariant when it does so for that     *)
(* instance and for what the thread knows of the newest one.               *)
LEMMA OneInstance ==
  ASSUME Inv, NEW i \in Instances, NEW l, NEW q, NEW queue, Becomes(l, q, queue, i),
         \A j \in Instances \ {i} : Same(apcs, queue, j),
         Scalars',
         /\ inst'[i] = l
         /\ \A j \in Instances \ {i} : inst'[j] = inst[j]
         => Newest'
  PROVE  /\ Inv' /\ inst'[i] = l /\ apcs' = q
         /\ \A j \in Instances \ {i} : inst'[j] = inst[j] /\ Same(apcs, q, j)
  <1>1. /\ inst' \in [Instances -> InstanceType] /\ apcs' \in Seq(Completion)
        /\ inst'[i] = l /\ apcs' = q /\ Held(l, q, i) /\ Counted(l, q, i)
        /\ \A j \in Instances \ {i} : inst'[j] = inst[j]
    BY InvFacts DEF Becomes
  <1>2. \A j \in Instances \ {i} : Same(apcs, q, j)
    BY SameFacts DEF Becomes
  <1>3. TypeOK' /\ Newest'
    <2>1. Newest'
      BY <1>1
    <2>2. TypeOK'
      BY <1>1 DEF TypeOK, Scalars, Completion, Operations
    <2> QED
      BY <2>1, <2>2
  <1>4. ASSUME NEW j \in Instances
        PROVE  Held(inst'[j], apcs', j) /\ Counted(inst'[j], apcs', j)
    <2>1. CASE j = i
      BY <1>1, <2>1
    <2>2. CASE j # i
      <3>1. inst'[j] = inst[j] /\ Same(apcs, q, j) /\ Held(inst[j], apcs, j)
            /\ Counted(inst[j], apcs, j)
        BY <1>1, <1>2, <2>2, InvFacts
      <3>2. Held(inst[j], q, j)
        BY <3>1 DEF Held, Same
      <3>3. Counted(inst[j], q, j)
        BY <3>1 DEF Counted, Same
      <3> QED
        BY <1>1, <3>1, <3>2, <3>3
    <2> QED
      BY <2>1, <2>2
  <1> QED
    BY <1>1, <1>2, <1>3, <1>4 DEF Inv

(* The step of an instance whose client is still there or has gone.        *)
Other == <<pc, hPipe, fPendingIO, event, connect, created, failures>>

LEMMA ClientKeeps ==
  ASSUME Inv, NEW i \in Instances, NEW l, NEW q, Becomes(l, q, apcs, i), UNCHANGED Other,
         l.storage = inst[i].storage,
         l.conn = inst[i].conn \/ (inst[i].conn = "connected" /\ l.conn = "orphaned")
  PROVE  /\ Inv' /\ inst'[i] = l /\ apcs' = q
         /\ \A j \in Instances \ {i} : inst'[j] = inst[j] /\ Same(apcs, q, j)
  <1>1. Scalars'
    BY InvFacts DEF Other, Scalars
  <1>2. ASSUME inst'[i] = l, \A j \in Instances \ {i} : inst'[j] = inst[j]
        PROVE  Newest'
    <2>1. \A j \in Instances :
            /\ inst'[j].storage = inst[j].storage
            /\ \/ inst'[j].conn = inst[j].conn
               \/ inst[j].conn = "connected" /\ inst'[j].conn = "orphaned"
      BY <1>2
    <2>2. hPipe \in {0} \union Instances
      BY InvFacts DEF Scalars
    <2> QED
      BY <2>1, <2>2 DEF Newest, Inv, Other
  <1> QED
    BY <1>1, <1>2, SameFacts, OneInstance

-----------------------------------------------------------------------------
(* What a client does                                                      *)

(* The steps of an instance, in the terms of Session.                      *)
Bad(i) == Misused(inst[i], apcs, i)

(* Of instance i nothing is seen by its client; it is answered; or it is   *)
(* hung up on.                                                             *)
Unseen(i) ==
  /\ inst'[i].conn = inst[i].conn \/ (inst[i].conn = "none" /\ inst'[i].conn = "listening")
  /\ Bad(i)' <=> Bad(i)
  /\ inst'[i].asked = inst[i].asked /\ inst'[i].answered = inst[i].answered

Answered(i) ==
  /\ inst[i].conn = "connected" /\ inst'[i].conn = "connected" /\ (Bad(i)' <=> Bad(i))
  /\ inst[i].answered < inst[i].asked
  /\ inst'[i].asked = inst[i].asked /\ inst'[i].answered = inst[i].answered + 1

HungUp(i) ==
  /\ inst'[i].conn = "closed" /\ (inst[i].conn = "connected" => Bad(i))
  /\ inst[i].conn \in {"connected", "orphaned", "closed"}
  /\ inst'[i].asked = inst[i].asked /\ inst'[i].answered = inst[i].answered

Elsewhere(i) ==
  \A j \in Instances \ {i} : inst'[j] = inst[j] /\ Same(apcs, apcs', j)

LEMMA OpensKeeps ==
  ASSUME Inv, NEW i \in Instances, ClientOpens(i)
  PROVE  /\ Inv' /\ Elsewhere(i)
         /\ inst[i].conn = "listening" /\ inst'[i].conn = "connected" /\ ~Bad(i)'
         /\ inst'[i].asked = 0 /\ inst'[i].answered = 0
  <1> DEFINE l == [inst[i] EXCEPT !.conn = "connected"]
  <1>1. /\ inst[i] \in InstanceType /\ inst[i].conn = "listening" /\ i <= MaxClients
        /\ Held(inst[i], apcs, i)
        /\ inst[i].inbox = <<>> /\ inst[i].asked = 0 /\ inst[i].answered = 0
        /\ inst[i].storage = "none" /\ inst[i].op = "none" /\ ~Any(apcs, i)
        /\ apcs \in Seq(Completion) /\ Scalars /\ i \in Nat \ {0}
    BY InvFacts DEF ClientOpens, Held
  <1>2. /\ l \in InstanceType /\ l.conn = "connected" /\ l.inbox = <<>> /\ l.asked = 0
        /\ l.answered = 0 /\ l.storage = "none" /\ l.op = "none"
    BY <1>1 DEF InstanceType
  <1>3. /\ inst' = [inst EXCEPT ![i] = l] /\ apcs' = apcs
        /\ pc' = pc /\ hPipe' = hPipe /\ fPendingIO' = fPendingIO /\ created' = created
        /\ failures' = failures
        /\ IF connect = "pending" /\ hPipe = i
           THEN connect' = "ok" /\ event' = TRUE
           ELSE connect' = connect /\ event' = event
    BY DEF ClientOpens, Update
  <1> HIDE DEF l
  <1>4. \A ops, results : ~Has(apcs, i, ops, results)
    BY <1>1 DEF Has, Any
  <1>5. Held(l, apcs, i) /\ Counted(l, apcs, i)
    <2>1. Len(l.inbox) = 0
      BY <1>2
    <2>2. l.asked = Len(l.inbox) + l.answered + 0 + 0
      BY <1>2, <2>1
    <2> QED
      BY <1>1, <1>2, <1>4, <2>2 DEF Held, Counted
  <1>6. Becomes(l, apcs, apcs, i)
    BY <1>1, <1>2, <1>3, <1>5, SameFacts DEF Becomes
  <1>7. Scalars'
    <2>1. fPendingIO' \in BOOLEAN /\ event' \in BOOLEAN
      BY <1>1, <1>3, Zenon DEF Scalars
    <2> QED
      BY <1>1, <1>3, <2>1 DEF Scalars
  <1>8. ASSUME inst'[i] = l, \A j \in Instances \ {i} : inst'[j] = inst[j]
        PROVE  Newest'
    <2>1. \A j \in Instances :
            /\ inst'[j].storage = inst[j].storage
            /\ j # i => inst'[j].conn = inst[j].conn
      BY <1>1, <1>2, <1>8
    <2>2. inst'[i].conn = "connected" /\ hPipe \in {0} \union Instances
      BY <1>1, <1>2, <1>8 DEF Scalars
    <2>3. Newest
      BY DEF Inv
    <2>4. /\ pc' # "stopped" /\ (pc' = "create" => created' <= MaxClients)
          /\ \A j \in Instances : j > created' => inst'[j].conn = "none"
      BY <1>1, <1>3, <2>1, <2>2, <2>3 DEF Newest
    <2>5. /\ \A j \in Instances : inst'[j].conn \notin {"none", "listening"} => j <= MaxClients
          /\ pc' = "connect" => hPipe' # 0
      BY <1>1, <1>3, <2>1, <2>2, <2>3 DEF Newest
    <2>6. pc' \in {"connect", "wait", "routines"} /\ hPipe' # 0 =>
            hPipe' = created' /\ inst'[hPipe'].storage = "none" /\ inst'[hPipe'].conn # "none"
      BY <1>1, <1>3, <2>1, <2>2, <2>3 DEF Newest
    <2>7. pc' \in {"wait", "routines"} =>
            /\ hPipe' = 0 => created' <= MaxClients
            /\ fPendingIO' /\ event' => connect' = "ok"
            /\ hPipe' # 0 /\ inst'[hPipe'].conn = "listening" => connect' = "pending" /\ ~event'
      BY <1>1, <1>3, <2>1, <2>2, <2>3 DEF Newest
    <2> QED
      BY <2>4, <2>5, <2>6, <2>7 DEF Newest
  <1>9. /\ Inv' /\ inst'[i] = l /\ apcs' = apcs /\ Elsewhere(i)
    BY <1>3, <1>6, <1>7, <1>8, SameFacts, OneInstance DEF Elsewhere
  <1>10. ~Bad(i)'
    <2>1. ~Misused(l, apcs, i)
      BY <1>2, <1>4 DEF Misused, Unfit
    <2> QED
      BY <1>9, <2>1 DEF Bad
  <1> QED
    BY <1>1, <1>2, <1>9, <1>10

LEMMA WritesKeeps ==
  ASSUME Inv, NEW i \in Instances, NEW r \in Requests, ClientWrites(i, r)
  PROVE  /\ Inv' /\ Elsewhere(i)
         /\ inst[i].conn = "connected" /\ inst'[i].conn = "connected"
         /\ inst'[i].asked = inst[i].asked + 1 /\ inst'[i].answered = inst[i].answered
         /\ Bad(i) => Bad(i)'
  <1> DEFINE k == [inst[i] EXCEPT !.asked = @ + 1]
  <1>1. /\ inst[i] \in InstanceType /\ inst[i].conn = "connected"
        /\ Held(inst[i], apcs, i) /\ Counted(inst[i], apcs, i)
        /\ apcs \in Seq(Completion) /\ inst[i].inbox \in Seq(Requests)
        /\ inst[i].asked \in Nat /\ inst[i].answered \in Nat /\ Len(inst[i].inbox) \in Nat
        /\ inst[i].asked + 1 \in Nat /\ UNCHANGED Other
    BY InvFacts, InstanceFacts DEF ClientWrites, Other
  <1>2. /\ k \in InstanceType /\ k.conn = "connected" /\ k.inbox = inst[i].inbox
        /\ k.asked = inst[i].asked + 1 /\ k.answered = inst[i].answered
        /\ k.storage = inst[i].storage /\ k.op = inst[i].op
    BY <1>1 DEF InstanceType
  <1>3. \/ /\ k.op = "read" /\ Update(i, [k EXCEPT !.op = "none"])
           /\ Queue(i, "read", ResultOf(r))
        \/ /\ k.op # "read" /\ Update(i, [k EXCEPT !.inbox = Append(@, r)])
           /\ apcs' = apcs
    BY DEF ClientWrites
  <1> HIDE DEF k
  <1>4. CASE k.op = "read"
    <2> DEFINE l == [k EXCEPT !.op = "none"]
               c == [i |-> i, op |-> "read", result |-> ResultOf(r)]
               q == Append(apcs, c)
    <2>1. /\ l \in InstanceType /\ l.conn = "connected" /\ l.inbox = inst[i].inbox
          /\ l.asked = inst[i].asked + 1 /\ l.answered = inst[i].answered
          /\ l.storage = inst[i].storage /\ l.op = "none"
      BY <1>2 DEF InstanceType
    <2>2. c \in Completion /\ c.i = i /\ c.op = "read" /\ c.result = ResultOf(r)
      BY Results3 DEF Completion, Operations
    <2>3. inst' = [inst EXCEPT ![i] = l] /\ apcs' = q
      BY <1>3, <1>4 DEF Update, Queue
    <2> HIDE DEF l, c
    <2>4. ~Any(apcs, i) /\ \A ops, results : ~Has(apcs, i, ops, results)
      BY <1>1, <1>2, <1>4, HasAny DEF Held
    <2>5. inst[i].storage = "allocated" /\ inst[i].op = "read"
      BY <1>1, <1>2, <1>4 DEF Held
    <2>6. /\ q \in Seq(Completion) /\ Single(q, i) /\ Any(q, i)
          /\ \A j \in Instances \ {i} : Same(apcs, q, j)
          /\ \A ops, results : Has(q, i, ops, results) <=> c.op \in ops /\ c.result \in results
      BY <1>1, <2>2, <2>4, AppendQueue
    <2> HIDE DEF q
    <2>7. /\ Has(q, i, {"read"}, {"ok"}) <=> c.result = "ok"
          /\ Has(q, i, {"read"}, {"zero", "failed"}) <=> c.result \in {"zero", "failed"}
          /\ ~Has(q, i, {"write"}, {"zero", "failed"})
          /\ c.result \in {"ok", "zero", "failed"}
      BY <2>2, <2>6 DEF Completion, Results
    <2>8. Held(l, q, i)
      BY <2>1, <2>5, <2>6, <2>7 DEF Held
    <2>9. Counted(l, q, i)
      <3>1. inst[i].asked = Len(inst[i].inbox) + inst[i].answered + 0 + 0
        BY <1>1, <2>4, <2>5 DEF Counted
      <3>2. l.asked = Len(l.inbox) + l.answered + 1 + 0
        BY <1>1, <2>1, <3>1
      <3> QED
        BY <2>1, <2>7, <3>2 DEF Counted
    <2>10. Becomes(l, q, apcs, i)
      BY <2>1, <2>3, <2>6, <2>8, <2>9 DEF Becomes
    <2>11. Inv' /\ inst'[i] = l /\ apcs' = q /\ Elsewhere(i)
      BY <1>1, <2>1, <2>10, ClientKeeps DEF Elsewhere
    <2>12. Bad(i) => Bad(i)'
      <3>1. Misused(inst[i], apcs, i) => Misused(l, q, i)
        BY <1>1, <2>1, <2>4 DEF Misused, Unfit
      <3> QED
        BY <2>11, <3>1 DEF Bad
    <2> QED
      BY <1>1, <2>1, <2>11, <2>12
  <1>5. CASE k.op # "read"
    <2> DEFINE l == [k EXCEPT !.inbox = Append(@, r)]
    <2>1. /\ Append(inst[i].inbox, r) \in Seq(Requests)
          /\ Len(Append(inst[i].inbox, r)) = Len(inst[i].inbox) + 1
          /\ \A n \in 1..Len(inst[i].inbox) : Append(inst[i].inbox, r)[n] = inst[i].inbox[n]
      BY <1>1, AppendProperties, SeqFacts
    <2>2. /\ l \in InstanceType /\ l.conn = "connected"
          /\ l.inbox = Append(inst[i].inbox, r)
          /\ l.asked = inst[i].asked + 1 /\ l.answered = inst[i].answered
          /\ l.storage = inst[i].storage /\ l.op = inst[i].op
      BY <1>2, <2>1 DEF InstanceType
    <2>3. inst' = [inst EXCEPT ![i] = l] /\ apcs' = apcs
      BY <1>3, <1>5 DEF Update
    <2> HIDE DEF l
    <2>4. Held(l, apcs, i)
      BY <1>1, <2>2 DEF Held
    <2>5. Counted(l, apcs, i)
      <3> DEFINE x == IF Has(apcs, i, {"read"}, {"ok"}) THEN 1 ELSE 0
                 y == IF inst[i].op = "write" THEN 1 ELSE 0
      <3>1. x \in Nat /\ y \in Nat
        OBVIOUS
      <3>2. ~Has(apcs, i, {"read"}, {"zero", "failed"}) =>
              inst[i].asked = Len(inst[i].inbox) + inst[i].answered + x + y
        BY <1>1 DEF Counted
      <3> HIDE DEF x, y
      <3>3. ~Has(apcs, i, {"read"}, {"zero", "failed"}) =>
              inst[i].asked + 1 = (Len(inst[i].inbox) + 1) + inst[i].answered + x + y
        <4>1. /\ inst[i].asked \in Nat /\ inst[i].answered \in Nat
              /\ Len(inst[i].inbox) \in Nat
          BY <1>1
        <4>2. ASSUME inst[i].asked = Len(inst[i].inbox) + inst[i].answered + x + y
              PROVE  inst[i].asked + 1 = (Len(inst[i].inbox) + 1) + inst[i].answered + x + y
          BY <3>1, <4>1, <4>2, OneMore, SMTT(30)
        <4> QED
          BY <3>2, <4>2
      <3>4. ~Has(apcs, i, {"read"}, {"zero", "failed"}) =>
              l.asked = Len(l.inbox) + l.answered + x + y
        BY <2>1, <2>2, <3>3
      <3> QED
        BY <2>2, <3>4 DEF Counted, x, y
    <2>6. Becomes(l, apcs, apcs, i)
      BY <1>1, <2>2, <2>3, <2>4, <2>5, SameFacts DEF Becomes
    <2>7. Inv' /\ inst'[i] = l /\ apcs' = apcs /\ Elsewhere(i)
      BY <1>1, <2>2, <2>6, ClientKeeps DEF Elsewhere
    <2>8. Bad(i) => Bad(i)'
      <3>1. Unfit(inst[i]) => Unfit(l)
        <4>1. \A n \in 1..Len(inst[i].inbox) :
                n \in 1..Len(l.inbox) /\ l.inbox[n] = inst[i].inbox[n]
          BY <1>1, <2>1, <2>2
        <4> QED
          BY <4>1 DEF Unfit
      <3>2. Misused(inst[i], apcs, i) => Misused(l, apcs, i)
        BY <2>2, <3>1 DEF Misused
      <3> QED
        BY <2>7, <3>2 DEF Bad
    <2> QED
      BY <1>1, <2>2, <2>7, <2>8
  <1> QED
    BY <1>4, <1>5

LEMMA ReadsKeeps ==
  ASSUME Inv, NEW i \in Instances, ClientReads(i)
  PROVE  Inv' /\ Elsewhere(i) /\ (Unseen(i) \/ Answered(i))
  <1>1. /\ inst[i] \in InstanceType
        /\ Held(inst[i], apcs, i) /\ Counted(inst[i], apcs, i)
        /\ apcs \in Seq(Completion) /\ inst[i].outbox \in 0..Quota /\ inst[i].outbox > 0
        /\ inst[i].asked \in Nat /\ inst[i].answered \in Nat /\ Len(inst[i].inbox) \in Nat
        /\ UNCHANGED Other
    BY InvFacts, InstanceFacts DEF ClientReads, Other
  <1>2. CASE inst[i].op = "write"
    <2> DEFINE l == [inst[i] EXCEPT !.op = "none", !.answered = @ + 1]
               c == [i |-> i, op |-> "write", result |-> "ok"]
               q == Append(apcs, c)
    <2>0. inst[i].answered + 1 \in Nat
      BY <1>1
    <2>1. /\ l \in InstanceType /\ l.conn = inst[i].conn /\ l.inbox = inst[i].inbox
          /\ l.asked = inst[i].asked /\ l.answered = inst[i].answered + 1
          /\ l.storage = inst[i].storage /\ l.op = "none"
      BY <1>1, <2>0 DEF InstanceType
    <2>2. c \in Completion /\ c.i = i /\ c.op = "write" /\ c.result = "ok"
      BY DEF Completion, Operations, Results
    <2>3. inst' = [inst EXCEPT ![i] = l] /\ apcs' = q
      BY <1>2 DEF ClientReads, Update, Queue
    <2> HIDE DEF l, c
    <2>4. /\ ~Any(apcs, i) /\ \A ops, results : ~Has(apcs, i, ops, results)
          /\ inst[i].storage = "allocated" /\ inst[i].conn = "connected"
      BY <1>1, <1>2, HasAny DEF Held
    <2>5. /\ q \in Seq(Completion) /\ Single(q, i) /\ Any(q, i)
          /\ \A j \in Instances \ {i} : Same(apcs, q, j)
          /\ \A ops, results : Has(q, i, ops, results) <=> c.op \in ops /\ c.result \in results
      BY <1>1, <2>2, <2>4, AppendQueue
    <2> HIDE DEF q
    <2>6. /\ ~Has(q, i, {"read"}, {"ok"}) /\ ~Has(q, i, {"read"}, {"zero", "failed"})
          /\ ~Has(q, i, {"write"}, {"zero", "failed"})
      BY <2>2, <2>5
    <2>7. Held(l, q, i)
      BY <2>1, <2>4, <2>5, <2>6 DEF Held
    <2>8. inst[i].asked = Len(inst[i].inbox) + inst[i].answered + 1
      <3>1. inst[i].asked = Len(inst[i].inbox) + inst[i].answered + 0 + 1
        BY <1>1, <1>2, <2>4 DEF Counted
      <3> QED
        BY <1>1, <3>1, Counting
    <2>9. /\ inst[i].asked = Len(inst[i].inbox) + (inst[i].answered + 1) + 0 + 0
          /\ inst[i].answered < inst[i].asked
      BY <1>1, <2>8, Counting, SMTT(30)
    <2>10. Counted(l, q, i)
      BY <2>1, <2>6, <2>9 DEF Counted
    <2>11. Becomes(l, q, apcs, i)
      BY <2>1, <2>3, <2>5, <2>7, <2>10 DEF Becomes
    <2>12. Inv' /\ inst'[i] = l /\ apcs' = q /\ Elsewhere(i)
      BY <1>1, <2>1, <2>11, ClientKeeps DEF Elsewhere
    <2>13. Bad(i)' <=> Bad(i)
      <3>1. Misused(inst[i], apcs, i) <=> Misused(l, q, i)
        BY <2>1, <2>4, <2>6 DEF Misused, Unfit
      <3> QED
        BY <2>12, <3>1 DEF Bad
    <2> QED
      BY <2>1, <2>4, <2>9, <2>12, <2>13 DEF Answered
  <1>3. CASE inst[i].op # "write"
    <2> DEFINE l == [inst[i] EXCEPT !.outbox = @ - 1]
    <2>0. inst[i].outbox - 1 \in 0..Quota
      BY <1>1, RoutineAssumption
    <2>1. /\ l \in InstanceType /\ l.conn = inst[i].conn /\ l.inbox = inst[i].inbox
          /\ l.asked = inst[i].asked /\ l.answered = inst[i].answered
          /\ l.storage = inst[i].storage /\ l.op = inst[i].op
      BY <1>1, <2>0 DEF InstanceType
    <2>2. inst' = [inst EXCEPT ![i] = l] /\ apcs' = apcs
      BY <1>3 DEF ClientReads, Update
    <2> HIDE DEF l
    <2>3. Held(l, apcs, i)
      BY <1>1, <2>1 DEF Held
    <2>4. Counted(l, apcs, i)
      BY <1>1, <2>1 DEF Counted
    <2>5. Becomes(l, apcs, apcs, i)
      BY <1>1, <2>1, <2>2, <2>3, <2>4, SameFacts DEF Becomes
    <2>6. Inv' /\ inst'[i] = l /\ apcs' = apcs /\ Elsewhere(i)
      BY <1>1, <2>1, <2>5, ClientKeeps DEF Elsewhere
    <2>7. Bad(i)' <=> Bad(i)
      <3>1. Misused(inst[i], apcs, i) <=> Misused(l, apcs, i)
        BY <2>1 DEF Misused, Unfit
      <3> QED
        BY <2>6, <3>1 DEF Bad
    <2> QED
      BY <2>1, <2>6, <2>7 DEF Unseen
  <1> QED
    BY <1>2, <1>3

LEMMA ClosesKeeps ==
  ASSUME Inv, NEW i \in Instances, ClientCloses(i)
  PROVE  /\ Inv' /\ Elsewhere(i)
         /\ inst[i].conn = "connected" /\ inst'[i].conn = "orphaned"
         /\ inst'[i].asked = inst[i].asked /\ inst'[i].answered = inst[i].answered
  <1> DEFINE l == [inst[i] EXCEPT !.conn = "orphaned", !.outbox = 0, !.op = "none"]
  <1>1. /\ inst[i] \in InstanceType /\ inst[i].conn = "connected"
        /\ Held(inst[i], apcs, i) /\ apcs \in Seq(Completion)
        /\ inst[i].op \in {"none", "read", "write"} /\ 0 \in 0..Quota
        /\ UNCHANGED Other
    BY InvFacts, InstanceFacts, RoutineAssumption DEF ClientCloses, Other
  <1>2. /\ l \in InstanceType /\ l.conn = "orphaned" /\ l.op = "none"
        /\ l.asked = inst[i].asked /\ l.answered = inst[i].answered
        /\ l.storage = inst[i].storage
    BY <1>1 DEF InstanceType
  <1>3. /\ inst' = [inst EXCEPT ![i] = l]
        /\ \/ inst[i].op # "none" /\ Queue(i, inst[i].op, "failed")
           \/ inst[i].op = "none" /\ apcs' = apcs
    BY DEF ClientCloses, Update
  <1> HIDE DEF l
  <1>4. \E q : Becomes(l, q, apcs, i)
    <2>1. CASE inst[i].op = "none"
      <3>1. Held(l, apcs, i) /\ Counted(l, apcs, i)
        BY <1>1, <1>2, <2>1 DEF Held, Counted
      <3> QED
        BY <1>1, <1>2, <1>3, <2>1, <3>1, SameFacts DEF Becomes
    <2>2. CASE inst[i].op # "none"
      <3> DEFINE c == [i |-> i, op |-> inst[i].op, result |-> "failed"]
                 q == Append(apcs, c)
      <3>1. c \in Completion /\ c.i = i /\ apcs' = q
        BY <1>1, <1>3, <2>2 DEF Completion, Operations, Results, Queue
      <3> HIDE DEF c
      <3>2. ~Any(apcs, i) /\ inst[i].storage = "allocated"
        BY <1>1, <2>2 DEF Held
      <3>3. /\ q \in Seq(Completion) /\ Single(q, i) /\ Any(q, i)
            /\ \A j \in Instances \ {i} : Same(apcs, q, j)
        BY <1>1, <3>1, <3>2, AppendQueue
      <3> HIDE DEF q
      <3>4. Held(l, q, i) /\ Counted(l, q, i)
        BY <1>2, <3>2, <3>3 DEF Held, Counted
      <3> QED
        BY <1>2, <1>3, <3>1, <3>3, <3>4 DEF Becomes
    <2> QED
      BY <2>1, <2>2
  <1>5. PICK q : Becomes(l, q, apcs, i)
    BY <1>4
  <1>6. Inv' /\ inst'[i] = l /\ apcs' = q /\ Elsewhere(i)
    BY <1>1, <1>2, <1>5, ClientKeeps DEF Elsewhere
  <1> QED
    BY <1>1, <1>2, <1>6

-----------------------------------------------------------------------------
(* What the server does                                                    *)

LEMMA CreateKeeps ==
  ASSUME Inv, CreateInstance, NEW i \in Instances, i = created + 1
  PROVE  Inv' /\ Elsewhere(i) /\ Unseen(i)
  <1> DEFINE l == [inst[i] EXCEPT !.conn = "listening"]
  <1>1. /\ inst[i] \in InstanceType /\ Held(inst[i], apcs, i) /\ Scalars
        /\ apcs \in Seq(Completion) /\ i \in Nat \ {0} /\ created \in Nat /\ Newest
    BY InvFacts, RoutineAssumption DEF Scalars, Instances, Inv
  <1>2. inst[i].conn = "none"
    BY <1>1 DEF Newest
  <1>3. /\ l \in InstanceType /\ l.conn = "listening" /\ l.inbox = inst[i].inbox
        /\ l.asked = inst[i].asked /\ l.answered = inst[i].answered
        /\ l.storage = inst[i].storage /\ l.op = inst[i].op
    BY <1>1 DEF InstanceType
  <1>4. /\ inst' = [inst EXCEPT ![i] = l] /\ apcs' = apcs
        /\ pc = "create" /\ pc' = "connect" /\ created' = i /\ hPipe' = i
        /\ UNCHANGED <<fPendingIO, event, connect, failures>>
    BY DEF CreateInstance
  <1> HIDE DEF l
  <1>5. Held(l, apcs, i) /\ Counted(l, apcs, i)
    BY <1>1, <1>2, <1>3 DEF Held, Counted
  <1>6. Becomes(l, apcs, apcs, i)
    BY <1>1, <1>3, <1>4, <1>5, SameFacts DEF Becomes
  <1>7. Scalars'
    BY <1>1, <1>4 DEF Scalars
  <1>8. ASSUME inst'[i] = l, \A j \in Instances \ {i} : inst'[j] = inst[j]
        PROVE  Newest'
    <2>1. l.storage = "none"
      BY <1>1, <1>2, <1>3 DEF Held
    <2>2. \A j \in Instances : j > i => inst'[j].conn = "none"
      <3>1. ASSUME NEW j \in Instances, j > i
            PROVE  inst'[j].conn = "none"
        <4>1. j \in Nat /\ j > created /\ j # i
          BY <1>1, <3>1, RoutineAssumption DEF Instances
        <4> QED
          BY <1>1, <1>8, <4>1 DEF Newest
      <3> QED
        BY <3>1
    <2>3. \A j \in Instances : inst'[j].conn \notin {"none", "listening"} => j <= MaxClients
      BY <1>1, <1>3, <1>8 DEF Newest
    <2> QED
      BY <1>1, <1>3, <1>4, <1>8, <2>1, <2>2, <2>3 DEF Newest
  <1>9. /\ Inv' /\ inst'[i] = l /\ apcs' = apcs /\ Elsewhere(i)
    BY <1>4, <1>6, <1>7, <1>8, SameFacts, OneInstance DEF Elsewhere
  <1>10. Bad(i)' <=> Bad(i)
    <2>1. ~Misused(inst[i], apcs, i) /\ ~Misused(l, apcs, i)
      BY <1>2, <1>3 DEF Misused
    <2> QED
      BY <1>9, <2>1 DEF Bad
  <1> QED
    BY <1>2, <1>3, <1>9, <1>10 DEF Unseen

(* The thread's steps that touch no instance.                              *)
LEMMA NoInstance ==
  ASSUME Inv, inst' = inst, apcs' = apcs, Scalars', Newest'
  PROVE  Inv'
  <1>1. TypeOK'
    BY TypeParts DEF Inv, TypeOK, Scalars
  <1> QED
    BY <1>1 DEF Inv

LEMMA CreateFailsKeeps ==
  ASSUME Inv, CreateFails
  PROVE  Inv'
  <1>1. Scalars /\ Newest
    BY TypeParts DEF Inv
  <1>2. Scalars'
    <2>1. fPendingIO' \in BOOLEAN /\ event' \in BOOLEAN
      BY <1>1, Zenon DEF Scalars, CreateFails
    <2> QED
      BY <1>1, <2>1, RoutineAssumption DEF Scalars, CreateFails
  <1>3. Newest'
    BY <1>1 DEF Newest, CreateFails
  <1> QED
    BY <1>2, <1>3, NoInstance DEF CreateFails

LEMMA ConnectKeeps ==
  ASSUME Inv, ConnectToNewClient
  PROVE  Inv'
  <1>1. Scalars /\ Newest
    BY TypeParts DEF Inv
  <1>2. Scalars'
    <2>1. fPendingIO' \in BOOLEAN /\ event' \in BOOLEAN
      BY Zenon DEF ConnectToNewClient
    <2> QED
      BY <1>1, <2>1 DEF Scalars, ConnectToNewClient
  <1>3. Newest'
    BY <1>1 DEF Newest, ConnectToNewClient
  <1> QED
    BY <1>2, <1>3, NoInstance DEF ConnectToNewClient

LEMMA WaitIoKeeps ==
  ASSUME Inv, WaitIoCompletion
  PROVE  Inv'
  <1>1. Scalars /\ Newest
    BY TypeParts DEF Inv
  <1>2. Scalars'
    BY <1>1 DEF Scalars, WaitIoCompletion
  <1>3. Newest'
    BY <1>1 DEF Newest, WaitIoCompletion
  <1> QED
    BY <1>2, <1>3, NoInstance DEF WaitIoCompletion

LEMMA AcceptKeeps ==
  ASSUME Inv, Accept
  PROVE  /\ Inv'
         /\ \/ inst' = inst /\ apcs' = apcs
            \/ \E i \in Instances : Elsewhere(i) /\ (Unseen(i) \/ HungUp(i))
  <1>1. Scalars /\ Newest /\ inst \in [Instances -> InstanceType] /\ apcs \in Seq(Completion)
    BY TypeParts DEF Inv
  <1>2. /\ pc = "wait" /\ event /\ pc' = "create" /\ ~(fPendingIO /\ connect # "ok")
        /\ hPipe' = hPipe /\ fPendingIO' = fPendingIO /\ event' = event
        /\ connect' = connect /\ created' = created /\ failures' = failures
    BY <1>1 DEF Accept, Newest
  <1>3. Scalars'
    BY <1>1, <1>2 DEF Scalars
  <1>4. CASE hPipe = 0
    <2>1. inst' = inst /\ apcs' = apcs
      BY <1>2, <1>4 DEF Accept
    <2>2. Newest'
      BY <1>1, <1>2, <1>4, <2>1 DEF Newest
    <2> QED
      BY <1>3, <2>1, <2>2, NoInstance
  <1>5. CASE hPipe # 0
    <2> PICK i \in Instances : i = hPipe
      BY <1>1, <1>5 DEF Scalars
    <2> DEFINE k == [inst[i] EXCEPT !.storage = "allocated"]
    <2>1. /\ inst[i] \in InstanceType /\ Held(inst[i], apcs, i) /\ Counted(inst[i], apcs, i)
          /\ i \in Nat \ {0}
          /\ inst[i].asked \in Nat /\ inst[i].answered \in Nat /\ Len(inst[i].inbox) \in Nat
      BY InvFacts
    <2>2. /\ inst[i].storage = "none" /\ i = created
          /\ inst[i].conn \notin {"none", "listening"} /\ i <= MaxClients
      BY <1>1, <1>2, <1>5 DEF Newest
    <2>3. /\ inst[i].op = "none" /\ ~Any(apcs, i)
          /\ \A ops, results : ~Has(apcs, i, ops, results)
      BY <2>1, <2>2, HasAny DEF Held
    <2>4. /\ k \in InstanceType /\ k.conn = inst[i].conn /\ k.op = "none"
          /\ k.inbox = inst[i].inbox /\ k.storage = "allocated"
          /\ k.asked = inst[i].asked /\ k.answered = inst[i].answered
      BY <2>1, <2>3 DEF InstanceType
    <2>5. CompletedWriteRoutine(i, k, "ok", apcs)
      BY <1>2, <1>5 DEF Accept
    <2> HIDE DEF k
    <2>6. Free(k, apcs, i)
      BY <1>1, <2>2, <2>3, <2>4 DEF Free
    <2>7. k.conn = "connected" => k.asked = Len(k.inbox) + k.answered
      <3>1. inst[i].conn = "connected" =>
              inst[i].asked = Len(inst[i].inbox) + inst[i].answered + 0 + 0
        BY <2>1, <2>3 DEF Counted
      <3>2. inst[i].conn = "connected" => inst[i].asked = Len(inst[i].inbox) + inst[i].answered
        BY <2>1, <3>1, Counting
      <3> QED
        BY <2>4, <3>2
    <2>8. PICK l, q :
            /\ Becomes(l, q, apcs, i)
            /\ \/ /\ Stays(k, l) /\ l.storage = "allocated"
                  /\ Misused(l, q, i) <=> k.conn = "connected" /\ Unfit(k)
               \/ /\ l.conn = "closed" /\ l.storage = "freed" /\ k.conn # "connected"
                  /\ l.asked = k.asked /\ l.answered = k.answered
      BY <2>5, <2>6, <2>7, WrittenBecomes
    <2>9. ASSUME inst'[i] = l, \A j \in Instances \ {i} : inst'[j] = inst[j]
          PROVE  Newest'
      <3>1. \A j \in Instances : j > created => inst'[j].conn = "none"
        BY <1>1, <2>1, <2>2, <2>9 DEF Newest
      <3>2. \A j \in Instances : inst'[j].conn \notin {"none", "listening"} => j <= MaxClients
        BY <1>1, <2>2, <2>9 DEF Newest
      <3> QED
        BY <1>2, <2>2, <3>1, <3>2 DEF Newest
    <2>10. Inv' /\ inst'[i] = l /\ apcs' = q /\ Elsewhere(i)
      <3>1. \A j \in Instances \ {i} : Same(apcs, apcs, j)
        BY SameFacts
      <3>2. /\ Inv' /\ inst'[i] = l /\ apcs' = q
            /\ \A j \in Instances \ {i} : inst'[j] = inst[j] /\ Same(apcs, q, j)
        BY <1>3, <2>8, <2>9, <3>1, OneInstance
      <3> QED
        BY <3>2 DEF Elsewhere
    <2>11. Bad(i) <=> k.conn = "connected" /\ Unfit(k)
      BY <2>3, <2>4 DEF Bad, Misused, Unfit
    <2>12. CASE /\ Stays(k, l) /\ l.storage = "allocated"
                /\ Misused(l, q, i) <=> k.conn = "connected" /\ Unfit(k)
      <3>1. Bad(i)' <=> Bad(i)
        BY <2>10, <2>11, <2>12 DEF Bad
      <3>2. Unseen(i)
        BY <2>4, <2>10, <2>12, <3>1 DEF Unseen, Stays
      <3> QED
        BY <2>10, <3>2
    <2>13. CASE /\ l.conn = "closed" /\ l.storage = "freed" /\ k.conn # "connected"
                /\ l.asked = k.asked /\ l.answered = k.answered
      <3>1. inst[i].conn \in {"connected", "orphaned", "closed"}
        BY <2>1, <2>2, InstanceFacts
      <3>2. HungUp(i)
        BY <2>4, <2>10, <2>13, <3>1 DEF HungUp
      <3> QED
        BY <2>10, <3>2
    <2> QED
      BY <2>8, <2>12, <2>13
  <1> QED
    BY <1>4, <1>5

LEMMA RunKeeps ==
  ASSUME Inv, RunRoutine
  PROVE  /\ Inv'
         /\ \E i \in Instances : Elsewhere(i) /\ (Unseen(i) \/ Answered(i) \/ HungUp(i))
  <1>1. Scalars /\ Newest /\ inst \in [Instances -> InstanceType] /\ apcs \in Seq(Completion)
        /\ apcs # <<>>
    BY TypeParts DEF Inv, RunRoutine
  <1>2. /\ pc \in {"wait", "routines"} /\ pc' = "routines"
        /\ hPipe' = hPipe /\ fPendingIO' = fPendingIO /\ event' = event
        /\ connect' = connect /\ created' = created /\ failures' = failures
    BY DEF RunRoutine
  <1>3. Scalars'
    BY <1>1, <1>2 DEF Scalars
  <1> PICK c \in Completion : c = Head(apcs)
    BY <1>1, TailQueue
  <1> PICK i \in Instances : i = c.i
    BY DEF Completion
  <1> PICK queue \in Seq(Completion) : queue = Tail(apcs)
    BY <1>1, TailQueue
  <1>4. /\ inst[i] \in InstanceType /\ Held(inst[i], apcs, i) /\ Counted(inst[i], apcs, i)
        /\ inst[i].asked \in Nat /\ inst[i].answered \in Nat /\ Len(inst[i].inbox) \in Nat
    BY InvFacts
  <1>5. Any(apcs, i) /\ Single(apcs, i)
    BY <1>1, <1>4, TailQueue DEF Held
  <1>6. /\ ~Any(queue, i)
        /\ \A j \in Instances \ {i} : Same(apcs, queue, j)
        /\ \A ops, results : Has(apcs, i, ops, results) <=> c.op \in ops /\ c.result \in results
    BY <1>1, <1>5, TailQueue
  <1>7. /\ inst[i].op = "none" /\ inst[i].storage = "allocated"
        /\ inst[i].conn \notin {"none", "listening"}
        /\ inst[i].conn \in {"connected", "orphaned", "closed"}
    BY <1>4, <1>5, InstanceFacts DEF Held
  <1>8. Free(inst[i], queue, i)
    BY <1>4, <1>6, <1>7 DEF Free
  <1>9. c.op \in {"read", "write"} /\ c.result \in {"ok", "zero", "failed"}
    BY DEF Completion, Operations, Results
  <1>10. /\ Has(apcs, i, {"read"}, {"ok"}) <=> c.op = "read" /\ c.result = "ok"
         /\ Has(apcs, i, {"read"}, {"zero", "failed"}) <=>
              c.op = "read" /\ c.result \in {"zero", "failed"}
         /\ Has(apcs, i, {"write"}, {"zero", "failed"}) <=>
              c.op = "write" /\ c.result \in {"zero", "failed"}
    BY <1>6
  <1>11. ASSUME NEW l, NEW q, Becomes(l, q, queue, i), l.storage # "none",
                l.conn = inst[i].conn \/ l.conn = "closed"
         PROVE  Inv' /\ inst'[i] = l /\ apcs' = q /\ Elsewhere(i)
    <2>1. ASSUME inst'[i] = l, \A j \in Instances \ {i} : inst'[j] = inst[j]
          PROVE  Newest'
      <3>1. hPipe # 0 => hPipe # i /\ hPipe \in Instances
        BY <1>1, <1>2, <1>7 DEF Newest, Scalars
      <3>2. \A j \in Instances : j > created => inst'[j].conn = "none"
        BY <1>1, <1>7, <2>1 DEF Newest
      <3>3. \A j \in Instances : inst'[j].conn \notin {"none", "listening"} => j <= MaxClients
        BY <1>1, <1>7, <2>1 DEF Newest
      <3> QED
        BY <1>1, <1>2, <2>1, <3>1, <3>2, <3>3 DEF Newest
    <2>2. /\ Inv' /\ inst'[i] = l /\ apcs' = q
          /\ \A j \in Instances \ {i} : inst'[j] = inst[j] /\ Same(apcs, q, j)
      BY <1>3, <1>6, <1>11, <2>1, OneInstance
    <2> QED
      BY <2>2 DEF Elsewhere
  <1>12. CASE c.op = "write"
    <2>1. CompletedWriteRoutine(i, inst[i], c.result, queue)
      BY <1>12 DEF RunRoutine
    <2>2. inst[i].conn = "connected" =>
            c.result = "ok" /\ inst[i].asked = Len(inst[i].inbox) + inst[i].answered
      <3>1. inst[i].conn = "connected" => c.result = "ok"
        BY <1>4, <1>9, <1>10, <1>12 DEF Held
      <3>2. inst[i].conn = "connected" =>
              inst[i].asked = Len(inst[i].inbox) + inst[i].answered + 0 + 0
        BY <1>4, <1>7, <1>10, <1>12 DEF Counted
      <3>3. inst[i].conn = "connected" =>
              inst[i].asked = Len(inst[i].inbox) + inst[i].answered
        BY <1>4, <3>2, Counting
      <3> QED
        BY <3>1, <3>3
    <2>3. PICK l, q :
            /\ Becomes(l, q, queue, i)
            /\ \/ /\ Stays(inst[i], l) /\ l.storage = "allocated"
                  /\ Misused(l, q, i) <=> inst[i].conn = "connected" /\ Unfit(inst[i])
               \/ /\ l.conn = "closed" /\ l.storage = "freed" /\ inst[i].conn # "connected"
                  /\ l.asked = inst[i].asked /\ l.answered = inst[i].answered
      BY <1>8, <2>1, <2>2, WrittenBecomes
    <2>4. Inv' /\ inst'[i] = l /\ apcs' = q /\ Elsewhere(i)
      <3>1. l.storage # "none" /\ (l.conn = inst[i].conn \/ l.conn = "closed")
        BY <2>3 DEF Stays
      <3> QED
        BY <1>11, <2>3, <3>1
    <2>5. Bad(i) <=> inst[i].conn = "connected" /\ Unfit(inst[i])
      BY <1>10, <1>12 DEF Bad, Misused
    <2>6. CASE /\ Stays(inst[i], l) /\ l.storage = "allocated"
               /\ Misused(l, q, i) <=> inst[i].conn = "connected" /\ Unfit(inst[i])
      <3>1. Bad(i)' <=> Bad(i)
        BY <2>4, <2>5, <2>6 DEF Bad
      <3>2. Unseen(i)
        BY <2>4, <2>6, <3>1 DEF Unseen, Stays
      <3> QED
        BY <2>4, <3>2
    <2>7. CASE /\ l.conn = "closed" /\ l.storage = "freed" /\ inst[i].conn # "connected"
               /\ l.asked = inst[i].asked /\ l.answered = inst[i].answered
      <3>1. HungUp(i)
        BY <1>7, <2>4, <2>7 DEF HungUp
      <3> QED
        BY <2>4, <3>1
    <2> QED
      BY <2>3, <2>6, <2>7
  <1>13. CASE c.op = "read"
    <2>1. CompletedReadRoutine(i, inst[i], c.result, queue)
      BY <1>13 DEF RunRoutine
    <2>2. inst[i].conn = "connected" /\ c.result = "ok" =>
            inst[i].asked = Len(inst[i].inbox) + inst[i].answered + 1
      <3>1. inst[i].conn = "connected" /\ c.result = "ok" =>
              inst[i].asked = Len(inst[i].inbox) + inst[i].answered + 1 + 0
        BY <1>4, <1>7, <1>10, <1>13 DEF Counted
      <3> QED
        BY <1>4, <3>1, Counting
    <2>3. PICK l, q :
            /\ Becomes(l, q, queue, i)
            /\ \/ /\ inst[i].conn = "connected" /\ c.result = "ok" /\ l.storage = "allocated"
                  /\ l.conn = "connected" /\ l.asked = inst[i].asked
                  /\ \/ l.answered = inst[i].answered
                     \/ l.answered = inst[i].answered + 1 /\ inst[i].answered < inst[i].asked
                  /\ Misused(l, q, i) <=> Unfit(inst[i])
               \/ /\ l.conn = "closed" /\ l.storage = "freed"
                  /\ inst[i].conn = "connected" => c.result # "ok"
                  /\ l.asked = inst[i].asked /\ l.answered = inst[i].answered
      BY <1>8, <2>1, <2>2, AnsweredBecomes
    <2>4. Inv' /\ inst'[i] = l /\ apcs' = q /\ Elsewhere(i)
      <3>1. l.storage # "none" /\ (l.conn = inst[i].conn \/ l.conn = "closed")
        BY <2>3
      <3> QED
        BY <1>11, <2>3, <3>1
    <2>5. CASE /\ inst[i].conn = "connected" /\ c.result = "ok" /\ l.storage = "allocated"
               /\ l.conn = "connected" /\ l.asked = inst[i].asked
               /\ \/ l.answered = inst[i].answered
                  \/ l.answered = inst[i].answered + 1 /\ inst[i].answered < inst[i].asked
               /\ Misused(l, q, i) <=> Unfit(inst[i])
      <3>1. Bad(i) <=> Unfit(inst[i])
        BY <1>10, <2>5 DEF Bad, Misused
      <3>2. Bad(i)' <=> Bad(i)
        BY <2>4, <2>5, <3>1 DEF Bad
      <3>3. Unseen(i) \/ Answered(i)
        BY <2>4, <2>5, <3>2 DEF Unseen, Answered
      <3> QED
        BY <2>4, <3>3
    <2>6. CASE /\ l.conn = "closed" /\ l.storage = "freed"
               /\ inst[i].conn = "connected" => c.result # "ok"
               /\ l.asked = inst[i].asked /\ l.answered = inst[i].answered
      <3>1. inst[i].conn = "connected" => Bad(i)
        BY <1>9, <1>10, <1>13, <2>6 DEF Bad, Misused
      <3>2. HungUp(i)
        BY <1>7, <2>4, <2>6, <3>1 DEF HungUp
      <3> QED
        BY <2>4, <3>2
    <2> QED
      BY <2>3, <2>5, <2>6
  <1> QED
    BY <1>9, <1>12, <1>13

-----------------------------------------------------------------------------
(* The specification                                                       *)

LEMMA InitInv ==
  ASSUME Init
  PROVE  Inv
  <1> DEFINE k == [conn |-> "none", op |-> "none", inbox |-> <<>>, outbox |-> 0,
                   asked |-> 0, answered |-> 0, storage |-> "none"]
  <1>1. k \in InstanceType
    <2>1. <<>> \in Seq(Requests) /\ 0 \in 0..Quota
      BY RoutineAssumption
    <2> QED
      BY <2>1 DEF InstanceType
  <1>2. /\ k.conn = "none" /\ k.op = "none" /\ k.inbox = <<>> /\ k.asked = 0
        /\ k.answered = 0 /\ k.storage = "none"
    OBVIOUS
  <1>3. inst = [i \in Instances |-> k]
    BY DEF Init
  <1> HIDE DEF k
  <1>4. /\ pc = "create" /\ hPipe = 0 /\ fPendingIO = FALSE /\ event = TRUE
        /\ connect = "none" /\ apcs = <<>> /\ created = 0 /\ failures = 0
    BY DEF Init
  <1>5. Scalars
    <2>1. fPendingIO \in BOOLEAN /\ event \in BOOLEAN
      BY <1>4, Zenon
    <2> QED
      BY <1>4, <2>1, RoutineAssumption DEF Scalars
  <1>6. inst \in [Instances -> InstanceType] /\ apcs \in Seq(Completion)
    BY <1>1, <1>3, <1>4
  <1>7. Newest
    BY <1>2, <1>3, <1>4, RoutineAssumption DEF Newest
  <1>8. ASSUME NEW i \in Instances
        PROVE  Held(inst[i], apcs, i) /\ Counted(inst[i], apcs, i)
    <2>1. Len(apcs) = 0
      BY <1>4
    <2>2. /\ Single(apcs, i) /\ ~Any(apcs, i) /\ inst[i] = k
          /\ ~Has(apcs, i, {"write"}, {"zero", "failed"})
      BY <1>3, <2>1 DEF Single, Any, Has
    <2> QED
      BY <1>2, <2>2 DEF Held, Counted
  <1> QED
    BY <1>5, <1>6, <1>7, <1>8, TypeParts DEF Inv

LEMMA StepInv ==
  ASSUME Inv, [Next]_vars
  PROVE  Inv'
  <1>1. CASE CreateInstance
    <2>1. created + 1 \in Instances
      BY <1>1, TypeParts, RoutineAssumption DEF Inv, Newest, CreateInstance, Scalars, Instances
    <2> QED
      BY <1>1, <2>1, CreateKeeps
  <1>2. CASE CreateFails \/ ConnectToNewClient \/ Accept \/ RunRoutine \/ WaitIoCompletion
    BY <1>2, CreateFailsKeeps, ConnectKeeps, AcceptKeeps, RunKeeps, WaitIoKeeps
  <1>3. ASSUME NEW i \in Instances,
               \/ ClientOpens(i)
               \/ \E r \in Requests : ClientWrites(i, r)
               \/ ClientReads(i)
               \/ ClientCloses(i)
        PROVE  Inv'
    BY <1>3, OpensKeeps, WritesKeeps, ReadsKeeps, ClosesKeeps
  <1>4. CASE UNCHANGED vars
    <2>1. Scalars' /\ Newest'
      <3>1. Scalars /\ Newest
        BY TypeParts DEF Inv
      <3> QED
        BY <1>4, <3>1 DEF vars, Scalars, Newest
    <2> QED
      BY <1>4, <2>1, NoInstance DEF vars
  <1> QED
    BY <1>1, <1>2, <1>3, <1>4 DEF Next, ServerStep, ClientStep

THEOREM Invariant == Spec => []Inv
  BY InitInv, StepInv, PTL DEF Spec

(* Every variable keeps its type.                                          *)
THEOREM TypeCorrect == Spec => []TypeOK
  <1>1. Inv => TypeOK
    BY DEF Inv
  <1> QED
    BY <1>1, Invariant, PTL

(* One operation of an instance at a time is in flight or waits to be      *)
(* reported, and its storage is not released before it has been.           *)
THEOREM StorageIsHeld == Spec => []StorageHeld
  <1>1. ASSUME Inv
        PROVE  StorageHeld
    <2>1. ASSUME NEW i \in Instances
          PROVE  /\ Outstanding(i) <= 1
                 /\ Outstanding(i) = 1 => inst[i].storage = "allocated"
      <3>1. Held(inst[i], apcs, i) /\ apcs \in Seq(Completion)
        BY <1>1, InvFacts
      <3>2. QueuedFor(i, Operations, Results)
              = IF Has(apcs, i, Operations, Results) THEN 1 ELSE 0
        BY <3>1, QueuedOnce DEF Held
      <3>3. Has(apcs, i, Operations, Results) => Any(apcs, i)
        BY HasAny
      <3>4. Outstanding(i) = QueuedFor(i, Operations, Results)
                               + IF inst[i].op = "none" THEN 0 ELSE 1
        BY DEF Outstanding, Operations
      <3> QED
        BY <3>1, <3>2, <3>3, <3>4 DEF Held
    <2> QED
      BY <2>1 DEF StorageHeld
  <1> QED
    BY <1>1, Invariant, PTL

(* The requests of a client that stays and asks properly are in the pipe,  *)
(* in hand or answered, each exactly once.                                 *)
THEOREM RequestsAnsweredOnce == Spec => []OneReplyEach
  <1>1. ASSUME Inv
        PROVE  OneReplyEach
    <2>1. ASSUME NEW i \in Instances, inst[i].conn = "connected",
                 QueuedFor(i, {"read"}, {"zero", "failed"}) = 0
          PROVE  inst[i].asked = Len(inst[i].inbox) + inst[i].answered
                   + QueuedFor(i, {"read"}, {"ok"}) + IF inst[i].op = "write" THEN 1 ELSE 0
      <3>1. /\ Held(inst[i], apcs, i) /\ Counted(inst[i], apcs, i)
            /\ apcs \in Seq(Completion)
        BY <1>1, InvFacts
      <3>2. QueuedFor(i, {"read"}, {"zero", "failed"})
              = IF Has(apcs, i, {"read"}, {"zero", "failed"}) THEN 1 ELSE 0
        BY <3>1, QueuedOnce DEF Held
      <3>3. QueuedFor(i, {"read"}, {"ok"}) = IF Has(apcs, i, {"read"}, {"ok"}) THEN 1 ELSE 0
        BY <3>1, QueuedOnce DEF Held
      <3>4. ~Has(apcs, i, {"read"}, {"zero", "failed"})
        BY <2>1, <3>2
      <3> QED
        BY <2>1, <3>1, <3>3, <3>4 DEF Counted
    <2> QED
      BY <2>1 DEF OneReplyEach
  <1> QED
    BY <1>1, Invariant, PTL

(* No client ends the server: the connect it waits for never fails.        *)
THEOREM NeverStops == Spec => [](pc # "stopped")
  <1>1. Inv => pc # "stopped"
    BY DEF Inv, Newest
  <1> QED
    BY <1>1, Invariant, PTL

-----------------------------------------------------------------------------
(* Every instance serves sessions                                          *)

LEMMA ImproperIsBad ==
  ASSUME Inv, NEW i \in Instances
  PROVE  Improper(i) <=> Bad(i)
  <1>1. Held(inst[i], apcs, i) /\ apcs \in Seq(Completion)
    BY InvFacts
  <1>2. QueuedFor(i, {"read"}, {"zero", "failed"})
          = IF Has(apcs, i, {"read"}, {"zero", "failed"}) THEN 1 ELSE 0
    BY <1>1, QueuedOnce DEF Held
  <1>3. QueuedFor(i, {"read"}, {"zero", "failed"}) > 0
          <=> Has(apcs, i, {"read"}, {"zero", "failed"})
    BY <1>2
  <1> QED
    BY <1>3 DEF Improper, Bad, Misused, Unfit

LEMMA ImproperNext ==
  ASSUME Inv', NEW i \in Instances
  PROVE  Improper(i)' <=> Bad(i)'
  <1>1. TypeOK' /\ Held(inst[i], apcs, i)'
    BY DEF Inv
  <1>2. apcs' \in Seq(Completion)
    BY <1>1 DEF TypeOK, Completion, Operations
  <1>3. (QueuedFor(i, {"read"}, {"zero", "failed"}) > 0)'
          <=> Has(apcs, i, {"read"}, {"zero", "failed"})'
    <2> DEFINE found == {n \in 1..Len(apcs') :
                           /\ apcs'[n].i = i /\ apcs'[n].op \in {"read"}
                           /\ apcs'[n].result \in {"zero", "failed"}}
    <2>1. IsFiniteSet(found)
      <3>1. Len(apcs') \in Nat
        BY <1>2, LenProperties
      <3> QED
        BY <3>1, FS_Interval, FS_Subset
    <2>2. Cardinality(found) \in Nat /\ (Cardinality(found) = 0 <=> found = {})
      BY <2>1, FS_CardinalityType, FS_EmptySet
    <2>3. Cardinality(found) > 0 <=> found # {}
      BY <2>2
    <2>4. found # {} <=> Has(apcs, i, {"read"}, {"zero", "failed"})'
      BY DEF Has
    <2> QED
      BY <2>3, <2>4 DEF QueuedFor
  <1> QED
    BY <1>3 DEF Improper, Bad, Misused, Unfit

(* The other instances' clients notice nothing.                            *)
LEMMA ElsewhereUnseen ==
  ASSUME NEW i \in Instances, Elsewhere(i), NEW j \in Instances, j # i
  PROVE  Unseen(j)
  <1>1. inst'[j] = inst[j] /\ Same(apcs, apcs', j)
    BY DEF Elsewhere
  <1>2. Bad(j)' <=> Bad(j)
    BY <1>1 DEF Bad, Misused, Unfit, Same
  <1> QED
    BY <1>1, <1>2 DEF Unseen

LEMMA SessionSteps ==
  ASSUME Inv, Inv', NEW j \in Instances
  PROVE  /\ Unseen(j) => UNCHANGED S(j)!vars
         /\ Answered(j) => S(j)!Next
         /\ HungUp(j) => S(j)!Next \/ UNCHANGED S(j)!vars
  <1>1. (Improper(j) <=> Bad(j)) /\ (Improper(j)' <=> Bad(j)')
    BY ImproperIsBad, ImproperNext
  <1>2. Improper(j) \in BOOLEAN /\ Improper(j)' \in BOOLEAN
    BY Zenon DEF Improper
  <1>3. ASSUME Unseen(j)
        PROVE  UNCHANGED S(j)!vars
    <2>1. Improper(j)' = Improper(j)
      BY <1>1, <1>2, <1>3 DEF Unseen
    <2>2. Link(j)' = Link(j)
      BY <1>3 DEF Unseen, Link
    <2> QED
      BY <1>3, <2>1, <2>2 DEF Unseen, S!vars
  <1>4. ASSUME Answered(j)
        PROVE  S(j)!Next
    <2>1. Improper(j)' = Improper(j)
      BY <1>1, <1>2, <1>4 DEF Answered
    <2>2. S(j)!Answer
      BY <1>4, <2>1 DEF Answered, S!Answer, Link
    <2> QED
      BY <2>2 DEF S!Next
  <1>5. ASSUME HungUp(j)
        PROVE  S(j)!Next \/ UNCHANGED S(j)!vars
    <2>1. Link(j)' = "free" /\ ~Improper(j)'
      BY <1>5 DEF HungUp, Link, Improper
    <2>2. CASE inst[j].conn = "closed"
      <3>1. Link(j) = "free" /\ ~Improper(j)
        BY <2>2 DEF Link, Improper
      <3>2. Improper(j)' = Improper(j)
        BY <1>2, <2>1, <3>1
      <3> QED
        BY <1>5, <2>1, <3>1, <3>2 DEF HungUp, S!vars
    <2>3. CASE inst[j].conn \in {"connected", "orphaned"}
      <3>1. Link(j) # "free" /\ (Link(j) = "open" => Improper(j))
        BY <1>1, <1>5, <2>3 DEF HungUp, Link
      <3>2. S(j)!HangUp
        BY <1>5, <2>1, <3>1 DEF HungUp, S!HangUp
      <3> QED
        BY <3>2 DEF S!Next
    <2> QED
      BY <1>5, <2>2, <2>3 DEF HungUp
  <1> QED
    BY <1>3, <1>4, <1>5

LEMMA StepServes ==
  ASSUME Inv, Next, NEW j \in Instances
  PROVE  S(j)!Next \/ UNCHANGED S(j)!vars
  <1>0. Inv'
    BY StepInv
  <1>1. ASSUME NEW i \in Instances, Elsewhere(i), Unseen(i) \/ Answered(i) \/ HungUp(i)
        PROVE  S(j)!Next \/ UNCHANGED S(j)!vars
    BY <1>0, <1>1, ElsewhereUnseen, SessionSteps
  <1>2. ASSUME inst' = inst, apcs' = apcs
        PROVE  UNCHANGED S(j)!vars
    <2>1. Unseen(j)
      BY <1>2 DEF Unseen, Bad
    <2> QED
      BY <1>0, <2>1, SessionSteps
  <1>3. CASE CreateInstance
    <2>1. created + 1 \in Instances
      BY <1>3, TypeParts, RoutineAssumption DEF Inv, Newest, CreateInstance, Scalars, Instances
    <2> QED
      BY <1>1, <1>3, <2>1, CreateKeeps
  <1>4. CASE CreateFails \/ ConnectToNewClient \/ WaitIoCompletion
    BY <1>2, <1>4 DEF CreateFails, ConnectToNewClient, WaitIoCompletion
  <1>5. CASE Accept
    BY <1>1, <1>2, <1>5, AcceptKeeps
  <1>6. CASE RunRoutine
    BY <1>1, <1>6, RunKeeps
  <1>7. ASSUME NEW i \in Instances, ClientReads(i)
        PROVE  S(j)!Next \/ UNCHANGED S(j)!vars
    BY <1>1, <1>7, ReadsKeeps
  <1>8. ASSUME NEW i \in Instances, ClientOpens(i)
        PROVE  S(j)!Next \/ UNCHANGED S(j)!vars
    <2>1. /\ Elsewhere(i) /\ inst[i].conn = "listening" /\ inst'[i].conn = "connected"
          /\ ~Bad(i)' /\ inst'[i].asked = 0 /\ inst'[i].answered = 0
      BY <1>8, OpensKeeps
    <2>2. CASE j = i
      <3>1. ~Improper(j)'
        BY <1>0, <2>1, <2>2, ImproperNext
      <3>2. S(j)!Open
        BY <2>1, <2>2, <3>1 DEF S!Open, Link
      <3> QED
        BY <3>2 DEF S!Next
    <2> QED
      BY <1>0, <2>1, <2>2, ElsewhereUnseen, SessionSteps
  <1>9. ASSUME NEW i \in Instances, NEW r \in Requests, ClientWrites(i, r)
        PROVE  S(j)!Next \/ UNCHANGED S(j)!vars
    <2>1. /\ Elsewhere(i) /\ inst[i].conn = "connected" /\ inst'[i].conn = "connected"
          /\ inst'[i].asked = inst[i].asked + 1 /\ inst'[i].answered = inst[i].answered
          /\ Bad(i) => Bad(i)'
      BY <1>9, WritesKeeps
    <2>2. CASE j = i
      <3>1. Improper(j) => Improper(j)'
        BY <1>0, <2>1, <2>2, ImproperIsBad, ImproperNext
      <3>2. S(j)!Ask
        BY <2>1, <2>2, <3>1 DEF S!Ask, Link
      <3> QED
        BY <3>2 DEF S!Next
    <2> QED
      BY <1>0, <2>1, <2>2, ElsewhereUnseen, SessionSteps
  <1>10. ASSUME NEW i \in Instances, ClientCloses(i)
         PROVE  S(j)!Next \/ UNCHANGED S(j)!vars
    <2>1. /\ Elsewhere(i) /\ inst[i].conn = "connected" /\ inst'[i].conn = "orphaned"
          /\ inst'[i].asked = inst[i].asked /\ inst'[i].answered = inst[i].answered
      BY <1>10, ClosesKeeps
    <2>2. CASE j = i
      <3>1. ~Improper(j)'
        BY <2>1, <2>2 DEF Improper
      <3>2. S(j)!Leave
        BY <2>1, <2>2, <3>1 DEF S!Leave, Link
      <3> QED
        BY <3>2 DEF S!Next
    <2> QED
      BY <1>0, <2>1, <2>2, ElsewhereUnseen, SessionSteps
  <1> QED
    BY <1>3, <1>4, <1>5, <1>6, <1>7, <1>8, <1>9, <1>10 DEF Next, ServerStep, ClientStep

(* However the routines of the instances interleave, every instance serves *)
(* sessions: no reply comes without a request, and no client is hung up on *)
(* that has not left or asked improperly.                                  *)
THEOREM ServesSessions == Spec => Sessions
  <1>1. ASSUME Init, NEW i \in Instances
        PROVE  S(i)!Init
    <2>1. inst[i].conn = "none" /\ inst[i].asked = 0 /\ inst[i].answered = 0
      BY <1>1 DEF Init
    <2>2. Link(i) = "free" /\ ~Improper(i)
      BY <2>1 DEF Link, Improper
    <2> QED
      BY <2>1, <2>2 DEF S!Init
  <1>2. Init => \A i \in Instances : S(i)!Init
    BY <1>1
  <1>3. ASSUME Inv, [Next]_vars
        PROVE  [\A i \in Instances : S(i)!Next \/ UNCHANGED S(i)!vars]_vars
    BY <1>3, StepServes
  <1> QED
    BY <1>2, <1>3, Invariant, PTL DEF Spec, Sessions
=============================================================================
