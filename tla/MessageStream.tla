----------------------------- MODULE MessageStream -----------------------------
(***************************************************************************)
(* One direction of a message channel, as its user sees it: what was sent  *)
(* and is still on its way is a queue, OnMessage takes it from the front,  *)
(* and messages are lost only when the receiver's side breaks down, which  *)
(* it does in order:                                                       *)
(*   "up"     nothing is ever lost                                         *)
(*   "cut"    the connection is over or the channel in error: what is lost *)
(*            is the end of the queue, so what still arrives has no gap    *)
(*   "dying"  the receiver's destructor runs and may drop any part         *)
(*   "gone"   the channel has ended (or never was): nothing happens        *)
(* MessageChannel implements it, see Streams in ChannelProperties.         *)
(***************************************************************************)
EXTENDS Integers, Sequences

VARIABLES
  sent,       \* messages sent so far: the n-th is n
  queue,      \* sent, not yet handed out and not lost
  delivered,  \* handed to OnMessage, in order
  phase

vars == <<sent, queue, delivered, phase>>

Later(p) == CASE p = "up"    -> {"cut", "dying", "gone"}
              [] p = "cut"   -> {"cut", "dying", "gone"}
              [] p = "dying" -> {"dying", "gone"}
              [] p = "gone"  -> {}

Init == sent = 0 /\ queue = <<>> /\ delivered = <<>> /\ phase = "up"

Send ==
  /\ phase # "gone"
  /\ sent' = sent + 1
  /\ queue' = Append(queue, sent + 1)
  /\ UNCHANGED <<delivered, phase>>

(* One OnMessage hands out everything read so far.                         *)
Deliver ==
  /\ phase # "gone"
  /\ \E n \in 1..Len(queue) :
       /\ delivered' = delivered \o SubSeq(queue, 1, n)
       /\ queue' = SubSeq(queue, n + 1, Len(queue))
  /\ UNCHANGED <<sent, phase>>

(* Part of the queue, the messages after i and before j, is lost.          *)
BreakDown ==
  /\ phase' \in Later(phase)
  /\ \E i \in 0..Len(queue) : \E j \in (i + 1)..(Len(queue) + 1) :
       /\ phase' = "cut" => j = i + 1 \/ j = Len(queue) + 1
       /\ queue' = SubSeq(queue, 1, i) \o SubSeq(queue, j, Len(queue))
  /\ UNCHANGED <<sent, delivered>>

Next == Send \/ Deliver \/ BreakDown

Spec == Init /\ [][Next]_vars
=============================================================================
