-------------------------------- MODULE Session --------------------------------
(***************************************************************************)
(* What a pipe server promises each client, whatever the way it is built:  *)
(* one pipe instance serves one client after the other; every proper       *)
(* request is answered once, after it was asked; and the server hangs up   *)
(* only on a client that has left or has asked improperly (an empty        *)
(* request or one longer than the buffer).  The overlapped, the            *)
(* completion-routine and the multithreaded server implement it.           *)
(***************************************************************************)
EXTENDS Integers

VARIABLES
  link,      \* no client, a client that is served, or one that has left
  asked,     \* requests of the client, since it came or had all its answers
  answered,  \* replies the server has given it
  improper   \* the client that is served has asked improperly

vars == <<link, asked, answered, improper>>

Init == link = "free" /\ asked = 0 /\ answered = 0 /\ ~improper

Open ==
  /\ link = "free"
  /\ link' = "open"
  /\ asked' = 0 /\ answered' = 0
  /\ ~improper'

Ask ==
  /\ link = "open"
  /\ asked' = asked + 1
  /\ improper => improper'
  /\ UNCHANGED <<link, answered>>

Answer ==
  /\ link = "open"
  /\ answered < asked
  /\ answered' = answered + 1
  /\ UNCHANGED <<link, asked, improper>>

(* With all its answers the client goes on: counting starts again.         *)
GoOn ==
  /\ link = "open"
  /\ answered = asked
  /\ asked' = 0 /\ answered' = 0
  /\ UNCHANGED <<link, improper>>

Leave ==
  /\ link = "open"
  /\ link' = "left"
  /\ ~improper'
  /\ UNCHANGED <<asked, answered>>

HangUp ==
  /\ link = "open" => improper
  /\ link # "free"
  /\ link' = "free"
  /\ ~improper'
  /\ UNCHANGED <<asked, answered>>

Next == Open \/ Ask \/ Answer \/ GoOn \/ Leave \/ HangUp

Spec == Init /\ [][Next]_vars
=============================================================================
