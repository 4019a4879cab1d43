------------------------------- MODULE PipeTests -------------------------------
(***************************************************************************)
(* The pipe test driver (PipeTests in TestBoost.cpp), run as server and as *)
(* client, each the main thread of one end of MessageChannel: start the    *)
(* I/O thread, send num_messages messages up to the first failure, quit    *)
(* when the channel is in error, else sleep, for ever or for some time.    *)
(* The sleeps are time only: how far the other threads get meanwhile is    *)
(* left open.                                                              *)
(***************************************************************************)
EXTENDS ChannelProperties

CONSTANT CommandLines  \* the options the two programs may be started with

ASSUME DriverAssumption ==
  /\ Destroyers = Ends
  /\ CommandLines \subseteq [Ends -> [num_messages : Nat, for_ever : BOOLEAN]]
  /\ \A options \in CommandLines : \A e \in Ends : options[e].num_messages <= MaxSend[e]

VARIABLES
  options,  \* vm: num_messages, and whether sleep_after_tests < 0
  driver    \* where each PipeTests is: "connect", "send", "check", "sleep" or "over"

testVars == <<vars, options, driver>>

TestInit == Init /\ options \in CommandLines /\ driver = [e \in Ends |-> "connect"]

DriverGoes(e, from, to) ==
  driver[e] = from /\ driver' = [driver EXCEPT ![e] = to]

Inside(action) == action /\ UNCHANGED driver

Connect(e) ==
  /\ DriverGoes(e, "connect", "send")
  /\ ConnectOnIOThread(e)

(* The loop goes on while SendMessageOver succeeds.                        *)
SendNext(e) ==
  /\ driver[e] = "send" /\ sent[e] < options[e].num_messages
  /\ Inside(BeginSend(e))

(* SendMessageOver comes back, with the message written or in error.       *)
SendReturns(e) ==
  /\ Write(e)
  /\ DriverGoes(e, "send", IF sent'[e] > sent[e] THEN "send" ELSE "check")

(* All sent, or refused by a channel that is not connected.                *)
SendLoopBreaks(e) ==
  /\ mainPc[e] = "idle"
  /\ sent[e] = options[e].num_messages \/ state[e] # "Connected"
  /\ DriverGoes(e, "send", "check")
  /\ UNCHANGED vars

KeepsChannel(e) ==
  /\ ~IsInError(e)
  /\ DriverGoes(e, "check", "sleep")
  /\ UNCHANGED vars

(* The driver returns, at once when the channel is in error or after the   *)
(* sleep, and the last shared_ptr destroys the channel.                    *)
Return(e) ==
  /\ \/ DriverGoes(e, "check", "over") /\ IsInError(e)
     \/ DriverGoes(e, "sleep", "over") /\ ~options[e].for_ever
  /\ Destroy(e)

-----------------------------------------------------------------------------
Driver(e) ==
  \/ Connect(e)
  \/ SendNext(e) \/ SendReturns(e) \/ SendLoopBreaks(e)
  \/ KeepsChannel(e)
  \/ Return(e)
  \/ /\ mainPc[e] # "write"
     /\ Inside(MainRuns(e))

TestNext ==
  /\ \/ Inside(Creation)
     \/ \E e \in Ends : Driver(e) \/ Inside(IoThread(e))
  /\ UNCHANGED options

(* Each program, once started, keeps running both its threads.             *)
TestFairness ==
  \A e \in Ends : WF_testVars(Driver(e) /\ UNCHANGED options)
                /\ WF_testVars(Inside(IoThread(e)) /\ UNCHANGED options)

TestSpec == TestInit /\ [][TestNext]_testVars /\ TestFairness

-----------------------------------------------------------------------------
(* The sending loop ends although WriteFile blocks on a full pipe, also    *)
(* while the other driver is sending: its I/O thread goes on reading, or   *)
(* its channel closes the pipe, whoever fails or leaves first.             *)
SendLoopEnds == \A e \in Ends : driver[e] = "send" ~> driver[e] # "send"

=============================================================================
