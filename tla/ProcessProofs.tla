----------------------------- MODULE ProcessProofs ----------------------------
(***************************************************************************)
(* Theorems about ProcessTest, for every interleaving of the test, of the  *)
(* observer and of the child's exit.                                       *)
(***************************************************************************)
EXTENDS ProcessTest, TLAPS

(* The handle goes from the local child to the temporary and to the        *)
(* process that the test keeps; nobody else has it, and nothing holds a    *)
(* child that was not started.                                             *)
HandlePassedOn ==
  /\ main \in {"register", "construct"} => owner = "local"
  /\ main = "return" => owner = "temporary"
  /\ main \in {"destroy", "leave", "running", "terminate"} => owner = "process"
  /\ main \in {"sleep", "check"} => owner = "process" \/ child = "none"
  /\ main \in {"guard", "thread", "create"} => owner = "none" /\ child = "none"

(* Once the test has asked for it the child is gone.                       *)
ChildEnded == main \in {"reset", "stop", "join", "scope", "done"} => child # "alive"

(* The guard is there from before the observer until after the reset, and  *)
(* the observer is gone when the test has joined it.                       *)
GuardHeld ==
  /\ ~guard => main \in {"guard", "stop", "join", "scope", "done"}
  /\ main \in {"guard", "thread"} => observer = "none"
  /\ main \in {"scope", "done"} => observer = "exited"

Inv == TypeOK /\ HandlePassedOn /\ ChildEnded /\ GuardHeld /\ ObserverWaitsForWork

-----------------------------------------------------------------------------
LEMMA InitInv == Init => Inv
  BY DEF Init, Inv, TypeOK, HandlePassedOn, ChildEnded, GuardHeld, ObserverWaitsForWork

(* The steps of the test keep the invariant.                               *)
LEMMA MainInv == Inv /\ MainThread => Inv'
  <1> SUFFICES ASSUME Inv, MainThread
               PROVE  Inv'
    OBVIOUS
  <1> USE DEF Inv, TypeOK, HandlePassedOn, ChildEnded, GuardHeld, ObserverWaitsForWork,
              MainGoes, ObserverGoes
  <1>1. CASE MakeWorkGuard \/ StartObserver
    BY <1>1 DEF MakeWorkGuard, StartObserver
  <1>2. CASE CreateProcess \/ WaitForExit \/ ReturnProcess
    BY <1>2 DEF CreateProcess, WaitForExit, ReturnProcess
  <1>3. CASE DestroyTemporary
    BY <1>3 DEF DestroyTemporary, DestroyProcess, Dies
  <1>4. CASE Sleep \/ Running
    BY <1>4 DEF Sleep, Running
  <1>5. CASE Terminate
    BY <1>5 DEF Terminate, Dies
  <1>6. CASE ResetWorkGuard
    BY <1>6 DEF ResetWorkGuard
  <1>7. CASE StopContext
    BY <1>7 DEF StopContext
  <1>8. CASE Join
    BY <1>8 DEF Join
  <1>9. CASE EndOfScope
    BY <1>9 DEF EndOfScope, DestroyProcess, Dies
  <1> QED
    BY <1>1, <1>2, <1>3, <1>4, <1>5, <1>6, <1>7, <1>8, <1>9 DEF MainThread

(* So do those of the observer, which leaves io.run() without work only    *)
(* when the guard has been reset ...                                       *)
LEMMA ObserverInv == Inv /\ ExitObserver => Inv'
  <1> SUFFICES ASSUME Inv, ExitObserver
               PROVE  Inv'
    OBVIOUS
  <1> USE DEF Inv, TypeOK, HandlePassedOn, ChildEnded, GuardHeld, ObserverWaitsForWork,
              ObserverGoes
  <1>1. CASE RunBegins \/ RunHandler \/ ThreadExits
    BY <1>1 DEF RunBegins, RunHandler, ThreadExits
  <1>2. CASE RunReturns
    BY <1>2 DEF RunReturns, HasWork, ExitObserver
  <1> QED
    BY <1>1, <1>2 DEF ExitObserver

(* ... and the exit of the child at any moment.                            *)
LEMMA InvKept == Inv /\ [Next]_vars => Inv'
  <1>1. Inv /\ ChildExits => Inv'
    BY DEF ChildExits, Dies, Inv, TypeOK, HandlePassedOn, ChildEnded, GuardHeld,
           ObserverWaitsForWork
  <1>2. Inv /\ UNCHANGED vars => Inv'
    BY DEF vars, Inv, TypeOK, HandlePassedOn, ChildEnded, GuardHeld, ObserverWaitsForWork
  <1> QED
    BY <1>1, <1>2, MainInv, ObserverInv DEF Next

LEMMA Invariant == Spec => []Inv
  BY InitInv, InvKept, PTL DEF Spec

-----------------------------------------------------------------------------
(* The variables of the test keep their types.                             *)
THEOREM TypeCorrect == Spec => []TypeOK
  <1>1. Inv => TypeOK
    BY DEF Inv
  <1> QED
    BY <1>1, Invariant, PTL

(* test_process.cpp:33-34: the observer leaves io.run() only when the test *)
(* has reset the guard, or stopped the io_context.                         *)
THEOREM ObserverWaits == Spec => []ObserverWaitsForWork
  <1>1. Inv => ObserverWaitsForWork
    BY DEF Inv
  <1> QED
    BY <1>1, Invariant, PTL

(* None of the objects that Process::CreateProcessWithExeAndArgs returns   *)
(* the child through ends it, although their destructors all call          *)
(* Terminate, and nor does the end of TestProcess: only the call after the *)
(* ten seconds does.                                                       *)
THEOREM ChildKept == Spec => EndedOnlyAfterSleep
  <1>1. ASSUME Inv, [Next]_vars, child = "alive", child' = "dead", main' # main
        PROVE  main = "terminate"
    <2>1. CASE ExitObserver \/ ChildExits \/ UNCHANGED vars
      BY <1>1, <2>1 DEF ExitObserver, ChildExits, RunBegins, RunHandler, RunReturns,
                        ThreadExits, vars
    <2>2. CASE MakeWorkGuard \/ StartObserver \/ CreateProcess \/ WaitForExit
               \/ ReturnProcess \/ Sleep \/ Running \/ ResetWorkGuard \/ StopContext \/ Join
      BY <1>1, <2>2 DEF MakeWorkGuard, StartObserver, CreateProcess, WaitForExit,
           ReturnProcess, Sleep, Running, ResetWorkGuard, StopContext, Join
    <2>3. CASE DestroyTemporary \/ EndOfScope
      BY <1>1, <2>3 DEF DestroyTemporary, EndOfScope, DestroyProcess, Dies, MainGoes,
           Inv, HandlePassedOn, ChildEnded
    <2>4. CASE Terminate
      BY <2>4 DEF Terminate, MainGoes
    <2> QED
      BY <1>1, <2>1, <2>2, <2>3, <2>4 DEF Next, MainThread
  <1> QED
    BY <1>1, Invariant, PTL DEF Spec, EndedOnlyAfterSleep

(* When TestProcess returns it leaves neither a child nor an observer that *)
(* would use its io_context, which the end of its scope destroys.          *)
NothingLeftBehind == main = "done" => observer = "exited" /\ child # "alive"

THEOREM LeavesNothing == Spec => []NothingLeftBehind
  <1>1. Inv => NothingLeftBehind
    BY DEF Inv, GuardHeld, ChildEnded, NothingLeftBehind
  <1> QED
    BY <1>1, Invariant, PTL
=============================================================================
