------------------------------ MODULE ProcessTest ------------------------------
(***************************************************************************)
(* The process test (test_process.cpp) with base::Process (process.cpp):   *)
(* the main thread starts a child process and ends it after ten seconds,   *)
(* while an observer thread runs the io_context that delivers the child's  *)
(* exit.  A work guard keeps the io_context going before there is a child  *)
(* and after it has ended.  boost::asio and boost::process are external.   *)
(***************************************************************************)

VARIABLES
  main,      \* where TestProcess is
  observer,  \* where ExitObserver is
  guard,     \* work_guard holds work
  stopped,   \* the io_context is stopped
  child,     \* the child process
  owner,     \* the object that holds the child's handle
  handler    \* the on_exit handler

vars == <<main, observer, guard, stopped, child, owner, handler>>

TypeOK ==
  /\ main \in {"guard", "thread", "create", "register", "construct", "return", "destroy",
               "leave", "sleep", "check", "running", "terminate", "reset", "stop",
               "join", "scope", "done", "aborted"}
  /\ observer \in {"none", "start", "run", "returned", "exited"}
  /\ guard \in BOOLEAN /\ stopped \in BOOLEAN
  /\ child \in {"none", "alive", "dead"}
  /\ owner \in {"none", "local", "temporary", "process"}
  /\ handler \in {"none", "armed", "ready", "ran"}

Init ==
  /\ main = "guard"
  /\ observer = "none"
  /\ guard = FALSE
  /\ stopped = FALSE
  /\ child = "none"
  /\ owner = "none"
  /\ handler = "none"

MainGoes(from, to)     == main = from /\ main' = to
ObserverGoes(from, to) == observer = from /\ observer' = to

-----------------------------------------------------------------------------
(* The child and the io_context                                            *)

(* The exit of the child, in whatever way, makes the handler that waits    *)
(* for it ready.                                                           *)
Dies ==
  /\ child' = "dead"
  /\ handler' = IF handler = "armed" THEN "ready" ELSE handler

(* Its user closes the child.                                              *)
ChildExits ==
  /\ child = "alive"
  /\ Dies
  /\ UNCHANGED <<main, observer, guard, stopped, owner>>

HasWork == guard \/ handler \in {"armed", "ready"}

(* io.run() runs the handler that is ready, unless it has been stopped ... *)
RunHandler ==
  /\ observer = "run" /\ ~stopped
  /\ handler = "ready"
  /\ handler' = "ran"
  /\ UNCHANGED <<main, observer, guard, stopped, child, owner>>

(* ... and returns when it has been, or has no work left.                  *)
RunReturns ==
  /\ ObserverGoes("run", "returned")
  /\ stopped \/ ~HasWork
  /\ UNCHANGED <<main, guard, stopped, child, owner, handler>>

-----------------------------------------------------------------------------
(* ExitObserver                                                            *)

RunBegins ==
  /\ ObserverGoes("start", "run")
  /\ UNCHANGED <<main, guard, stopped, child, owner, handler>>

ThreadExits ==
  /\ ObserverGoes("returned", "exited")
  /\ UNCHANGED <<main, guard, stopped, child, owner, handler>>

-----------------------------------------------------------------------------
(* TestProcess                                                             *)

(* Mutant: the executor is not guarded.                                    *)
MakeWorkGuardNot ==
  /\ MainGoes("guard", "thread")
  /\ UNCHANGED <<observer, guard, stopped, child, owner, handler>>

MakeWorkGuard ==
  /\ MainGoes("guard", "thread")
  /\ guard' = TRUE
  /\ UNCHANGED <<observer, stopped, child, owner, handler>>

StartObserver ==
  /\ MainGoes("thread", "create")
  /\ ObserverGoes("none", "start")
  /\ UNCHANGED <<guard, stopped, child, owner, handler>>

(* Mutant: the handle stays with the temporary.                            *)
ReturnProcessMovesNot ==
  /\ \/ MainGoes("construct", "return") /\ owner' = "temporary"
     \/ MainGoes("return", "destroy") /\ UNCHANGED owner
  /\ UNCHANGED <<observer, guard, stopped, child, handler>>

(* Mutant: ec is not looked at.                                            *)
CreateProcessUnchecked ==
  /\ MainGoes("create", "register")
  /\ child' \in {"alive", "not started"}
  /\ owner' = "local"
  /\ UNCHANGED <<observer, guard, stopped, handler>>

(* CreateProcessWithExeAndArgs: the child runs and the local child object  *)
(* has its handle; or it could not be started, and nullopt is returned.    *)
CreateProcess ==
  /\ \/ /\ MainGoes("create", "register")
        /\ child' = "alive"
        /\ owner' = "local"
     \/ /\ MainGoes("create", "sleep")
        /\ UNCHANGED <<child, owner>>
  /\ UNCHANGED <<observer, guard, stopped, handler>>

(* ... and then the io_context waits for its exit.                         *)
WaitForExit ==
  /\ MainGoes("register", "construct")
  /\ handler' = IF child = "dead" THEN "ready" ELSE "armed"
  /\ UNCHANGED <<observer, guard, stopped, child, owner>>

(* The handle moves into a temporary Process and from there into the       *)
(* optional that is returned.                                              *)
ReturnProcess ==
  /\ \/ MainGoes("construct", "return") /\ owner' = "temporary"
     \/ MainGoes("return", "destroy") /\ owner' = "process"
  /\ UNCHANGED <<observer, guard, stopped, child, handler>>

(* ~Process of the object o: a running child it holds is ended.            *)
DestroyProcess(o) ==
  /\ IF owner = o /\ child = "alive" THEN Dies ELSE UNCHANGED <<child, handler>>
  /\ owner' = IF owner = o THEN "none" ELSE owner
  /\ UNCHANGED <<observer, guard, stopped>>

(* The temporary and the local child, which boost destroys alike.          *)
DestroyTemporary ==
  \/ MainGoes("destroy", "leave") /\ DestroyProcess("temporary")
  \/ MainGoes("leave", "sleep") /\ DestroyProcess("local")

Sleep ==
  /\ MainGoes("sleep", "check")
  /\ UNCHANGED <<observer, guard, stopped, child, owner, handler>>

(* process && joinable(), false after nullopt; then Process::Terminate     *)
(* asks whether the child is running ...                                   *)
Running ==
  /\ \/ MainGoes("check", IF owner = "process" THEN "running" ELSE "reset")
     \/ MainGoes("running", IF child = "alive" THEN "terminate" ELSE "reset")
  /\ UNCHANGED <<observer, guard, stopped, child, owner, handler>>

(* ... and ends it.  One that has exited meanwhile makes terminate() throw *)
(* through TestProcess, past the thread that is not joined.                *)
Terminate ==
  /\ \/ /\ MainGoes("terminate", "reset")
        /\ child = "alive"
        /\ Dies
        /\ owner' = "none"
     \/ /\ MainGoes("terminate", "aborted")
        /\ child = "dead"
        /\ UNCHANGED <<child, handler, owner>>
  /\ UNCHANGED <<observer, guard, stopped>>

(* Mutant: the guard is not reset and the io_context not stopped.          *)
ResetWorkGuardNot ==
  /\ MainGoes("reset", "join")
  /\ UNCHANGED <<observer, guard, stopped, child, owner, handler>>

ResetWorkGuard ==
  /\ MainGoes("reset", "stop")
  /\ guard' = FALSE
  /\ UNCHANGED <<observer, stopped, child, owner, handler>>

StopContext ==
  /\ MainGoes("stop", "join")
  /\ stopped' = TRUE
  /\ UNCHANGED <<observer, guard, child, owner, handler>>

Join ==
  /\ MainGoes("join", "scope")
  /\ observer = "exited"
  /\ UNCHANGED <<observer, guard, stopped, child, owner, handler>>

(* The end of the scope destroys the process, and the io_context that the  *)
(* observer works on.                                                      *)
EndOfScope == MainGoes("scope", "done") /\ DestroyProcess("process")

-----------------------------------------------------------------------------
MainThread ==
  \/ MakeWorkGuard \/ StartObserver
  \/ CreateProcess \/ WaitForExit \/ ReturnProcess \/ DestroyTemporary
  \/ Sleep
  \/ Running \/ Terminate
  \/ ResetWorkGuard \/ StopContext
  \/ Join \/ EndOfScope

(* A process that is aborted takes its threads with it.                    *)
ExitObserver == main # "aborted" /\ (RunBegins \/ RunHandler \/ RunReturns \/ ThreadExits)

Next == MainThread \/ ExitObserver \/ ChildExits

Spec == Init /\ [][Next]_vars

(* Both threads keep running; when the child exits is its user's choice.   *)
FairSpec == Spec /\ WF_vars(MainThread) /\ WF_vars(ExitObserver)

-----------------------------------------------------------------------------
(* "one way to block and wait for future work is to create work_guard for  *)
(* executor" (test_process.cpp:33-34): the observer leaves io.run(),       *)
(* before there is a child or after it has ended, only when it is told to. *)
ObserverWaitsForWork ==
  observer \in {"returned", "exited"} => main \in {"stop", "join", "scope", "done"} \/ stopped

(* The objects through which CreateProcessWithExeAndArgs returns the child *)
(* all call Terminate; only the call after the ten seconds ends it.        *)
EndedOnlyAfterSleep ==
  [][child = "alive" /\ child' = "dead" /\ main' # main => main = "terminate"]_vars

(* "after work gaurd reset, the thread will join" (test_process.cpp:55),   *)
(* whether the child could be started, has exited or never does, and       *)
(* neither it nor the child outlives the test.                             *)
ThreadJoins ==
  main = "reset" ~> main = "done" /\ observer = "exited" /\ child # "alive"
=============================================================================
