# Verification of boost_experiments

TLA+ models of the named-pipe programs in `src/`: the message channel
`ThreadedMessageChannelWin` with the `NamedPipeWin` it owns and the driver that
runs it, four servers that serve pipes in four different ways, the sample
client, and the process test. Two abstract specifications say what the channel
and the servers promise; the detailed ones implement them. TLC checks the models
on small instances; TLAPS proves every safety invariant, action property and
refinement that the passing runs check, for every value of the constants.
Liveness stays with TLC.

## 1. Inventory

| part | state | operations | interacts by |
|---|---|---|---|
| `ThreadedMessageChannelWin` (`threaded_message_channel_win.*`) | `state_`, `message_`, `read_buf_`, `context_`, `io_event_`, `io_overlapped_`, `quit_io_thread_`, `io_thread_` | `ConnectOnIOThread`, `SendMessageOver`, `IsInError`, destructor (main thread); connect, wait, read completion, notifications (I/O thread) | state shared by two threads without a lock; event; APCs; delegate callbacks; the pipe |
| `NamedPipeWin` (`named_pipe_win.*`) | the handle `pipe_` | `CreateServerPipe`, `CreateClientPipe`, `IsValid`, `IsServer`, `DisconnectAndClose` | called by both threads of a channel |
| pipe test driver (`TestBoost.cpp`, `PipeTests`) | its options | create, connect, send `num_messages`, stop or sleep for ever | is the main thread of a channel |
| overlapped server (`named_pipe_server_overlapped.cpp`) | `Pipe[4]` (`dwState`, `fPendingIO`, buffers), `hEvents[4]` | one loop: wait, result, next operation; `DisconnectAndReconnect`, `ConnectToNewClient` | one thread, many clients |
| completion-routine server (`named_pipe_completion_routine.cpp`) | `hPipe`, `hConnectEvent`, `oConnect`, a heap `PIPEINST` per client | alertable loop, `CompletedReadRoutine`, `CompletedWriteRoutine`, `CreateAndConnectInstance`, `DisconnectAndClose` | one thread, many clients, APCs |
| completion server (`named_pipe_completion_server.cpp`) | `connect_status`, `hPipeEvents`, `hConnectEvent`, `oConnect` | main thread waits for events; I/O thread connects and reads | two threads, one client |
| multithreaded server and client (`named_pipe_server.cpp`, `named_pipe_client.cpp`) | a thread and a pipe instance per client | accept loop, `InstanceThread`; a client that sends five messages and reads | blocking calls |
| `base::Process` and its test (`process.*`, `test_process.cpp`) | `child_process_`; `io_context`, work guard, observer thread | create, terminate, join | boost.asio, boost.process |
| async pipe test (`test_async_pipe.cpp`) | one pipe, one work guard | one asynchronous read or write | boost.asio |
| utilities, thread-pool fragment, build files | none | string conversion | |

What is hard, per part, and what makes it correct:

* **The channel.** `state_`, `message_` and the handle belong to two threads;
  the event is manual-reset and is both the connect's completion and the
  destructor's wake-up; several completions may run before one report of
  them; a destructor may come at any moment, on either end. Correct means:
  messages arrive once and in order; a failed channel stays failed and its
  delegate hears of it and of nothing good afterwards; one read at a time;
  no callback and no kernel write after the destructor; the thread neither
  spins nor sleeps for ever.
* **The overlapped and the completion-routine server.** Every operation
  finishes at once or later; a client comes, goes and writes at any moment,
  also between `CreateNamedPipe` and `ConnectNamedPipe`. Correct means: a
  signal stands for a finished operation, every proper request is answered
  once and to its own client, memory is not released under an operation,
  nobody can end the server, it listens again, and a request waits for ever only
  if the instances of lower index are served for ever.
* **The multithreaded server and its client.** Every call blocks: the accept
  loop on a client, an instance's thread on its client's requests, on room for
  a reply and on the flush; the sample client writes all its messages before it
  reads. Correct means: no client holds up the accept loop or another client,
  each instance is closed once by the thread that owns it, replies are not
  discarded, and client and server do not wait for each other.
* **The driver.** Both programs send with a blocking write while their I/O
  threads read, and either may leave, fail or stay. Correct means: the sending
  loop ends and, once it returns, so does the destructor.
* **The process test.** The child may exit at any moment, also while its handle
  moves through temporaries whose destructors end it. Correct means: the
  observer stays until it is told to go, an exit is missed only because of
  `io.stop()`, and the join returns with no child left.
* **The completion server.** Two auto-reset events and one plain status
  between two threads, and an I/O thread with four exits besides the one after a
  failed read. Correct means: no wake-up lost after a failed read, one operation
  on `oConnect` at a time, both threads end when a client that was served has
  gone.

`PROJECT.json` lists each hazard with its line and its properties.

## 2. Modules

| module | models | state and actions |
|---|---|---|
| `Win32Pipe` | external: the operating system's side of one pipe instance and of the two channel events | `pend` (each end), `inbox`, `reading`, `apcs`, `connecting`, `event`; an operator per Win32 call, used inside the channel's actions |
| `MessageChannel` | the channel and `NamedPipeWin`, two ends of two threads | `mainPc`/`ioPc` say where each thread is; `state`, `message`, `quit`, `handle` are the members; `sent`, `delivered`, `told`, `closes` are histories. Every access to a member the other thread can observe is a step of its own |
| `MessageStream` | abstract: one direction of a channel as its user sees it | a queue, what was handed out, and how far the receiver has broken down (`up`, `cut`, `dying`, `gone`); what may be lost depends on it |
| `ChannelProperties` | what the channel promises, `MessageStream` included; two inductive strengthenings; what comments say | |
| `PipeTests` | the driver, composed with both ends of `MessageChannel` | `driver` says where each `PipeTests` is when it is not inside a call of the channel; the channel's actions are taken inside it; `options` is the command line. Its own variables take only the values its actions name; the channel's types are checked in `channel_safety` |
| `MCMessageChannel`, `MCPipeTests` | values of the constants for TLC | |
| `Session` | abstract: what a server promises one client | no client, served or left; requests asked and answered, counted anew when all are answered and the client goes on; asked improperly |
| `OverlappedServer` | the overlapped server, `N` for `INSTANCES` | `Pipe` and `inst` per instance; `Wait` is the first half of an iteration, `NextRead`/`NextWrite` the second |
| `CompletionRoutineServer` | the completion-routine server | one instance per client; `RunRoutine` runs the queued routines, `Accept` is `case 0` |
| `CompletionServer` | the completion server, with the failures of its I/O thread's system calls | two thread positions, the status, two events, the pipe |
| `ThreadedServer` | the multithreaded server | the main thread's position, a thread and a pipe instance per client |
| `PipeClient` | the sample client, composed with `ThreadedServer` and its other clients | the instance it has opened, its position, the replies it has read |
| `ProcessTest` | the process test with `base::Process` | positions of both threads; work guard, stopped context, child, which object holds its handle, the exit handler |
| `SequenceFacts` | lemmas on sequences and on ordered sequences, for the proofs | |
| `ChannelProofs`, `ChannelOrderProofs` | theorems about the channel; those about order and the refinement of `MessageStream` are in the second | |
| `OverlappedProofs`, `RoutineProofs`, `CompletionServerProofs`, `ThreadedProofs`, `ProcessProofs` | theorems about `OverlappedServer`, `CompletionRoutineServer`, `CompletionServer`, `ThreadedServer` with `PipeClient`, and `ProcessTest` | |

**The abstract specifications.** `Streams` says that each direction of the
channel implements `MessageStream` under the mapping queue = `message_`,
the completion queued, if any, pipe (`InTransit`; that there is at most one is
`OneReadOutstanding`, which is proved); delivered = the history; phase = computed from the
destructor's position, the handle and the error state. As long as the receiver
is up nothing may be lost; once its connection is over only the end of the
queue; its destructor may drop any part; after that nothing happens. `Sessions`
says that every instance of a server implements `Session`: replies follow
requests of the same client, and a server hangs up only on a client that has
left or has asked improperly (an empty request or one longer than the buffer).
Three servers implement the same `Session`; the completion server answers
nothing and has no sessions.

The server modules are self-contained: each states the few system calls it
uses as operators on its own pipe record, since their servers hold many
instances and the channel's holds one.

Operators named *mutant* in a comment are plausible faults of the definition
that follows; no specification uses them. They show that each property can fail.

## 3. The environment assumed

The Win32 side is not code of this repository. The models take it as follows.

* A new pipe instance listens at once, so a client may connect before
  `ConnectNamedPipe`, which then fails with `ERROR_PIPE_CONNECTED`; if the
  client has closed again, with `ERROR_NO_DATA`.
* Starting an overlapped operation resets its event, completing it (at once
  or later) sets the event, and a call that fails leaves it reset.
  `ReadFileEx` and `WriteFileEx` leave the event alone and queue a completion.
* A pending connect or read completes in the step that causes it.
* What a client wrote before it closed can still be read, then reads fail with
  `ERROR_BROKEN_PIPE`; `DisconnectNamedPipe` discards what was not read.
* An alertable wait runs all queued routines before it returns; when an event
  is signaled too, either may win.
* `wil::unique_handle::reset()` is `CloseHandle`, then the pointer is cleared:
  two steps. The handle value is not reused meanwhile.
* Assigning the `std::variant` `state_` is one step. In the code it is a data
  race whenever both threads do it; the model covers every order of whole
  assignments, not torn ones.
* `WriteFile` without an `OVERLAPPED` blocks on a full pipe, `ReadFile` on an
  empty one, `FlushFileBuffers` until the client has read all; each returns
  when the other side closes. A process that ends closes its handles, and what
  it has written can still be read. Printing leaves `GetLastError` alone. `delegate_` is not null.
* Waits do not fail, except those of the completion server's I/O thread, which
  ends the thread; the system then cancels what that thread has in flight. There
  a pending connect may fail too.
* A message is a number; its length matters only as fitting the read buffer,
  exceeding it or being empty.
* `io_context::run()` returns when the context is stopped or has no work, which
  the guard and an exit handler not yet run are. `child::running()` is false
  after the child's exit or when the handle has moved; `terminate()` of a child
  that has exited throws; the destructor of a `child` ends the one it holds.

## 4. Runs

| run | instance | shows |
|---|---|---|
| `channel_safety` | capacity 1, client sends 2, server 1, both may be destroyed | the nine safety and action properties of the channel, among them that it implements `MessageStream` |
| `pipe_tests` | capacity 1, buffer 1, messages of the server longer than the buffer. Three command lines: a client that sends 2 to a server that only listens, both staying, so that the server never fails and must get both; the same with the server sending one too, so that both write into full pipes at once and the overlong message breaks the client; a client that sends 1 and leaves. Fair threads | every message reaches a receiver that stays healthy, overlong ones do not, failures are reported, sending loops end, destructors return |
| `channel_error_thread` | one message each | violated: "All error condition updates happen on IO thread" |
| `channel_destructor` | no messages | violated: "This should cause the IO Thread loop to break" |
| `channel_unrecorded` | one message each | violated: "If IO failed, we would have set the error" |
| `overlapped` | 2 instances, 3 clients, each with up to 2 requests before all are answered and then any number more, 1 unread reply, fair server | events and states agree; replies; sessions; nobody ends the server; unless starved by instances of lower index, requests are answered and instances listen again |
| `routine` | 2 clients, 2 requests each, 1 failing creation, fair server | storage, replies, sessions, progress |
| `routine_connect` | | violated: "FALSE if the connection has been completed" |
| `completion_server` | 3 messages, system calls of the I/O thread may fail | one operation at a time, the wake-up after a failed read, progress of both threads |
| `threaded` | 2 clients, one of them the sample client with 3 messages, quota 1, fair threads | owners, sessions, flush, progress of the accept loop and of the sample client |
| `client_loop` | the sample client alone | violated: "repeat loop if ERROR_MORE_DATA" |
| `process` | one child (there are no bounds) | observer, life of the child, join |

**Bounds.** `MaxSend`, `MaxSessions`, `MaxClients`, `MaxRequests`,
`MaxMessages`, `MaxFailures`, `Capacity` and `Quota` bound the environment,
never the program. Two messages suffice for order, coalescing and doubling,
because a completion holds one message and `message_` any number; capacity and
quota 1 make the full pipe reachable with the second message; a third client
makes an instance serve two in turn while the other is busy; two instances
make the wait choose. In `overlapped` the requests are bounded only until all are
answered: a client whose replies have all been read counts anew
(`ClientGoesOn`), so that the traffic on an instance has no end. In `threaded` the sample client's 3 messages are the most that
`2 * Quota + 1` allows (one in each direction and one in the server's thread);
with its own 5 messages and the pipe's buffer of 512 bytes that bound is not the
code's to keep, see known limits. Empty messages of the channel are in
`NoMisfitDelivered` but in no run: a completion of zero bytes appends nothing
(`Received`) and the next read follows. Deadlock is not checked: every program may come to rest,
waiting for a client that does not come or having ended.

**Fairness.** Weak fairness of each thread: the operating system keeps
running a thread that can run. What the user or a client decides (to create,
connect, send, destroy, open, write, close) has none. In the channel, fairness
is of the I/O thread and of the calls the main thread has begun; in `PipeTests`
of the whole main thread, since the driver's loop, and not a user, takes its
steps, and its sleeps end. The sample client is fair, its user and the other
clients are not; a child need not exit. The liveness
properties name what the code does not promise: a receiver that fails or is
destroyed, a client that leaves or lets replies pile up. Failures of system
calls have no fairness. `WaitForMultipleObjects` returns the lowest signaled
index, so an instance of the overlapped server may wait for ever while lower ones
are served for ever (`Starved`; `named_pipe_server_overlapped.cpp:99-103`);
`EveryRequestAnswered` and `ListensAgain` except that and nothing weaker, so the
first instance is owed service whatever the others do. Without the exception TLC
finds both violated, by a client of the first instance that never stops asking.
`ClientServedToEnd` excepts an I/O thread that has ended and left the pipe open
(`Abandoned`).
`DestructorReturns` holds of a destructor that begins when no event reset of
the I/O thread is ahead (`Settled`); without that condition it is false, which
is the finding of `channel_destructor`.

**Findings.** (1) `SendMessageOver` sets the error state on the caller's
thread. (2) The I/O thread can reset the event after the destructor has set
it, and the destructor's join then never returns; nor does an I/O error end
the loop. (3) A connect that fails at once is reported but not recorded.
(4) A client that leaves before `ConnectNamedPipe` makes the
completion-routine server take "failed" for "connected": it accepts nobody any
more. (The overlapped server has the same comment and the same flaw, and loses
the instance; `Lost` names that state there.) (5) The sample client's reading
loop has no end: a client that has read its replies and the server wait for
each other, and the lines after the loop are only reached by an error.

## 5. Proofs

Every theorem is about the `Spec` of its module, without fairness, and assumes
only the named assumptions on constants (`PipeAssumption`, `ProgramAssumption`,
`ServerAssumption`, `RoutineAssumption`, `MessagesAssumption`,
`ThreadedAssumption`, `ClientAssumption`), which say that bounds are numbers and
that buffers, quotas and capacities are not zero. One theorem has a hypothesis
of its own, `ImplementsStreams` below. Each proof has the same shape: an
inductive invariant, which TLC was given first as an invariant of the run of its
component; a lemma per action, or per kind of step, that it is kept; the theorem
by `PTL`.

**The channel** (`ChannelProofs`), for every capacity, buffer length, message
length, number of messages and set of destroyers. None of the properties is
inductive by itself.

| theorem | property | what it rests on |
|---|---|---|
| `TypeCorrect` | `TypeOK` | inductive; lemmas for the Win32 operators |
| `ErrorsAreFinal` | `ErrorIsFinal` | `StateFollowsThread`. The connect and `AcceptConnection` assign a good state without looking at the old one; the invariant says what the positions of the threads tell of `state_`: `Init` until the connect, `ConnectPending` when a connect is accepted, `Connected` or an error while a message is written |
| `SafeDestruction` | `NothingUsedAfterFree` | `HandleAccounted`: where the handle is at every step of the destructor. One of the two threads has closed it before the join, and a closed handle has nothing in flight |
| `ReadsTakeTurns` | `OneReadOutstanding` | `ReadsInTurn`: no read before the connection is up and none while its result is handled, so the three places that call `ReadFileEx` find none outstanding |
| `EventIsQuiet` | `NoBusyLoop` | `EventQuiet`: after the connect nobody but the destructor sets the event, and that after `quit_io_thread_`; `OnlyServerConnects`: while a connect is pending a signal means quit |
| `ClosedTwiceOnlyInRace` | `SecondCloseIsARace` | `ClosesCounted`: a handle that has been closed and is still held is being forgotten by one of the threads |
| `FailureIsTheEnd` | `NothingAfterFailure` | `FailureLasts`: an I/O thread that has told of a failure has ended, or is in error and past everything that tells of success or hands out `message_` |
| `MisfitsStayOut` | `NoMisfitDelivered` | `MisfitsDropped`: of a sender whose messages do not fit, nothing is in `message_`, and a completion with a message that is too long carries an error |

**Order and the refinement** (`ChannelOrderProofs`). A message is in one of four
sequences on its way: delivered, `message_`, the completion queued, the pipe.

* `MessagesInOrder` (`InOrder`) rests on `OrderInv`. `Ordered`: the four sequences
  are increasing, one after the other, and contain nothing that was not sent; it
  survives every loss, because what is lost is taken out of the sequences.
  `NoGap`: until the receiver's destructor, what has been delivered has no gap,
  and either nothing will follow (`Dead`) or the rest goes on from there, up to
  `sent` as long as the pipe is whole. The second half is needed because errors do
  drop messages in the middle of the way: what is behind the gap must never be
  delivered.
* `ImplementsStreams` (`Streams`): each direction implements `MessageStream`. The
  initial state maps to its initial state (the abstract queue is empty, its phase
  `"up"`), and every step of the four threads to one of its steps or a stutter
  (`StreamsStep`). Beyond the invariants above it needs `CutInv`, so
  that a stream once cut stays cut: nothing arrives before
  the client opens the pipe, an end that is not attached has nothing to read, a
  failed read is the last, and `ConnectNamedPipe` revives only a pipe whose channel
  is being destroyed. The hypothesis is that messages fit the read buffer. The code
  needs it: an empty message is dropped while the stream is up, and one that is too
  long ahead of those behind it in the pipe;
  `MisfitsStayOut` says what holds of those instead. The constants of
  `channel_safety` satisfy it.

**The overlapped server** (`OverlappedProofs`), for every number of instances,
sessions and requests and every quota. `Inv` says of each instance, by the
thread's position, where it is (`Placed`): not created, created, at rest with an
operation that was pending or finished at once, or being worked on; and what
`fPendingIO`, `dwState`, the event and the status then are. `Counted` adds up the
requests of the present client, from its last fresh start (`GoesOnKeeps`: a
client that goes on has none open on either side). From it: `TypeCorrect`, `EventsAreResults`
(`EventMeansDone`), `RequestsAnsweredOnce` (`OneReplyEach`), and `ServesSessions`
(`Sessions`), step by step. `EventMeansDone` alone is not inductive: that a wait
finds a finished operation depends on what was started two iterations ago.

**The completion-routine server** (`RoutineProofs`), for every number of clients,
requests and failing calls. `Inv` has `Held` (an operation or a completion of an
instance is the only one and its storage is allocated), `Counted`, and `Newest`
(the one instance that waits for a client has no storage yet, and its event is
not signaled while its connect is pending). From it: `TypeCorrect`,
`StorageIsHeld`, `RequestsAnsweredOnce`, `ServesSessions`, and `NeverStops`: no
client can end the server, the safety half of `ListensForNext`. The queue of
completions holds those of all clients; `QueuedFor` counts with `Cardinality`, and
the lemmas say that it is 0 or 1 and what taking the head or appending does.

**The multithreaded server and its client** (`ThreadedProofs`), of `PipeClient!Spec`:
the sample client, any other clients, any quota. `Ownership` relates the main
thread's position, the position of each instance's thread and the instance;
`Accounted` and `ClientAccounted` add up requests and replies on both sides. From
it: `TypeCorrect`, `OneOwnerEach` (`OneOwner`), `RepliesReachClient`
(`RepliesFlushed`, with `Flushed`: a thread about to disconnect has seen its client
read everything or leave), `ServesSessions`.

**The completion server** (`CompletionServerProofs`), for every number of messages:
`TypeCorrect`, `OneOperationAtATime`, `WakeupKept` (`NoLostWakeup`). `ConnectFirst`
(the connect is over before a read is started, and its event tells so once),
`ClosedWithError` and `EndedByError` supply what the two threads know of each other:
a closed pipe means `kError`, once, with nothing in flight; `kError` with the pipe
still open means that the I/O thread has ended. No more holds: three exits of the
I/O thread set `kError` and close nothing, and a fourth sets not even the status.
`WakeupKept` is therefore about the exit that follows a failed read, which is the
only one that closes the pipe.

**The process test** (`ProcessProofs`): `TypeCorrect`, `ObserverWaits`, `ChildKept`
(`EndedOnlyAfterSleep`) and `LeavesNothing`: when `TestProcess` returns, neither
the child nor an observer of the destroyed `io_context` is left. `HandlePassedOn`
says which object holds the child's handle at each position, `GuardHeld` and
`ChildEnded` what is gone by when. The model has no constants and TLC is complete
on it; the proof adds the argument, and `LeavesNothing` is what `ThreadJoins`
promises, without its "eventually".

**What stays with TLC.** The liveness properties (`EventuallyDelivered`,
`ReadFailureReported`, `DestructorReturns`, `SendLoopEnds`,
`EveryRequestAnswered`, `ListensAgain`, `ListensForNext`, `ClientServedToEnd`,
`AllAnswered`, `ThreadJoins`), whose fairness needs `ENABLED`, which the prover
cannot expand; and the violated runs, whose counterexamples are TLC's.
`pipe_tests` checks `NoMisfitDelivered` of the driver's `TestSpec`; the theorem is
about the channel's `Spec`, whose steps those of the driver are.

## 6. Not modelled, and known limits

* The async pipe test (`test_async_pipe.cpp`) is a straight line around one
  asynchronous operation. Which ends a named `boost::process::async_pipe` opens,
  and with it whether the read of 128 bytes ever completes, is decided inside
  boost, which is not in the repository; a model would be of boost. What the
  code itself decides is that its work guard is never reset (line 53), so the
  server does not return from `run()`.
* String conversion, option parsing and the dispatch of `GenericTest` keep no
  state. Its `tmcw` test passes a null delegate, which `ConnectOnIOThread`
  asserts against; the channel is modelled with a delegate.
  `thread_pool_basic_test.cpp` is a fragment no compiler accepts. In the process
  test the thread pool and `async_bar` are unused.
* Failures of `CreateEvent`, `GlobalAlloc` and `CreateNamedPipe` that return from
  `main` are left out (for the accept loop see below), as is `WAIT_FAILED` of a main
  thread. On the I/O thread of the completion server they only end that thread,
  and are modelled.
* The completion server's I/O thread has four exits that do not wake the main
  thread as the exit after a failed read does, and after which the main thread
  can wait for ever (`Abandoned`): `CreateEvent` fails
  (`named_pipe_completion_server.cpp:86-90`: `kError`, no `SetEvent`); the connect
  succeeds at once (`:96-98`: neither); the connect fails later (`:120-125`:
  `SetEvent` comes before `kError`, so the main thread may look too early); the
  wait fails (`:144-148`: `kError`, no `SetEvent`, the pipe stays open). They are
  modelled, no comment promises otherwise, and the properties of that server say
  where they do not speak of them.
* What the models show and no comment claims otherwise: a first `ReadFileEx`
  that fails puts the channel in error and tells nobody; a message received
  just before a `ReadFileEx` fails is dropped with `message_`; a server whose
  connect was pending is never told `kConnected`, nor is any client; a
  destroyed server discards what its client has not read; a channel whose
  connect failed cannot connect again. The completion server never reads
  from a client that connected before `ConnectNamedPipe`, and never notices
  one that left before it; without a pipe its main thread waits for ever.
* The same of the other programs: an `InstanceThread` without memory for its
  buffers leaks its pipe and leaves its client waiting
  (`named_pipe_server.cpp:130-146`); a failing `CreateNamedPipe` or
  `CreateThread` ends the server with all its clients (`:61-65`, `:87-91`). The
  sample client writes all its messages before it reads: with more messages than
  `2 * Quota + 1` the two block each other for ever, and how many 512 bytes hold
  is the system's choice. Its lines 121-127 are never run. In the process test a
  child that exits between `running()` and `terminate()` makes `Terminate` throw
  past a joinable thread (`process.cpp:98-99`): the program is aborted
  (`"aborted"`) before it resets the guard, so `ThreadJoins` does not speak of it.
* The overlapped server is not fair to its instances, see Fairness.
* In `pipe_tests` the receiver that stays healthy is the server. The client's
  healthy case is not in that run, since there it is the server's messages that are
  too long; `channel_safety` and the theorems are about both directions.

## 7. Plan

Done: the models of section 2, their runs, the refinements of `MessageStream`
and `Session`, and the theorems of section 5.

Next:

1. `PipeTests`: that `TestSpec` implements `Spec`, so that the channel's theorems
   hold of the driver, and the type invariant of the driver's own variables.
2. The lemmas that the three proofs of `Sessions` share, stated once.
