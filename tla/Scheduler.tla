----------------------------- MODULE Scheduler ------------------------------
(***************************************************************************)
(* uv::detail::scheduler (uv/scheduler.h, uv/scheduler.cpp) with the       *)
(* uv::detail::task coroutines it runs (uv/task.h).                        *)
(*                                                                         *)
(* The I/O thread runs the libuv loop.  A connection coroutine c that      *)
(* awaits run(fn) suspends; its task is put on _shifters, a worker thread  *)
(* takes it, runs fn, and at the task's final suspension point puts the    *)
(* handle of c on _joiners and signals the uv_async_t; the async callback  *)
(* resumes c on the I/O thread, which destroys the task.                   *)
(*                                                                         *)
(* A step is what a thread does under one mutex, or between two of them.   *)
(* The unlocked read of _joiners.empty() in join() and of _stop in loop()  *)
(* race with a writer.  Each is one load: it returns the old or the new    *)
(* value, and both are interleavings of the steps below.                   *)
(***************************************************************************)
EXTENDS Naturals, Sequences

CONSTANTS
  Conns,     \* connection coroutines that use the scheduler
  Workers,   \* the n worker threads of a server built with n > 0
  NoTask     \* the value of a task handle with no live coroutine frame behind it

ASSUME NoTaskAssumption == NoTask \notin Conns

VARIABLES
  task,      \* task[c]: suspension point of the wrap() coroutine awaited by c
  shifters,  \* _shifters: tasks waiting for a worker
  joiners,   \* _joiners: coroutines to resume on the I/O thread
  pc,        \* pc[w]: where worker w stands in loop(); "none": not created (n = 0)
  cur,       \* cur[w]: the task that w is running or has just completed
  io,        \* what the I/O thread executes: "loop" (polling) or "join"
  signal,    \* pending flag of the uv_async_t (1: a callback is due)
  async,     \* state of the uv_async_t handle
  life       \* "alive", "stopping" (_stop is true), "destroyed"

vars == <<task, shifters, joiners, pc, cur, io, signal, async, life>>

TaskState == {"none", "queued", "running", "returned", "joining"}

TypeOK ==
  /\ task \in [Conns -> TaskState]
  /\ shifters \in Seq(Conns)
  /\ joiners \in Seq(Conns)
  /\ pc \in [Workers -> {"none", "loop", "run", "final", "send", "exited"}]
  /\ cur \in [Workers -> Conns \cup {NoTask}]
  /\ io \in {"loop", "join"}
  /\ signal \in {0, 1}
  /\ async \in {"uninitialised", "active", "closing", "garbage closed"}
  /\ life \in {"alive", "stopping", "destroyed"}

\* _threads: the pool the constructor starts; it never changes.
Threads == {w \in Workers : pc[w] # "none"}

\* The server is built with a pool of Workers, or with n = 0.
Init ==
  /\ task = [c \in Conns |-> "none"]
  /\ shifters = <<>>
  /\ joiners = <<>>
  /\ pc \in {[w \in Workers |-> "loop"], [w \in Workers |-> "none"]}
  /\ cur = [w \in Workers |-> NoTask]
  /\ io = "loop"
  /\ signal = 0
  /\ async = IF Threads = {} THEN "uninitialised" ELSE "active"
  /\ life = "alive"
-----------------------------------------------------------------------------
(* The I/O thread.                                                         *)

\* The task of c suspends in shift() by putting itself on _shifters.  Without
\* worker threads enqueue() refuses and the task goes on.
Enqueue(c) ==
  /\ Threads # {}
  /\ shifters' = Append(shifters, c)

\* Coroutine c, running in a read callback, awaits run(fn): the task gets its
\* completion function, learns whom to resume (_previous), starts and suspends.
Run(c) ==
  /\ life = "alive" /\ io = "loop"
  /\ task[c] = "none"
  /\ task' = [task EXCEPT ![c] = "queued"]
  /\ Enqueue(c)
  /\ UNCHANGED <<joiners, pc, cur, io, signal, async, life>>

\* libuv finds the async handle signalled: it clears the flag, then calls join().
JoinBegin ==
  /\ life = "alive" /\ io = "loop" /\ signal = 1
  /\ signal' = 0
  /\ io' = "join"
  /\ UNCHANGED <<task, shifters, joiners, pc, cur, async, life>>

\* One iteration of join(): the first coroutine is taken off _joiners and
\* resumed.  Its co_await expression ends, so the temporary task and its frame
\* are destroyed, also when the worker that completed it still is in the
\* completion function, which lives in that frame.
JoinPop ==
  /\ io = "join" /\ joiners # <<>>
  /\ LET c == Head(joiners) IN
       /\ task' = [task EXCEPT ![c] = "none"]
       /\ cur' = [w \in Workers |-> IF cur[w] = c THEN NoTask ELSE cur[w]]
  /\ joiners' = Tail(joiners)
  /\ UNCHANGED <<shifters, pc, io, signal, async, life>>

\* Mutant of JoinEnd: join() resumes one coroutine per signal ("if", not "while").
JoinEndAfterOne ==
  /\ io = "join"
  /\ io' = "loop"
  /\ UNCHANGED <<task, shifters, joiners, pc, cur, signal, async, life>>

\* join() finds _joiners empty and returns to the loop.
JoinEnd ==
  /\ io = "join" /\ joiners = <<>>
  /\ io' = "loop"
  /\ UNCHANGED <<task, shifters, joiners, pc, cur, signal, async, life>>
-----------------------------------------------------------------------------
(* Worker threads.                                                         *)

\* Mutant of Take: the handle is read from the queue and not popped.
TakeWithoutPop(w) ==
  /\ pc[w] = "loop" /\ shifters # <<>>
  /\ cur' = [cur EXCEPT ![w] = Head(shifters)]
  /\ task' = [task EXCEPT ![Head(shifters)] = "running"]
  /\ pc' = [pc EXCEPT ![w] = "run"]
  /\ UNCHANGED <<shifters, joiners, io, signal, async, life>>

\* Mutant of Take: _stop is checked after the pop instead of before it.
TakeThenCheckStop(w) ==
  /\ pc[w] = "loop" /\ shifters # <<>>
  /\ shifters' = Tail(shifters)
  /\ \/ /\ life = "alive"
        /\ cur' = [cur EXCEPT ![w] = Head(shifters)]
        /\ task' = [task EXCEPT ![Head(shifters)] = "running"]
        /\ pc' = [pc EXCEPT ![w] = "run"]
     \/ /\ life # "alive"
        /\ pc' = [pc EXCEPT ![w] = "exited"]
        /\ UNCHANGED <<cur, task>>
  /\ UNCHANGED <<joiners, io, signal, async, life>>

\* Worker w finds work.  A worker that waits re-reads the queue at least every
\* 100 microseconds, with or without a notification.  _stop was read before,
\* and the destructor sets it without the mutex: w may still take a task.
Take(w) ==
  /\ pc[w] = "loop" /\ shifters # <<>>
  /\ LET c == Head(shifters) IN
       /\ cur' = [cur EXCEPT ![w] = c]
       /\ task' = [task EXCEPT ![c] = "running"]
  /\ shifters' = Tail(shifters)
  /\ pc' = [pc EXCEPT ![w] = "run"]
  /\ UNCHANGED <<joiners, io, signal, async, life>>

\* fn() returns, or throws and the exception ends in unhandled_exception():
\* either way the task reaches its final suspension point.
Exec(w) ==
  /\ pc[w] = "run"
  /\ task' = [task EXCEPT ![cur[w]] = "returned"]
  /\ pc' = [pc EXCEPT ![w] = "final"]
  /\ UNCHANGED <<shifters, joiners, cur, io, signal, async, life>>

\* Mutant of Complete: the completion function gets a null handle.
CompleteNullHandle(w) ==
  /\ pc[w] = "final"
  /\ joiners' = Append(joiners, NoTask)
  /\ task' = [task EXCEPT ![cur[w]] = "joining"]
  /\ pc' = [pc EXCEPT ![w] = "send"]
  /\ UNCHANGED <<shifters, cur, io, signal, async, life>>

\* Mutant of Complete: a coroutine already on _joiners is pushed once more.
CompletePushTwice(w) ==
  /\ pc[w] = "final"
  /\ joiners' = joiners \o <<cur[w], cur[w]>>
  /\ task' = [task EXCEPT ![cur[w]] = "joining"]
  /\ pc' = [pc EXCEPT ![w] = "send"]
  /\ UNCHANGED <<shifters, cur, io, signal, async, life>>

\* The final awaiter calls the completion function: push under the mutex ...
Complete(w) ==
  /\ pc[w] = "final"
  /\ joiners' = Append(joiners, cur[w])
  /\ task' = [task EXCEPT ![cur[w]] = "joining"]
  /\ pc' = [pc EXCEPT ![w] = "send"]
  /\ UNCHANGED <<shifters, cur, io, signal, async, life>>

\* ... then uv_async_send(&_async).  The address comes from the closure, which
\* lives in the task's frame; once that frame is freed the read is undefined
\* and the signal may not be sent.  The handle h then goes out of scope.
Send(w) ==
  /\ pc[w] = "send"
  /\ \/ signal' = 1
     \/ cur[w] = NoTask /\ UNCHANGED signal
  /\ pc' = [pc EXCEPT ![w] = "loop"]
  /\ cur' = [cur EXCEPT ![w] = NoTask]
  /\ UNCHANGED <<task, shifters, joiners, io, async, life>>

\* Mutant of Exit: wait() without a timeout, so an idle worker never re-reads _stop.
ExitWhenNotified(w) ==
  /\ pc[w] = "loop" /\ life # "alive" /\ shifters # <<>>
  /\ pc' = [pc EXCEPT ![w] = "exited"]
  /\ UNCHANGED <<task, shifters, joiners, cur, io, signal, async, life>>

\* Worker w reads _stop and leaves loop().
Exit(w) ==
  /\ pc[w] = "loop" /\ life # "alive"
  /\ pc' = [pc EXCEPT ![w] = "exited"]
  /\ UNCHANGED <<task, shifters, joiners, cur, io, signal, async, life>>
-----------------------------------------------------------------------------
(* The destructor, which runs when the loop no longer does.                *)

\* _stop = true
Stop ==
  /\ life = "alive" /\ io = "loop"
  /\ life' = "stopping"
  /\ UNCHANGED <<task, shifters, joiners, pc, cur, io, signal, async>>

\* Every thread is joined; then the async handle is closed if it is active.
\* With n = 0 the constructor never initialised it and the test reads garbage.
Destroy ==
  /\ life = "stopping"
  /\ \A w \in Threads : pc[w] = "exited"
  /\ life' = "destroyed"
  /\ \/ async = "active" /\ async' = "closing"
     \/ async = "uninitialised" /\ async' \in {"uninitialised", "garbage closed"}
  /\ UNCHANGED <<task, shifters, joiners, pc, cur, io, signal>>
-----------------------------------------------------------------------------
IoNext == (\E c \in Conns : Run(c)) \/ JoinBegin \/ JoinPop \/ JoinEnd

WorkerNext(w) == Take(w) \/ Exec(w) \/ Complete(w) \/ Send(w) \/ Exit(w)

Next == IoNext \/ (\E w \in Workers : WorkerNext(w)) \/ Stop \/ Destroy

Spec == Init /\ [][Next]_vars

(***************************************************************************)
(* The loop keeps running callbacks while the server is alive, the         *)
(* operating system schedules every worker, and fn() (the application's    *)
(* handlers) returns.  Nothing forces a client to send (Run) or the        *)
(* application to destroy the server (Stop).                               *)
(***************************************************************************)
Fairness ==
  /\ WF_vars(JoinBegin) /\ WF_vars(JoinPop) /\ WF_vars(JoinEnd)
  /\ \A w \in Workers :
       /\ WF_vars(Take(w)) /\ WF_vars(Exec(w)) /\ WF_vars(Complete(w))
       /\ WF_vars(Send(w)) /\ WF_vars(Exit(w))
  /\ WF_vars(Destroy)

FairSpec == Spec /\ Fairness
-----------------------------------------------------------------------------
(* Properties.                                                             *)

Busy(w) == pc[w] \in {"run", "final"}

\* No connection is processed by two workers at once, and a worker that runs
\* fn for c finds c suspended on that very task: request processing on worker
\* threads needs no lock on the connection (uv/server.cpp, lambda of conn()).
ExclusiveRun ==
  \A w \in Workers : Busy(w) =>
    /\ cur[w] \in Conns
    /\ task[cur[w]] = IF pc[w] = "run" THEN "running" ELSE "returned"
    /\ \A v \in Workers \ {w} : Busy(v) => cur[v] # cur[w]

\* A finished task is never forgotten: while a coroutine waits on _joiners and
\* the I/O thread polls, the async handle is signalled or the worker that
\* completed it still is about to signal.  libuv merges signals, join() reads
\* _joiners.empty() without the mutex, and a signal may be lost to a freed
\* completion function; none of these may leave the coroutine waiting forever.
NoLostWakeup ==
  io = "loop" /\ signal = 0 =>
    \A i \in 1..Len(joiners) :
      \E w \in Workers : pc[w] = "send" /\ cur[w] = joiners[i]

\* A queue of coroutine handles: each handle at most once, each in state s.
Holds(queue, s) ==
  /\ \A i \in 1..Len(queue) : task[queue[i]] = s
  /\ \A i, j \in 1..Len(queue) : queue[i] = queue[j] => i = j

\* Every handle on a queue belongs to a live task suspended where that queue
\* expects it, and is there once: resuming a handle twice, or one whose frame
\* was destroyed, would be undefined (_shifters, _joiners).
QueuesHoldLiveTasks == Holds(shifters, "queued") /\ Holds(joiners, "joining")

\* No task is dropped on the way: one that exists is on a queue or in the hands
\* of a worker, whatever the interleaving, until the coroutine is resumed.
NoTaskLost ==
  \A c \in Conns :
    /\ task[c] = "queued" => \E i \in 1..Len(shifters) : shifters[i] = c
    /\ task[c] \in {"running", "returned"} => \E w \in Workers : Busy(w) /\ cur[w] = c
    /\ task[c] = "joining" => \E i \in 1..Len(joiners) : joiners[i] = c

\* How far each task has come for the coroutine that awaits it.
jobs == [c \in Conns |-> CASE task[c] = "none" -> "idle"
                           [] task[c] \in {"queued", "running"} -> "submitted"
                           [] OTHER -> "executed"]

Executor == INSTANCE TaskExecutor WITH job <- jobs

\* The scheduler is a TaskExecutor: fn runs exactly once per co_await and the
\* coroutine is resumed exactly once, after it.
ImplementsExecutor == Executor!AbsSpec

\* Every co_await _scheduler.run(...) ends while the server is not destroyed.
EveryTaskJoined ==
  \A c \in Conns : task[c] = "queued" ~> (task[c] = "none" \/ life # "alive")

\* ~scheduler() returns: every worker notices _stop although nobody notifies
\* the condition variable and the flag is set without the mutex.
DestructorReturns == life = "stopping" ~> life = "destroyed"

\* The destructor closes the async handle only if the constructor initialised
\* it (scheduler(loop, 0) returns before uv_async_init).
ClosesInitialisedHandle == async # "garbage closed"
=============================================================================
