---------------------------- MODULE TaskExecutor ----------------------------
(***************************************************************************)
(* What uv::detail::scheduler promises to a connection coroutine that      *)
(* evaluates  co_await _scheduler.run(fn)  (uv/server.cpp, server::conn):  *)
(* fn is executed exactly once, and only then, exactly once, the coroutine *)
(* is resumed.  Threads, queues and wake-ups do not appear here.           *)
(***************************************************************************)
CONSTANT Conns      \* the connection coroutines

VARIABLE job        \* job[c]: how far the task awaited by coroutine c has come

AbsInit == job = [c \in Conns |-> "idle"]

\* The coroutine awaits a new task.
Submit(c) == /\ job[c] = "idle"
             /\ job' = [job EXCEPT ![c] = "submitted"]

\* The task's function is executed.
Execute(c) == /\ job[c] = "submitted"
              /\ job' = [job EXCEPT ![c] = "executed"]

\* The awaiting coroutine is resumed and the task is destroyed.
Resume(c) == /\ job[c] = "executed"
             /\ job' = [job EXCEPT ![c] = "idle"]

AbsNext == \E c \in Conns : Submit(c) \/ Execute(c) \/ Resume(c)

AbsSpec == AbsInit /\ [][AbsNext]_job
=============================================================================
