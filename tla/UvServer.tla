------------------------------ MODULE UvServer ------------------------------
(***************************************************************************)
(* uv::server: connection coroutines (server::conn) on the libuv loop,     *)
(* with conn::flush, reader, writer, loop and the Scheduler that moves the *)
(* request processing to worker threads.                                   *)
(*                                                                         *)
(* Bytes are chunks: the i-th chunk read from a socket is i, and what the  *)
(* session answers to it is i again.  What processing does inside a worker *)
(* is one step (Handle): it hands reader::_buf to the session and appends  *)
(* output to conn::_buffer, or neither produces output nor fails visibly   *)
(* (an exception of the session ends in task::unhandled_exception).        *)
(*                                                                         *)
(* libuv is external: it calls back only on the I/O thread, only while the *)
(* loop runs, delivers what a socket has while it reads from it, completes *)
(* a write request with success or error, and calls the close callback     *)
(* once the loop gets round to it.                                         *)
(***************************************************************************)
EXTENDS Scheduler

CONSTANTS
  MaxReads,  \* bound: chunks that arrive on one connection
  MayStop    \* TRUE: run() was given a stop token that can be stopped

ASSUME ServerAssumption == MaxReads \in Nat /\ MayStop \in BOOLEAN

VARIABLES
  coro,      \* coro[c]: what the coroutine of connection c awaits
  reading,   \* streams between uv_read_start and uv_read_stop
  writing,   \* streams with a uv_write_t in flight
  handle,    \* handle[c]: the uv_tcp_t of connection c
  received,  \* received[c]: number of chunks read; the last one is in reader::_buf
  parsed,    \* parsed[c]: chunks handed to the HTTP/2 session, in order
  out,       \* out[c]: everything the session has produced (history)
  buffer,    \* buffer[c]: conn::_buffer
  wire,      \* wire[c]: what libuv has sent
  broken,    \* sockets on which a write has failed
  loop       \* the uv loop

connVars == <<coro, reading, writing, handle, received, parsed, out, buffer, wire, broken>>
schedVars == vars
serverVars == <<vars, connVars, loop>>

Chunks == Seq(1..MaxReads)

ServerTypeOK ==
  /\ TypeOK
  /\ coro \in [Conns -> {"none", "read", "task", "write", "done"}]
  /\ reading \in SUBSET Conns /\ writing \in SUBSET Conns /\ broken \in SUBSET Conns
  /\ handle \in [Conns -> {"none", "open", "closing", "closed"}]
  /\ received \in [Conns -> 0..MaxReads]
  /\ parsed \in [Conns -> Chunks] /\ out \in [Conns -> Chunks]
  /\ buffer \in [Conns -> Chunks] /\ wire \in [Conns -> Chunks]
  /\ loop \in {"run", "stopping", "stopped", "walked", "closed", "aborted"}

ServerInit ==
  /\ Init
  /\ coro = [c \in Conns |-> "none"]
  /\ reading = {} /\ writing = {} /\ broken = {}
  /\ handle = [c \in Conns |-> "none"]
  /\ received = [c \in Conns |-> 0]
  /\ parsed = [c \in Conns |-> <<>>] /\ out = [c \in Conns |-> <<>>]
  /\ buffer = [c \in Conns |-> <<>>] /\ wire = [c \in Conns |-> <<>>]
  /\ loop = "run"

\* uv_run dispatches callbacks; after uv_stop it still ends its iteration.
Polling == loop \in {"run", "stopping"} /\ io = "loop"
-----------------------------------------------------------------------------
(* The connection coroutine, on the I/O thread.                            *)

\* co_await reader: uv_read_start succeeds on an open handle, c suspends.
AwaitReader(c) ==
  /\ coro' = [coro EXCEPT ![c] = "read"]
  /\ reading' = reading \cup {c}

\* The coroutine ends: its reader stops reading and the last owner of the handle
\* lets the deleter call uv_close.
EndCoroutine(c) ==
  /\ coro' = [coro EXCEPT ![c] = "done"]
  /\ reading' = reading \ {c}
  /\ handle' = [handle EXCEPT ![c] = "closing"]

\* The writer's constructor starts a write from _buffer, and c suspends.  Reading
\* has been stopped since the chunk was read (await_resume).
StartWrite(c) ==
  /\ coro' = [coro EXCEPT ![c] = "write"]
  /\ reading' = reading \ {c}
  /\ writing' = writing \cup {c}

\* conn_cb starts the coroutine: the connection is accepted and it awaits the
\* reader, or uv_accept fails and the exception ends it, closing the handle.
AcceptConn(c) ==
  /\ loop = "run" /\ io = "loop" /\ coro[c] = "none"
  /\ \/ AwaitReader(c) /\ handle' = [handle EXCEPT ![c] = "open"]
     \/ EndCoroutine(c)
  /\ UNCHANGED <<schedVars, writing, received, parsed, out, buffer, wire, broken, loop>>

\* Mutant of Flush: flush() starts the write and is not awaited.
FlushNotAwaited(c, bytes) ==
  /\ AwaitReader(c)
  /\ writing' = IF bytes = <<>> THEN writing ELSE writing \cup {c}

\* co_await c.flush() with _buffer = bytes, and the coroutine up to its next
\* suspension: nothing to write and the reader is awaited; or a write is in
\* flight; or uv_write fails at once, flush() swallows the exception with
\* _buffer as it was, and the reader is awaited.
Flush(c, bytes) ==
  \/ bytes # <<>> /\ StartWrite(c)
  \/ AwaitReader(c) /\ UNCHANGED writing

\* Mutant of ReadData: await_resume() does not call uv_read_stop.
ReadDataNoStop(c) ==
  /\ Polling /\ c \in reading /\ received[c] < MaxReads /\ Threads # {}
  /\ received' = [received EXCEPT ![c] = @ + 1]
  /\ IF coro[c] = "read"
     THEN Run(c) /\ coro' = [coro EXCEPT ![c] = "task"]
     ELSE UNCHANGED <<schedVars, coro>>
  /\ UNCHANGED <<reading, writing, handle, parsed, out, buffer, wire, broken, loop>>

\* read_cb with data: the chunk is in _buf, over the one before it.  If the
\* coroutine awaits the reader it stops reading and awaits a task for the chunk.
ReadData(c) ==
  /\ Polling /\ c \in reading /\ received[c] < MaxReads /\ Threads # {}
  /\ received' = [received EXCEPT ![c] = @ + 1]
  /\ IF coro[c] = "read"
     THEN Run(c) /\ coro' = [coro EXCEPT ![c] = "task"] /\ reading' = reading \ {c}
     ELSE UNCHANGED <<schedVars, coro, reading>>
  /\ UNCHANGED <<writing, handle, parsed, out, buffer, wire, broken, loop>>

\* What c.read(bytes) and the c.write(resp) calls leave behind: the chunk in
\* _buf has been parsed, and answered or not.
Process(c, chunk) ==
  /\ parsed' = [parsed EXCEPT ![c] = Append(@, chunk)]
  /\ \/ /\ out' = [out EXCEPT ![c] = Append(@, chunk)]
        /\ buffer' = [buffer EXCEPT ![c] = Append(@, chunk)]
     \/ UNCHANGED <<out, buffer>>

\* Mutant of ReadInline: await_resume() does not call uv_read_stop.
ReadInlineNoStop(c) ==
  /\ Polling /\ c \in reading /\ received[c] < MaxReads /\ Threads = {}
  /\ received' = [received EXCEPT ![c] = @ + 1]
  /\ IF coro[c] = "read"
     THEN /\ Process(c, received'[c])
          /\ \/ buffer'[c] # <<>> /\ coro' = [coro EXCEPT ![c] = "write"] /\ writing' = writing \cup {c}
             \/ UNCHANGED <<coro, writing>>
     ELSE UNCHANGED <<coro, writing, parsed, out, buffer>>
  /\ UNCHANGED <<schedVars, reading, handle, wire, broken, loop>>

\* read_cb with data in a server without workers (n = 0): the chunk is in _buf.  If
\* the coroutine awaits the reader it stops reading; enqueue() refuses, so the task
\* runs at once on the I/O thread, and the flush follows.
ReadInline(c) ==
  /\ Polling /\ c \in reading /\ received[c] < MaxReads /\ Threads = {}
  /\ received' = [received EXCEPT ![c] = @ + 1]
  /\ IF coro[c] = "read"
     THEN Process(c, received'[c]) /\ Flush(c, buffer'[c])
     ELSE UNCHANGED <<coro, reading, writing, parsed, out, buffer>>
  /\ UNCHANGED <<schedVars, handle, wire, broken, loop>>

\* Mutant of ReadEnd: the coroutine ends and nobody closes its handle.
ReadEndLeak(c) ==
  /\ Polling /\ c \in reading /\ coro[c] = "read"
  /\ coro' = [coro EXCEPT ![c] = "done"]
  /\ reading' = reading \ {c}
  /\ UNCHANGED <<schedVars, writing, handle, received, parsed, out, buffer, wire, broken, loop>>

\* read_cb with end of file or an error: the while loop ends, or the exception
\* ends the coroutine.  The reader stops reading, the deleter calls uv_close.
ReadEnd(c) ==
  /\ Polling /\ c \in reading /\ coro[c] = "read"
  /\ EndCoroutine(c)
  /\ UNCHANGED <<schedVars, writing, received, parsed, out, buffer, wire, broken, loop>>

\* join() resumes the coroutine whose task is complete, and it flushes.
ResumeConn ==
  /\ JoinPop
  /\ Flush(Head(joiners), buffer[Head(joiners)])
  /\ UNCHANGED <<handle, received, parsed, out, buffer, wire, broken, loop>>

\* Mutant of WriteDone: flush() does not clear the buffer.
WriteDoneKeep(c) ==
  /\ Polling /\ c \in writing /\ coro[c] = "write" /\ c \notin broken
  /\ wire' = [wire EXCEPT ![c] = @ \o buffer[c]]
  /\ writing' = writing \ {c}
  /\ AwaitReader(c)
  /\ UNCHANGED <<schedVars, handle, received, parsed, out, buffer, broken, loop>>

\* write_cb with status 0: flush() clears the buffer, the reader is awaited.
WriteDone(c) ==
  /\ Polling /\ c \in writing /\ coro[c] = "write" /\ c \notin broken
  /\ wire' = [wire EXCEPT ![c] = @ \o buffer[c]]
  /\ buffer' = [buffer EXCEPT ![c] = <<>>]
  /\ writing' = writing \ {c}
  /\ AwaitReader(c)
  /\ UNCHANGED <<schedVars, handle, received, parsed, out, broken, loop>>

\* write_cb with an error: some of the bytes may have left.  await_resume()
\* throws past the clear(), flush() swallows it, and the reader is awaited.
WriteFailed(c) ==
  /\ Polling /\ c \in writing /\ coro[c] = "write"
  /\ \/ /\ c \notin broken
        /\ \E k \in 0..(Len(buffer[c]) - 1) :
             wire' = [wire EXCEPT ![c] = @ \o SubSeq(buffer[c], 1, k)]
     \/ c \in broken /\ UNCHANGED wire
  /\ broken' = broken \cup {c}
  /\ writing' = writing \ {c}
  /\ AwaitReader(c)
  /\ UNCHANGED <<schedVars, handle, received, parsed, out, buffer, loop>>
-----------------------------------------------------------------------------
(* Worker threads: the steps of Scheduler; Exec is where fn runs.          *)

Handle(w) ==
  /\ Exec(w)
  /\ Process(cur[w], received[cur[w]])
  /\ UNCHANGED <<coro, reading, writing, handle, received, wire, broken, loop>>

WorkerStep(w) ==
  \/ Handle(w)
  \/ (Take(w) \/ Complete(w) \/ Send(w) \/ Exit(w)) /\ UNCHANGED <<connVars, loop>>
-----------------------------------------------------------------------------
(* Shutdown.                                                               *)

\* The timer finds the stop token stopped: it closes itself and the listener and
\* calls uv_stop.
StopTimer ==
  /\ MayStop /\ loop = "run" /\ io = "loop"
  /\ loop' = "stopping"
  /\ UNCHANGED <<schedVars, connVars>>

\* The iteration is over and uv_run, then run(), return.
RunReturns ==
  /\ loop = "stopping" /\ io = "loop"
  /\ loop' = "stopped"
  /\ UNCHANGED <<schedVars, connVars>>

\* ~server(): _scheduler is destroyed first.  With n = 0 it may call uv_close on a
\* handle that was never initialised, on which libuv may abort ...
DestroyScheduler ==
  /\ loop = "stopped"
  /\ \/ (Stop \/ Destroy) /\ UNCHANGED loop
     \/ Destroy /\ async' = "garbage closed" /\ loop' = "aborted"
  /\ UNCHANGED connVars

\* Mutant of LoopWalk: ~loop() leaves open handles alone.
LoopWalkNothing ==
  /\ loop = "stopped" /\ life = "destroyed"
  /\ loop' = "walked"
  /\ UNCHANGED <<schedVars, connVars>>

\* ... then _loop: every handle that is not closing is closed.  uv_close also
\* stops reading.
LoopWalk ==
  /\ loop = "stopped" /\ life = "destroyed"
  /\ loop' = "walked"
  /\ handle' = [c \in Conns |-> IF handle[c] = "open" THEN "closing" ELSE handle[c]]
  /\ reading' = {}
  /\ UNCHANGED <<schedVars, coro, writing, received, parsed, out, buffer, wire, broken>>

\* libuv finishes closing a handle.  A write that is still in flight is
\* completed or cancelled first; its coroutine goes on to uv_read_start, which
\* refuses a closing handle, so the coroutine ends and its deleter calls uv_close
\* on that handle a second time: libuv aborts.
CloseCb(c) ==
  /\ loop \in {"run", "stopping", "walked"} /\ io = "loop"
  /\ handle[c] = "closing"
  /\ handle' = [handle EXCEPT ![c] = "closed"]
  /\ \/ /\ c \notin writing
        /\ UNCHANGED <<coro, writing, loop>>
     \/ /\ c \in writing
        /\ coro' = [coro EXCEPT ![c] = "done"]
        /\ writing' = writing \ {c}
        /\ loop' = "aborted"
  /\ UNCHANGED <<schedVars, reading, received, parsed, out, buffer, wire, broken>>

\* uv_loop_close succeeds: no handle is left.
LoopClosed ==
  /\ loop = "walked"
  /\ \A c \in Conns : handle[c] \in {"none", "closed"}
  /\ loop' = "closed"
  /\ UNCHANGED <<schedVars, connVars>>
-----------------------------------------------------------------------------
ConnNext(c) ==
  \/ AcceptConn(c) \/ ReadData(c) \/ ReadInline(c) \/ ReadEnd(c)
  \/ WriteDone(c) \/ WriteFailed(c) \/ CloseCb(c)

JoinNext ==
  \/ ResumeConn
  \/ loop \in {"run", "stopping"} /\ (JoinBegin \/ JoinEnd) /\ UNCHANGED <<connVars, loop>>

ShutdownNext == StopTimer \/ RunReturns \/ DestroyScheduler \/ LoopWalk \/ LoopClosed

ServerNext ==
  \/ \E c \in Conns : ConnNext(c)
  \/ JoinNext
  \/ \E w \in Workers : WorkerStep(w)
  \/ ShutdownNext

ServerSpec == ServerInit /\ [][ServerNext]_serverVars

(***************************************************************************)
(* The loop runs (callbacks that are due are called, until it is stopped), *)
(* workers are scheduled and handlers return, and the thread that called   *)
(* run() goes on to destroy the server.  Clients need not send, read or    *)
(* close: no fairness for the read and write callbacks.                    *)
(***************************************************************************)
ServerFairness ==
  /\ WF_serverVars(JoinNext)
  /\ \A w \in Workers : WF_serverVars(WorkerStep(w))
  /\ \A c \in Conns : WF_serverVars(CloseCb(c))
  /\ WF_serverVars(RunReturns) /\ WF_serverVars(DestroyScheduler)
  /\ WF_serverVars(LoopWalk) /\ WF_serverVars(LoopClosed)

ServerFairSpec == ServerSpec /\ ServerFairness
-----------------------------------------------------------------------------
(* Properties.                                                             *)

\* While the server runs, every connection has one owner: libuv reading into
\* _buf, libuv writing from _buffer, or a task that may use both on a worker
\* thread.  That is why conn, session and the two buffers have no lock.
OneOwner ==
  loop # "aborted" => \A c \in Conns :
    /\ c \in reading => coro[c] = "read"
    /\ c \in writing <=> coro[c] = "write"
    /\ task[c] # "none" <=> coro[c] = "task"
    /\ coro[c] \in {"task", "write"} /\ loop # "walked" /\ loop # "closed" => handle[c] = "open"

\* The session sees every chunk exactly once, in the order of arrival: _buf is
\* not overwritten before a worker has parsed it, and no read callback comes while
\* the coroutine awaits a task or a write, when resume() would drop the chunk.
\* Only uv_read_stop in await_resume prevents both.
ParsedInOrder ==
  \A c \in Conns :
    /\ parsed[c] = [i \in 1..Len(parsed[c]) |-> i]
    /\ received[c] = Len(parsed[c]) + (IF task[c] \in {"queued", "running"} THEN 1 ELSE 0)

\* Nothing the session produced is lost, repeated or reordered on a connection
\* whose writes succeed; on one where a write failed the client has a prefix.
OutputConserved ==
  \A c \in Conns :
    IF c \in broken
    THEN \E k \in 0..Len(out[c]) : wire[c] = SubSeq(out[c], 1, k)
    ELSE wire[c] \o buffer[c] = out[c]

\* While libuv writes from _buffer, nobody modifies it: uv_write does not copy.
WriteBufferStable ==
  [][\A c \in Conns : c \in writing /\ c \in writing' => buffer'[c] = buffer[c]]_serverVars

\* A chunk that was read is processed and its coroutine gets on, whatever the
\* other connections do, as long as the server is not stopped.
TaskPhaseEnds == \A c \in Conns : coro[c] = "task" ~> (coro[c] # "task" \/ loop # "run")

\* A coroutine that has ended leaves no handle behind.
ConnReleased == \A c \in Conns : coro[c] = "done" ~> (handle[c] = "closed" \/ loop = "aborted")

\* Once the stop token is stopped the server comes down: run() returns, every
\* worker is joined and the loop closes, whatever each connection was doing
\* (or libuv has aborted, see ClosesOnce and ClosesInitialisedHandle).
ShutdownEnds == loop = "stopping" ~> loop \in {"closed", "aborted"}

\* In a server with worker threads no handle is closed twice, so libuv never aborts.
\* (With n = 0 it may also abort over the scheduler's own handle, see
\* ClosesInitialisedHandle.)
ClosesOnce == loop = "aborted" => Threads = {}
=============================================================================
