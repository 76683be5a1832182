# TLA+ specifications of grpcxx

grpcxx is a gRPC server library for C++20. It reads bytes from TCP connections (with libuv, or with
asio), lets nghttp2 turn them into HTTP/2 frames, assembles requests from the frames, calls the
application's handlers and sends their responses back. This directory holds TLA+ models of the
parts of the library in which something can go wrong that a test would hardly reach, TLC
configurations that check them on small instances, and TLAPS proofs of the results that matter most
for instances of any size. `PROJECT.json` relates every definition to the lines it models.

## 1. Inventory of the system

| Component | State | Operations | Talks to |
|---|---|---|---|
| uv scheduler, `uv/scheduler.*`, `uv/task.h` | `_shifters`, `_joiners` (each with a mutex), `_stop`, worker threads, `uv_async_t`; the frame of every task | `run`, `enqueue`, `join`, `loop`, destructor; final suspension of a task | connection coroutines await it; wakes the loop with `uv_async_send` |
| uv server, `uv/server.*`, `uv/coroutine.h` | listener, timer, stop token, loop, scheduler | `conn` (a coroutine per connection), `conn_cb`, `run`, destructor | loop callbacks, scheduler, connections |
| uv reader, writer, loop, `uv/reader.*`, `uv/writer.*`, `uv/loop.*` | `_buf`, waiting coroutine handle; write request; loop with its handles | `await_*`, `read_cb`, `write_cb`, walk and close | libuv |
| uv connection, `uv/conn.*` | `_buffer` (output), `_handle`, `_session`, `_streams` (requests being assembled) | `read`, `write`, `buffer`, `flush` | session, reader, writer |
| HTTP/2 session, `h2/*` | `_events`, `_data` (body of the response being sent), nghttp2 session | nghttp2 callbacks, `read`, `pending`, `headers`, `data`, `trailers` | nghttp2 |
| message, `message.*` | `_prefix`, `_length`, `_data` | `bytes`, `parse`, `data`, encoding of a response | request, response |
| request, `request.*` | flags, service, method, metadata, message | `header`, `read`, `operator bool` | connection, dispatch |
| dispatch, `server_base.*`, `service.h`, `rpc.h`, `context.*`, `status.h`, `response.h` | tables of services and handlers | `add`, `process`, `call`, `map` | request, response, application |
| asio server, `asio/*` | socket, `_eos`, session, streams | `conn`, `reqs`, `read`, `write` | asio, session |
| protoc-gen-grpcxx | none | `Generate` (text) | protoc |
| compile-time helpers, `fixed_string.h`, `server.h` | none | none at run time | - |

**Interaction (uv).** One I/O thread runs the loop. `conn_cb` starts a coroutine per connection,
which loops: await the reader; await `_scheduler.run(fn)`, where `fn` gives the bytes to the session,
processes the requests that are complete and writes responses to `_buffer`; await `flush()`. The
await of `run` puts the task on `_shifters`; a worker takes it, runs `fn`, and at the task's final
suspension point puts the coroutine on `_joiners` and signals the async handle; the loop resumes the
coroutine on the I/O thread. With `n = 0` there are no workers and `fn` runs inside the read callback.

**What is hard, and what makes each part correct.**

* Scheduler: two queues between threads, merged wake-ups, an unlocked `empty()`, an unlocked `_stop`,
  a completion function inside the frame that the resumed coroutine destroys. Correct when a task
  runs exactly once, on one worker, its coroutine is resumed exactly once after it, no wake-up is
  lost, and the destructor returns.
* Connections: there is no lock on connection, session, input buffer and output buffer; they are
  handed to and fro between libuv, the coroutine and a worker. Correct when there is one owner at a
  time, each chunk is parsed once and in order, output is conserved, ended connections release their
  handle, and a stopped server comes down.
* HTTP/2 session: events of interleaved streams, events left over from earlier reads, cancelled calls,
  flow control, one `_data` for all streams, headers passed by reference. Correct when each request
  is exactly what the client sent on its stream, every finished call is answered, responses do not
  mix, and no request or header outlives its stream or response.
* Message: nghttp2 cuts the byte stream anywhere; length bytes are `char`. Correct when a well-formed
  message reaches the handler unchanged however it was cut, and a malformed one is recognised.
* Request and dispatch: header fields come in any order and again as trailers, paths have edge cases, and parsing,
  calling and serialising may each fail inside a noexcept function. Correct when the handler the client asked
  for, and no other, is called, a well-formed message reaches it whole, and the status tells what happened.
* asio connection: the same session, but every failure ends the coroutine. Correct when nothing of a failed
  read is processed and, while the connection lives, the same holds as for uv.
* Generator: string positions. Correct when namespaces nest and type names mean the same types as in the file.

The complete list of hazards, each at its line and with the properties that cover it, is in
`PROJECT.json`.

## 2. Modules

| Module | What it is |
|---|---|
| `TaskExecutor` | Abstract: what `co_await _scheduler.run(fn)` promises. `idle -> submitted -> executed -> idle` per coroutine |
| `Scheduler` | The scheduler with its threads, queues and wake-ups. Implements `TaskExecutor` (`jobs` is the refinement mapping) |
| `UvServer` | EXTENDS `Scheduler`: connections, reader, writer, flush, stop token, destruction. A step of the server is a step of the scheduler or leaves it alone |
| `Calls` | Abstract: the life of a call on a connection. `open -> complete -> processed`, or `open -> dropped` |
| `H2Conn` | One connection's session, with the uv or the asio back end: what `UvServer` takes as the single step `Process`. Implements `Calls` |
| `Message` | One stream's message: what `H2Conn` takes as the content of a request |
| `Dispatch` | EXTENDS `Message`: one call from its header fields and chunks to its response; what `H2Conn` takes as `Write(n)` |
| `Generator` | `Grpcxx::Generate` as a sequence of declarations |
| `Recursion` | Lemmas that the proofs use in place of induction: least and greatest numbers of a set, the existence of recursive functions |
| `SchedulerProofs`, `UvServerProofs`, `H2ConnProofs`, `MessageProofs`, `DispatchProofs`, `GeneratorProofs` | The theorems about these modules, with their proofs; `DispatchProofs` EXTENDS `MessageProofs` |
| `MCScheduler`, `MCUvServer`, `MCH2Conn`, `MCMessage`, `MCDispatch`, `MCGenerator` | Instances for TLC: message lengths, paths, services, files |

Operators commented "Mutant of X" are wrong versions of X. No specification uses one. Each stands for a
plausible mistake in the code, and putting it in the place of X violates the property it is
listed with in `PROJECT.json`, which shows that the property depends on the code.

### Scheduler

`task[c]` is the suspension point of the task awaited by connection `c`; `shifters`, `joiners`, `io`
and `life` follow the members and threads; `pc[w]` and `cur[w]` are a worker's place in `loop()` and
its handle. `Init` builds the server with a pool of `Workers` or with `n = 0` (then every `pc[w]` is `"none"`,
`Threads` is empty and the async handle is never initialised). A step is what one thread does under one mutex or between two. The condition variable does not
appear: it times out after 100 microseconds, so a worker looks at the queue again with or without a
notification. `signal` is 0 or 1 because libuv merges signals. The completion function first pushes
the coroutine (`Complete`) and then signals (`Send`); in between the I/O thread, busy in `join()`, may
resume the coroutine, which destroys the frame the completion function lives in. `Send` then reads freed
memory; the model lets the signal be lost in that case. A crash instead is possible in the code and
outside the model.

### UvServer

`coro[c]` says what the coroutine awaits. A chunk is its number, and so is the output it causes, so
order and loss are visible. `reading`, `writing` and `handle` are libuv's view. A write fails with a
prefix sent, and a socket on which a write has failed (`broken`) sends nothing more: that is how TCP
errors behave. `Process` is the task's function on a chunk, answered or not. Shutdown follows
`server::run`, `~server`, `~scheduler` and `~loop`: the timer sees the stop token, `uv_run` returns, workers
are joined, every handle is closed, and the loop runs until all are. A second `uv_close` of one
handle is an assertion failure in libuv; the model goes to `"aborted"`. A read callback with zero bytes
changes nothing and is not a step. `bind`, `open` and `listen` throw before the loop runs
and are left out. With a pool a chunk starts a task (`ReadData`); with `n = 0` the task runs
inside the read callback (`ReadInline`). In both, the branch for a coroutine that does not await the reader is the
code's `if (_h)`: the chunk would be dropped. `OneOwner` and `ParsedInOrder` show that it is never taken. With `n = 0` the destructor may
close the scheduler's handle, which is garbage, and libuv may then abort (`DestroyScheduler`).

### H2Conn

Phases are the parts of the task's function. In phase `recv` nghttp2 parses frames, one step each, and
the session's callbacks append to `events`; a chunk may hold any number of frames of any streams.
The event loop of `conn::read`, every call of `pending()` and the two halves of `conn::write` are steps.
nghttp2 is external and modelled by what the code relies on: stream states; a stream error queues
RST_STREAM and mutes the stream; a connection error makes the session ignore input and send nothing;
queued frames go before DATA; DATA respects both windows; trailers end the stream, and a stream that
closes drops its DATA item. `wire[s]` is what the client gets on stream `s`, `count[s]` what it sent. A failed
`nghttp2_session_mem_recv2` leaves events behind, whose payloads (views of the reader's buffer) become `Stale`: the number of
the frame, negated, since the bytes are others by then but still stand for that frame.

`backend` is chosen once. `uv/conn.cpp` and `asio/conn.cpp` have the same event loop and the same calls on the session
(`PROJECT.json` maps some definitions to the one and some to the other file), so they share the actions; what differs:
a failed read leaves a uv connection running and ends an asio connection; an exception out of `conn::write` terminates the
process in uv (`"terminated"`), while in asio, where `write` is a coroutine, it ends the connection (`"thrown"`).
`WriteFails` is a failure while the frames of a response are taken from the session and sent: `session::pending` throws when nghttp2
reports an error, in either back end, and in asio each write to the socket may fail. The consequence is the same as above.
`MayMisbehave` says whether the client may send malformed frames and violate the protocol.

`ImplementsCalls` maps a stream to `complete` from the arrival of its last frame until `process()` gets the request
(its end is in `_events`, among the events being handled, or in the list of requests), then to `processed`.

### Message

The four length bytes have `Base` values each. `Encode` is the client's side and the response's;
`Decode` is `parse()` with its integer promotions: where `char` is signed a byte with its top bit set covers
all higher bytes with ones, except the last byte, which is masked. `Bytes` is `message::bytes` with its
early throw, the prefix rule, the reservation that may throw for huge lengths, and the append. `AllocAssumption` says that
memory suffices for the lengths that clients really announce, not for what `parse()` may make of them. `Misread` says that the code
takes a wrong length or a wrong beginning for the message: a prefix in two chunks, or a sign-extended length. The flag for
compression (`_compressed`) is stored by the code and never used, and is not in the model.

### Dispatch

The services are added first (`Add`), then header fields (`RecvHeader`), chunks (`RecvData`) and trailers (again
`RecvHeader`) arrive, the stream ends (`RecvEnd`) and `Process` answers. The `invalid` flag is the one of `Message`.
A path is a sequence of `Tokens`, names and slashes, cut as `find('/', 1)` cuts it; tests of a prefix are memberships. nghttp2 is
external: `:method` and `:path` once each and before all others, data and the end of the stream only after both, `:path` not empty (the code's `value.front()` relies on it).
Protobuf and handlers are external: parsing may fail; a handler returns a status with or without a response, throws a
`std::exception` or something else; serialising may fail. `Refuse` gives a response without any message,
`CallUnknown` one with an empty message: that is the difference between `process` and `service::call` in the code.

### Generator

Positions are those of `std::string`, from 0, with `substr` clipped at the end. The three loops are recursive functions
of the position that the loop carries. A file is generated in steps: namespaces opened, one step per service, closed. `Scopes` reads the output as the C++ compiler does, as a
stack of namespaces; `NamespacesNested` says that around a service and its RPCs the stack, joined by dots, is the name that the
service is registered with (the string in `grpcxx::service<"...">`), one namespace for each part, and that each closing comment names the namespace that is closed.
`Denotes` is C++ name lookup: the first part of a name is looked for in the innermost namespace around the RPC, then in the next one, up to the
global one. A type that an RPC names is mapped correctly when the name written denotes the type of the file; `OwnType` tells the types of the
file's own package, for which it always does.

## 3. Runs

| Run | Instance | Shows |
|---|---|---|
| `scheduler` | 3 connections, 2 workers or `n = 0`, fair | `ExclusiveRun`, `NoLostWakeup`, `QueuesHoldLiveTasks`, `NoTaskLost`; refinement of `TaskExecutor`; every task is joined; the destructor returns |
| `scheduler_zero` | no workers | violation: the destructor inspects and may close an async handle never initialised |
| `server` | 2 connections, 2 workers or `n = 0`, 2 chunks each, fair | `OneOwner`, `ParsedInOrder`, `OutputConserved`, `WriteBufferStable`; tasks end, ended connections are released, shutdown completes |
| `server_stop` | 1 connection, 1 worker | violation: stopping while a response is being written closes a handle twice |
| `h2_safety` | both back ends, a client that may misbehave, 3 streams, 2 at a time, 3 frames in all, windows of 1, bodies up to 2 | `RequestExact`, `EndedAnswered`, `ResponseOwn`, `SentWhatFits`, `HeadersSerialised`, `StreamsTracked`, `StreamsBounded`; refinement of `Calls` |
| `h2_cancel` | 1 stream, a client whose frames are well-formed | violation: a call that the client cancels (RST_STREAM) in the chunk that ends it makes the noexcept `conn::write` throw, in either back end |
| `message` | lengths 0 to 9, `Base = 4`, both kinds of `char` | `NoCorruption`: what `data()` yields for every cut, exact, short and long streams; `DeliveredPlain`, for every cut outside the prefix |
| `dispatch` | 8 paths, up to 4 header fields, 2 services of one name, messages of 2 bytes, one byte more or less | `RoutedAsSent`, `MetadataFirst`, `SurplusRefused`, `ReachesHandler`, `StatusTells` |
| `generator` | packages and types of up to 3 parts of 1 or 2 characters | `NamespacesNested`, `OwnTypesMapped` |
| `generator_types` | packages of one part | violation: a type of another package whose name begins like this file's package is mapped to a name that does not denote it |
| `message_split`, `message_sign` | the same, one question each | violations: a split prefix, a sign-extended length |

**Bounds.** Three connections on two workers are the least for a queue that is contended at both ends, with a
completion and a wake-up in progress while a third task waits. Two chunks per connection let a second
read, task and write meet what the first left behind. Two open streams suffice for mixing of events and of
responses, and a third meets the concurrency limit and what closed streams left behind; windows of one byte against
bodies of up to two give responses that are empty, fit exactly and do not fit; `MaxFrames = 3` gives headers, data
and request trailers on one stream beside another stream. With `Base = 4` a length byte has the carries
and the sign bit of a real one at lengths TLC can enumerate; `MaxExtra = 2` sends messages up to two bytes short
or long, which includes a cut inside the prefix for short lengths, and `Alloc = 64` separates lengths for which
`reserve` succeeds from sign-extended ones for which it may throw.
In `dispatch`, four header fields are `:method`, `:path` and two more, enough for two values of one name, before or after the data, and
for a bad field at any place; the eight paths are a known, an unknown service and method, a wrong first character, no second slash, an
empty service, an empty method and a slash within the method; two services of one name, one of them with a method more, tell which one was found. `Base = 2` makes
2 a length whose third byte has its top bit set. In `generator`, parts `a` and `ab` make packages that end within a part of a type,
and types of other packages that the namespaces of a nested package capture. `generator_types` has packages of one part only, so that its trace is
about the test of the prefix and nothing else.
Deadlock checking is off because each system really stops (destroyed, closed, aborted, processed).

**Fairness.** Weak fairness for: the loop's callbacks that are due (`JoinBegin`, `JoinPop`, `JoinEnd`, `CloseCb`),
because `uv_run` dispatches them; every worker step, because the operating system schedules threads, the wait
has a timeout, and handlers are assumed to return; and the destruction, once the thread that
called `run()` has come to it. None for clients: nothing forces data to arrive, a write to complete, or
a stop to be requested.

## 4. Proofs

Every safety invariant, action property and refinement that the passing runs check is also a theorem.
The theorems hold for every value of the constants that satisfies the named assumptions:

| Module | Assumptions |
|---|---|
| `Scheduler`, `UvServer` | `NoTaskAssumption` (the null handle is not a connection), `ServerAssumption` (types of two parameters). Connections and workers may be infinitely many |
| `H2Conn` | `H2Assumption`: the bounds are natural numbers |
| `Message` | `MessageAssumption`: a byte has an even number of values, a length fits four bytes; `AllocAssumption`: memory suffices for the lengths that are announced |
| `Dispatch` | those of `Message`; `DispatchAssumption`: paths and names consist of tokens, no path is empty (nghttp2); `KeysAssumption`: custom metadata has names of its own |
| `Generator` | `FilesAssumption`: names consist of characters, a package does not begin with a dot, no type has the name of its package (protoc refuses both; the code would take `substr` behind the end, or `pos - 1` of position 0) |

**Scheduler.** The properties are not inductive: that a worker's handle is live depends on what the
queues hold, and that a wake-up is pending depends on who is in the completion function. `IInv` adds:
`QueuesExact` (a queue holds exactly the tasks in its state, each once), `HandsExact` and `HandsDistinct` (a busy
worker holds the one task in its state, and no two hold the same), `HeldWhileRunning` (a running
task is in some worker's hands) and `Announced` (a coroutine on `_joiners` has a signal pending, the I/O
thread in `join()`, or the worker that pushed it about to signal). The last one is why a signal
lost to a freed completion function is harmless: the frame is freed only by `join()`, which then
goes on until `_joiners` is empty. Initially true (`InitIInv`), kept by every action (`NextIInv`), hence invariant
(`SpecIInv`); from it `TypeCorrect`, `RunsExclusively`, `QueuesCorrect`, `TasksKept`, `WakeupsKept`. `SchedulerImplementsExecutor`:
each step maps to one step of `TaskExecutor` or to a stutter.

**Server.** `ServerUsesScheduler`: each server step is a scheduler step or leaves the scheduler alone, so
`IInv` holds in the server. On top of it `ConnInv` (who owns a connection, and how far shutdown
must have come for a handle to be closed) gives `ServerTypeCorrect` and `SingleOwner`; `DataInv` (chunks numbered in order,
output conserved) gives `ChunksInOrder`, `OutputKept` and, with single ownership, the action property `BufferStable`.

**HTTP/2 connection.** The invariant is built in four layers, each kept by every step given the ones below it.

1. `H2TypeOK` and `PhaseInv`: what each phase of the task's function says about `_events`, the requests and the frames that nghttp2 has
   queued. Gives `H2TypeCorrect` and `HeadersSafe`: outside `conn::write` nothing but RST_STREAM is queued.
2. `StreamInv(s)`, about the events that are not handled yet (`Todo`: `_events`, or the list in the hands of the event loop) and
   the request in `_streams`. For one stream, content comes before the end and the end before the close; the request and the
   pending content together are the frames that the client sent, numbered without a gap; a closed stream that has left anything
   behind has its close event pending. Gives `StreamsTrackedAlways`. This is what makes events left over from a failed read harmless
   except for their payloads.
3. `ReqsInv` (one request for a stream, exact, and its end handled) and `BodyInv` (an ended stream's end is pending, its
   request is on its way, or it has been answered). Gives `RequestsExact` and the refinement `ConnImplementsCalls`: a step finishes a call,
   drops it or processes it, or maps to a stutter.
4. `WireInv(s)` (what was sent on `s` is a beginning of its own response), `OwnerInv` (outside `conn::write` nghttp2 holds no DATA item;
   inside it only the one of the response being written, and `_data` is what is left of that response) and `ClosingInv` (a rejected stream
   has its reset queued; an answered stream is half-closed only while it is written). Gives `ResponsesOwn`, `AllSentThatFits` and `EndedCallsAnswered`.

`StreamsBoundedAlways` needs one more part, `BoundInv`. That `_streams` is within the limit now says nothing about the next event,
which may add an entry while the close that frees another is still pending. The invariant speaks about every prefix of the pending
events: after any number of them has been handled, the requests held are no more than the limit. A stream is opened only when nghttp2 counts
fewer live streams than the limit, and every request that would be held at the end of the pending events is one of a live stream (`HeldAreLive`).

**Message.** `CutInv` says that `_prefix` has the first `psize` bytes, `_data` the ones behind them, and `_length` is what `parse()` makes of the announced
length. The rest is arithmetic for every `Base`: `EncodeBytes` (the four bytes are digits of the length) and `DecodeValue` (what
`parse()` yields is never below the announced length, and equal to it where `char` is unsigned, since sign extension only
raises digits). So `data()`, which compares sizes, yields what `NoCorruption` says (`DataCharacterised`): the payload, nothing, or,
only for a stream that is longer than announced and misread as well, all that follows the bytes taken for the prefix. And a plainly sent message is never
refused (`PlainRead`) and is complete at its end (`PlainDelivered`).

**Dispatch.** `SplitPath` and `JoinPath` show that cutting at the first slash after the leading one is the inverse of writing "/service/method" for names
of services without slashes; the first slash exists because the natural numbers are well-founded (`LeastNat` of `Recursion`). `DispatchInv` adds to the types
and to `MessageInv`: `ServicesInv` (`_services` has the first service of every name), `HeaderInv` (a request that is still valid is
what all its header fields say, and one that is invalid has a bad field or a message that is not plainly sent), `MetadataInv` and `CallInv` (the
handler was called for the request as it is now: nothing changes a request after the end of its stream). That a message
that is too long, and not misread, reaches no handler rests on `SurplusDropped`. The invariant gives `CallsRouted`, `ContextExact`, `HandlerRefusesSurplus`, `HandlerReached` and `StatusHonest`.

**Generator.** The loops are recursive functions of string positions. A definition by recursion says something only if a function with
its equation exists: `RecursiveFunction` shows that one does when a rank falls in every round, by extending it from one rank to the
next and taking the least rank for which that would fail. What the loops compute then follows from their equations.

* `MapperColons`: `mapper` writes `::` for every dot and keeps everything else. With `RelativeName` (what `starts_with` and
  `substr` leave is the whole name, or the name behind the package and its dot) it gives `MappedType`. `RelativeDenotes`: inside the namespaces
  of the package, the name behind the package and its dot denotes the type.
* `PackageStack`: for every package there is one list of parts without dots, joined by dots it is the package, the first loop opens
  them in this order, and the last loop, which searches from the other end and counts differently, closes them in the
  opposite one. The argument is `Reached`: at the beginning of each part, what was opened so far is what closing from before the dot closes.
  The greatest position that is reached is the beginning of the last part.
* `ScopesLoop`, `ScopesPrefix`, `ScopesOpened`, `ServiceScopes`, `ScopesClosed`: how the stack of namespaces changes along the declarations.

`NamespacesNested` is not inductive, as it says nothing of the stack between services. `GeneratorInv` adds that the stack is exactly that of the
package before and after each service, and that RPCs and services are one namespace deeper. It gives `NamespacesCorrect`; that all
declarations are of the four kinds that `Generate` writes gives `OwnTypesCorrect`.

The strengthened invariants were checked with TLC on the instances of the runs before they were proved.

**Only model-checked.** Liveness (`EveryTaskJoined`, `DestructorReturns`, `TaskPhaseEnds`, `ConnReleased`, `ShutdownEnds`): fairness is out of the
prover's reach. Violations are traces found by TLC.

## 5. Disagreements between the code and what it says

1. `scheduler(loop, 0)`, a documented configuration, leaves `_async` uninitialised and the destructor reads it.
2. `~loop()` closes the handle of a connection whose write is in flight; the resumed coroutine closes it again.
3. A prefix that arrives in two chunks: `message::bytes` takes payload bytes for prefix bytes, and the handler gets an empty message;
   if the stream has as many surplus bytes as were taken, it gets the bytes that follow them.
4. Where `char` is signed, lengths with the top bit of the second or third length byte (from the left) set are misread, and the handler gets an empty message.
5. `conn::write` is declared noexcept and throws for a call that was cancelled in the chunk that ended it. In uv this ends the
   process, in asio the connection, with the requests of that read that were not yet answered. The run has a client that cancels; a
   malformed frame behind the end of the call, for which nghttp2 itself resets the stream, leads to the same.
6. The generator tests `starts_with(package)` without the dot: in a file of package `foo` the type `foobar.T` is written as `ar::T`, and
   `fooa` as the empty name. `changelog.md:113` says "Fix to map types correctly when generating RPC definitions", and the comment at
   `grpcxx.cpp:59` "Map proto types to c++ types".

Observations that contradict no document, or that no run states:

* Surplus bytes of a message make the request invalid only when they arrive in a chunk of their own, since the size test runs before
  the append; otherwise the handler gets an empty message or, if the prefix was also cut or the length misread, other bytes of the stream
  (`NoCorruption` says which). A truncated message is an empty one, too. `SurplusRefused` states what a handler can rely on.
* `docs/api.md` (the tip on metadata) lets one expect `content-type` among the metadata; `request::header` returns before it would be stored.
* A type of another package is written by its full name, without a leading `::`. In package `a.b` the type `b.T` of a package `b` becomes
  `b::T`, which C++ looks up in the namespace `a::b`. `TypesMapped` is false for it as well.
* In asio a failed accept ends the coroutine of `listen()` for good.

A response larger than the flow-control window is cut off, because trailers are submitted before
the rest of the data has been sent. No document promises otherwise; `SentWhatFits` states
that nothing else cuts a response, and `ResponseOwn` shows the other side of it: because trailers end
the stream at once, no DATA item survives its response, and sharing `_data` between streams is safe.

## 6. Not modelled

libuv, nghttp2, asio and protobuf are external. Examples and tests use the library. The compile-time helpers
have no state. Effects of memory errors other than the ones named above are outside the models.
`UvServer` does not include the termination of number 5. `asio::server::listen` and `run` (accept and spawn), `bind`, `open` and
`listen` of the uv server (start-up calls that throw before the loop runs) and `.experiments` are left out.

## 7. Plan

Done: all modules of section 2, their runs, and proofs of every safety property and refinement. What could follow: shorter proofs where steps repeat, mainly in
the layers 2 and 4 of `H2ConnProofs`.
