------------------------------- MODULE H2Conn -------------------------------
(***************************************************************************)
(* One HTTP/2 connection: h2::session on top of nghttp2, and the part of   *)
(* uv::conn or asio::conn that turns its events into requests and          *)
(* responses into frames.  The two have the same steps; they differ in     *)
(* what becomes of a failure, and asio writes every frame to the socket    *)
(* where uv appends it to a buffer.                                        *)
(*                                                                         *)
(* One thread at a time works on a connection (UvServer!OneOwner; asio     *)
(* runs one coroutine per connection on a strand), through these phases:   *)
(* nghttp2 parses the chunk and calls                                      *)
(* back ("recv"), conn::read handles the events ("events") and buffers     *)
(* output ("read"); then each request is answered by conn::write: headers  *)
(* and data ("process"), buffer ("data"), trailers ("trailers"), buffer    *)
(* ("sent").                                                               *)
(*                                                                         *)
(* A header block or the payload of a DATA frame is its number on its      *)
(* stream; a byte of a response is its position in it.                     *)
(*                                                                         *)
(* nghttp2 is external: stream states, flow control, refusal of malformed  *)
(* frames, and the order of sending (frames of the queue before DATA).     *)
(***************************************************************************)
EXTENDS Integers, Sequences, FiniteSets, Functions

CONSTANTS
  MaxStreams,     \* bound: streams that the client opens, in the order 1, 2, ...
  MaxConcurrent,  \* SETTINGS_MAX_CONCURRENT_STREAMS of the session
  MaxFrames,      \* bound: HEADERS and DATA frames that the client sends
  Window,         \* initial flow-control window of a stream and of the connection
  MaxWindow,      \* bound: windows after WINDOW_UPDATE
  MaxBody,        \* bound: bytes of a response
  MayMisbehave    \* TRUE: the client may send frames that nghttp2 rejects

ASSUME H2Assumption ==
  /\ MaxStreams \in Nat /\ MaxConcurrent \in Nat /\ MaxFrames \in Nat
  /\ Window \in Nat /\ MaxWindow \in Nat /\ MaxBody \in Nat
  /\ MayMisbehave \in BOOLEAN

VARIABLES
  backend,  \* "uv" or "asio"
  phase,    \* where the thread that works on the connection stands
  st,       \* st[s]: state of stream s in nghttp2
  goaway,   \* nghttp2 has given the session up after a connection error
  window,   \* window[s]: what may still be sent on stream s
  credit,   \* what may still be sent on the connection
  queue,    \* frames that nghttp2 has yet to send, DATA excepted
  items,    \* streams with a DATA item; all of them read from _data
  count,    \* count[s]: HEADERS and DATA frames received on s (history)
  events,   \* session::_events
  evs,      \* the events that conn::read still has to handle
  streams,  \* conn::_streams: streams[s] is what the request of stream s was given
  reqs,     \* requests of this read, the next one to answer first
  data,     \* session::_data
  body,     \* body[s]: size of the response to s, or NoBody (history)
  wire      \* wire[s]: response frames sent on s, DATA byte by byte

h2Vars == <<backend, phase, st, goaway, window, credit, queue, items, count,
            events, evs, streams, reqs, data, body, wire>>

Streams == 1..MaxStreams

NoRequest == <<0>>    \* no entry in _streams: frames are numbered from 1
NoBody == -1          \* no response yet

\* The payload of frame n whose bytes have been overwritten.
Stale(n) == IF n > 0 THEN -n ELSE n

Event(type, s, n) == [type |-> type, id |-> s, n |-> n]

Buffering == {"read", "data", "sent"}

H2Init ==
  /\ backend \in {"uv", "asio"}
  /\ phase = "idle"
  /\ st = [s \in Streams |-> "idle"]
  /\ goaway = FALSE
  /\ window = [s \in Streams |-> Window] /\ credit = Window
  /\ queue = <<>> /\ items = {}
  /\ count = [s \in Streams |-> 0]
  /\ events = <<>> /\ evs = <<>>
  /\ streams = [s \in Streams |-> NoRequest]
  /\ reqs = <<>>
  /\ data = <<>>
  /\ body = [s \in Streams |-> NoBody]
  /\ wire = [s \in Streams |-> <<>>]
-----------------------------------------------------------------------------
(* session::read: nghttp2 parses the chunk, frame by frame.                *)

connState == <<backend, evs, streams, reqs, data, body, wire>>

ReadBegin ==
  /\ phase = "idle"
  /\ phase' = "recv"
  /\ UNCHANGED <<st, goaway, window, credit, queue, items, count, events, connState>>

\* The read fails or the client has closed the connection: the coroutine ends.
ConnLost ==
  /\ phase = "idle"
  /\ phase' = "ended"
  /\ UNCHANGED <<st, goaway, window, credit, queue, items, count, events, connState>>

Live == {s \in Streams : st[s] \in {"open", "half", "closing"}}

MoreFrames == FoldFunction(LAMBDA x, y : x + y, 0, count) < MaxFrames

\* Mutant of MayOpen: the constructor does not submit the setting.
MayOpenAlways(s) == st[s] = "idle" /\ \A r \in 1..(s - 1) : st[r] # "idle"

\* Stream ids increase, and nghttp2 enforces the setting that the constructor
\* submitted.
MayOpen(s) ==
  /\ st[s] = "idle" /\ \A r \in 1..(s - 1) : st[r] # "idle"
  /\ Cardinality(Live) < MaxConcurrent

\* The callbacks of one frame on s: header_cb or data_recv_cb for its content,
\* frame_recv_cb, which reports END_STREAM.
Emit(s, type, end) ==
  events' = events \o <<Event(type, s, count[s] + 1)>> \o (IF end THEN <<Event("end", s, 0)>> ELSE <<>>)

\* HEADERS that open stream s, or the trailers of a request; DATA.
FrameRecv(s, type, end) ==
  /\ phase = "recv" /\ ~goaway /\ MoreFrames
  /\ \/ type = "header" /\ MayOpen(s)
     \/ type = "header" /\ st[s] = "open" /\ end
     \/ type = "data" /\ st[s] = "open"
  /\ st' = [st EXCEPT ![s] = IF end THEN "half" ELSE "open"]
  /\ count' = [count EXCEPT ![s] = @ + 1]
  /\ Emit(s, type, end)
  /\ UNCHANGED <<phase, goaway, window, credit, queue, items, connState>>

\* An empty DATA frame that ends the stream: there is no data_recv_cb.
FrameEnd(s) ==
  /\ phase = "recv" /\ ~goaway /\ st[s] = "open"
  /\ st' = [st EXCEPT ![s] = "half"]
  /\ events' = Append(events, Event("end", s, 0))
  /\ UNCHANGED <<phase, goaway, window, credit, queue, items, count, connState>>

\* A frame that nghttp2 rejects, after the callbacks for its content or without
\* them: it queues RST_STREAM and ignores what follows on s.
FrameMalformed(s) ==
  /\ phase = "recv" /\ ~goaway /\ MayMisbehave
  /\ st[s] \in {"open", "half"} \/ MayOpen(s)
  /\ \/ /\ st[s] # "half" /\ MoreFrames
        /\ count' = [count EXCEPT ![s] = @ + 1]
        /\ \E type \in (IF st[s] = "open" THEN {"header", "data"} ELSE {"header"}) :
             Emit(s, type, FALSE)
     \/ UNCHANGED <<count, events>>
  /\ st' = [st EXCEPT ![s] = "closing"]
  /\ queue' = Append(queue, Event("rst", s, 0))
  /\ UNCHANGED <<phase, goaway, window, credit, items, connState>>

\* More streams than the setting allows: the stream is refused without callbacks.
FrameRefused(s) ==
  /\ phase = "recv" /\ ~goaway
  /\ st[s] = "idle" /\ \A r \in 1..(s - 1) : st[r] # "idle"
  /\ Cardinality(Live) >= MaxConcurrent
  /\ st' = [st EXCEPT ![s] = "closed"]
  /\ UNCHANGED <<phase, goaway, window, credit, queue, items, count, events, connState>>

\* RST_STREAM from the client, who cancels the call: stream_close_cb.
FrameRst(s) ==
  /\ phase = "recv" /\ ~goaway /\ s \in Live
  /\ st' = [st EXCEPT ![s] = "closed"]
  /\ items' = items \ {s}
  /\ events' = Append(events, Event("close", s, 0))
  /\ UNCHANGED <<phase, goaway, window, credit, queue, count, connState>>

\* WINDOW_UPDATE of a stream or of the connection.
FrameWindow ==
  /\ phase = "recv" /\ ~goaway
  /\ \/ \E s \in Live : /\ window[s] < MaxWindow
                        /\ window' = [window EXCEPT ![s] = @ + 1]
                        /\ UNCHANGED credit
     \/ /\ credit < MaxWindow
        /\ credit' = credit + 1
        /\ UNCHANGED window
  /\ UNCHANGED <<phase, st, goaway, queue, items, count, events, connState>>

\* A connection error: nghttp2 queues GOAWAY, ignores all further input and
\* sends nothing else.
FrameFatal ==
  /\ phase = "recv" /\ ~goaway /\ MayMisbehave
  /\ goaway' = TRUE
  /\ UNCHANGED <<phase, st, window, credit, queue, items, count, events, connState>>

\* Mutant of ReadEnd: _events is not cleared.
ReadEndKeep ==
  /\ phase = "recv"
  /\ phase' = "events"
  /\ evs' = events
  /\ UNCHANGED <<st, goaway, window, credit, queue, items, count, events, backend, streams, reqs, data, body, wire>>

\* The chunk is parsed: session::read returns the events and clears _events.
ReadEnd ==
  /\ phase = "recv"
  /\ phase' = "events"
  /\ evs' = events /\ events' = <<>>
  /\ UNCHANGED <<backend, st, goaway, window, credit, queue, items, count, streams, reqs, data, body, wire>>

\* nghttp2_session_mem_recv2 fails and session::read throws.  asio gives the
\* connection up.  In uv the task swallows the exception and _events stays:
\* payloads in it are views of the reader's buffer, which the next chunk
\* overwrites; headers are copies.
ReadFails ==
  /\ phase = "recv"
  /\ \/ /\ backend = "asio"
        /\ phase' = "ended"
        /\ UNCHANGED events
     \/ /\ backend = "uv"
        /\ phase' = "idle"
        /\ events' = [i \in 1..Len(events) |->
                        IF events[i].type = "data" THEN [events[i] EXCEPT !.n = Stale(@)] ELSE events[i]]
  /\ UNCHANGED <<st, goaway, window, credit, queue, items, count, connState>>
-----------------------------------------------------------------------------
(* conn::read: the loop over the events, then buffer().                    *)

sessionState == <<backend, st, goaway, window, credit, queue, items, count, events, data, body, wire>>

\* The request that an event other than stream_close finds or creates.
Emplaced(s) == IF streams[s] = NoRequest THEN <<>> ELSE streams[s]

\* Mutant of HandleClose: stream_close is ignored.
HandleCloseIgnored(e) ==
  /\ e.type = "close"
  /\ UNCHANGED <<streams, reqs>>

\* stream_close: the request, if there is one, is dropped.
HandleClose(e) ==
  /\ e.type = "close"
  /\ streams' = [streams EXCEPT ![e.id] = NoRequest]
  /\ UNCHANGED reqs

\* stream_header and stream_data: the request gets the content.
HandleContent(e) ==
  /\ e.type \in {"header", "data"}
  /\ streams' = [streams EXCEPT ![e.id] = Append(Emplaced(e.id), e.n)]
  /\ UNCHANGED reqs

\* Mutant of HandleEnd: reqs is a list with room for one request.
HandleEndSingle(e) ==
  /\ e.type = "end"
  /\ reqs' = <<[id |-> e.id, content |-> Emplaced(e.id)]>>
  /\ streams' = [streams EXCEPT ![e.id] = NoRequest]

\* stream_end: the request moves to the front of the list.
HandleEnd(e) ==
  /\ e.type = "end"
  /\ reqs' = <<[id |-> e.id, content |-> Emplaced(e.id)]>> \o reqs
  /\ streams' = [streams EXCEPT ![e.id] = NoRequest]

HandleEvent ==
  /\ phase = "events" /\ evs # <<>>
  /\ HandleClose(Head(evs)) \/ HandleContent(Head(evs)) \/ HandleEnd(Head(evs))
  /\ evs' = Tail(evs)
  /\ UNCHANGED <<phase, sessionState>>

EventsEnd ==
  /\ phase = "events" /\ evs = <<>>
  /\ phase' = "read"
  /\ UNCHANGED <<sessionState, evs, streams, reqs>>
-----------------------------------------------------------------------------
(* conn::buffer: session::pending until there is nothing more to send.     *)

\* The stream closes in nghttp2: its DATA item goes, stream_close_cb is called.
Close(s) ==
  /\ st' = [st EXCEPT ![s] = "closed"]
  /\ items' = items \ {s}
  /\ events' = Append(events, Event("close", s, 0))

\* A frame of the queue: the headers or the trailers of a response, or the
\* RST_STREAM of a stream that nghttp2 rejected.  Trailers end the stream.  A
\* frame whose stream is gone, or whose session is given up, is dropped.
SendQueued ==
  /\ phase \in Buffering /\ queue # <<>>
  /\ queue' = Tail(queue)
  /\ LET f == Head(queue) IN
       \/ /\ ~goaway /\ f.type = "headers" /\ st[f.id] = "half"
          /\ wire' = [wire EXCEPT ![f.id] = Append(@, f)]
          /\ UNCHANGED <<st, items, events>>
       \/ /\ ~goaway /\ f.type = "trailers" /\ st[f.id] = "half"
          /\ wire' = [wire EXCEPT ![f.id] = Append(@, f)]
          /\ Close(f.id)
       \/ /\ ~goaway /\ f.type = "rst" /\ st[f.id] = "closing"
          /\ Close(f.id)
          /\ UNCHANGED wire
       \/ /\ goaway \/ st[f.id] # (IF f.type = "rst" THEN "closing" ELSE "half")
          /\ UNCHANGED <<st, items, events, wire>>
  /\ UNCHANGED <<backend, phase, goaway, window, credit, count, evs, streams, reqs, data, body>>

Minimum(S) == CHOOSE m \in S : \A n \in S : m <= n

\* Flow control allows a DATA frame on s.
Sendable(s) == s \in items /\ (goaway \/ (window[s] > 0 /\ credit > 0))

\* Mutant of ReadLength: read_cb copies all of _data, whatever it was asked for.
ReadLengthAll(length) == Len(data)

\* How many bytes read_cb copies when nghttp2 asks for at most length.
ReadLength(length) == IF length >= Len(data) THEN Len(data) ELSE length

\* A DATA frame, as long as the windows allow: read_cb moves the bytes from
\* _data and says whether they were the last.
SendData(s) ==
  /\ phase \in Buffering /\ queue = <<>> /\ Sendable(s)
  /\ \/ /\ ~goaway
        /\ LET n == ReadLength(Minimum({window[s], credit})) IN
             /\ wire' = [wire EXCEPT ![s] = @ \o SubSeq(data, 1, n)]
             /\ items' = IF n = Len(data) THEN items \ {s} ELSE items
             /\ data' = SubSeq(data, n + 1, Len(data))
             /\ window' = [window EXCEPT ![s] = @ - n]
             /\ credit' = credit - n
     \/ /\ goaway
        /\ items' = items \ {s}
        /\ UNCHANGED <<wire, data, window, credit>>
  /\ UNCHANGED <<backend, phase, st, goaway, queue, count, events, evs, streams, reqs, body>>

\* Mutant of NothingPending: buffer() asks for frames of the queue only.
NothingQueued == queue = <<>>

\* pending() returns an empty view.
NothingPending == queue = <<>> /\ \A s \in Streams : ~Sendable(s)

\* nghttp2_session_mem_send2 fails and pending() throws: in uv the exception leaves
\* the noexcept buffer() and ends the process, in asio it ends the coroutine.  So
\* does in asio a failure to write the chunk to the socket.
WriteFails ==
  /\ phase \in Buffering /\ ~NothingPending
  /\ phase' = "ended"
  /\ UNCHANGED <<sessionState, evs, streams, reqs>>

\* Nothing more to send: conn::read returns, conn::write goes on to the
\* trailers, or the next request is taken and the response destroyed.
BufferEnd ==
  /\ phase \in Buffering /\ NothingPending
  /\ phase' = IF phase = "data" THEN "trailers" ELSE "process"
  /\ reqs' = IF phase = "sent" THEN Tail(reqs) ELSE reqs
  /\ UNCHANGED <<sessionState, evs, streams>>
-----------------------------------------------------------------------------
(* conn::write, for every request of the read.                             *)

\* session::headers: nghttp2 queues the frame, also for a stream that is gone.
SubmitHeaders(s) == queue' = Append(queue, Event("headers", s, 0))

\* nghttp2 refuses DATA on a stream that is gone, and session::data throws.  In
\* uv its caller write() is noexcept, so the process terminates; in asio
\* write() is a coroutine, and the exception ends the coroutine of the
\* connection, whatever requests are left.
Thrown == IF backend = "uv" THEN "terminated" ELSE "thrown"

\* Mutant of SubmitData: the response is appended to what is left in _data.
SubmitDataAppended(s, n) ==
  /\ data' = data \o [i \in 1..n |-> Event("data", s, i)]
  /\ \/ st[s] # "closed" /\ phase' = "data" /\ items' = items \cup {s}
     \/ st[s] = "closed" /\ phase' = Thrown /\ UNCHANGED items

\* session::data with n bytes: _data is replaced, and nghttp2 attaches a DATA
\* item to the stream.
SubmitData(s, n) ==
  /\ data' = [i \in 1..n |-> Event("data", s, i)]
  /\ \/ st[s] # "closed" /\ phase' = "data" /\ items' = items \cup {s}
     \/ st[s] = "closed" /\ phase' = Thrown /\ UNCHANGED items

\* session::trailers: queued like headers, with END_STREAM.
SubmitTrailers(s) == queue' = Append(queue, Event("trailers", s, 0))

\* Headers and data of the response to the next request, n bytes long.
Write(n) ==
  /\ phase = "process" /\ reqs # <<>>
  /\ LET s == Head(reqs).id IN
       /\ SubmitHeaders(s)
       /\ SubmitData(s, n)
       /\ body' = [body EXCEPT ![s] = n]
  /\ UNCHANGED <<backend, st, goaway, window, credit, count, events, evs, streams, reqs, wire>>

\* Mutant of WriteTrailers: write() returns without the second buffer().
WriteTrailersUnbuffered ==
  /\ phase = "trailers"
  /\ phase' = "process"
  /\ SubmitTrailers(Head(reqs).id)
  /\ reqs' = Tail(reqs)
  /\ UNCHANGED <<backend, st, goaway, window, credit, items, count, events, data, body, wire, evs, streams>>

\* Trailers are submitted, whether or not all data has been sent.
WriteTrailers ==
  /\ phase = "trailers"
  /\ phase' = "sent"
  /\ SubmitTrailers(Head(reqs).id)
  /\ UNCHANGED <<backend, st, goaway, window, credit, items, count, events, data, body, wire, evs, streams, reqs>>

\* All requests are answered: the task's function, or the loop over the requests,
\* ends.
ProcessEnd ==
  /\ phase = "process" /\ reqs = <<>>
  /\ phase' = "idle"
  /\ UNCHANGED <<sessionState, evs, streams, reqs>>
-----------------------------------------------------------------------------
RecvNext ==
  \/ ReadBegin \/ ConnLost \/ FrameWindow \/ FrameFatal \/ ReadEnd \/ ReadFails
  \/ \E s \in Streams :
       \/ \E type \in {"header", "data"}, end \in BOOLEAN : FrameRecv(s, type, end)
       \/ FrameEnd(s) \/ FrameMalformed(s) \/ FrameRefused(s) \/ FrameRst(s)

H2Next ==
  \/ RecvNext
  \/ HandleEvent \/ EventsEnd
  \/ SendQueued \/ (\E s \in Streams : SendData(s)) \/ WriteFails \/ BufferEnd
  \/ (\E n \in 0..MaxBody : Write(n)) \/ WriteTrailers \/ ProcessEnd

H2Spec == H2Init /\ [][H2Next]_h2Vars
-----------------------------------------------------------------------------
(* Properties.                                                             *)

EventTypes == {"header", "data", "end", "close", "headers", "trailers", "rst"}
EventSet == [type : EventTypes, id : Streams, n : Int]

Down == {"ended", "thrown", "terminated"}

H2TypeOK ==
  /\ backend \in {"uv", "asio"}
  /\ phase \in {"idle", "recv", "events", "process", "trailers"} \cup Buffering \cup Down
  /\ st \in [Streams -> {"idle", "open", "half", "closing", "closed"}]
  /\ goaway \in BOOLEAN
  /\ window \in [Streams -> Nat] /\ credit \in Nat
  /\ queue \in Seq(EventSet) /\ events \in Seq(EventSet) /\ evs \in Seq(EventSet)
  /\ items \subseteq Streams
  /\ count \in [Streams -> Nat] /\ body \in [Streams -> Nat \cup {NoBody}]
  /\ streams \in [Streams -> Seq(Int)]
  /\ reqs \in Seq([id : Streams, content : Seq(Int)])
  /\ data \in Seq(EventSet)
  /\ wire \in [Streams -> Seq(EventSet)]

Pending(type, s) == \E i \in 1..Len(events) : events[i].type = type /\ events[i].id = s

\* A request that goes to process() has what the client sent on its stream, all
\* of it and in order, although events of several streams are interleaved and
\* may be left over from a failed or an earlier read.  In asio every payload is
\* the client's; in uv a payload may be stale (ReadFails makes it so), but it
\* still has the place of the one that was sent.
RequestExact ==
  \A i \in 1..Len(reqs) :
    LET r == reqs[i] IN
      /\ Len(r.content) = count[r.id]
      /\ \A k \in 1..Len(r.content) :
           r.content[k] = k \/ (backend = "uv" /\ r.content[k] = Stale(k))

\* When the connection goes back to reading, every call that the client has
\* finished sending is answered, or its end is still among the events of a
\* failed read.
EndedAnswered ==
  phase = "idle" /\ ~goaway => \A s \in Streams : st[s] = "half" => Pending("end", s)

\* What the client gets on a stream is a response to that stream: one block of
\* headers, a prefix of the bytes of its own body, one block of trailers.  All
\* streams share session::_data, and nothing but the order of submissions keeps
\* one response from overwriting what is left of another.
ResponseOwn ==
  \A s \in Streams : wire[s] = <<>> \/ \E k \in 0..body[s] :
    LET frames == <<Event("headers", s, 0)>> \o [i \in 1..k |-> Event("data", s, i)]
                    \o <<Event("trailers", s, 0)>>
    IN  Len(wire[s]) <= Len(frames) /\ wire[s] = SubSeq(frames, 1, Len(wire[s]))

\* A response is cut short only by flow control: when conn::write comes to the
\* trailers all data has been sent or a window is used up.
SentWhatFits ==
  phase = "trailers" /\ ~goaway =>
    LET s == Head(reqs).id IN
      Len(wire[s]) = 1 + body[s] \/ window[s] = 0 \/ credit = 0

\* nghttp2 does not copy the names and values of response headers and trailers:
\* when the response is destroyed they have been serialised (or dropped).
HeadersSerialised ==
  phase \in {"idle", "recv", "events", "process"} =>
    \A i \in 1..Len(queue) : queue[i].type = "rst"

\* No request is left behind in _streams: when the connection goes back to
\* reading, an entry belongs to a stream that nghttp2 still knows, or whose
\* closing the next read will report.
StreamsTracked ==
  phase = "idle" => \A s \in Streams :
    streams[s] # NoRequest => s \in Live \/ Pending("close", s)

\* _streams never holds more requests than the setting allows, although closing
\* is only learnt from events.
StreamsBounded == Cardinality({s \in Streams : streams[s] # NoRequest}) <= MaxConcurrent

\* A request on s has ended and waits for process().
Waiting(s) ==
  \/ Pending("end", s)
  \/ \E i \in 1..Len(evs) : evs[i].type = "end" /\ evs[i].id = s
  \/ \E i \in 1..Len(reqs) :
       reqs[i].id = s /\ (i > 1 \/ body[s] = NoBody \/ phase \in {"events", "read", "process"})

Abstract == INSTANCE Calls WITH
  call <- [s \in Streams |->
             IF Waiting(s) THEN "complete"
             ELSE IF body[s] # NoBody THEN "processed"
             ELSE IF st[s] \in {"closing", "closed"} THEN "dropped" ELSE "open"]

\* The connection implements Calls: every call is processed at most once, after
\* its last frame; one that was complete is not forgotten, whatever happens to
\* its stream, and one that was reset or refused before never comes back.
ImplementsCalls == Abstract!CallsSpec

\* conn::write does not fail on a response: both back ends declare it noexcept.
\* (That nghttp2 fails to send, as it may for want of memory, is not counted.)
WriteSucceeds == phase \notin {"terminated", "thrown"}
=============================================================================
